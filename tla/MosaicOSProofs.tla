--------------------------- MODULE MosaicOSProofs ---------------------------
(***************************************************************************)
(* Proofs about MosaicOS for every set of heap contents, blocks and values *)
(* and any number of threads.                                               *)
(***************************************************************************)
EXTENDS MosaicOS, TLAPS

Thread == [ctx : CtxStates, heap : Nat, ret : RetVals]

\* The inductive invariant: what sys_sched may resume, and who owns a heap.
IInv == TypeOK /\ FrozenElsewhere /\ CloneHeapPrivate /\ PendingCloneHeap

\* A thread table that uses only the heaps there are.
Table(ths) == /\ ths \in Seq(Thread)
              /\ \A u \in DOMAIN ths : ths[u].heap \in DOMAIN heaps

-----------------------------------------------------------------------------
\* What the second half of _step() does to the thread table and the heaps,
\* when it runs thread t of table ths on t's own heap.
LEMMA RunStep ==
    ASSUME TypeOK, NEW ths, Table(ths), NEW t \in DOMAIN ths, NEW res \in RetVals,
           Run(ths, t, ths[t].heap, res)
    PROVE  /\ threads' \in Seq(Thread)
           /\ DOMAIN threads' = DOMAIN ths
           /\ Len(threads') = Len(ths)
           /\ \A u \in DOMAIN ths : threads'[u].heap = ths[u].heap
           /\ \A u \in DOMAIN ths \ {t} : threads'[u] = ths[u]
           /\ threads'[t].ret = res
           /\ threads'[t].ctx \in Ops \cup {"dead"}
           /\ current' = t
           /\ heaps' \in Seq(HeapVals)
           /\ DOMAIN heaps \subseteq DOMAIN heaps'
           /\ gheap' \in DOMAIN heaps'
           /\ \A h \in DOMAIN heaps \ {ths[t].heap} : heaps'[h] = heaps[h]
           /\ PendingCloneHeap'
<1>1. PICK op \in Ops \cup {"dead"}, content \in HeapVals :
        /\ current' = t
        /\ threads' = [ths EXCEPT ![t] = [@ EXCEPT !.ctx = op, !.ret = res]]
        /\ LET written == [heaps EXCEPT ![ths[t].heap] = content]
           IN  IF op = "fork"
               THEN /\ heaps' = Append(written, written[ths[t].heap])
                    /\ gheap' = Len(heaps) + 1
               ELSE /\ heaps' = written
                    /\ gheap' = ths[t].heap
  BY DEF Run
<1> DEFINE written == [heaps EXCEPT ![ths[t].heap] = content]
<1>2. /\ ths[t] \in Thread
      /\ ths[t].heap \in DOMAIN heaps
      /\ op \in CtxStates
  BY DEF Table, CtxStates
<1>3. threads'[t] = [ths[t] EXCEPT !.ctx = op, !.ret = res]
  BY <1>1 DEF Table
<1>4. /\ threads'[t] \in Thread
      /\ threads'[t].heap = ths[t].heap
      /\ threads'[t].ret = res
      /\ threads'[t].ctx = op
  BY <1>2, <1>3 DEF Thread
<1>5. \A u \in DOMAIN ths \ {t} : threads'[u] = ths[u]
  BY <1>1 DEF Table
<1>6. \A u \in DOMAIN ths : threads'[u].heap = ths[u].heap
  BY <1>4, <1>5
<1>7. /\ threads' \in Seq(Thread)
      /\ DOMAIN threads' = DOMAIN ths
      /\ Len(threads') = Len(ths)
  <2>1. threads' = [u \in DOMAIN ths |-> threads'[u]]
    BY <1>1
  <2>2. \A u \in DOMAIN ths : threads'[u] \in Thread
    BY <1>4, <1>5 DEF Table
  <2>3. DOMAIN ths = 1..Len(ths) /\ Len(ths) \in Nat
    BY DEF Table
  <2> QED
    BY <2>1, <2>2, <2>3
<1>8. /\ written \in Seq(HeapVals)
      /\ Len(written) = Len(heaps)
      /\ Len(heaps) \in Nat
      /\ DOMAIN heaps = 1..Len(heaps)
      /\ \A h \in DOMAIN heaps \ {ths[t].heap} : written[h] = heaps[h]
      /\ written[ths[t].heap] = content
  BY <1>2 DEF TypeOK
<1>9. CASE op = "fork"
  <2>1. heaps' = Append(written, content) /\ gheap' = Len(heaps) + 1
    BY <1>1, <1>8, <1>9
  <2>2. /\ heaps' \in Seq(HeapVals)
        /\ Len(heaps') = Len(heaps) + 1
        /\ \A h \in DOMAIN heaps : heaps'[h] = written[h]
        /\ heaps'[Len(heaps) + 1] = content
    BY <2>1, <1>8
  <2>3. \A u \in DOMAIN ths : threads'[u].heap # Len(heaps) + 1
    BY <1>4, <1>5, <1>8 DEF Table
  <2>4. heaps'[threads'[t].heap] = content
    BY <2>2, <1>2, <1>4, <1>8
  <2>5. PendingCloneHeap'
    BY <2>2, <2>3, <2>4, <1>1, <1>7 DEF PendingCloneHeap
  <2>6. /\ gheap' \in DOMAIN heaps'
        /\ DOMAIN heaps \subseteq DOMAIN heaps'
        /\ \A h \in DOMAIN heaps \ {ths[t].heap} : heaps'[h] = heaps[h]
    BY SMTT(30), <2>1, <2>2, <1>8
  <2> HIDE DEF written
  <2> QED
    BY <2>2, <2>5, <2>6, <1>1, <1>4, <1>5, <1>6, <1>7
<1>10. CASE op # "fork"
  <2>1. heaps' = written /\ gheap' = ths[t].heap
    BY <1>1, <1>10
  <2>2. PendingCloneHeap'
    BY <1>1, <1>4, <1>10 DEF PendingCloneHeap
  <2> QED
    BY <2>1, <2>2, <1>1, <1>2, <1>4, <1>5, <1>6, <1>7, <1>8
<1> QED
  BY <1>9, <1>10
-----------------------------------------------------------------------------
\* What SwitchTo(t) and Return(res) share: the table does not grow.
LEMMA SameTable == TypeOK => Table(threads)
BY DEF TypeOK, Table, Thread

\* Where the elements of an extended sequence are.
LEMMA AppendFacts ==
    ASSUME NEW S, NEW s \in Seq(S), NEW e \in S
    PROVE  /\ Append(s, e) \in Seq(S) /\ Len(Append(s, e)) = Len(s) + 1
           /\ DOMAIN Append(s, e) = DOMAIN s \cup {Len(s) + 1}
           /\ Len(s) + 1 \notin DOMAIN s
           /\ \A i \in DOMAIN s : Append(s, e)[i] = s[i]
           /\ Append(s, e)[Len(s) + 1] = e
OBVIOUS

\* The invariant holds in the state OperatingSystem.__init__ makes.
LEMMA InitInv == Init => IInv
<1> SUFFICES ASSUME Init PROVE IInv
  OBVIOUS
<1>1. PICK h \in HeapVals : heaps = <<h>>
  BY DEF Init
<1>2. threads = <<[ctx |-> "new", heap |-> 1, ret |-> None]>> /\ current = 1 /\ newfork = {}
  BY DEF Init
<1>3. None \in RetVals
  BY DEF None, RetVals
<1>4. TypeOK
  BY <1>1, <1>2, <1>3 DEF Init, TypeOK, CtxStates
<1> QED
  BY <1>2, <1>4 DEF IInv, FrozenElsewhere, CloneHeapPrivate, PendingCloneHeap

\* The current thread goes on: spawn, choose, write and the device calls.
LEMMA ReturnInv ==
    ASSUME IInv, NEW res \in RetVals, Return(res),
           UNCHANGED stdout \/ stdout' = Append(stdout, current),
           persist' \in [Keys -> Vals \cup {Absent}],
           buf' \in [Keys -> Vals \cup {Absent}]
    PROVE  IInv'
<1>1. Table(threads) /\ current \in DOMAIN threads
  BY SameTable DEF IInv, TypeOK
<1>2. newfork' = newfork /\ current \notin newfork
  BY DEF Return, NewforkAtStep, IInv, CloneHeapPrivate
<1>3. Run(threads, current, threads[current].heap, res)
  BY DEF Return, HeapAtStep
<1>4. /\ threads' \in Seq(Thread)
      /\ DOMAIN threads' = DOMAIN threads
      /\ \A u \in DOMAIN threads : threads'[u].heap = threads[u].heap
      /\ \A u \in DOMAIN threads \ {current} : threads'[u] = threads[u]
      /\ current' = current
      /\ heaps' \in Seq(HeapVals)
      /\ DOMAIN heaps \subseteq DOMAIN heaps'
      /\ gheap' \in DOMAIN heaps'
      /\ PendingCloneHeap'
  BY <1>1, <1>3, RunStep DEF IInv
<1>5. stdout' \in Seq(Nat)
  <2>1. current \in Nat /\ stdout \in Seq(Nat)
    BY DEF IInv, TypeOK
  <2> QED
    BY SMTT(30), <2>1
<1>6. TypeOK'
  BY <1>1, <1>2, <1>4, <1>5 DEF IInv, TypeOK, Thread
<1>7. FrozenElsewhere'
  BY <1>2, <1>4 DEF IInv, FrozenElsewhere
<1>8. CloneHeapPrivate'
  BY <1>2, <1>4 DEF IInv, CloneHeapPrivate, TypeOK
<1> QED
  BY <1>4, <1>6, <1>7, <1>8 DEF IInv

\* do_spawn adds a thread that shares the heap of its parent.
LEMMA SpawnInv == ASSUME IInv, SysSpawn PROVE IInv'
<1> DEFINE new == [ctx |-> "new", heap |-> threads[current].heap, ret |-> None]
           ths == Append(threads, new)
<1>1. /\ threads \in Seq(Thread) /\ Len(threads) \in Nat
      /\ DOMAIN threads = 1..Len(threads)
      /\ current \in DOMAIN threads
      /\ \A u \in DOMAIN threads : threads[u].heap \in DOMAIN heaps
  BY DEF IInv, TypeOK, Thread
<1>2. None \in RetVals /\ new \in Thread /\ new.ctx = "new" /\ new.heap = threads[current].heap
  <2>1. threads[current] \in Thread
    BY <1>1
  <2>2. None \in RetVals
    BY DEF None, RetVals
  <2> QED
    BY <2>1, <2>2 DEF Thread, CtxStates
<1>3. /\ ths \in Seq(Thread) /\ Len(ths) = Len(threads) + 1
      /\ DOMAIN ths = DOMAIN threads \cup {Len(threads) + 1}
      /\ \A u \in DOMAIN threads : ths[u] = threads[u]
      /\ ths[Len(threads) + 1] = new
  BY <1>1, <1>2
<1>4. Table(ths) /\ current \in DOMAIN ths /\ ths[current].heap = threads[current].heap
  BY <1>1, <1>3 DEF Table
<1>5. Run(ths, current, ths[current].heap, None)
  BY <1>4 DEF SysSpawn, HeapAtStep
<1>6. newfork' = newfork /\ current \notin newfork
  BY DEF SysSpawn, NewforkAtStep, IInv, CloneHeapPrivate
<1> HIDE DEF ths, new
<1>7. /\ threads' \in Seq(Thread)
      /\ DOMAIN threads' = DOMAIN ths
      /\ \A u \in DOMAIN ths : threads'[u].heap = ths[u].heap
      /\ \A u \in DOMAIN ths \ {current} : threads'[u] = ths[u]
      /\ current' = current
      /\ heaps' \in Seq(HeapVals)
      /\ DOMAIN heaps \subseteq DOMAIN heaps'
      /\ gheap' \in DOMAIN heaps'
      /\ PendingCloneHeap'
  BY <1>2, <1>4, <1>5, RunStep DEF IInv
<1>8. TypeOK'
  <2>1. \A u \in DOMAIN threads' : threads'[u].heap \in DOMAIN heaps'
    BY <1>4, <1>7 DEF Table
  <2> QED
    BY <1>1, <1>3, <1>6, <1>7, <2>1 DEF IInv, TypeOK, Thread, SysSpawn, storage
<1>9. Len(threads) + 1 \notin newfork /\ newfork \subseteq DOMAIN threads
  BY <1>1 DEF IInv, TypeOK
<1>10. FrozenElsewhere'
  BY <1>2, <1>3, <1>6, <1>7, <1>9 DEF IInv, FrozenElsewhere
<1>11. CloneHeapPrivate'
  <2>1. ASSUME NEW t \in newfork', NEW u \in DOMAIN threads' \ {t}
        PROVE  t # current' /\ threads'[u].heap # threads'[t].heap
    <3>1. t \in newfork /\ t \in DOMAIN threads /\ t # current
      BY <1>6, <1>9
    <3>2. threads'[t].heap = threads[t].heap
      BY <3>1, <1>3, <1>7
    <3>3. CASE u \in DOMAIN threads
      BY <3>1, <3>2, <3>3, <1>3, <1>7 DEF IInv, CloneHeapPrivate
    <3>4. CASE u \notin DOMAIN threads
      <4>1. threads'[u].heap = threads[current].heap
        BY <3>4, <1>2, <1>3, <1>7
      <4> QED
        BY <4>1, <3>1, <3>2, <1>1, <1>7 DEF IInv, CloneHeapPrivate
    <3> QED
      BY <3>3, <3>4
  <2> QED
    BY <2>1, <1>6, <1>7 DEF CloneHeapPrivate
<1> QED
  BY <1>7, <1>8, <1>10, <1>11 DEF IInv

\* do_fork in full: the clone takes the newest heap, which PendingCloneHeap
\* says is nobody's, and keeps its content while the parent runs on.
LEMMA ForkStep ==
    ASSUME IInv, SysFork
    PROVE  LET pid == Len(threads) + 1 IN
           /\ threads[current].ctx = "fork"
           /\ threads' \in Seq(Thread)
           /\ DOMAIN threads' = DOMAIN threads \cup {pid}
           /\ pid \notin DOMAIN threads
           /\ \A u \in DOMAIN threads : threads'[u].heap = threads[u].heap
           /\ \A u \in DOMAIN threads : threads[u].heap # Len(heaps)
           /\ \A u \in DOMAIN threads \ {current} : threads'[u] = threads[u]
           /\ threads'[pid].heap = Len(heaps)
           /\ threads'[pid].ctx = "fork"
           /\ threads'[current].ret = Ret("fork", 1000 + pid)
           /\ current' = current
           /\ newfork' = newfork \cup {pid}
           /\ current \notin newfork
           /\ heaps' \in Seq(HeapVals)
           /\ DOMAIN heaps \subseteq DOMAIN heaps'
           /\ Len(heaps) \in DOMAIN heaps
           /\ heaps'[Len(heaps)] = heaps[Len(heaps)]
           /\ gheap' \in DOMAIN heaps'
           /\ PendingCloneHeap'
<1> DEFINE pid == Len(threads) + 1
           new == [threads[current] EXCEPT !.heap = Len(heaps)]
           ths == Append(threads, new)
<1>0. threads[current].ctx = "fork"
  BY DEF SysFork, Pending
<1>1. /\ threads \in Seq(Thread) /\ Len(threads) \in Nat
      /\ DOMAIN threads = 1..Len(threads)
      /\ current \in DOMAIN threads
      /\ \A u \in DOMAIN threads : threads[u].heap \in DOMAIN heaps
      /\ heaps \in Seq(HeapVals) /\ Len(heaps) \in Nat
      /\ DOMAIN heaps = 1..Len(heaps)
  BY DEF IInv, TypeOK, Thread
<1>2. /\ new \in Thread /\ new.heap = Len(heaps) /\ new.ctx = "fork"
      /\ Len(heaps) \in DOMAIN heaps
  <2>1. threads[current] \in Thread /\ threads[current].heap \in 1..Len(heaps)
    BY <1>1
  <2>2. new.heap = Len(heaps) /\ new.ctx = "fork"
    BY <1>0, <2>1 DEF Thread
  <2>3. Len(heaps) \in Nat /\ Len(heaps) \in DOMAIN heaps
    BY <1>1, <2>1
  <2>4. new \in Thread
    BY <2>1, <2>3 DEF Thread
  <2> QED
    BY <2>2, <2>3, <2>4
<1>3. /\ ths \in Seq(Thread) /\ Len(ths) = pid
      /\ DOMAIN ths = DOMAIN threads \cup {pid}
      /\ pid \notin DOMAIN threads
      /\ \A u \in DOMAIN threads : ths[u] = threads[u]
      /\ ths[pid] = new
  <2> HIDE DEF new
  <2> QED
    BY <1>1, <1>2, AppendFacts
<1>4. Table(ths) /\ current \in DOMAIN ths /\ ths[current].heap = threads[current].heap
  BY <1>1, <1>2, <1>3 DEF Table
<1>5. Run(ths, current, ths[current].heap, Ret("fork", 1000 + pid))
  BY <1>4 DEF SysFork, HeapAtStep
<1>6. newfork' = newfork \cup {pid} /\ current \notin newfork
  BY DEF SysFork, NewforkAtStep, IInv, CloneHeapPrivate
<1>7. Ret("fork", 1000 + pid) \in RetVals
  BY <1>1 DEF Ret, RetVals
<1>8. \A u \in DOMAIN threads : threads[u].heap # Len(heaps)
  BY <1>0 DEF IInv, PendingCloneHeap
<1> HIDE DEF ths, new, pid
<1>9. /\ threads' \in Seq(Thread)
      /\ DOMAIN threads' = DOMAIN ths
      /\ \A u \in DOMAIN ths : threads'[u].heap = ths[u].heap
      /\ \A u \in DOMAIN ths \ {current} : threads'[u] = ths[u]
      /\ current' = current
      /\ heaps' \in Seq(HeapVals)
      /\ DOMAIN heaps \subseteq DOMAIN heaps'
      /\ gheap' \in DOMAIN heaps'
      /\ \A h \in DOMAIN heaps \ {ths[current].heap} : heaps'[h] = heaps[h]
      /\ threads'[current].ret = Ret("fork", 1000 + pid)
      /\ PendingCloneHeap'
  BY <1>4, <1>5, <1>7, RunStep DEF IInv
<1>10. /\ \A u \in DOMAIN threads : threads'[u].heap = threads[u].heap
       /\ \A u \in DOMAIN threads \ {current} : threads'[u] = threads[u]
       /\ threads'[pid] = new
  <2>1. pid # current
    BY <1>1, <1>3
  <2>2. \A u \in DOMAIN threads : threads'[u].heap = threads[u].heap
    BY <1>3, <1>9
  <2>3. \A u \in DOMAIN threads \ {current} : threads'[u] = threads[u]
    BY <1>3, <1>9
  <2>4. threads'[pid] = new
    BY <1>3, <1>9, <2>1
  <2> QED
    BY <2>2, <2>3, <2>4
<1>11. heaps'[Len(heaps)] = heaps[Len(heaps)]
  BY <1>1, <1>2, <1>4, <1>8, <1>9
<1>12. SUFFICES
           /\ DOMAIN threads' = DOMAIN threads \cup {pid}
           /\ threads'[pid].heap = Len(heaps)
           /\ threads'[pid].ctx = "fork"
  BY <1>0, <1>2, <1>3, <1>6, <1>8, <1>9, <1>10, <1>11 DEF pid
<1> QED
  BY <1>2, <1>3, <1>9, <1>10

\* do_fork adds the clone, marked, with the heap nobody else uses.
LEMMA ForkInv == ASSUME IInv, SysFork PROVE IInv'
<1> DEFINE pid == Len(threads) + 1
<1>1. TypeOK'
  <2>1. /\ DOMAIN threads' = DOMAIN threads \cup {pid}
        /\ \A u \in DOMAIN threads : threads'[u].heap = threads[u].heap
        /\ threads'[pid].heap = Len(heaps)
        /\ DOMAIN heaps \subseteq DOMAIN heaps'
        /\ Len(heaps) \in DOMAIN heaps
        /\ threads' \in Seq(Thread)
        /\ current' = current
        /\ newfork' = newfork \cup {pid}
        /\ heaps' \in Seq(HeapVals)
        /\ gheap' \in DOMAIN heaps'
    BY ForkStep
  <2> HIDE DEF pid
  <2>2. \A u \in DOMAIN threads' : threads'[u].heap \in DOMAIN heaps'
    BY <2>1 DEF IInv, TypeOK
  <2> QED
    BY SMTT(30), <2>1, <2>2 DEF IInv, TypeOK, Thread, SysFork, storage
<1>2. newfork \subseteq DOMAIN threads /\ pid \notin DOMAIN threads
  BY ForkStep DEF IInv, TypeOK
<1>3. FrozenElsewhere'
  BY <1>2, ForkStep DEF IInv, FrozenElsewhere
<1>4. ASSUME NEW t \in newfork', NEW u \in DOMAIN threads' \ {t}
      PROVE  threads'[u].heap # threads'[t].heap
  <2>1. CASE t = pid
    BY <2>1, ForkStep
  <2>2. CASE t # pid /\ u = pid
    BY <1>2, <2>2, ForkStep
  <2>3. CASE t # pid /\ u # pid
    BY <1>2, <2>3, ForkStep DEF IInv, CloneHeapPrivate
  <2> QED
    BY <2>1, <2>2, <2>3
<1>5. current' \notin newfork'
  BY <1>2, ForkStep DEF IInv, TypeOK
<1>6. CloneHeapPrivate'
  BY <1>4, <1>5 DEF CloneHeapPrivate
<1> QED
  BY <1>1, <1>3, <1>6, ForkStep DEF IInv

\* A context switch takes the mark of the thread it resumes.
LEMMA SchedInv == ASSUME IInv, SysSched PROVE IInv'
<1>1. PICK t \in DOMAIN threads : Alive(t) /\ SwitchTo(t)
  BY DEF SysSched
<1>2. threads[current].ctx \in {"sched", "dead"}
  BY DEF SysSched, Pending, Alive
<1>3. Table(threads)
  BY SameTable DEF IInv
<1> DEFINE res == IF t \in NewforkAtStep THEN Ret("fork", 0) ELSE None
<1>4. res \in RetVals
  BY DEF Ret, None, RetVals
<1>5. Run(threads, t, threads[t].heap, res)
  BY <1>1 DEF SwitchTo
<1> HIDE DEF res
<1>6. /\ threads' \in Seq(Thread)
      /\ DOMAIN threads' = DOMAIN threads
      /\ \A u \in DOMAIN threads : threads'[u].heap = threads[u].heap
      /\ \A u \in DOMAIN threads \ {t} : threads'[u] = threads[u]
      /\ current' = t
      /\ heaps' \in Seq(HeapVals)
      /\ DOMAIN heaps \subseteq DOMAIN heaps'
      /\ gheap' \in DOMAIN heaps'
      /\ PendingCloneHeap'
  BY <1>3, <1>4, <1>5, RunStep DEF IInv
<1>7. newfork' = newfork \ {t} /\ current \notin newfork
  BY <1>1 DEF SwitchTo, NewforkAtStep, IInv, CloneHeapPrivate
<1>8. TypeOK'
  BY <1>6, <1>7 DEF IInv, TypeOK, Thread, SysSched, storage
<1>9. FrozenElsewhere'
  BY <1>2, <1>6, <1>7 DEF IInv, FrozenElsewhere, TypeOK
<1>10. CloneHeapPrivate'
  BY <1>6, <1>7 DEF IInv, CloneHeapPrivate, TypeOK
<1> QED
  BY <1>6, <1>8, <1>9, <1>10 DEF IInv

\* The device keeps its type: a write-back or a crash only moves contents.
LEMMA DeviceType ==
    ASSUME TypeOK
    PROVE  /\ WrittenBack \in [Keys -> Vals \cup {Absent}]
           /\ EmptyBuf \in [Keys -> Vals \cup {Absent}]
           /\ \A kept \in SUBSET Keys :
                [k \in Keys |-> IF k \in kept THEN buf[k] ELSE persist[k]]
                    \in [Keys -> Vals \cup {Absent}]
BY DEF TypeOK, WrittenBack, EmptyBuf

\* Every step of the OS preserves the invariant.
LEMMA NextInv == IInv /\ [Next]_vars => IInv'
<1> SUFFICES ASSUME IInv, [Next]_vars PROVE IInv'
  OBVIOUS
<1> USE DEF storage
<1>1. /\ persist \in [Keys -> Vals \cup {Absent}]
      /\ buf \in [Keys -> Vals \cup {Absent}]
      /\ None \in RetVals
  BY DEF IInv, TypeOK, None, RetVals
<1>2. CASE Boot
  BY <1>1, <1>2, ReturnInv DEF Boot
<1>3. CASE SysSpawn
  BY <1>3, SpawnInv
<1>4. CASE SysFork
  BY <1>4, ForkInv
<1>5. CASE SysSched
  BY <1>5, SchedInv
<1>6. CASE SysChoose
  <2>1. PICK c \in {0, 1} : Return(Ret("choose", c))
    BY <1>6 DEF SysChoose
  <2>2. Ret("choose", c) \in RetVals
    BY DEF Ret, RetVals
  <2> QED
    BY <1>1, <1>6, <2>1, <2>2, ReturnInv DEF SysChoose
<1>7. CASE SysWrite
  BY <1>1, <1>7, ReturnInv DEF SysWrite
<1>8. CASE SysBread
  <2>1. PICK k \in Keys : Return(IF WrittenBack[k] = Absent
                                 THEN None ELSE Ret("bread", WrittenBack[k]))
    BY <1>8 DEF SysBread
  <2>2. WrittenBack[k] \in Vals \cup {Absent}
    BY DeviceType DEF IInv
  <2>3. (IF WrittenBack[k] = Absent THEN None ELSE Ret("bread", WrittenBack[k])) \in RetVals
    BY <1>1, <2>2 DEF Ret, RetVals
  <2> QED
    BY <1>1, <1>8, <2>1, <2>3, ReturnInv DEF SysBread
<1>9. CASE SysBwrite
  <2>1. buf' \in [Keys -> Vals \cup {Absent}]
    BY <1>1, <1>9 DEF SysBwrite
  <2> QED
    BY <1>1, <1>9, <2>1, ReturnInv DEF SysBwrite
<1>10. CASE SysSync
  BY <1>1, <1>10, DeviceType, ReturnInv DEF SysSync, IInv
<1>11. CASE SysCrash
  <2>1. persist' \in [Keys -> Vals \cup {Absent}]
    BY <1>11, DeviceType DEF SysCrash, IInv
  <2> QED
    BY <1>1, <1>11, <2>1, DeviceType, ReturnInv DEF SysCrash, IInv
<1>12. CASE UNCHANGED vars
  BY <1>12 DEF IInv, TypeOK, FrozenElsewhere, CloneHeapPrivate, PendingCloneHeap,
              vars, osVars
<1> QED
  BY <1>2, <1>3, <1>4, <1>5, <1>6, <1>7, <1>8, <1>9, <1>10, <1>11, <1>12
  DEF Next, Terminated

-----------------------------------------------------------------------------
\* Every reachable state of the operating system satisfies the invariant:
\* _threads, _current, _newfork and the heaps stay consistent.
THEOREM Invariance == Spec => []IInv
BY InitInv, NextInv, PTL DEF Spec

\* Type correctness of the OS state for any number of threads and heaps.
THEOREM TypeCorrect == Spec => []TypeOK
BY Invariance, PTL DEF IInv

\* No thread is left frozen inside a call that a context switch would answer.
THEOREM FrozenCorrect == Spec => []FrozenElsewhere
BY Invariance, PTL DEF IInv

\* A forked child that has not run yet shares its heap with no thread.
THEOREM CloneHeapCorrect == Spec => []CloneHeapPrivate
BY Invariance, PTL DEF IInv

\* The newest heap is the pending clone's, an unused copy of the parent's.
THEOREM PendingCloneCorrect == Spec => []PendingCloneHeap
BY Invariance, PTL DEF IInv

-----------------------------------------------------------------------------
(***************************************************************************)
(* What one step does.  Every step but Terminated runs one thread, `ran`,  *)
(* of a table that is the old one or the old one with one thread more.     *)
(***************************************************************************)
StepRuns ==
    \E ths, res : \E t \in DOMAIN threads :
        /\ Table(ths) /\ res \in RetVals
        /\ DOMAIN threads \subseteq DOMAIN ths
        /\ \A u \in DOMAIN threads : ths[u] = threads[u]
        /\ Run(ths, t, ths[t].heap, res)

\* A step that is not a stutter is a Run on the heap of the thread that runs.
LEMMA EveryStepRuns == ASSUME IInv, Next PROVE StepRuns \/ UNCHANGED vars
<1>1. Table(threads) /\ current \in DOMAIN threads
  BY SameTable DEF IInv, TypeOK
<1>2. None \in RetVals /\ TypeOK
  BY DEF None, RetVals, IInv
<1>3. ASSUME NEW res \in RetVals, Return(res) PROVE StepRuns
  BY <1>1, <1>3 DEF StepRuns, Return, HeapAtStep
<1>4. ASSUME NEW new \in Thread, new.heap \in DOMAIN heaps, NEW res \in RetVals,
             Run(Append(threads, new), current, HeapAtStep, res)
      PROVE  StepRuns
  <2> DEFINE ths == Append(threads, new)
  <2>1. /\ ths \in Seq(Thread)
        /\ DOMAIN ths = DOMAIN threads \cup {Len(threads) + 1}
        /\ \A i \in DOMAIN threads : ths[i] = threads[i]
        /\ ths[Len(threads) + 1] = new
    BY <1>1, AppendFacts DEF Table
  <2>2. Run(ths, current, ths[current].heap, res)
    BY <1>1, <1>4, <2>1 DEF HeapAtStep
  <2>3. Table(ths)
    BY <1>1, <1>4, <2>1 DEF Table
  <2> HIDE DEF ths
  <2> QED
    BY <1>1, <2>1, <2>2, <2>3 DEF StepRuns
<1>5. CASE Boot \/ SysWrite \/ SysBwrite \/ SysSync \/ SysCrash
  BY <1>2, <1>3, <1>5 DEF Boot, SysWrite, SysBwrite, SysSync, SysCrash
<1>6. CASE SysChoose
  <2>1. \A c \in {0, 1} : Ret("choose", c) \in RetVals
    BY DEF Ret, RetVals
  <2> QED
    BY <1>3, <1>6, <2>1 DEF SysChoose
<1>7. CASE SysBread
  <2>1. PICK k \in Keys : Return(IF WrittenBack[k] = Absent
                                 THEN None ELSE Ret("bread", WrittenBack[k]))
    BY <1>7 DEF SysBread
  <2>2. WrittenBack[k] \in Vals \cup {Absent}
    BY DeviceType, <1>2
  <2>3. (IF WrittenBack[k] = Absent THEN None ELSE Ret("bread", WrittenBack[k])) \in RetVals
    BY <1>2, <2>2 DEF Ret, RetVals
  <2> QED
    BY <1>3, <2>1, <2>3
<1>8. CASE SysSched
  <2>1. PICK t \in DOMAIN threads : SwitchTo(t)
    BY <1>8 DEF SysSched
  <2>2. (IF t \in NewforkAtStep THEN Ret("fork", 0) ELSE None) \in RetVals
    BY DEF Ret, None, RetVals
  <2> QED
    BY <1>1, <2>1, <2>2 DEF SwitchTo, StepRuns
<1>9. CASE SysSpawn
  <2> DEFINE new == [ctx |-> "new", heap |-> HeapAtStep, ret |-> None]
  <2>1. HeapAtStep \in DOMAIN heaps /\ HeapAtStep \in Nat
    <3>1. threads[current] \in Thread
      BY <1>1 DEF Table
    <3> QED
      BY <1>1, <3>1 DEF Table, HeapAtStep, Thread
  <2>2. new \in Thread /\ new.heap \in DOMAIN heaps
    BY <1>2, <2>1 DEF Thread, CtxStates
  <2> QED
    BY <1>2, <1>4, <1>9, <2>2 DEF SysSpawn
<1>10. CASE SysFork
  <2> DEFINE new == [threads[current] EXCEPT !.heap = Len(heaps)]
  <2>1. threads[current] \in Thread /\ threads[current].heap \in DOMAIN heaps
    BY <1>1 DEF Table
  <2>2. Len(heaps) \in DOMAIN heaps /\ Len(heaps) \in Nat
    BY <1>2, <2>1 DEF TypeOK
  <2>3. new \in Thread /\ new.heap = Len(heaps)
    BY <2>1, <2>2 DEF Thread
  <2>4. Ret("fork", 1000 + (Len(threads) + 1)) \in RetVals
    <3>1. 1000 + (Len(threads) + 1) \in Nat
      BY <1>1 DEF Table
    <3> QED
      BY <3>1 DEF Ret, RetVals
  <2>5. Run(Append(threads, new), current, HeapAtStep, Ret("fork", 1000 + (Len(threads) + 1)))
    BY <1>10 DEF SysFork
  <2> HIDE DEF new
  <2> QED
    BY <1>4, <2>2, <2>3, <2>4, <2>5
<1> QED
  BY <1>5, <1>6, <1>7, <1>8, <1>9, <1>10 DEF Next, Terminated

\* Application code changes only the heap of the thread that runs.
THEOREM IsolationCorrect == Spec => HeapIsolation
<1> DEFINE Isolated == \A h \in DOMAIN heaps :
                          h # threads'[current'].heap => heaps'[h] = heaps[h]
<1>1. IInv /\ [Next]_vars => [Isolated]_vars
  <2> SUFFICES ASSUME IInv, Next, ~ UNCHANGED vars PROVE Isolated
    OBVIOUS
  <2>1. PICK ths, res : \E t \in DOMAIN threads :
          /\ Table(ths) /\ res \in RetVals
          /\ DOMAIN threads \subseteq DOMAIN ths
          /\ Run(ths, t, ths[t].heap, res)
    BY EveryStepRuns DEF StepRuns
  <2>2. PICK t \in DOMAIN ths : Run(ths, t, ths[t].heap, res)
    BY <2>1
  <2>3. /\ current' = t
        /\ threads'[t].heap = ths[t].heap
        /\ \A h \in DOMAIN heaps \ {ths[t].heap} : heaps'[h] = heaps[h]
    BY <2>1, <2>2, RunStep DEF IInv
  <2> QED
    BY <2>3
<1> QED
  BY <1>1, Invariance, PTL DEF Spec, HeapIsolation

\* Only do_fork marks a thread, and it marks the one it adds.
LEMMA MarksOnlyForks ==
    ASSUME IInv, Next, NEW t \in newfork' \ newfork
    PROVE  /\ SysFork
           /\ t = Len(threads) + 1
           /\ threads'[t].heap = Len(heaps)
<1>1. CASE Boot \/ SysWrite \/ SysBwrite \/ SysSync \/ SysCrash \/ SysChoose \/ SysBread
  BY <1>1 DEF Boot, SysWrite, SysBwrite, SysSync, SysCrash, SysChoose, SysBread,
              Return, NewforkAtStep
<1>2. CASE SysSpawn \/ SysSched
  BY <1>2 DEF SysSpawn, SysSched, SwitchTo, NewforkAtStep
<1>3. CASE Terminated
  BY <1>3 DEF Terminated, vars, osVars
<1>4. CASE SysFork
  BY <1>4, ForkStep
<1> QED
  BY <1>1, <1>2, <1>3, <1>4 DEF Next

\* A forked child starts from the heap its parent had at the fork.
THEOREM ForkCopyCorrect == Spec => ForkCopiesHeap
<1> DEFINE Copied == \A t \in newfork' \ newfork :
                        heaps'[threads'[t].heap] = heaps[threads[current].heap]
<1>1. IInv /\ [Next]_vars => [Copied]_vars
  <2> SUFFICES ASSUME IInv, Next, NEW t \in newfork' \ newfork
               PROVE  heaps'[threads'[t].heap] = heaps[threads[current].heap]
    BY DEF vars, osVars
  <2>1. SysFork /\ threads'[t].heap = Len(heaps)
    BY MarksOnlyForks
  <2>2. heaps'[Len(heaps)] = heaps[Len(heaps)] /\ threads[current].ctx = "fork"
    BY <2>1, ForkStep
  <2> QED
    BY <2>1, <2>2 DEF IInv, PendingCloneHeap
<1> QED
  BY <1>1, Invariance, PTL DEF Spec, ForkCopiesHeap

\* A step that lets the current thread go on sends it res.
LEMMA ReturnSends ==
    ASSUME IInv, NEW res \in RetVals, Return(res)
    PROVE  current' = current /\ threads'[current].ret = res
<1>1. Table(threads) /\ current \in DOMAIN threads
  BY SameTable DEF IInv, TypeOK
<1> QED
  BY <1>1, RunStep DEF IInv, Return, HeapAtStep

\* What ResumeMatches says of one step.
Matches ==
    LET t   == current'
        ctx == threads[t].ctx
        res == threads'[t].ret
    IN  /\ ctx = "fork" /\ t \in newfork =>
              res = Ret("fork", 0) /\ t \notin newfork'
        /\ ctx = "fork" /\ t \notin newfork =>
              res.val - 1000 \in newfork' \ newfork
        /\ ctx \in {"new", "sched", "spawn", "write", "bwrite", "sync", "crash"} =>
              res = None
        /\ ctx \in {"choose", "bread"} => res.kind \in {"none", ctx}
        /\ ctx # "dead"

\* The value sent into a context is the result of the call it waits for.
THEOREM ResumeCorrect == Spec => ResumeMatches
<1>1. IInv /\ [Next]_vars => [Matches]_vars
  <2> SUFFICES ASSUME IInv, Next, ~ UNCHANGED vars PROVE Matches
    OBVIOUS
  <2>1. None \in RetVals /\ None.kind = "none"
    BY DEF None, RetVals
  <2>2. CASE Boot \/ SysWrite \/ SysBwrite \/ SysSync \/ SysCrash
    <3>1. Return(None) /\ threads[current].ctx \in {"new", "write", "bwrite", "sync", "crash"}
      BY <2>2 DEF Boot, SysWrite, SysBwrite, SysSync, SysCrash, Pending
    <3>2. current' = current /\ threads'[current].ret = None
      BY <3>1, <2>1, ReturnSends
    <3> QED
      BY <3>1, <3>2 DEF Matches
  <2>3. CASE SysChoose
    <3>1. PICK c \in {0, 1} : Return(Ret("choose", c))
      BY <2>3 DEF SysChoose
    <3>2. Ret("choose", c) \in RetVals /\ Ret("choose", c).kind = "choose"
      BY DEF Ret, RetVals
    <3>3. threads[current].ctx = "choose"
      BY <2>3 DEF SysChoose, Pending
    <3>4. current' = current /\ threads'[current].ret = Ret("choose", c)
      BY <3>1, <3>2, ReturnSends
    <3> QED
      BY <3>2, <3>3, <3>4 DEF Matches
  <2>4. CASE SysBread
    <3>1. PICK k \in Keys : Return(IF WrittenBack[k] = Absent
                                   THEN None ELSE Ret("bread", WrittenBack[k]))
      BY <2>4 DEF SysBread
    <3> DEFINE res == IF WrittenBack[k] = Absent
                      THEN None ELSE Ret("bread", WrittenBack[k])
    <3>2. WrittenBack[k] \in Vals \cup {Absent}
      BY DeviceType DEF IInv
    <3>3. res \in RetVals /\ res.kind \in {"none", "bread"}
      BY <2>1, <3>2 DEF Ret, RetVals
    <3>4. threads[current].ctx = "bread"
      BY <2>4 DEF SysBread, Pending
    <3>5. current' = current /\ threads'[current].ret = res
      BY <3>1, <3>3, ReturnSends
    <3> QED
      BY <3>3, <3>4, <3>5 DEF Matches
  <2>5. CASE SysSpawn
    <3>1. threads[current].ctx = "spawn" /\ current \in DOMAIN threads
      BY <2>5 DEF SysSpawn, Pending, IInv, TypeOK
    <3> DEFINE new == [ctx |-> "new", heap |-> HeapAtStep, ret |-> None]
               ths == Append(threads, new)
    <3>2. threads[current] \in Thread /\ Table(threads)
      BY <3>1, SameTable DEF IInv, Table
    <3>3. new \in Thread /\ new.heap = threads[current].heap
      BY <2>1, <3>2 DEF Thread, CtxStates, HeapAtStep
    <3>4. Table(ths) /\ current \in DOMAIN ths /\ ths[current].heap = HeapAtStep
      <4> HIDE DEF new
      <4> QED
        BY <3>1, <3>2, <3>3, AppendFacts DEF Table, HeapAtStep
    <3>5. Run(ths, current, ths[current].heap, None)
      BY <2>5, <3>4 DEF SysSpawn
    <3> HIDE DEF ths
    <3>6. current' = current /\ threads'[current].ret = None
      BY <2>1, <3>4, <3>5, RunStep DEF IInv
    <3> QED
      BY <3>1, <3>6 DEF Matches
  <2>6. CASE SysFork
    <3>1. Ret("fork", 1000 + (Len(threads) + 1)).val = 1000 + (Len(threads) + 1)
      BY DEF Ret
    <3>2. newfork \subseteq DOMAIN threads /\ Len(threads) \in Nat
      BY DEF IInv, TypeOK
    <3>3. 1000 + (Len(threads) + 1) - 1000 = Len(threads) + 1
      BY <3>2
    <3> QED
      BY <2>6, <3>1, <3>2, <3>3, ForkStep DEF Matches
  <2>7. CASE SysSched
    <3>1. PICK t \in DOMAIN threads : Alive(t) /\ SwitchTo(t)
      BY <2>7 DEF SysSched
    <3> DEFINE res == IF t \in NewforkAtStep THEN Ret("fork", 0) ELSE None
    <3>2. res \in RetVals /\ Table(threads)
      BY <2>1, SameTable DEF Ret, RetVals, IInv
    <3>3. current' = t /\ threads'[t].ret = res
      <4>1. Run(threads, t, threads[t].heap, res)
        BY <3>1 DEF SwitchTo
      <4> HIDE DEF res
      <4> QED
        BY <3>2, <4>1, RunStep DEF IInv
    <3>4. NewforkAtStep = newfork /\ current \notin newfork /\ newfork' = newfork \ {t}
      BY <3>1 DEF SwitchTo, NewforkAtStep, IInv, CloneHeapPrivate
    <3>5. threads[current].ctx \in {"sched", "dead"}
      BY <2>7 DEF SysSched, Pending, Alive
    <3>6. IF t \in newfork THEN threads[t].ctx = "fork"
                           ELSE threads[t].ctx \in {"new", "sched"}
      BY <3>1, <3>4, <3>5 DEF Alive, IInv, FrozenElsewhere
    <3> QED
      BY <3>3, <3>4, <3>6 DEF Matches
  <2> QED
    BY <2>2, <2>3, <2>4, <2>5, <2>6, <2>7 DEF Next, Terminated
<1> QED
  BY <1>1, Invariance, PTL DEF Spec, ResumeMatches, Matches

-----------------------------------------------------------------------------
\* The storage of the OS implements the abstract block device.
THEOREM DeviceCorrect == Spec => DeviceSpec
<1>1. Init => Device!Init
  BY DEF Init, Device!Init, WrittenBack
<1>2. IInv /\ [Next]_vars => [Device!Next]_Device!devVars
  <2> SUFFICES ASSUME IInv, [Next]_vars,
                      persist' # persist \/ buf' # buf
               PROVE  Device!Next \/ UNCHANGED Device!devVars
    BY DEF Device!devVars, WrittenBack
  <2>1. /\ persist \in [Keys -> Vals \cup {Absent}]
        /\ buf \in [Keys -> Vals \cup {Absent}]
    BY DEF IInv, TypeOK
  <2>2. SysBwrite \/ SysSync \/ SysCrash
    BY DEF Next, Boot, SysSpawn, SysFork, SysSched, SysChoose, SysWrite, SysBread,
           Terminated, vars, storage
  <2>3. CASE SysBwrite
    <3>1. PICK k \in Keys, v \in Vals : buf' = [buf EXCEPT ![k] = v] /\ persist' = persist
      BY <2>3 DEF SysBwrite
    <3>2. WrittenBack' = [WrittenBack EXCEPT ![k] = v]
      BY <2>1, <3>1, ValuesAssumption DEF WrittenBack
    <3>3. Device!Write(k, v)
      BY <3>1, <3>2 DEF Device!Write
    <3> QED
      BY <3>3 DEF Device!Next
  <2>4. CASE SysSync
    <3>1. persist' = WrittenBack /\ buf' = EmptyBuf
      BY <2>4 DEF SysSync
    <3>2. WrittenBack' = WrittenBack
      BY <3>1 DEF WrittenBack, EmptyBuf
    <3> QED
      BY <3>1, <3>2 DEF Device!Next, Device!Sync
  <2>5. CASE SysCrash
    <3>1. PICK kept \in SUBSET {k \in Keys : buf[k] # Absent} :
            /\ persist' = [k \in Keys |-> IF k \in kept THEN buf[k] ELSE persist[k]]
            /\ buf' = EmptyBuf
      BY <2>5 DEF SysCrash
    <3>2. WrittenBack' = persist'
      BY <3>1 DEF WrittenBack, EmptyBuf
    <3>3. persist' = [k \in Keys |-> IF k \in kept THEN WrittenBack[k] ELSE persist[k]]
      BY <2>1, <3>1 DEF WrittenBack
    <3>4. Device!Crash(kept) /\ kept \in SUBSET Keys
      BY <3>1, <3>2, <3>3 DEF Device!Crash
    <3> QED
      BY <3>4 DEF Device!Next
  <2> QED
    BY <2>2, <2>3, <2>4, <2>5
<1> QED
  BY <1>1, <1>2, Invariance, PTL DEF Spec, DeviceSpec, Device!Spec
=============================================================================
