------------------------ MODULE MallocThreadsProofs -------------------------
(***************************************************************************)
(* Proofs about mymalloc and its spinlock (MyMalloc), about the thread      *)
(* library (ThreadLib) and about programs that use both (MallocThreads):   *)
(* for any number of threads and calls, tables of every length and programs *)
(* that spawn any number of threads from main.                              *)
(***************************************************************************)
EXTENDS MallocThreads, FiniteSetTheorems, TLAPS

-----------------------------------------------------------------------------
(* MyMalloc: the lock and the counter. *)

\* The inductive invariant: types, mutual exclusion and the exact count.
MallocInv == MallocTypeOK /\ MutualExclusion /\ CountExact
        /\ \A t \in Threads : pc[t] # "idle" => calls[t] < N

\* The invariant holds before the first call of mymalloc.
LEMMA MallocInitInv == MallocInit => MallocInv
<1> SUFFICES ASSUME MallocInit PROVE MallocInv
  OBVIOUS
<1>1. MallocTypeOK
  BY ThreadsAssumption DEF MallocInit, MallocTypeOK, UNLOCKED, LOCKED
<1>2. MutualExclusion
  BY DEF MallocInit, MutualExclusion, Critical, UNLOCKED, LOCKED
<1>3. Counted = {}
  BY ThreadsAssumption DEF MallocInit, Counted
<1>4. CountExact
  BY <1>3, FS_EmptySet DEF MallocInit, CountExact
<1> QED
  BY <1>1, <1>2, <1>4 DEF MallocInv, MallocInit

\* The calls counted are finitely many, at most Threads \X (1..N).
LEMMA CountedFinite == IsFiniteSet(Counted)
<1>1. IsFiniteSet(1..N)
  BY ThreadsAssumption, FS_Interval
<1>2. IsFiniteSet(Threads \X (1..N))
  BY <1>1, ThreadsAssumption, FS_Product
<1>3. Counted \subseteq Threads \X (1..N)
  BY DEF Counted
<1> QED
  BY <1>2, <1>3, FS_Subset

\* Every instruction of every thread preserves the invariant.
LEMMA MallocNextInv == MallocInv /\ [MallocNext]_mallocVars => MallocInv'
<1> SUFFICES ASSUME MallocInv, [MallocNext]_mallocVars PROVE MallocInv'
  OBVIOUS
<1> USE ThreadsAssumption
<1>1. ASSUME NEW t \in Threads, Call(t) PROVE MallocInv'
  <2>1. MallocTypeOK' /\ MutualExclusion'
    BY <1>1 DEF MallocInv, MallocTypeOK, Call, MutualExclusion, Critical
  <2>2. Counted' = Counted
    BY <1>1 DEF MallocInv, MallocTypeOK, Call, Counted
  <2> QED
    BY <1>1, <2>1, <2>2 DEF MallocInv, MallocTypeOK, Call, CountExact
<1>2. ASSUME NEW t \in Threads, Lock(t) PROVE MallocInv'
  <2>1. MallocTypeOK' /\ MutualExclusion'
    BY <1>2 DEF MallocInv, MallocTypeOK, Lock, MutualExclusion, Critical, UNLOCKED, LOCKED
  <2>2. Counted' = Counted
    BY <1>2 DEF MallocInv, MallocTypeOK, Lock, Counted
  <2> QED
    BY <1>2, <2>1, <2>2 DEF MallocInv, MallocTypeOK, Lock, CountExact
<1>3. ASSUME NEW t \in Threads, Load(t) PROVE MallocInv'
  <2>1. MallocTypeOK' /\ MutualExclusion'
    BY <1>3 DEF MallocInv, MallocTypeOK, Load, MutualExclusion, Critical
  <2>2. Counted' = Counted
    BY <1>3 DEF MallocInv, MallocTypeOK, Load, Counted
  <2> QED
    BY <1>3, <2>1, <2>2 DEF MallocInv, MallocTypeOK, Load, CountExact
<1>4. ASSUME NEW t \in Threads, Store(t) PROVE MallocInv'
  <2>1. MallocTypeOK' /\ MutualExclusion'
    BY <1>4 DEF MallocInv, MallocTypeOK, Store, MutualExclusion, Critical
  <2> DEFINE call == <<t, calls[t] + 1>>
  <2>2. calls[t] \in Nat /\ calls[t] + 1 \in 1..N
    BY <1>4 DEF MallocInv, MallocTypeOK, Store
  <2>3. call \notin Counted
    BY <1>4, <2>2 DEF Counted, Store
  <2>4. Counted' = Counted \cup {call}
    <3>1. \A u \in Threads, i \in 1..N : <<u, i>> \in Counted' <=> <<u, i>> \in Counted \/ <<u, i>> = call
      BY <1>4, <2>2 DEF MallocInv, MallocTypeOK, Store, Counted
    <3>2. Counted' \subseteq Threads \X (1..N) /\ Counted \cup {call} \subseteq Threads \X (1..N)
      BY <2>2 DEF Counted
    <3> QED
      BY <3>1, <3>2
  <2>5. Cardinality(Counted') = Cardinality(Counted) + 1
    BY <2>3, <2>4, CountedFinite, FS_AddElement
  <2>6. CountExact'
    BY <1>4, <2>5 DEF MallocInv, MallocTypeOK, Store, CountExact, MutualExclusion, Critical
  <2> QED
    BY <1>4, <2>1, <2>6 DEF MallocInv, MallocTypeOK, Store
<1>5. ASSUME NEW t \in Threads, Unlock(t) PROVE MallocInv'
  <2>1. MallocTypeOK' /\ MutualExclusion'
    BY <1>5 DEF MallocInv, MallocTypeOK, Unlock, MutualExclusion, Critical, UNLOCKED, LOCKED
  <2>2. Counted' = Counted
    BY <1>5 DEF MallocInv, MallocTypeOK, Unlock, Counted
  <2> QED
    BY <1>5, <2>1, <2>2 DEF MallocInv, MallocTypeOK, Unlock, CountExact
<1>6. CASE UNCHANGED mallocVars
  BY <1>6 DEF MallocInv, MallocTypeOK, MutualExclusion, Critical, CountExact, Counted, mallocVars
<1> QED
  BY <1>1, <1>2, <1>3, <1>4, <1>5, <1>6 DEF MallocNext, MallocStep, Done

\* Everything below rests on this.
THEOREM MallocInvariance == MallocSpec => []MallocInv
BY MallocInitInv, MallocNextInv, PTL DEF MallocSpec

\* Type correctness of the lock word, the counter and the threads.
THEOREM MallocTypeCorrect == MallocSpec => []MallocTypeOK
BY MallocInvariance, PTL DEF MallocInv

\* spin_lock and spin_unlock give mutual exclusion.
THEOREM LockCorrect == MallocSpec => []MutualExclusion
BY MallocInvariance, PTL DEF MallocInv

\* malloc_count is the number of increments made so far: none is lost.
THEOREM CountCorrect == MallocSpec => []CountExact
BY MallocInvariance, PTL DEF MallocInv

\* The assertion of the test "concurrent", for every number of threads.
THEOREM JoinedCorrect == MallocSpec => []JoinedCount
<1>1. MallocInv => JoinedCount
  <2> SUFFICES ASSUME MallocInv, Joined PROVE malloc_count = Cardinality(Threads) * N
    BY DEF JoinedCount
  <2>1. Counted = Threads \X (1..N)
    BY DEF Joined, Counted
  <2>2. IsFiniteSet(1..N) /\ Cardinality(1..N) = N
    BY ThreadsAssumption, FS_Interval
  <2>3. Cardinality(Threads \X (1..N)) = Cardinality(Threads) * N
    BY <2>2, ThreadsAssumption, FS_Product
  <2> QED
    BY <2>1, <2>3 DEF MallocInv, CountExact
<1> QED
  BY <1>1, MallocInvariance, PTL

-----------------------------------------------------------------------------
(* ThreadLib: spawn() and join(). *)

\* Main alone spawns; the other threads start, run and return.
MainSpawns ==
    /\ Len(fibres) >= 1
    /\ fibres[1].arg = -1 /\ fibres[1].runs = "main" /\ fibres[1].made = "main"
    /\ fibres[1].pc \in {"run", "filled", "made", "joining", "aborted"}
    /\ \A k \in DOMAIN fibres \ {1} :
         fibres[k].todo = <<>> /\ fibres[k].pc \in {"created", "run", "returned"}

\* How far main is in spawn() and what it has done of it.
InSpawn ==
    /\ Len(fibres) = n_ + 1 + (IF fibres[1].pc = "made" THEN 1 ELSE 0)
    /\ fibres[1].pc \in {"filled", "made"} => n_ < Length /\ fibres[1].todo # <<>>
    /\ fibres[1].pc = "filled" =>
         slots[n_].entry = Head(fibres[1].todo) /\ slots[n_].status = "LIVE"

\* The slot of thread k is the one before n_ that it was created for.
OwnSlot(k) ==
    /\ fibres[k].arg = k - 2
    /\ slots[k - 2].thread = k
    /\ slots[k - 2].entry = fibres[k].made
    /\ fibres[k].runs \in {"none", fibres[k].made}
    /\ slots[k - 2].status \in {"LIVE", "DEAD"}
    /\ slots[k - 2].status = "DEAD" => fibres[k].pc = "returned"

OwnSlots == \A k \in DOMAIN fibres \ {1} : OwnSlot(k)

\* join() starts when main returns and leaves no live slot behind it.
Joins ==
    /\ joining = -1 <=> fibres[1].pc # "joining"
    /\ \A i \in 0..(joining - 1) : slots[i].status # "LIVE"

\* The inductive invariant.
LibInv == TypeOK /\ MainSpawns /\ InSpawn /\ OwnSlots /\ Joins

\* The invariant holds when main starts.
LEMMA LibInitInv == Init => LibInv
<1> SUFFICES ASSUME Init PROVE LibInv
  OBVIOUS
<1>1. PICK program \in Programs :
        fibres = <<[made |-> "main", runs |-> "main", arg |-> -1,
                    todo |-> program, pc |-> "run"]>>
  BY DEF Init
<1>2. program \in Seq(Fns) /\ "main" \in Fns
  BY FnsAssumption
<1>3. [made |-> "main", runs |-> "main", arg |-> -1, todo |-> program, pc |-> "run"] \in Fibres
  BY <1>2, LengthAssumption DEF Fibres
<1>4. Len(fibres) = 1 /\ DOMAIN fibres = {1}
  BY <1>1
<1>5. TypeOK
  BY <1>1, <1>2, <1>3, LengthAssumption DEF Init, TypeOK, Free, Slots, NoThread
<1> QED BY <1>1, <1>4, <1>5 DEF Init, LibInv, MainSpawns, InSpawn, OwnSlots, Joins

\* A step of one thread that only changes its own state.
LEMMA FibreType ==
  ASSUME TypeOK, NEW k \in DOMAIN fibres, NEW f \in Fibres
  PROVE  /\ [fibres EXCEPT ![k] = f] \in Seq(Fibres)
         /\ Len([fibres EXCEPT ![k] = f]) = Len(fibres)
         /\ DOMAIN [fibres EXCEPT ![k] = f] = DOMAIN fibres
  BY DEF TypeOK

\* The threads other than main are numbered like their slots.
LEMMA SlotOf ==
  ASSUME LibInv, NEW k \in DOMAIN fibres \ {1}
  PROVE  /\ k \in Int /\ k - 2 \in 0..(Length - 1) /\ k <= Len(fibres)
         /\ OwnSlot(k)
<1>1. fibres \in Seq(Fibres) /\ n_ \in Nat /\ n_ <= Length /\ Length \in Nat
  BY LengthAssumption DEF LibInv, TypeOK
<1>2. k \in 1..Len(fibres) /\ Len(fibres) \in Nat
  BY <1>1
<1>3. Len(fibres) <= Length + 1
  BY <1>1, <1>2 DEF LibInv, InSpawn
<1>4. OwnSlot(k)
  BY DEF LibInv, OwnSlots
<1> QED BY <1>1, <1>2, <1>3, <1>4

\* A thread that starts reads its own function from its slot.
LEMMA StartInv ==
  ASSUME LibInv, NEW k \in DOMAIN fibres, Start(k)
  PROVE  LibInv'
<1> USE DEF LibInv
<1> DEFINE f == [fibres[k] EXCEPT !.runs = slots[fibres[k].arg].entry, !.pc = "run"]
<1>0. k # 1
  BY DEF Start, MainSpawns
<1>1. k # 1 /\ OwnSlot(k) /\ k - 2 \in 0..(Length - 1)
  BY <1>0, SlotOf
<1>2. fibres[k] \in Fibres /\ slots[k - 2] \in Slots
  BY <1>1 DEF TypeOK
<1>3. /\ f \in Fibres /\ f.made = fibres[k].made /\ f.runs = f.made
      /\ f.arg = fibres[k].arg /\ f.todo = fibres[k].todo /\ f.pc = "run"
  BY <1>1, <1>2 DEF OwnSlot, Fibres, Slots
<1>4. fibres' = [fibres EXCEPT ![k] = f] /\ UNCHANGED <<slots, n_, joining>>
  BY DEF Start
<1> HIDE DEF f
<1>5. fibres' \in Seq(Fibres) /\ Len(fibres') = Len(fibres) /\ DOMAIN fibres' = DOMAIN fibres
  BY <1>3, <1>4, FibreType
<1>6. \A l \in DOMAIN fibres : fibres'[l] = IF l = k THEN f ELSE fibres[l]
  BY <1>4 DEF TypeOK
<1>7. fibres'[1] = fibres[1]
  BY <1>1, <1>6 DEF MainSpawns, TypeOK
<1>8. TypeOK' /\ MainSpawns'
  BY <1>1, <1>3, <1>4, <1>5, <1>6, <1>7 DEF TypeOK, MainSpawns
<1>9. InSpawn' /\ Joins'
  BY <1>4, <1>5, <1>7 DEF InSpawn, Joins
<1>10. OwnSlots'
  BY <1>1, <1>3, <1>4, <1>5, <1>6, <1>7 DEF OwnSlots, OwnSlot, Start
<1> QED BY <1>8, <1>9, <1>10

\* A thread that returns: main goes on to join().
LEMMA ReturnInv ==
  ASSUME LibInv, NEW k \in DOMAIN fibres, Return(k)
  PROVE  LibInv'
<1> USE DEF LibInv
<1> DEFINE f == [fibres[k] EXCEPT !.pc = IF k = 1 THEN "joining" ELSE "returned"]
<1>1. fibres[k] \in Fibres
  BY DEF TypeOK
<1>2. /\ f \in Fibres /\ f.made = fibres[k].made /\ f.runs = fibres[k].runs
      /\ f.arg = fibres[k].arg /\ f.todo = fibres[k].todo
      /\ f.pc = IF k = 1 THEN "joining" ELSE "returned"
  BY <1>1 DEF Fibres
<1>3. /\ fibres' = [fibres EXCEPT ![k] = f] /\ UNCHANGED <<slots, n_>>
      /\ joining' = IF k = 1 THEN 0 ELSE joining
  BY DEF Return
<1>4. fibres[k].pc = "run"
  BY DEF Return
<1> HIDE DEF f
<1>5. fibres' \in Seq(Fibres) /\ Len(fibres') = Len(fibres) /\ DOMAIN fibres' = DOMAIN fibres
  BY <1>2, <1>3, FibreType
<1>6. \A l \in DOMAIN fibres : fibres'[l] = IF l = k THEN f ELSE fibres[l]
  BY <1>3 DEF TypeOK
<1>7. 1 \in DOMAIN fibres
  BY DEF MainSpawns, TypeOK
<1>8. TypeOK' /\ MainSpawns'
  BY <1>2, <1>3, <1>4, <1>5, <1>6, <1>7, LengthAssumption DEF TypeOK, MainSpawns
<1>9. InSpawn' /\ Joins'
  BY <1>2, <1>3, <1>4, <1>5, <1>6, <1>7 DEF InSpawn, Joins
<1>10. OwnSlots'
  BY <1>2, <1>3, <1>4, <1>5, <1>6, <1>7 DEF OwnSlots, OwnSlot
<1> QED BY <1>8, <1>9, <1>10

\* Only main is ever in spawn().
LEMMA OnlyMain ==
  ASSUME LibInv, NEW k \in DOMAIN fibres, FillSlot(k) \/ Create(k) \/ Increment(k)
  PROVE  k = 1
  BY DEF LibInv, MainSpawns, FillSlot, Create, Increment

\* The assertion fails, or the next slot is filled; no thread owns it yet.
LEMMA FillSlotInv ==
  ASSUME LibInv, 1 \in DOMAIN fibres, FillSlot(1)
  PROVE  LibInv'
<1> USE DEF LibInv
<1> DEFINE f == [fibres[1] EXCEPT !.pc = IF n_ < Length THEN "filled" ELSE "aborted"]
           s == [status |-> "LIVE", entry |-> Head(fibres[1].todo), thread |-> NoThread]
<1>1. fibres[1] \in Fibres /\ fibres[1].pc = "run" /\ fibres[1].todo # <<>>
  BY DEF TypeOK, FillSlot
<1>2. /\ f \in Fibres /\ f.made = fibres[1].made /\ f.runs = fibres[1].runs
      /\ f.arg = fibres[1].arg /\ f.todo = fibres[1].todo
      /\ f.pc = IF n_ < Length THEN "filled" ELSE "aborted"
  BY <1>1 DEF Fibres
<1>3. Head(fibres[1].todo) \in Fns
  BY <1>1 DEF Fibres
<1>4. s \in Slots /\ s.entry = Head(fibres[1].todo) /\ s.status = "LIVE"
  BY <1>3 DEF Slots, NoThread
<1>5. /\ fibres' = [fibres EXCEPT ![1] = f] /\ UNCHANGED <<n_, joining>>
      /\ slots' = IF n_ < Length THEN [slots EXCEPT ![n_] = s] ELSE slots
  BY DEF FillSlot
<1> HIDE DEF f, s
<1>6. fibres' \in Seq(Fibres) /\ Len(fibres') = Len(fibres) /\ DOMAIN fibres' = DOMAIN fibres
  BY <1>2, <1>5, FibreType
<1>7. fibres'[1] = f /\ \A l \in DOMAIN fibres \ {1} : fibres'[l] = fibres[l]
  BY <1>5 DEF TypeOK
<1>8. slots' \in [0..(Length - 1) -> Slots]
  BY <1>4, <1>5, LengthAssumption DEF TypeOK
<1>9. TypeOK' /\ MainSpawns'
  BY <1>2, <1>5, <1>6, <1>7, <1>8 DEF TypeOK, MainSpawns
<1>10. InSpawn'
  BY <1>1, <1>2, <1>4, <1>5, <1>6, <1>7, LengthAssumption DEF InSpawn, TypeOK
<1>11. joining = -1
  BY <1>1 DEF Joins
<1>12. Joins'
  BY <1>2, <1>5, <1>7, <1>11 DEF Joins
<1>13. OwnSlots'
  <2> SUFFICES ASSUME NEW l \in DOMAIN fibres \ {1} PROVE OwnSlot(l)'
    BY <1>6 DEF OwnSlots
  <2>1. l - 2 # n_ /\ l - 2 \in 0..(Length - 1) /\ OwnSlot(l)
    BY <1>1, SlotOf DEF InSpawn, TypeOK
  <2>2. slots'[l - 2] = slots[l - 2]
    BY <1>5, <2>1 DEF TypeOK
  <2> QED BY <1>7, <2>1, <2>2 DEF OwnSlot
<1> QED BY <1>9, <1>10, <1>12, <1>13

\* The thread that pthread_create makes is the one of the filled slot.
LEMMA CreateInv ==
  ASSUME LibInv, 1 \in DOMAIN fibres, Create(1)
  PROVE  LibInv'
<1> USE DEF LibInv
<1> DEFINE f == [fibres[1] EXCEPT !.pc = "made"]
           g == Fibre(Head(fibres[1].todo), n_)
           old == [fibres EXCEPT ![1] = f]
           last == Len(fibres) + 1
<1>1. /\ fibres[1] \in Fibres /\ fibres[1].pc = "filled" /\ fibres[1].todo # <<>>
      /\ n_ < Length /\ n_ \in 0..(Length - 1) /\ Len(fibres) = n_ + 1
  BY LengthAssumption DEF TypeOK, Create, InSpawn
<1>2. /\ f \in Fibres /\ f.made = fibres[1].made /\ f.runs = fibres[1].runs
      /\ f.arg = fibres[1].arg /\ f.todo = fibres[1].todo /\ f.pc = "made"
  BY <1>1 DEF Fibres
<1>3. Head(fibres[1].todo) \in Fns
  BY <1>1 DEF Fibres
<1>4. /\ g \in Fibres /\ g.made = Head(fibres[1].todo) /\ g.runs = "none"
      /\ g.arg = n_ /\ g.todo = <<>> /\ g.pc = "created"
  BY <1>1, <1>3, LengthAssumption DEF Fibre, Fibres
<1>5. /\ fibres' = Append(old, g) /\ UNCHANGED <<n_, joining>>
      /\ slots' = [slots EXCEPT ![n_].thread = last]
  BY DEF Create
<1> HIDE DEF f, g
<1>6. old \in Seq(Fibres) /\ Len(old) = Len(fibres) /\ DOMAIN old = DOMAIN fibres
  BY <1>2, FibreType
<1>7. old[1] = f /\ \A l \in DOMAIN fibres \ {1} : old[l] = fibres[l]
  BY DEF TypeOK
<1> HIDE DEF old
<1>8. /\ fibres' \in Seq(Fibres) /\ Len(fibres') = last
      /\ DOMAIN fibres' = DOMAIN fibres \cup {last} /\ last \notin DOMAIN fibres
      /\ fibres'[last] = g /\ \A l \in DOMAIN fibres : fibres'[l] = old[l]
  BY <1>4, <1>5, <1>6
<1>9. slots[n_] \in Slots /\ slots[n_].entry = Head(fibres[1].todo) /\ slots[n_].status = "LIVE"
  BY <1>1 DEF TypeOK, InSpawn
<1>10. last \in Nat /\ last = n_ + 2
  BY <1>1 DEF TypeOK
<1>11. /\ slots' \in [0..(Length - 1) -> Slots]
       /\ slots'[n_].thread = last /\ slots'[n_].entry = slots[n_].entry
       /\ slots'[n_].status = "LIVE"
       /\ \A i \in 0..(Length - 1) : i # n_ => slots'[i] = slots[i]
  BY <1>1, <1>5, <1>9, <1>10 DEF TypeOK, Slots
<1> HIDE DEF last
<1>12. fibres'[1] = f /\ \A l \in DOMAIN fibres \ {1} : fibres'[l] = fibres[l]
  BY <1>7, <1>8
<1>13. TypeOK'
  BY <1>5, <1>8, <1>11 DEF TypeOK
<1>14. last # 1 /\ last >= 1
  BY <1>1, <1>10
<1>15. MainSpawns'
  BY <1>2, <1>4, <1>8, <1>12, <1>14 DEF MainSpawns
<1>16. InSpawn'
  BY <1>1, <1>2, <1>5, <1>8, <1>10, <1>12, LengthAssumption DEF InSpawn
<1>17. Joins'
  BY <1>1, <1>2, <1>5, <1>12 DEF Joins
<1>18. OwnSlots'
  <2> SUFFICES ASSUME NEW l \in DOMAIN fibres' \ {1} PROVE OwnSlot(l)'
    BY DEF OwnSlots
  <2>1. CASE l = last
    <3>1. l - 2 = n_ /\ fibres'[l] = g
      BY <1>1, <1>8, <1>10, <2>1
    <3> QED BY <1>4, <1>9, <1>10, <1>11, <2>1, <3>1 DEF OwnSlot
  <2>2. CASE l # last
    <3>1. l \in DOMAIN fibres \ {1}
      BY <1>8, <2>2
    <3>2. l - 2 # n_ /\ l - 2 \in 0..(Length - 1) /\ OwnSlot(l)
      BY <1>1, <3>1, SlotOf
    <3>3. slots'[l - 2] = slots[l - 2] /\ fibres'[l] = fibres[l]
      BY <1>11, <1>12, <3>1, <3>2
    <3> QED BY <3>2, <3>3 DEF OwnSlot
  <2> QED BY <2>1, <2>2
<1> QED BY <1>13, <1>15, <1>16, <1>17, <1>18

\* spawn() returns.
LEMMA IncrementInv ==
  ASSUME LibInv, 1 \in DOMAIN fibres, Increment(1)
  PROVE  LibInv'
<1> USE DEF LibInv
<1> DEFINE f == [fibres[1] EXCEPT !.pc = "run", !.todo = Tail(@)]
<1>1. /\ fibres[1] \in Fibres /\ fibres[1].pc = "made" /\ fibres[1].todo # <<>>
      /\ n_ < Length /\ Len(fibres) = n_ + 2
  BY LengthAssumption DEF TypeOK, Increment, InSpawn
<1>2. Tail(fibres[1].todo) \in Seq(Fns)
  BY <1>1 DEF Fibres
<1>3. /\ f \in Fibres /\ f.made = fibres[1].made /\ f.runs = fibres[1].runs
      /\ f.arg = fibres[1].arg /\ f.pc = "run"
  BY <1>1, <1>2 DEF Fibres
<1>4. fibres' = [fibres EXCEPT ![1] = f] /\ n_' = n_ + 1 /\ UNCHANGED <<slots, joining>>
  BY DEF Increment
<1> HIDE DEF f
<1>5. fibres' \in Seq(Fibres) /\ Len(fibres') = Len(fibres) /\ DOMAIN fibres' = DOMAIN fibres
  BY <1>3, <1>4, FibreType
<1>6. fibres'[1] = f /\ \A l \in DOMAIN fibres \ {1} : fibres'[l] = fibres[l]
  BY <1>4 DEF TypeOK
<1>7. TypeOK'
  BY <1>1, <1>4, <1>5, LengthAssumption DEF TypeOK
<1>8. MainSpawns' /\ Joins'
  BY <1>1, <1>3, <1>4, <1>5, <1>6 DEF MainSpawns, Joins
<1>9. InSpawn'
  BY <1>1, <1>3, <1>4, <1>5, <1>6 DEF InSpawn, TypeOK
<1>10. OwnSlots'
  BY <1>4, <1>5, <1>6 DEF OwnSlots, OwnSlot
<1> QED BY <1>7, <1>8, <1>9, <1>10

\* join() leaves a slot behind that is not live, after its thread returned.
LEMMA JoinInv ==
  ASSUME LibInv, 1 \in DOMAIN fibres, Join
  PROVE  LibInv'
<1> USE DEF LibInv
<1>1. /\ fibres[1].pc = "joining" /\ joining \in 0..(Length - 1)
      /\ UNCHANGED <<n_, fibres>> /\ joining' = joining + 1
  BY LengthAssumption DEF Join, Joins, TypeOK
<1>2. /\ slots' \in [0..(Length - 1) -> Slots]
      /\ \A i \in 0..(Length - 1) :
           /\ slots'[i].thread = slots[i].thread /\ slots'[i].entry = slots[i].entry
           /\ i # joining => slots'[i] = slots[i]
      /\ slots'[joining].status # "LIVE"
      /\ \/ slots'[joining] = slots[joining]
         \/ /\ slots'[joining].status = "DEAD"
            /\ fibres[slots[joining].thread].pc = "returned"
  <2>1. slots[joining] \in Slots /\ DOMAIN slots = 0..(Length - 1)
    BY <1>1 DEF TypeOK
  <2>2. CASE slots[joining].status = "LIVE"
    <3>1. /\ slots' = [slots EXCEPT ![joining].status = "DEAD"]
          /\ fibres[slots[joining].thread].pc = "returned"
      BY <2>2 DEF Join
    <3> QED BY <1>1, <2>1, <3>1 DEF TypeOK, Slots
  <2>3. CASE slots[joining].status # "LIVE"
    <3>1. slots' = slots
      BY <2>3 DEF Join
    <3> QED BY <2>3, <3>1 DEF TypeOK
  <2> QED BY <2>2, <2>3
<1>3. TypeOK' /\ MainSpawns'
  BY <1>1, <1>2, LengthAssumption DEF TypeOK, MainSpawns
<1>4. InSpawn'
  BY <1>1 DEF InSpawn
<1>5. Joins'
  <2> SUFFICES ASSUME NEW i \in 0..joining PROVE slots'[i].status # "LIVE"
    BY <1>1 DEF Joins
  <2>1. i \in 0..(Length - 1) /\ (i = joining \/ i \in 0..(joining - 1))
    BY <1>1, LengthAssumption
  <2> QED BY <1>2, <2>1 DEF Joins
<1>6. OwnSlots'
  <2> SUFFICES ASSUME NEW l \in DOMAIN fibres \ {1} PROVE OwnSlot(l)'
    BY <1>1 DEF OwnSlots
  <2>1. l - 2 \in 0..(Length - 1) /\ OwnSlot(l)
    BY SlotOf
  <2>2. slots[l - 2].thread = l
    BY <2>1 DEF OwnSlot
  <2>3. CASE l - 2 = joining
    BY <1>1, <1>2, <2>1, <2>2, <2>3 DEF OwnSlot
  <2>4. CASE l - 2 # joining
    BY <1>1, <1>2, <2>1, <2>4 DEF OwnSlot
  <2> QED BY <2>3, <2>4
<1> QED BY <1>3, <1>4, <1>5, <1>6

\* Every step keeps the invariant.
LEMMA LibNextInv == LibInv /\ [Next]_vars => LibInv'
<1> SUFFICES ASSUME LibInv, [Next]_vars PROVE LibInv'
  OBVIOUS
<1>1. 1 \in DOMAIN fibres
  BY DEF LibInv, MainSpawns, TypeOK
<1>2. ASSUME NEW k \in DOMAIN fibres, Step(k) PROVE LibInv'
  BY <1>1, <1>2, StartInv, ReturnInv, OnlyMain, FillSlotInv, CreateInv, IncrementInv DEF Step
<1>3. CASE Join
  BY <1>1, <1>3, JoinInv
<1>4. CASE UNCHANGED vars
  BY <1>4 DEF vars, LibInv, TypeOK, MainSpawns, InSpawn, OwnSlots, OwnSlot, Joins
<1> QED BY <1>2, <1>3, <1>4 DEF Next, Exited

\* The invariant is inductive.
THEOREM LibInvariance == Spec => []LibInv
  BY LibInitInv, LibNextInv, PTL DEF Spec

\* The table of threads and n_ stay well-typed: the assertion of spawn() keeps
\* it inside the table.
THEOREM LibTypeCorrect == Spec => []TypeOK
  BY LibInvariance, PTL DEF LibInv

\* A slot that join() has passed is not live, so its thread has returned.
LEMMA JoinFromInv == LibInv => JoinWaitsForAll
<1> SUFFICES ASSUME LibInv, JoinDone, NEW k \in DOMAIN fibres \ {1}
             PROVE  fibres[k].pc = "returned"
  BY DEF JoinWaitsForAll
<1>1. k - 2 \in 0..(Length - 1) /\ OwnSlot(k)
  BY SlotOf
<1>2. slots[k - 2].status # "LIVE"
  BY <1>1 DEF LibInv, Joins, JoinDone
<1> QED BY <1>1, <1>2 DEF OwnSlot

\* A thread's slot is its own and holds its function.
LEMMA FunctionsFromInv == LibInv => RunsItsFunction
<1> SUFFICES ASSUME LibInv PROVE RunsItsFunction
  OBVIOUS
<1>1. \A k \in DOMAIN fibres \ {1} :
        /\ k \in Int /\ fibres[k].arg = k - 2 /\ k - 2 \in 0..(Length - 1)
        /\ fibres[k].runs \in {"none", fibres[k].made}
  BY SlotOf DEF OwnSlot
<1>2. fibres[1].arg = -1 /\ fibres[1].runs = fibres[1].made /\ DOMAIN slots = 0..(Length - 1)
  BY DEF LibInv, MainSpawns, TypeOK
<1>3. \A k \in DOMAIN fibres \ {1} : fibres[k].arg \in DOMAIN slots
  BY <1>1, <1>2
<1>4. \A k \in DOMAIN fibres : fibres[k].runs \in {"none", fibres[k].made}
  BY <1>1, <1>2
<1>5. \A k, l \in DOMAIN fibres : fibres[k].arg = fibres[l].arg => k = l
  BY <1>1, <1>2
<1> QED BY <1>3, <1>4, <1>5 DEF RunsItsFunction

\* After join() no thread still runs, however many were spawned and however
\* they interleave with main.
THEOREM JoinCorrect == Spec => []JoinWaitsForAll
  BY LibInvariance, JoinFromInv, PTL

\* Every thread runs the function it was created for, in a slot of its own,
\* also when it starts after later calls of spawn().
THEOREM FunctionsCorrect == Spec => []RunsItsFunction
  BY LibInvariance, FunctionsFromInv, PTL

-----------------------------------------------------------------------------
(* MallocThreads: the two together. *)

\* How far thread k is in T_malloc agrees with what the library knows of it:
\* the loop is entered when the function starts, left after the last call, and
\* threads that do not run T_malloc never call mymalloc.
LoopOf(k) ==
    /\ k \in DOMAIN fibres /\ k # 1 /\ fibres[k].pc = "returned" /\ fibres[k].made = "T_malloc"
         => pc[k] = "idle" /\ calls[k] = N
    /\ ~(k \in DOMAIN fibres /\ k # 1 /\ fibres[k].pc \in {"run", "returned"}
            /\ fibres[k].made = "T_malloc")
         => pc[k] = "idle" /\ calls[k] = 0

\* Threads that have started are among those that make steps, and they run
\* the function they were made for.
Started ==
    \A k \in DOMAIN fibres \ {1} :
        fibres[k].pc # "created" => k \in Threads /\ fibres[k].runs = fibres[k].made

ThreadsInv == MallocInv /\ LibInv /\ Started /\ \A k \in Threads : LoopOf(k)

\* What a step of the library does to the threads: only the one that makes it
\* changes, and a new one has not started.
LEMMA LibraryStep ==
  ASSUME LibInv, NEW k \in DOMAIN fibres, Step(k)
  PROVE  /\ DOMAIN fibres \subseteq DOMAIN fibres'
         /\ \A j \in DOMAIN fibres' \ DOMAIN fibres : fibres'[j].pc = "created"
         /\ \A j \in DOMAIN fibres \ {1} : j # k => fibres'[j] = fibres[j]
         /\ k # 1 => /\ fibres'[k].made = fibres[k].made
                     /\ \/ /\ fibres[k].pc = "created" /\ fibres'[k].pc = "run"
                           /\ fibres'[k].runs = fibres[k].made
                        \/ /\ fibres[k].pc = "run" /\ fibres'[k].pc = "returned"
                           /\ fibres'[k].runs = fibres[k].runs
<1>1. 1 \in DOMAIN fibres /\ fibres \in Seq(Fibres) /\ fibres[k] \in Fibres
  BY DEF LibInv, MainSpawns, TypeOK
<1>2. CASE Start(k)
  <2>1. k # 1 /\ OwnSlot(k)
    BY <1>2, SlotOf DEF Start, LibInv, MainSpawns
  <2>2. slots[fibres[k].arg].entry = fibres[k].made
    BY <2>1 DEF OwnSlot
  <2> QED BY <1>1, <1>2, <2>1, <2>2 DEF Start, Fibres
<1>3. CASE Return(k)
  BY <1>1, <1>3 DEF Return, Fibres
<1>4. CASE FillSlot(k) \/ Increment(k)
  <2>1. k = 1
    BY <1>4, OnlyMain
  <2> QED BY <1>1, <1>4, <2>1 DEF FillSlot, Increment
<1>5. CASE Create(k)
  <2>1. k = 1
    BY <1>5, OnlyMain
  <2> DEFINE old == [fibres EXCEPT ![1].pc = "made"]
             new == Fibre(Head(fibres[1].todo), n_)
  <2>2. fibres' = Append(old, new) /\ new.pc = "created"
    BY <1>5, <2>1 DEF Create, Fibre
  <2>3. [fibres[1] EXCEPT !.pc = "made"] \in Fibres /\ old = [fibres EXCEPT ![1] = [@ EXCEPT !.pc = "made"]]
    BY <1>1, <2>1 DEF Fibres
  <2>4. /\ old \in Seq(Fibres) /\ Len(old) = Len(fibres)
        /\ \A j \in DOMAIN fibres \ {1} : old[j] = fibres[j]
    BY <1>1, <2>3
  <2> HIDE DEF old, new
  <2>5. \A j \in 1..Len(fibres) : fibres'[j] = old[j]
    BY <1>1, <2>2, <2>4
  <2>6. DOMAIN fibres' = DOMAIN fibres \cup {Len(fibres) + 1} /\ fibres'[Len(fibres) + 1] = new
    BY <1>1, <2>2, <2>4
  <2> QED BY <1>1, <2>1, <2>2, <2>4, <2>5, <2>6
<1> QED BY <1>2, <1>3, <1>4, <1>5 DEF Step

\* The invariant holds when main starts: no thread has been made.
LEMMA ThreadsInitInv == ThreadsInit => ThreadsInv
<1> SUFFICES ASSUME ThreadsInit PROVE ThreadsInv
  OBVIOUS
<1>1. MallocInv /\ LibInv
  BY MallocInitInv, LibInitInv DEF ThreadsInit
<1>2. DOMAIN fibres = {1}
  BY DEF ThreadsInit, Init
<1>3. \A k \in Threads : LoopOf(k)
  BY <1>2 DEF ThreadsInit, MallocInit, LoopOf
<1> QED BY <1>1, <1>2, <1>3 DEF ThreadsInv, Started

\* A step of thread k in the library.
LEMMA InLibraryInv ==
  ASSUME ThreadsInv, NEW k \in Threads \cup {1}, InLibrary(k)
  PROVE  ThreadsInv'
<1>1. MallocInv' /\ LibInv'
  BY MallocNextInv, LibNextInv DEF ThreadsInv, InLibrary, Alive, Next
<1>2. k \in DOMAIN fibres /\ Step(k) /\ LibInv
  BY DEF InLibrary, ThreadsInv
<1>3. /\ DOMAIN fibres \subseteq DOMAIN fibres'
      /\ \A j \in DOMAIN fibres' \ DOMAIN fibres : fibres'[j].pc = "created"
      /\ \A j \in DOMAIN fibres \ {1} : j # k => fibres'[j] = fibres[j]
      /\ k # 1 => /\ fibres'[k].made = fibres[k].made
                  /\ \/ /\ fibres[k].pc = "created" /\ fibres'[k].pc = "run"
                        /\ fibres'[k].runs = fibres[k].made
                     \/ /\ fibres[k].pc = "run" /\ fibres'[k].pc = "returned"
                        /\ fibres'[k].runs = fibres[k].runs
  BY <1>2, LibraryStep
<1>4. Started'
  BY <1>2, <1>3 DEF ThreadsInv, Started
<1>5. ASSUME NEW j \in Threads PROVE LoopOf(j)'
  <2>1. pc' = pc /\ calls' = calls /\ LoopOf(j)
    BY DEF ThreadsInv, InLibrary, mallocVars
  <2>2. CASE j # k \/ k = 1
    BY <1>2, <1>3, <2>1, <2>2 DEF LoopOf
  <2>3. CASE j = k /\ k # 1 /\ fibres[k].pc = "created"
    BY <1>2, <1>3, <2>1, <2>3 DEF LoopOf
  <2>4. CASE j = k /\ k # 1 /\ fibres[k].pc = "run"
    <3>1. fibres[k].runs = fibres[k].made
      BY <1>2, <2>4 DEF ThreadsInv, Started
    <3>2. fibres[k].made = "T_malloc" => pc[k] = "idle" /\ calls[k] = N
      BY <2>4, <3>1 DEF InLibrary, Allocates
    <3> QED BY <1>2, <1>3, <2>1, <2>4, <3>2 DEF LoopOf
  <2> QED BY <1>3, <2>2, <2>3, <2>4
<1> QED BY <1>1, <1>4, <1>5 DEF ThreadsInv

\* A step of thread k inside mymalloc.
LEMMA InMallocInv ==
  ASSUME ThreadsInv, NEW k \in Threads \cup {1}, InMalloc(k)
  PROVE  ThreadsInv'
<1>1. k \in Threads /\ k # 1 /\ k \in DOMAIN fibres /\ MallocStep(k) /\ UNCHANGED vars
  BY DEF InMalloc, Allocates
<1>2. MallocInv' /\ LibInv'
  BY <1>1, MallocNextInv, LibNextInv DEF ThreadsInv, MallocNext
<1>3. fibres' = fibres
  BY <1>1 DEF vars
<1>4. fibres[k].pc = "run" /\ fibres[k].made = "T_malloc"
  BY <1>1 DEF InMalloc, Allocates, ThreadsInv, Started
<1>5. \A j \in Threads : j # k => pc'[j] = pc[j] /\ calls'[j] = calls[j]
  BY <1>1 DEF MallocStep, Call, Lock, Load, Store, Unlock, ThreadsInv, MallocInv, MallocTypeOK
<1>6. \A j \in Threads : LoopOf(j)'
  BY <1>1, <1>3, <1>4, <1>5 DEF LoopOf, ThreadsInv
<1>7. Started'
  BY <1>3 DEF Started, ThreadsInv
<1> QED BY <1>2, <1>6, <1>7 DEF ThreadsInv

\* Every step of the composed program keeps the invariant.
LEMMA ThreadsNextInv == ThreadsInv /\ [ThreadsNext]_allVars => ThreadsInv'
<1> SUFFICES ASSUME ThreadsInv, [ThreadsNext]_allVars PROVE ThreadsInv'
  OBVIOUS
<1>1. CASE UNCHANGED mallocVars /\ fibres' = fibres /\ (Exiting \/ UNCHANGED vars)
  <2>1. MallocInv' /\ LibInv'
    BY <1>1, MallocNextInv, LibNextInv DEF ThreadsInv, Exiting, Alive, Next
  <2>2. pc' = pc /\ calls' = calls
    BY <1>1 DEF mallocVars
  <2> QED BY <1>1, <2>1, <2>2 DEF ThreadsInv, Started, LoopOf
<1>2. CASE Exiting
  BY <1>1, <1>2 DEF Exiting, Join
<1>3. CASE UNCHANGED allVars \/ (Exited /\ UNCHANGED mallocVars)
  BY <1>1, <1>3 DEF allVars, vars, Exited
<1> QED BY <1>2, <1>3, InLibraryInv, InMallocInv DEF ThreadsNext

\* The invariant of the composition.
THEOREM ThreadsInvariance == ThreadsSpec => []ThreadsInv
  BY ThreadsInitInv, ThreadsNextInv, PTL DEF ThreadsSpec

\* In a program whose threads come and go, malloc_count is exact at every
\* moment: a thread that is created or returns while another is in the lock
\* disturbs nothing.
THEOREM ThreadsCount == ThreadsSpec => []CountExact
  BY ThreadsInvariance, PTL DEF ThreadsInv, MallocInv

\* join() waits for all threads, also for those that wait for the lock.
THEOREM ThreadsJoin == ThreadsSpec => []JoinWaitsForAll
  BY ThreadsInvariance, JoinFromInv, PTL DEF ThreadsInv

\* Each thread runs its function in its own slot.
THEOREM ThreadsFunctions == ThreadsSpec => []RunsItsFunction
  BY ThreadsInvariance, FunctionsFromInv, PTL DEF ThreadsInv

\* "malloc_count should be 4N" when the process exits, whatever functions the
\* program spawns and however many of its threads call mymalloc.
THEOREM ExitCount == ThreadsSpec => []CountAtExit
<1>1. ThreadsInv => CountAtExit
  <2> SUFFICES ASSUME ThreadsInv, JoinDone
               PROVE  malloc_count =
                        N * Cardinality({k \in DOMAIN fibres : fibres[k].made = "T_malloc"})
    BY DEF CountAtExit
  <2> DEFINE K == {k \in DOMAIN fibres : fibres[k].made = "T_malloc"}
  <2>1. \A k \in DOMAIN fibres \ {1} : fibres[k].pc = "returned"
    BY JoinFromInv DEF ThreadsInv, JoinWaitsForAll
  <2>2. fibres[1].made = "main"
    BY DEF ThreadsInv, LibInv, MainSpawns
  <2>3. K \subseteq Threads /\ 1 \notin K
    BY <2>1, <2>2 DEF ThreadsInv, Started
  <2>4. \A k \in Threads : /\ pc[k] = "idle"
                           /\ calls[k] = IF k \in K THEN N ELSE 0
    BY <2>1, <2>2, <2>3 DEF ThreadsInv, LoopOf
  <2>5. Counted = K \X (1..N)
    <3>1. \A k \in Threads, i \in 1..N : <<k, i>> \in Counted <=> k \in K
      BY <2>4, ThreadsAssumption DEF Counted
    <3>2. Counted \subseteq Threads \X (1..N) /\ K \X (1..N) \subseteq Threads \X (1..N)
      BY <2>3 DEF Counted
    <3> HIDE DEF K
    <3> QED BY <3>1, <3>2
  <2> HIDE DEF K
  <2>6. IsFiniteSet(K) /\ Cardinality(K) \in Nat
    BY <2>3, ThreadsAssumption, FS_Subset, FS_CardinalityType
  <2>7. IsFiniteSet(1..N) /\ Cardinality(1..N) = N
    BY ThreadsAssumption, FS_Interval
  <2>8. Cardinality(K \X (1..N)) = Cardinality(K) * N
    BY <2>6, <2>7, FS_Product
  <2>9. malloc_count = Cardinality(K) * N
    BY <2>5, <2>8 DEF ThreadsInv, MallocInv, CountExact
  <2>10. Cardinality(K) * N = N * Cardinality(K)
    BY <2>6, ThreadsAssumption
  <2> QED BY <2>9, <2>10 DEF K
<1> QED BY <1>1, ThreadsInvariance, PTL
=============================================================================
