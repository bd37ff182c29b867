---------------------------- MODULE PstreeProofs -----------------------------
(***************************************************************************)
(* pstree prints every process it recorded below process 1 once, and every *)
(* process that was there all along, for any number of processes, any size *)
(* of the hash table, any kernel and any names.                             *)
(***************************************************************************)
EXTENDS Pstree, SequenceTheorems, WellFoundedInduction, TLAPS

Slots == 0..(HASH_TABLE_SIZE - 1)

\* The scan has passed the pids up to its cursor, but for the entry that is
\* still to be read; what it has passed is recorded if it is stable.
Scanned ==
    /\ entry # None => pc = "scan" /\ entry = cursor
    /\ \A p \in Recorded : p <= cursor /\ p # entry
    /\ par[1] = 0 /\ 1 \in stable
    /\ \A p \in stable : par[p] # None /\ (pc # "scan" => p <= cursor)
    /\ \A p \in stable \ OddNames : p <= cursor /\ p # entry => node[p] = par[p]

\* The hash table holds each recorded process once, in its bucket.
Hashed == \A i \in Slots :
    /\ IsInjective(buckets[i])
    /\ Range(buckets[i]) = {p \in Recorded : p % HASH_TABLE_SIZE = i}

\* What the linking loop has still to visit.
Unvisited == \A i \in Slots :
    /\ IsInjective(unlinked[i])
    /\ Range(unlinked[i]) \subseteq {p \in Recorded : p % HASH_TABLE_SIZE = i}
    /\ pc \in {"scan", "print", "done"} => unlinked[i] = <<>>

\* The processes the linking loop has visited.
Visited == IF pc = "scan" THEN {}
           ELSE {p \in Recorded : p \notin Range(unlinked[p % HASH_TABLE_SIZE])}

\* Each is in the list of its parent, if that is recorded, once.
Linked == \A q \in Pids :
    /\ IsInjective(children[q])
    /\ Range(children[q]) = {p \in Visited : q \in Recorded /\ node[p] = q}

\* The siblings print_node has still to visit.
Waiting == UNION {Range(frames[k]) : k \in DOMAIN frames}

\* The printed processes and those waiting are different ones, the latter
\* children of the former.
Walk ==
    /\ IsInjective(printed)
    /\ \A k \in DOMAIN frames : IsInjective(frames[k])
    /\ \A k, l \in DOMAIN frames : k # l => Range(frames[k]) \cap Range(frames[l]) = {}
    /\ Range(printed) \cap Waiting = {}
    /\ \A p \in Range(printed) : p \in Recorded /\ (p = 1 \/ node[p] \in Range(printed))
    /\ \A p \in Waiting : p \in Recorded /\ node[p] \in Range(printed)

\* Every child of a printed process is printed or waiting.
Complete == \A p \in Recorded : node[p] \in Range(printed) => p \in Range(printed) \cup Waiting

\* A set of recorded processes with process 1 and all its descendants.
Family(T) == 1 \in T /\ \A q \in Recorded : node[q] \in T => q \in T

\* Nothing is printed that does not descend from process 1.
Sound == \A T \in SUBSET Recorded : Family(T) => Range(printed) \cup Waiting \subseteq T

\* The output starts with process 1 and ends when nothing is waiting.
Phase ==
    /\ pc \in {"scan", "link"} => printed = <<>> /\ frames = <<>>
    /\ pc \in {"print", "done"} => 1 \in Range(printed)
    /\ pc = "done" => frames = <<>>

\* The inductive invariant.
IInv == TypeOK /\ Scanned /\ Hashed /\ Unvisited /\ Linked /\ Walk /\ Complete /\ Sound /\ Phase

-----------------------------------------------------------------------------
(* Lists. *)

\* Inserting at the head.
LEMMA ConsList ==
  ASSUME NEW S, NEW s \in Seq(S), NEW x \in S
  PROVE  /\ <<x>> \o s \in Seq(S)
         /\ Range(<<x>> \o s) = {x} \cup Range(s)
         /\ IsInjective(s) /\ x \notin Range(s) => IsInjective(<<x>> \o s)
<1> DEFINE t == <<x>> \o s
<1>1. /\ t \in Seq(S) /\ Len(t) = 1 + Len(s)
      /\ \A i \in 1..(1 + Len(s)) : t[i] = IF i <= 1 THEN x ELSE s[i - 1]
  <2>1. <<x>> \in Seq(S) /\ Len(<<x>>) = 1 /\ <<x>>[1] = x
    OBVIOUS
  <2> QED BY <2>1, ConcatProperties
<1>2. Len(s) \in Nat /\ DOMAIN s = 1..Len(s) /\ DOMAIN t = 1..(1 + Len(s))
  BY <1>1
<1> HIDE DEF t
<1>3. \A i \in DOMAIN s : i + 1 \in DOMAIN t /\ t[i + 1] = s[i]
  BY <1>1, <1>2
<1>4. 1 \in DOMAIN t /\ t[1] = x /\ \A i \in DOMAIN t : i = 1 \/ (i - 1 \in DOMAIN s /\ t[i] = s[i - 1])
  BY <1>1, <1>2
<1>5. Range(t) = {x} \cup Range(s)
  BY <1>3, <1>4 DEF Range
<1>6. ASSUME IsInjective(s), x \notin Range(s) PROVE IsInjective(t)
  <2> SUFFICES ASSUME NEW a \in DOMAIN t, NEW b \in DOMAIN t, t[a] = t[b] PROVE a = b
    BY DEF IsInjective
  <2>1. a \in Int /\ b \in Int
    BY <1>2
  <2>2. a = 1 <=> b = 1
    BY <1>4, <1>6 DEF Range
  <2> QED BY <1>4, <1>6, <2>1, <2>2 DEF IsInjective
<1> QED BY <1>1, <1>5, <1>6 DEF t

\* Taking the head off.
LEMMA HeadTailList ==
  ASSUME NEW S, NEW s \in Seq(S), s # <<>>
  PROVE  /\ Head(s) \in S /\ Tail(s) \in Seq(S)
         /\ Range(s) = {Head(s)} \cup Range(Tail(s))
         /\ IsInjective(s) => IsInjective(Tail(s)) /\ Head(s) \notin Range(Tail(s))
<1> DEFINE t == Tail(s)
<1>1. /\ Head(s) \in S /\ t \in Seq(S) /\ Len(t) = Len(s) - 1
      /\ \A i \in 1..Len(t) : t[i] = s[i + 1]
  BY HeadTailProperties
<1>2. Len(s) \in Nat /\ Len(s) > 0 /\ DOMAIN s = 1..Len(s) /\ DOMAIN t = 1..(Len(s) - 1)
  BY <1>1, LenProperties, EmptySeq
<1>3. Head(s) = s[1] /\ 1 \in DOMAIN s
  BY <1>2
<1> HIDE DEF t
<1>4. \A i \in DOMAIN t : i + 1 \in DOMAIN s /\ i # 0 /\ i \in Int /\ t[i] = s[i + 1]
  BY <1>1, <1>2
<1>5. \A i \in DOMAIN s : i = 1 \/ (i - 1 \in DOMAIN t /\ s[i] = t[i - 1])
  BY <1>1, <1>2
<1>6. Range(s) = {Head(s)} \cup Range(t)
  BY <1>3, <1>4, <1>5 DEF Range
<1>7. ASSUME IsInjective(s) PROVE IsInjective(t) /\ Head(s) \notin Range(t)
  <2>1. IsInjective(t)
    BY <1>4, <1>7 DEF IsInjective
  <2>2. Head(s) \notin Range(t)
    BY <1>3, <1>4, <1>7 DEF IsInjective, Range
  <2> QED BY <2>1, <2>2
<1> QED BY <1>1, <1>6, <1>7 DEF t

\* Appending.
LEMMA AppendList ==
  ASSUME NEW S, NEW s \in Seq(S), NEW x \in S
  PROVE  /\ Append(s, x) \in Seq(S)
         /\ Range(Append(s, x)) = Range(s) \cup {x}
         /\ IsInjective(s) /\ x \notin Range(s) => IsInjective(Append(s, x))
<1> DEFINE t == Append(s, x)
<1>1. /\ t \in Seq(S) /\ Len(t) = Len(s) + 1 /\ t[Len(s) + 1] = x
      /\ \A i \in 1..Len(s) : t[i] = s[i]
  BY AppendProperties
<1>2. Len(s) \in Nat /\ DOMAIN s = 1..Len(s) /\ DOMAIN t = 1..(Len(s) + 1)
  BY <1>1
<1> HIDE DEF t
<1>3. \A i \in DOMAIN t : i = Len(s) + 1 \/ (i \in DOMAIN s /\ t[i] = s[i])
  BY <1>1, <1>2
<1>4. DOMAIN s \subseteq DOMAIN t /\ Len(s) + 1 \in DOMAIN t
  BY <1>2
<1>5. Range(t) = Range(s) \cup {x}
  BY <1>1, <1>2, <1>3, <1>4 DEF Range
<1>6. ASSUME IsInjective(s), x \notin Range(s) PROVE IsInjective(t)
  BY <1>1, <1>3, <1>6 DEF IsInjective, Range
<1> QED BY <1>1, <1>5, <1>6 DEF t

-----------------------------------------------------------------------------
(* Sorting. *)

Less == {ss \in Nat \X Nat : ss[1] < ss[2]}

\* A set of naturals that is not empty has a least element.
LEMMA LeastNat ==
  ASSUME NEW T \in SUBSET Nat, T # {}
  PROVE  \E x \in T : \A y \in T : x <= y
<1>1. IsWellFoundedOn(Less, Nat) /\ T \subseteq Nat
  BY NatLessThanWellFounded DEF OpToRel, Less
<1>2. PICK x \in T : \A y \in T : ~(<<y, x>> \in Less)
  BY ONLY <1>1, T # {}, WFMin
<1>3. \A y \in T : ~(y < x)
  BY <1>1, <1>2 DEF Less
<1> QED BY <1>1, <1>3

\* Every list of n pids can be arranged by pid.
Sortable(n) == \A s \in [1..n -> Pids] : \E f \in Bijection(1..n, 1..n) :
    \A i, j \in 1..n : i < j => s[f[i]] <= s[f[j]]

\* Lists of one more: the largest pid goes to the end.
LEMMA SortableStep ==
  ASSUME NEW n \in Nat, Sortable(n)
  PROVE  Sortable(n + 1)
<1> DEFINE m == n + 1
<1> SUFFICES ASSUME NEW s \in [1..m -> Pids]
             PROVE  \E f \in Bijection(1..m, 1..m) : \A i, j \in 1..m : i < j => s[f[i]] <= s[f[j]]
  BY DEF Sortable
<1>0. Pids \subseteq Int /\ N \in Nat /\ m \in Nat /\ m \in 1..m /\ 1..n \subseteq 1..m
  BY NAssumption DEF Pids
<1>1. PICK k \in 1..m : \A i \in 1..m : s[i] <= s[k]
  <2> DEFINE T == {N - s[i] : i \in 1..m}
  <2>1. T \subseteq Nat /\ N - s[m] \in T
    BY <1>0 DEF Pids
  <2>2. PICK x \in T : \A y \in T : x <= y
    <3> HIDE DEF T
    <3> QED BY <2>1, LeastNat
  <2>3. PICK k \in 1..m : x = N - s[k]
    BY <2>2
  <2>4. \A i \in 1..m : N - s[k] <= N - s[i] /\ s[i] \in Int
    BY <1>0, <2>2, <2>3
  <2>5. \A i \in 1..m : s[i] <= s[k]
    BY <1>0, <2>4
  <2> QED BY <2>5
<1> DEFINE t == [i \in 1..n |-> IF i = k THEN s[m] ELSE s[i]]
<1>2. t \in [1..n -> Pids]
  BY <1>0
<1>3. PICK g \in Bijection(1..n, 1..n) : \A i, j \in 1..n : i < j => t[g[i]] <= t[g[j]]
  <2> HIDE DEF t
  <2> QED BY <1>2 DEF Sortable
<1>4. /\ g \in [1..n -> 1..n]
      /\ \A a, b \in 1..n : g[a] = g[b] => a = b
      /\ \A b \in 1..n : \E a \in 1..n : g[a] = b
  BY <1>3 DEF Bijection, Injection, Surjection, IsInjective
<1> DEFINE f == [i \in 1..m |-> IF i = m THEN k ELSE IF g[i] = k THEN m ELSE g[i]]
<1>5. \A i \in 1..m : i = m \/ i \in 1..n
  BY <1>0
<1>6. f \in [1..m -> 1..m]
  BY <1>0, <1>4, <1>5
<1>7. \A a, b \in 1..m : f[a] = f[b] => a = b
  <2>1. m \notin 1..n
    OBVIOUS
  <2>2. \A a \in 1..n : a # m /\ g[a] \in 1..n /\ g[a] # m
    <3>1. g \in [1..n -> 1..n]
      BY <1>4
    <3> HIDE DEF m
    <3> QED BY <2>1, <3>1
  <2> HIDE DEF m
  <2>3. \A a \in 1..n : f[a] # k
    BY <1>0, <2>1, <2>2
  <2>4. \A a, b \in 1..n : f[a] = f[b] => a = b
    BY <1>0, <1>4, <2>1, <2>2
  <2> QED BY <1>0, <1>5, <2>3, <2>4
<1>8. \A b \in 1..m : \E a \in 1..m : f[a] = b
  <2> TAKE b \in 1..m
  <2>0. m \notin 1..n
    OBVIOUS
  <2> HIDE DEF m
  <2>1. CASE b = k
    BY <1>0, <2>1
  <2>2. CASE b # k /\ b # m
    <3>1. PICK a \in 1..n : g[a] = b
      BY <1>4, <1>5, <2>2
    <3> QED BY <1>0, <2>0, <2>2, <3>1
  <2>3. CASE b # k /\ b = m
    <3>1. PICK a \in 1..n : g[a] = k
      BY <1>4, <1>5, <2>3
    <3> QED BY <1>0, <2>0, <2>3, <3>1
  <2> QED BY <2>1, <2>2, <2>3
<1>9. f \in Bijection(1..m, 1..m)
  BY <1>6, <1>7, <1>8 DEF Bijection, Injection, Surjection, IsInjective
<1>10. \A i \in 1..n : i # m /\ s[f[i]] = t[g[i]]
  <2> TAKE i \in 1..n
  <2>1. g \in [1..n -> 1..n] /\ m \notin 1..n
    BY <1>4
  <2> HIDE DEF m
  <2>2. g[i] \in 1..n /\ i # m /\ i \in 1..m
    BY <1>0, <2>1
  <2>3. t[g[i]] = IF g[i] = k THEN s[m] ELSE s[g[i]]
    BY <2>2
  <2>4. f[i] = IF g[i] = k THEN m ELSE g[i]
    BY <2>2
  <2> QED BY <2>2, <2>3, <2>4
<1>11. s[f[m]] = s[k] /\ \A i \in 1..m : f[i] \in 1..m
  BY <1>0, <1>6
<1>12. \A i, j \in 1..m : i < j => s[f[i]] <= s[f[j]]
  <2> SUFFICES ASSUME NEW i \in 1..m, NEW j \in 1..m, i < j PROVE s[f[i]] <= s[f[j]]
    OBVIOUS
  <2>1. i \in 1..n
    BY <1>5
  <2> HIDE DEF f, t, m
  <2>2. CASE j = m
    BY <1>1, <1>11, <2>2
  <2>3. CASE j # m
    BY <1>3, <1>5, <1>10, <2>1, <2>3
  <2> QED BY <2>2, <2>3
<1> HIDE DEF f
<1> QED BY <1>9, <1>12

\* Every list of pids has a sorted arrangement.
LEMMA AllSortable == \A n \in Nat : Sortable(n)
<1> SUFFICES ASSUME \E n \in Nat : ~Sortable(n) PROVE FALSE
  OBVIOUS
<1>1. PICK n \in {k \in Nat : ~Sortable(k)} : \A y \in {k \in Nat : ~Sortable(k)} : n <= y
  <2> DEFINE T == {k \in Nat : ~Sortable(k)}
  <2>1. T \in SUBSET Nat /\ T # {}
    OBVIOUS
  <2> HIDE DEF T
  <2>2. \E x \in T : \A y \in T : x <= y
    BY <2>1, LeastNat
  <2> QED BY <2>2 DEF T
<1>2. Sortable(0)
  <2> SUFFICES ASSUME NEW s \in [1..0 -> Pids]
               PROVE  \E f \in Bijection(1..0, 1..0) : \A i, j \in 1..0 : i < j => s[f[i]] <= s[f[j]]
    BY DEF Sortable
  <2>1. [i \in 1..0 |-> i] \in Bijection(1..0, 1..0)
    BY DEF Bijection, Injection, Surjection, IsInjective
  <2> QED BY <2>1
<1>3. n \in Nat /\ n # 0
  BY <1>1, <1>2
<1>4. n - 1 \in Nat /\ ~(n <= n - 1)
  BY <1>3
<1>5. Sortable(n - 1)
  BY <1>1, <1>4
<1>6. Sortable((n - 1) + 1)
  BY <1>4, <1>5, SortableStep
<1>7. (n - 1) + 1 = n
  BY <1>3
<1> QED BY <1>1, <1>6, <1>7

\* sort_children neither loses nor repeats a child.
LEMMA SortedList ==
  ASSUME NEW l \in Seq(Pids)
  PROVE  /\ qsort(l) \in Seq(Pids)
         /\ Range(qsort(l)) = Range(l)
         /\ IsInjective(l) => IsInjective(qsort(l))
<1> DEFINE n == Len(l)
<1>1. n \in Nat /\ l \in [1..n -> Pids] /\ DOMAIN l = 1..n
  OBVIOUS
<1> HIDE DEF n
<1>2. PICK f \in Bijection(1..n, 1..n) : \A i, j \in 1..n : i < j => l[f[i]] <= l[f[j]]
  BY <1>1, AllSortable DEF Sortable
<1> DEFINE s == [i \in 1..n |-> l[f[i]]]
<1>3. s \in Arrangements(l) /\ \A i, j \in DOMAIN l : i < j => s[i] <= s[j]
  BY <1>1, <1>2 DEF Arrangements
<1>4. qsort(l) \in Arrangements(l)
  <2> HIDE DEF s
  <2> QED BY <1>3 DEF qsort
<1>5. PICK g \in Bijection(1..n, 1..n) : qsort(l) = [i \in 1..n |-> l[g[i]]]
  BY <1>1, <1>4 DEF Arrangements
<1>6. /\ g \in [1..n -> 1..n]
      /\ \A a, b \in 1..n : g[a] = g[b] => a = b
      /\ \A b \in 1..n : \E a \in 1..n : g[a] = b
  BY <1>5 DEF Bijection, Injection, Surjection, IsInjective
<1> HIDE DEF s
<1>7. /\ DOMAIN qsort(l) = 1..n /\ qsort(l) \in [1..n -> Pids]
      /\ \A i \in 1..n : qsort(l)[i] = l[g[i]] /\ g[i] \in 1..n
  <2>1. \A i \in 1..n : g[i] \in 1..n
    BY <1>6
  <2>2. \A i \in 1..n : l[g[i]] \in Pids
    BY <1>1, <2>1
  <2> QED BY <1>5, <2>1, <2>2
<1>8. qsort(l) \in Seq(Pids)
  BY <1>1, <1>7, IsASeq
<1>9. Range(qsort(l)) = Range(l)
  <2> DEFINE q == qsort(l)
  <2>0. DOMAIN q = 1..n /\ DOMAIN l = 1..n
    BY <1>1, <1>7
  <2>1. ASSUME NEW b \in 1..n PROVE \E a \in 1..n : q[a] = l[b]
    <3>1. PICK a \in 1..n : g[a] = b
      BY <1>6
    <3>2. q[a] = l[g[a]]
      BY <1>7
    <3> QED BY <3>1, <3>2
  <2>2. ASSUME NEW a \in 1..n PROVE \E b \in 1..n : q[a] = l[b]
    BY <1>7
  <2> HIDE DEF q
  <2>3. Range(q) \subseteq Range(l)
    BY <2>0, <2>2 DEF Range
  <2>4. Range(l) \subseteq Range(q)
    BY <2>0, <2>1 DEF Range
  <2> QED BY <2>3, <2>4 DEF q
<1>10. IsInjective(l) => IsInjective(qsort(l))
  BY <1>1, <1>6, <1>7 DEF IsInjective
<1> QED BY <1>8, <1>9, <1>10

-----------------------------------------------------------------------------
(* The scan. *)

\* The empty list.
LEMMA EmptyList == Range(<<>>) = {} /\ IsInjective(<<>>)
  BY DEF Range, IsInjective

\* Process 1 and the numbers that stand for no pid.
LEMMA PidFacts == /\ Pids \subseteq Nat /\ 1 \in Pids /\ 0 \notin Pids /\ None \notin Pids
                  /\ None # 0 /\ 1 \notin OddNames
                  /\ \A p \in Pids : p % HASH_TABLE_SIZE \in Slots
  BY NAssumption, OddAssumption DEF Pids, None, Slots

\* The invariant holds when main starts.
LEMMA InitInv == Init => IInv
<1> SUFFICES ASSUME Init PROVE IInv
  OBVIOUS
<1>1. par \in [Pids -> Pids \cup {0, None}] /\ par[1] = 0 /\ stable = Alive(par)
  BY DEF Init, Trees
<1>2. Recorded = {} /\ Range(printed) = {} /\ Waiting = {} /\ frames = <<>> /\ printed = <<>>
  BY EmptyList DEF Init, Recorded, Waiting
<1>3. TypeOK
  BY <1>1, NAssumption DEF Init, TypeOK, Alive
<1>4. Scanned
  BY <1>1, <1>2, PidFacts DEF Init, Scanned, Alive
<1>5. Hashed /\ Unvisited /\ Linked
  BY <1>2, EmptyList DEF Init, Hashed, Unvisited, Linked, Visited, Slots
<1>6. Walk /\ Complete /\ Sound /\ Phase
  BY <1>2, EmptyList DEF Init, Walk, Complete, Sound, Phase
<1> QED BY <1>3, <1>4, <1>5, <1>6 DEF IInv

\* What stays when neither the nodes nor the output change.
LEMMA OutputSame ==
  ASSUME UNCHANGED <<node, frames, printed>>, Walk, Complete, Sound
  PROVE  Recorded' = Recorded /\ Walk' /\ Complete' /\ Sound'
<1>1. Recorded' = Recorded /\ Waiting' = Waiting
  BY DEF Recorded, Waiting
<1>2. Walk'
  BY <1>1 DEF Walk
<1>3. Complete'
  BY <1>1 DEF Complete
<1>4. Sound'
  BY <1>1 DEF Sound, Family
<1> QED BY <1>1, <1>2, <1>3, <1>4

\* What stays when nothing of the program changes but its scan.
LEMMA TablesSame ==
  ASSUME UNCHANGED <<pc, node, buckets, unlinked, children, frames, printed>>,
         Hashed, Unvisited, Linked, Walk, Complete, Sound, Phase
  PROVE  /\ Recorded' = Recorded
         /\ Hashed' /\ Unvisited' /\ Linked' /\ Walk' /\ Complete' /\ Sound' /\ Phase'
<1>1. Recorded' = Recorded /\ Walk' /\ Complete' /\ Sound'
  BY OutputSame
<1>2. Hashed'
  BY <1>1 DEF Hashed
<1>3. Unvisited'
  BY <1>1 DEF Unvisited
<1>4. Linked'
  <2>1. Visited' = Visited
    BY <1>1 DEF Visited
  <2> QED BY <1>1, <2>1 DEF Linked
<1>5. Phase'
  BY DEF Phase
<1> QED BY <1>1, <1>2, <1>3, <1>4, <1>5

\* The kernel changes no process that is stable.
LEMMA KernelInv ==
  ASSUME IInv, NEW p \in Pids, NEW q \in Pids, Fork(p, q) \/ Exit(p)
  PROVE  IInv'
<1>0. TypeOK /\ Scanned /\ UNCHANGED <<option, pc, cursor, entry, node, buckets, unlinked, children,
                                       frames, printed>>
  BY DEF IInv, Fork, Exit
<1>1. Recorded' = Recorded
  BY <1>0 DEF Recorded
<1>2. TypeOK'
  <2>1. changes' \in 0..MaxChanges
    BY <1>0, NAssumption DEF TypeOK, Fork, Exit
  <2>2. par' \in [Pids -> Pids \cup {0, None}] /\ stable' \subseteq Pids
    BY <1>0, PidFacts DEF TypeOK, Fork, Exit
  <2> QED BY <1>0, <2>1, <2>2 DEF TypeOK
<1>3. Scanned'
  <2>1. stable' \subseteq stable /\ \A x \in stable' : par'[x] = par[x]
    BY <1>0, PidFacts DEF Fork, Exit, Scanned, TypeOK
  <2>2. 1 \in stable'
    BY <1>0, PidFacts DEF Fork, Exit, Scanned, TypeOK
  <2> QED BY <1>0, <1>1, <2>1, <2>2 DEF Scanned
<1> QED BY <1>0, <1>2, <1>3, TablesSame DEF IInv

\* readdir passes no stable process but the one it returns.
LEMMA ReadDirInv ==
  ASSUME IInv, ReadDir
  PROVE  IInv'
<1> DEFINE ahead == {p \in Pids : p > cursor /\ par[p] # None}
<1>0. /\ TypeOK /\ Scanned /\ pc = "scan" /\ entry = None /\ cursor \in Nat /\ stable \subseteq Pids
      /\ UNCHANGED <<kernel, option, node, buckets, children, frames, printed>>
      /\ Recorded' = Recorded /\ Recorded \subseteq Pids
  <2>1. /\ pc = "scan" /\ entry = None
        /\ UNCHANGED <<kernel, option, node, buckets, children, frames, printed>>
    BY DEF ReadDir
  <2>2. cursor \in Nat /\ stable \subseteq Pids /\ TypeOK /\ Scanned
    BY NAssumption DEF IInv, TypeOK
  <2> QED BY <2>1, <2>2 DEF Recorded
<1>1. CASE ahead # {}
  <2>1. entry' = CHOOSE p \in ahead : \A q \in ahead : p <= q
    BY <1>1 DEF ReadDir
  <2>2. cursor' = entry' /\ pc' = pc /\ unlinked' = unlinked
    BY <1>1 DEF ReadDir
  <2>3. entry' \in ahead /\ \A q \in ahead : entry' <= q
    <3>1. ahead \in SUBSET Nat
      BY PidFacts
    <3> HIDE DEF ahead
    <3>2. \E p \in ahead : \A q \in ahead : p <= q
      BY <1>1, <3>1, LeastNat
    <3> QED BY <2>1, <3>2
  <2>4. TypeOK'
    <3>1. cursor' \in 0..N /\ entry' \in Pids
      BY <2>2, <2>3, NAssumption DEF Pids
    <3> QED BY <1>0, <2>2, <3>1 DEF TypeOK, kernel
  <2>5. Scanned'
    <3>1. entry' \in Pids /\ entry' > cursor /\ \A q \in Pids : q > cursor /\ par[q] # None => entry' <= q
      BY <2>3
    <3>2. \A p \in Recorded : p <= entry' /\ p # entry'
      BY <1>0, <3>1, PidFacts DEF Scanned
    <3>3. \A p \in stable \ OddNames : p <= entry' /\ p # entry' => node[p] = par[p]
      <4> SUFFICES ASSUME NEW p \in stable \ OddNames, p <= entry', p # entry' PROVE node[p] = par[p]
        OBVIOUS
      <4>1. p \in Pids /\ p \in Nat /\ par[p] # None /\ p # entry
        BY <1>0, PidFacts DEF Scanned
      <4>2. p <= cursor
        BY <1>0, <3>1, <4>1, PidFacts
      <4> QED BY <1>0, <4>1, <4>2 DEF Scanned
    <3> HIDE DEF ahead
    <3> QED BY <1>0, <2>2, <3>2, <3>3 DEF Scanned, kernel
  <2> QED BY <1>0, <2>2, <2>4, <2>5, TablesSame DEF IInv
<1>2. CASE ahead = {}
  <2>1. pc' = "link" /\ unlinked' = buckets /\ cursor' = cursor /\ entry' = entry
    BY <1>2 DEF ReadDir
  <2>2. TypeOK'
    BY <1>0, <2>1 DEF TypeOK, kernel
  <2>3. Scanned'
    <3>1. \A p \in stable : p <= cursor
      <4> SUFFICES ASSUME NEW p \in stable PROVE p <= cursor
        OBVIOUS
      <4>1. p \in Pids /\ p \in Nat /\ par[p] # None
        BY <1>0, PidFacts DEF Scanned
      <4> QED BY <1>0, <1>2, <4>1
    <3> QED BY <1>0, <2>1, <3>1 DEF Scanned, kernel
  <2>4. Hashed' /\ Unvisited'
    BY <1>0, <2>1 DEF IInv, Hashed, Unvisited
  <2>5. Linked'
    <3>1. Visited = {}
      BY <1>0 DEF Visited
    <3>2. Visited' = {}
      BY <1>0, <2>1, PidFacts DEF Visited, IInv, Hashed
    <3> QED BY <1>0, <3>1, <3>2 DEF IInv, Linked
  <2>6. Walk' /\ Complete' /\ Sound'
    BY <1>0, OutputSame DEF IInv
  <2>7. Phase'
    BY <1>0, <2>1 DEF IInv, Phase
  <2> QED BY <2>2, <2>3, <2>4, <2>5, <2>6, <2>7 DEF IInv
<1> QED BY <1>1, <1>2

\* A process that is read is recorded once, with the ppid that was read.
LEMMA ReadInfoInv ==
  ASSUME IInv, ReadInfo
  PROVE  IInv'
<1>0. /\ TypeOK /\ Scanned /\ pc = "scan" /\ entry \in Pids /\ entry = cursor
      /\ stable \subseteq Pids /\ Recorded \subseteq Pids
  BY DEF IInv, ReadInfo, TypeOK, Recorded, Scanned
<1>1. /\ UNCHANGED <<kernel, option, pc, cursor, unlinked, children, frames, printed>>
      /\ entry' = None
  BY DEF ReadInfo
<1>2. CASE par[entry] = None
  <2>1. UNCHANGED <<node, buckets>> /\ Recorded' = Recorded
    BY <1>2 DEF ReadInfo, Recorded
  <2>2. TypeOK'
    BY <1>0, <1>1, <2>1 DEF TypeOK, kernel
  <2>3. Scanned'
    BY <1>0, <1>1, <1>2, <2>1, PidFacts DEF Scanned, kernel
  <2> QED BY <1>1, <2>1, <2>2, <2>3, TablesSame DEF IInv
<1>3. CASE par[entry] # None
  <2>1. PICK ppid \in ParsedPpid(entry) : node' = [node EXCEPT ![entry] = ppid]
    BY <1>3 DEF ReadInfo
  <2>2. buckets' = hash_table_insert(entry)
    BY <1>3 DEF ReadInfo
  <2>3. ppid \in Pids \cup {0} /\ ppid # None
    BY <1>0, <1>3, PidFacts DEF ParsedPpid, TypeOK
  <2>4. entry \notin OddNames => ppid = par[entry]
    BY DEF ParsedPpid
  <2>5. node \in [Pids -> Pids \cup {0, None}] /\ node' \in [Pids -> Pids \cup {0, None}]
    BY <1>0, <2>1, <2>3 DEF TypeOK
  <2>6. Recorded' = Recorded \cup {entry} /\ entry \notin Recorded
    BY <1>0, <2>1, <2>3, <2>5 DEF Recorded, Scanned
  <2> DEFINE slot == entry % HASH_TABLE_SIZE
             old == buckets[slot]
             new == <<entry>> \o old
  <2>7. slot \in Slots /\ old \in Seq(Pids) /\ buckets' = [buckets EXCEPT ![slot] = new]
    BY <1>0, <2>2, PidFacts DEF TypeOK, hash_table_insert, Slots
  <2> HIDE DEF slot, old, new
  <2>8. IsInjective(old) /\ Range(old) = {p \in Recorded : p % HASH_TABLE_SIZE = slot}
    BY <2>7 DEF IInv, Hashed, old
  <2>9. new \in Seq(Pids) /\ Range(new) = {entry} \cup Range(old) /\ IsInjective(new)
    BY <1>0, <2>6, <2>7, <2>8, ConsList DEF new
  <2>10. TypeOK'
    <3>1. buckets' \in [Slots -> Seq(Pids)]
      BY <1>0, <2>7, <2>9 DEF TypeOK, Slots
    <3> QED BY <1>0, <1>1, <2>5, <3>1 DEF TypeOK, kernel, Slots
  <2>11. Scanned'
    <3>1. \A p \in Recorded' : p <= cursor /\ p # entry'
      BY <1>0, <1>1, <2>6, PidFacts DEF Scanned
    <3>2. \A p \in stable \ OddNames : p <= cursor => node'[p] = par[p]
      BY <1>0, <2>1, <2>4, <2>5 DEF Scanned
    <3> QED BY <1>0, <1>1, <3>1, <3>2 DEF Scanned, kernel
  <2>12. Hashed'
    <3> SUFFICES ASSUME NEW i \in Slots
                 PROVE  /\ IsInjective(buckets'[i])
                        /\ Range(buckets'[i]) = {p \in Recorded' : p % HASH_TABLE_SIZE = i}
      BY DEF Hashed
    <3>1. DOMAIN buckets = Slots
      BY <1>0 DEF TypeOK, Slots
    <3>2. CASE i = slot
      <4>1. buckets'[i] = new
        BY <2>7, <3>1, <3>2
      <4>2. Range(new) = {p \in Recorded' : p % HASH_TABLE_SIZE = i}
        BY <2>6, <2>8, <2>9, <3>2 DEF slot
      <4> QED BY <2>9, <4>1, <4>2
    <3>3. CASE i # slot
      <4>1. buckets'[i] = buckets[i]
        BY <2>7, <3>1, <3>3
      <4>2. {p \in Recorded' : p % HASH_TABLE_SIZE = i} = {p \in Recorded : p % HASH_TABLE_SIZE = i}
        BY <2>6, <3>3 DEF slot
      <4> QED BY <4>1, <4>2 DEF IInv, Hashed
    <3> QED BY <3>2, <3>3
  <2>13. Unvisited'
    BY <1>0, <1>1, EmptyList DEF IInv, Unvisited
  <2>14. Linked'
    <3>1. Visited = {} /\ Visited' = {}
      BY <1>0, <1>1 DEF Visited
    <3> QED BY <1>1, <3>1 DEF IInv, Linked
  <2>15. Walk' /\ Complete' /\ Sound'
    <3>1. printed' = <<>> /\ frames' = <<>>
      BY <1>0, <1>1 DEF IInv, Phase
    <3>2. Range(printed') = {} /\ Waiting' = {} /\ IsInjective(printed') /\ DOMAIN frames' = {}
      BY <3>1, EmptyList DEF Waiting
    <3> QED BY <3>2 DEF Walk, Complete, Sound
  <2>16. Phase'
    BY <1>1 DEF IInv, Phase
  <2> QED BY <2>10, <2>11, <2>12, <2>13, <2>14, <2>15, <2>16 DEF IInv
<1> QED BY <1>2, <1>3

-----------------------------------------------------------------------------
(* The links. *)

\* hash_table_lookup finds what is recorded.
LEMMA Lookup ==
  ASSUME TypeOK, Hashed, NEW q \in Pids
  PROVE  hash_table_lookup(q) <=> q \in Recorded
<1>1. q % HASH_TABLE_SIZE \in Slots
  BY PidFacts
<1>2. Range(buckets[q % HASH_TABLE_SIZE]) = {p \in Recorded : p % HASH_TABLE_SIZE = q % HASH_TABLE_SIZE}
  BY <1>1 DEF Hashed
<1>3. hash_table_lookup(q) <=> q \in Range(buckets[q % HASH_TABLE_SIZE])
  BY DEF hash_table_lookup, Range
<1> QED BY <1>2, <1>3

\* One more process is in the list of its parent.
LEMMA LinkInv ==
  ASSUME IInv, Link
  PROVE  IInv'
<1> DEFINE i == CHOOSE b \in Busy : \A j \in Busy : b <= j
           p == Head(unlinked[i])
<1>0. /\ TypeOK /\ Scanned /\ pc = "link" /\ Busy # {}
      /\ UNCHANGED <<kernel, option, pc, cursor, entry, node, buckets, frames, printed>>
      /\ Recorded' = Recorded /\ Recorded \subseteq Pids
  BY DEF IInv, Link, Recorded
<1>1. /\ unlinked' = [unlinked EXCEPT ![i] = Tail(@)]
      /\ children' = IF node[p] # 0 /\ hash_table_lookup(node[p])
                     THEN [children EXCEPT ![node[p]] = <<p>> \o @]
                     ELSE children
  BY DEF Link
<1>2. i \in Slots /\ unlinked[i] # <<>>
  <2>1. Busy \in SUBSET Nat /\ Busy \subseteq Slots
    BY <1>0, NAssumption DEF Busy, TypeOK, Slots
  <2>2. \E b \in Busy : \A j \in Busy : b <= j
    BY <1>0, <2>1, LeastNat
  <2>3. i \in Busy
    BY <2>2
  <2> QED BY <2>1, <2>3 DEF Busy
<1> HIDE DEF i
<1>3. unlinked \in [Slots -> Seq(Pids)] /\ unlinked[i] \in Seq(Pids) /\ children \in [Pids -> Seq(Pids)]
  BY <1>0, <1>2 DEF TypeOK, Slots
<1>4. /\ IsInjective(unlinked[i])
      /\ Range(unlinked[i]) \subseteq {x \in Recorded : x % HASH_TABLE_SIZE = i}
  BY <1>2 DEF IInv, Unvisited
<1>5. /\ p \in Pids /\ Tail(unlinked[i]) \in Seq(Pids)
      /\ Range(unlinked[i]) = {p} \cup Range(Tail(unlinked[i]))
      /\ IsInjective(Tail(unlinked[i])) /\ p \notin Range(Tail(unlinked[i]))
  BY <1>2, <1>3, <1>4, HeadTailList
<1> HIDE DEF p
<1>6. p \in Recorded /\ p % HASH_TABLE_SIZE = i /\ p \in Range(unlinked[i])
  BY <1>4, <1>5
<1>7. /\ unlinked' \in [Slots -> Seq(Pids)]
      /\ unlinked'[i] = Tail(unlinked[i])
      /\ \A j \in Slots : j # i => unlinked'[j] = unlinked[j]
  BY <1>1, <1>2, <1>3, <1>5
<1>8. Visited' = Visited \cup {p} /\ p \notin Visited
  <2>1. \A x \in Recorded : x \notin Range(unlinked'[x % HASH_TABLE_SIZE])
                              <=> x = p \/ x \notin Range(unlinked[x % HASH_TABLE_SIZE])
    <3> TAKE x \in Recorded
    <3>1. x % HASH_TABLE_SIZE \in Slots
      BY <1>0, PidFacts
    <3>2. CASE x % HASH_TABLE_SIZE = i
      BY <1>5, <1>7, <3>2
    <3>3. CASE x % HASH_TABLE_SIZE # i
      BY <1>6, <1>7, <3>1, <3>3
    <3> QED BY <3>2, <3>3
  <2>2. Visited = {x \in Recorded : x \notin Range(unlinked[x % HASH_TABLE_SIZE])}
    BY <1>0 DEF Visited
  <2>3. Visited' = {x \in Recorded : x \notin Range(unlinked'[x % HASH_TABLE_SIZE])}
    BY <1>0 DEF Visited
  <2> QED BY <1>6, <2>1, <2>2, <2>3
<1>9. children' \in [Pids -> Seq(Pids)] /\ Linked'
  <2>0. node[p] \in Pids \cup {0}
    BY <1>0, <1>6 DEF TypeOK, Recorded
  <2>1. CASE node[p] # 0 /\ hash_table_lookup(node[p])
    <3> DEFINE q == node[p]
               old == children[q]
               new == <<p>> \o old
    <3>1. q \in Pids /\ q \in Recorded
      BY <1>0, <2>0, <2>1, Lookup DEF IInv
    <3>2. children' = [children EXCEPT ![q] = new]
      BY <1>1, <2>1
    <3>3. old \in Seq(Pids) /\ IsInjective(old) /\ Range(old) = {x \in Visited : node[x] = q}
      BY <1>3, <3>1 DEF IInv, Linked
    <3>4. p \notin Range(old)
      BY <1>8, <3>3
    <3> HIDE DEF old, new, q
    <3>5. new \in Seq(Pids) /\ IsInjective(new) /\ Range(new) = {p} \cup Range(old)
      BY <1>5, <3>3, <3>4, ConsList DEF new
    <3>6. children' \in [Pids -> Seq(Pids)]
      BY <1>3, <3>2, <3>5
    <3>7. ASSUME NEW r \in Pids
          PROVE  /\ IsInjective(children'[r])
                 /\ Range(children'[r]) = {x \in Visited' : r \in Recorded /\ node[x] = r}
      <4>1. CASE r = q
        <5>1. children'[r] = new
          BY <1>3, <3>1, <3>2, <4>1
        <5>2. {x \in Visited' : r \in Recorded /\ node[x] = r} = {p} \cup {x \in Visited : node[x] = q}
          BY <1>8, <3>1, <4>1 DEF q
        <5> QED BY <3>3, <3>5, <5>1, <5>2
      <4>2. CASE r # q
        <5>1. children'[r] = children[r]
          BY <1>3, <3>2, <4>2
        <5>2. {x \in Visited' : r \in Recorded /\ node[x] = r}
                = {x \in Visited : r \in Recorded /\ node[x] = r}
          BY <1>8, <4>2 DEF q
        <5> QED BY <5>1, <5>2 DEF IInv, Linked
      <4> QED BY <4>1, <4>2
    <3> QED BY <1>0, <3>6, <3>7 DEF Linked
  <2>2. CASE ~(node[p] # 0 /\ hash_table_lookup(node[p]))
    <3>1. children' = children
      BY <1>1, <2>2
    <3>2. node[p] \notin Recorded
      BY <1>0, <2>0, <2>2, Lookup, PidFacts DEF IInv
    <3>3. ASSUME NEW r \in Pids
          PROVE  {x \in Visited' : r \in Recorded /\ node[x] = r}
                   = {x \in Visited : r \in Recorded /\ node[x] = r}
      BY <1>8, <3>2
    <3> QED BY <1>0, <1>3, <3>1, <3>3 DEF IInv, Linked
  <2> QED BY <2>1, <2>2
<1>10. TypeOK'
  BY <1>0, <1>7, <1>9 DEF TypeOK, kernel, Slots
<1>11. Scanned' /\ Hashed' /\ Phase'
  BY <1>0 DEF IInv, Scanned, Hashed, Phase, kernel
<1>12. Unvisited'
  <2> SUFFICES ASSUME NEW j \in Slots
               PROVE  /\ IsInjective(unlinked'[j])
                      /\ Range(unlinked'[j]) \subseteq {x \in Recorded : x % HASH_TABLE_SIZE = j}
    BY <1>0 DEF Unvisited
  <2>1. CASE j = i
    BY <1>4, <1>5, <1>7, <2>1
  <2>2. CASE j # i
    BY <1>7, <2>2 DEF IInv, Unvisited
  <2> QED BY <2>1, <2>2
<1>13. Walk' /\ Complete' /\ Sound'
  BY <1>0, OutputSame DEF IInv
<1> QED BY <1>9, <1>10, <1>11, <1>12, <1>13 DEF IInv

-----------------------------------------------------------------------------
(* The output. *)

\* The order of a list of children changes nothing but the order.
LEMMA OrderedList ==
  ASSUME TypeOK, NEW q \in Pids
  PROVE  /\ Ordered(q) \in Seq(Pids)
         /\ Range(Ordered(q)) = Range(children[q])
         /\ IsInjective(children[q]) => IsInjective(Ordered(q))
<1>1. children[q] \in Seq(Pids)
  BY DEF TypeOK
<1> QED BY <1>1, SortedList DEF Ordered

\* When all is linked, the list of a recorded process has its children.
LEMMA AllChildren ==
  ASSUME IInv, pc # "scan", \A i \in Slots : unlinked[i] = <<>>, NEW q \in Recorded
  PROVE  /\ Ordered(q) \in Seq(Pids) /\ IsInjective(Ordered(q))
         /\ Range(Ordered(q)) = {p \in Recorded : node[p] = q}
<1>1. q \in Pids /\ Recorded \subseteq Pids
  BY DEF Recorded
<1>2. Visited = Recorded
  BY <1>1, PidFacts, EmptyList DEF Visited
<1>3. IsInjective(children[q]) /\ Range(children[q]) = {p \in Recorded : node[p] = q}
  BY <1>1, <1>2 DEF IInv, Linked
<1> QED BY <1>1, <1>3, OrderedList DEF IInv

\* Process 1 was recorded, as a child of nobody.
LEMMA RootRecorded ==
  ASSUME IInv, pc # "scan"
  PROVE  1 \in Recorded /\ node[1] = 0
<1>1. 1 \in stable \ OddNames /\ 1 <= cursor /\ entry = None
  BY PidFacts DEF IInv, Scanned
<1>2. node[1] = par[1] /\ par[1] = 0
  BY <1>1, PidFacts DEF IInv, Scanned
<1> QED BY <1>2, PidFacts DEF Recorded

\* What the steps of the output leave alone.
LEMMA LinksSame ==
  ASSUME IInv, pc # "scan", pc' # "scan", \A i \in Slots : unlinked[i] = <<>>,
         UNCHANGED <<kernel, option, cursor, entry, node, buckets, unlinked, children>>
  PROVE  Recorded' = Recorded /\ Scanned' /\ Hashed' /\ Unvisited' /\ Linked'
<1>1. Recorded' = Recorded
  BY DEF Recorded
<1>2. Scanned'
  <2>1. entry = None /\ pc # "scan" /\ pc' # "scan" /\ Scanned
    BY DEF IInv, Scanned
  <2> QED BY <1>1, <2>1 DEF Scanned, kernel
<1>3. Hashed' /\ Unvisited'
  BY <1>1 DEF IInv, Hashed, Unvisited
<1>4. Linked'
  <2>1. Visited' = Visited
    BY <1>1 DEF Visited
  <2> QED BY <1>1, <2>1 DEF IInv, Linked
<1> QED BY <1>1, <1>2, <1>3, <1>4

\* Process 1 is printed, and its children wait.
LEMMA PrintRootInv ==
  ASSUME IInv, PrintRoot
  PROVE  IInv'
<1>0. /\ TypeOK /\ pc = "link" /\ Busy = {} /\ 1 \in Recorded /\ 1 \in Pids /\ node[1] = 0
      /\ UNCHANGED <<kernel, option, cursor, entry, node, buckets, unlinked, children>>
  BY RootRecorded, PidFacts DEF IInv, PrintRoot
<1>1. \A i \in Slots : unlinked[i] = <<>>
  BY <1>0 DEF Busy, TypeOK, Slots
<1>2. pc' = "print" /\ printed' = <<1>> /\ frames' = <<Ordered(1)>>
  BY <1>0, Lookup DEF PrintRoot, IInv
<1> DEFINE kids == Ordered(1)
<1>3. kids \in Seq(Pids) /\ IsInjective(kids) /\ Range(kids) = {p \in Recorded : node[p] = 1}
  BY <1>0, <1>1, AllChildren
<1>4. Recorded' = Recorded /\ Scanned' /\ Hashed' /\ Unvisited' /\ Linked'
  BY <1>0, <1>1, <1>2, LinksSame
<1> HIDE DEF kids
<1>5. frames' \in Seq(Seq(Pids)) /\ DOMAIN frames' = {1} /\ frames'[1] = kids
  BY <1>2, <1>3 DEF kids
<1>6. /\ printed' \in Seq(Pids) /\ Range(printed') = {1} /\ IsInjective(printed')
      /\ Waiting' = Range(kids)
  <2>1. printed' \in Seq(Pids) /\ DOMAIN printed' = {1} /\ printed'[1] = 1
    BY <1>0, <1>2
  <2>2. Waiting' = Range(kids)
    BY <1>5 DEF Waiting
  <2> QED BY <2>1, <2>2 DEF Range, IsInjective
<1>7. TypeOK'
  BY <1>0, <1>2, <1>5, <1>6 DEF TypeOK, kernel
<1>8. Walk'
  BY <1>0, <1>3, <1>4, <1>5, <1>6 DEF Walk
<1>9. Complete'
  BY <1>0, <1>3, <1>4, <1>6 DEF Complete
<1>10. Sound'
  BY <1>0, <1>3, <1>4, <1>6 DEF Sound, Family
<1>11. Phase'
  BY <1>2, <1>6 DEF Phase
<1> QED BY <1>4, <1>7, <1>8, <1>9, <1>10, <1>11 DEF IInv

\* The siblings that wait, by activation.
LEMMA WaitingParts ==
  ASSUME NEW fs \in Seq(Seq(Pids)), fs # <<>>
  PROVE  /\ Head(fs) \in Seq(Pids) /\ Tail(fs) \in Seq(Seq(Pids))
         /\ Head(fs) = fs[1] /\ 1 \in DOMAIN fs
         /\ \A k \in DOMAIN Tail(fs) : k # 0 /\ k \in Int /\ k + 1 \in DOMAIN fs
                                       /\ Tail(fs)[k] = fs[k + 1]
         /\ \A k \in DOMAIN fs : k = 1 \/ (k - 1 \in DOMAIN Tail(fs) /\ fs[k] = Tail(fs)[k - 1])
         /\ UNION {Range(fs[k]) : k \in DOMAIN fs}
              = Range(Head(fs)) \cup UNION {Range(Tail(fs)[k]) : k \in DOMAIN Tail(fs)}
<1> DEFINE t == Tail(fs)
<1>1. /\ Head(fs) \in Seq(Pids) /\ t \in Seq(Seq(Pids)) /\ Len(t) = Len(fs) - 1
      /\ \A k \in 1..Len(t) : t[k] = fs[k + 1]
  BY HeadTailProperties
<1>2. Len(fs) \in Nat /\ Len(fs) > 0 /\ DOMAIN fs = 1..Len(fs) /\ DOMAIN t = 1..(Len(fs) - 1)
  BY <1>1, LenProperties, EmptySeq
<1>3. Head(fs) = fs[1] /\ 1 \in DOMAIN fs
  BY <1>2
<1> HIDE DEF t
<1>4. \A k \in DOMAIN t : k # 0 /\ k \in Int /\ k + 1 \in DOMAIN fs /\ t[k] = fs[k + 1]
  <2> TAKE k \in DOMAIN t
  <2>1. k \in 1..Len(t) /\ k # 0 /\ k \in Int /\ k + 1 \in 1..Len(fs)
    BY <1>1, <1>2
  <2> QED BY <1>1, <1>2, <2>1
<1>5. \A k \in DOMAIN fs : k = 1 \/ (k - 1 \in DOMAIN t /\ fs[k] = t[k - 1])
  <2> SUFFICES ASSUME NEW k \in DOMAIN fs, k # 1
               PROVE  k - 1 \in DOMAIN t /\ fs[k] = t[k - 1]
    OBVIOUS
  <2>1. k \in Int /\ k - 1 \in 1..Len(t) /\ k - 1 \in DOMAIN t
    BY <1>1, <1>2
  <2> DEFINE j == k - 1
  <2>2. j \in 1..Len(t) /\ j + 1 = k /\ j \in DOMAIN t
    BY <2>1
  <2> HIDE DEF j
  <2>3. t[j] = fs[j + 1]
    BY <1>1, <2>2
  <2>4. j \in DOMAIN t /\ fs[k] = t[j]
    BY <2>2, <2>3
  <2> QED BY <2>4 DEF j
<1>6. UNION {Range(fs[k]) : k \in DOMAIN fs} = Range(Head(fs)) \cup UNION {Range(t[k]) : k \in DOMAIN t}
  <2> DEFINE A == UNION {Range(fs[k]) : k \in DOMAIN fs}
             B == UNION {Range(t[k]) : k \in DOMAIN t}
  <2>1. ASSUME NEW x, x \in A
        PROVE  x \in Range(Head(fs)) \cup B
    <3>1. PICK k \in DOMAIN fs : x \in Range(fs[k])
      BY <2>1
    <3>2. CASE k = 1
      BY <1>3, <3>1, <3>2
    <3>3. CASE k # 1
      <4>1. k - 1 \in DOMAIN t /\ fs[k] = t[k - 1]
        BY <1>5, <3>3
      <4> QED BY <3>1, <4>1
    <3> QED BY <3>2, <3>3
  <2>2. ASSUME NEW x, x \in B
        PROVE  x \in A
    <3>1. PICK k \in DOMAIN t : x \in Range(t[k])
      BY <2>2
    <3>2. k + 1 \in DOMAIN fs /\ t[k] = fs[k + 1]
      BY <1>4
    <3> QED BY <3>1, <3>2
  <2>3. Range(Head(fs)) \subseteq A
    BY <1>3
  <2> HIDE DEF A, B
  <2>4. A = Range(Head(fs)) \cup B
    BY <2>1, <2>2, <2>3
  <2> QED BY <2>4 DEF A, B
<1> QED BY <1>1, <1>3, <1>4, <1>5, <1>6 DEF t

\* print_node returns: nobody waits less.
LEMMA PrintReturnInv ==
  ASSUME IInv, PrintReturn
  PROVE  IInv'
<1>0. /\ TypeOK /\ pc = "print" /\ pc' = pc /\ frames # <<>> /\ Head(frames) = <<>>
      /\ frames' = Tail(frames) /\ printed' = printed
      /\ UNCHANGED <<kernel, option, cursor, entry, node, buckets, unlinked, children>>
  BY DEF IInv, PrintReturn
<1>1. \A i \in Slots : unlinked[i] = <<>>
  BY <1>0 DEF IInv, Unvisited
<1>2. Recorded' = Recorded /\ Scanned' /\ Hashed' /\ Unvisited' /\ Linked'
  BY <1>0, <1>1, LinksSame
<1>3. frames \in Seq(Seq(Pids))
  BY <1>0 DEF TypeOK
<1>4. /\ frames' \in Seq(Seq(Pids))
      /\ \A k \in DOMAIN frames' : k # 0 /\ k \in Int /\ k + 1 \in DOMAIN frames
                                   /\ frames'[k] = frames[k + 1]
  BY <1>0, <1>3, WaitingParts
<1>5. Waiting' = Waiting
  <2>1. Waiting = Range(Head(frames)) \cup UNION {Range(frames'[k]) : k \in DOMAIN frames'}
    <3>1. UNION {Range(frames[k]) : k \in DOMAIN frames}
            = Range(Head(frames)) \cup UNION {Range(Tail(frames)[k]) : k \in DOMAIN Tail(frames)}
      BY ONLY <1>0, <1>3, WaitingParts
    <3> QED BY <1>0, <3>1 DEF Waiting
  <2> QED BY <1>0, <2>1, EmptyList DEF Waiting
<1>6. TypeOK'
  BY <1>0, <1>4 DEF TypeOK, kernel
<1>7. Walk'
  <2>1. \A k \in DOMAIN frames' : IsInjective(frames'[k])
    BY <1>4 DEF IInv, Walk
  <2>2. \A k, l \in DOMAIN frames' : k # l => Range(frames'[k]) \cap Range(frames'[l]) = {}
    <3> TAKE k, l \in DOMAIN frames'
    <3> HAVE k # l
    <3>1. k + 1 \in DOMAIN frames /\ l + 1 \in DOMAIN frames /\ k + 1 # l + 1
      BY <1>4
    <3>2. Range(frames[k + 1]) \cap Range(frames[l + 1]) = {}
      BY <3>1 DEF IInv, Walk
    <3> QED BY <1>4, <3>2
  <2> QED BY <1>0, <1>2, <1>5, <2>1, <2>2 DEF IInv, Walk
<1>8. Complete'
  BY <1>0, <1>2, <1>5 DEF IInv, Complete
<1>9. Sound'
  BY <1>0, <1>2, <1>5 DEF IInv, Sound, Family
<1>10. Phase'
  BY <1>0 DEF IInv, Phase
<1> QED BY <1>2, <1>6, <1>7, <1>8, <1>9, <1>10 DEF IInv

\* print_node(child): its children, which nobody has met before, wait now.
LEMMA PrintNodeInv ==
  ASSUME IInv, PrintNode
  PROVE  IInv'
<1> DEFINE child == Head(Head(frames))
           kids == Ordered(child)
           siblings == Tail(Head(frames))
           rest == Tail(frames)
<1>0. /\ TypeOK /\ pc = "print" /\ pc' = pc /\ frames # <<>> /\ Head(frames) # <<>>
      /\ UNCHANGED <<kernel, option, cursor, entry, node, buckets, unlinked, children>>
  BY DEF IInv, PrintNode
<1>1. printed' = Append(printed, child) /\ frames' = <<kids, siblings>> \o rest
  BY DEF PrintNode
<1>2. frames \in Seq(Seq(Pids)) /\ printed \in Seq(Pids)
  BY <1>0 DEF TypeOK
<1>3. \A i \in Slots : unlinked[i] = <<>>
  BY <1>0 DEF IInv, Unvisited
<1>4. Recorded' = Recorded /\ Scanned' /\ Hashed' /\ Unvisited' /\ Linked'
  BY <1>0, <1>3, LinksSame
<1>5. /\ Head(frames) \in Seq(Pids) /\ rest \in Seq(Seq(Pids)) /\ Head(frames) = frames[1]
      /\ 1 \in DOMAIN frames
      /\ \A k \in DOMAIN rest : k # 0 /\ k \in Int /\ k + 1 \in DOMAIN frames
                                /\ rest[k] = frames[k + 1]
      /\ \A k \in DOMAIN frames : k = 1 \/ (k - 1 \in DOMAIN rest /\ frames[k] = rest[k - 1])
  BY ONLY <1>0, <1>2, WaitingParts
<1>6. /\ child \in Pids /\ siblings \in Seq(Pids)
      /\ Range(frames[1]) = {child} \cup Range(siblings)
      /\ IsInjective(siblings) /\ child \notin Range(siblings)
  <2>1. IsInjective(frames[1])
    BY <1>5 DEF IInv, Walk
  <2> QED BY <1>0, <1>5, <2>1, HeadTailList
<1> HIDE DEF child, siblings, rest
<1> DEFINE others == UNION {Range(rest[k]) : k \in DOMAIN rest}
<1>7. Waiting = {child} \cup Range(siblings) \cup others
  <2>1. UNION {Range(frames[k]) : k \in DOMAIN frames} = Range(frames[1]) \cup others
    BY <1>5
  <2> HIDE DEF others
  <2> QED BY <1>6, <2>1 DEF Waiting
<1>8. \A k \in DOMAIN rest : Range(frames[1]) \cap Range(rest[k]) = {}
  <2> TAKE k \in DOMAIN rest
  <2>1. k + 1 \in DOMAIN frames /\ k + 1 # 1 /\ rest[k] = frames[k + 1]
    BY <1>5
  <2> QED BY <1>5, <2>1 DEF IInv, Walk
<1>9. child \notin others /\ Range(siblings) \cap others = {}
  BY <1>6, <1>8
<1> HIDE DEF others
<1>10. /\ child \in Recorded /\ child \notin Range(printed) /\ node[child] \in Range(printed)
       /\ child \in Waiting
  BY <1>7 DEF IInv, Walk
<1>11. kids \in Seq(Pids) /\ IsInjective(kids) /\ Range(kids) = {p \in Recorded : node[p] = child}
  BY <1>0, <1>3, <1>10, AllChildren
<1> HIDE DEF kids
<1>12. Range(kids) \cap Range(printed) = {} /\ Range(kids) \cap Waiting = {}
  <2>1. node[1] = 0 /\ 0 # child
    BY <1>0, <1>6, RootRecorded, PidFacts
  <2> QED BY <1>10, <1>11, <2>1 DEF IInv, Walk
<1>13. /\ frames' \in Seq(Seq(Pids))
       /\ \A k \in DOMAIN frames' : \/ k = 1 /\ frames'[k] = kids
                                    \/ k = 2 /\ frames'[k] = siblings
                                    \/ k - 2 \in DOMAIN rest /\ frames'[k] = rest[k - 2]
       /\ 1 \in DOMAIN frames' /\ 2 \in DOMAIN frames' /\ frames'[1] = kids /\ frames'[2] = siblings
       /\ \A k \in DOMAIN rest : k + 2 \in DOMAIN frames' /\ frames'[k + 2] = rest[k]
       /\ DOMAIN frames' \subseteq Int
  <2> DEFINE two == <<kids, siblings>>
  <2>1. two \in Seq(Seq(Pids)) /\ Len(two) = 2 /\ two[1] = kids /\ two[2] = siblings
    BY <1>6, <1>11
  <2> HIDE DEF two
  <2>2. /\ frames' \in Seq(Seq(Pids)) /\ Len(frames') = 2 + Len(rest)
        /\ \A k \in 1..(2 + Len(rest)) : frames'[k] = IF k <= 2 THEN two[k] ELSE rest[k - 2]
    BY <1>1, <1>5, <2>1, ConcatProperties DEF two
  <2>3. Len(rest) \in Nat /\ DOMAIN rest = 1..Len(rest) /\ DOMAIN frames' = 1..(2 + Len(rest))
    BY <1>5, <2>2
  <2>4. \A k \in DOMAIN frames' : k = 1 \/ k = 2 \/ (k > 2 /\ k - 2 \in DOMAIN rest)
    BY <2>3
  <2>5. \A k \in DOMAIN rest : k + 2 \in DOMAIN frames' /\ frames'[k + 2] = rest[k]
    BY <2>2, <2>3
  <2> QED BY <2>1, <2>2, <2>3, <2>4, <2>5
<1>14. Waiting' = Range(kids) \cup Range(siblings) \cup others
  <2>1. \A x \in Waiting' : x \in Range(kids) \cup Range(siblings) \cup others
    <3> TAKE x \in Waiting'
    <3>1. PICK k \in DOMAIN frames' : x \in Range(frames'[k])
      BY DEF Waiting
    <3>2. \A j \in DOMAIN rest : Range(rest[j]) \subseteq others
      BY DEF others
    <3> QED BY <1>13, <3>1, <3>2
  <2>2. Range(kids) \subseteq Waiting' /\ Range(siblings) \subseteq Waiting'
    BY <1>13 DEF Waiting
  <2>3. others \subseteq Waiting'
    <3> SUFFICES ASSUME NEW k \in DOMAIN rest, NEW x \in Range(rest[k]) PROVE x \in Waiting'
      BY DEF others
    <3>1. k + 2 \in DOMAIN frames' /\ x \in Range(frames'[k + 2])
      BY <1>13
    <3> QED BY <3>1 DEF Waiting
  <2> QED BY <2>1, <2>2, <2>3
<1>15. /\ printed' \in Seq(Pids) /\ Range(printed') = Range(printed) \cup {child}
       /\ IsInjective(printed')
  <2>1. IsInjective(printed)
    BY DEF IInv, Walk
  <2> QED BY <1>1, <1>2, <1>6, <1>10, <2>1, AppendList
<1>16. TypeOK'
  BY <1>0, <1>13, <1>15 DEF TypeOK, kernel
<1>17. Walk'
  <2>1. \A k \in DOMAIN frames' : IsInjective(frames'[k])
    <3>1. \A k \in DOMAIN rest : IsInjective(rest[k])
      BY <1>5 DEF IInv, Walk
    <3> QED BY <1>6, <1>11, <1>13, <3>1
  <2>2. \A k, l \in DOMAIN frames' : k # l => Range(frames'[k]) \cap Range(frames'[l]) = {}
    <3>0. \A j \in DOMAIN rest : Range(rest[j]) \subseteq others
      BY DEF others
    <3>1. \A k \in DOMAIN frames' : k # 1 => Range(frames'[k]) \subseteq Waiting
      BY <1>7, <1>13, <3>0
    <3>2. \A k \in DOMAIN frames' : k # 1 /\ k # 2 => Range(frames'[k]) \subseteq others
      BY <1>13, <3>0
    <3>3. \A k, l \in DOMAIN rest : k # l => Range(rest[k]) \cap Range(rest[l]) = {}
      <4> TAKE k, l \in DOMAIN rest
      <4> HAVE k # l
      <4>1. k + 1 \in DOMAIN frames /\ l + 1 \in DOMAIN frames /\ k + 1 # l + 1
        BY <1>5
      <4>2. Range(frames[k + 1]) \cap Range(frames[l + 1]) = {}
        BY <4>1 DEF IInv, Walk
      <4> QED BY <1>5, <4>2
    <3> SUFFICES ASSUME NEW k \in DOMAIN frames', NEW l \in DOMAIN frames', k # l
                 PROVE  Range(frames'[k]) \cap Range(frames'[l]) = {}
      OBVIOUS
    <3>4. CASE k = 1 \/ l = 1
      BY <1>12, <1>13, <3>1, <3>4
    <3>5. CASE k # 1 /\ l # 1 /\ (k = 2 \/ l = 2)
      BY <1>9, <1>13, <3>2, <3>5
    <3>6. CASE k # 1 /\ l # 1 /\ k # 2 /\ l # 2
      <4>1. k - 2 \in DOMAIN rest /\ l - 2 \in DOMAIN rest /\ k - 2 # l - 2
        BY <1>13, <3>6
      <4>2. frames'[k] = rest[k - 2] /\ frames'[l] = rest[l - 2]
        BY <1>13, <3>6
      <4> QED BY <3>3, <4>1, <4>2
    <3> QED BY <3>4, <3>5, <3>6
  <2>3. Range(printed') \cap Waiting' = {}
    <3>1. Range(printed) \cap Waiting = {}
      BY DEF IInv, Walk
    <3> QED BY <1>6, <1>7, <1>9, <1>10, <1>12, <1>14, <1>15, <3>1
  <2>4. \A p \in Range(printed') : p \in Recorded' /\ (p = 1 \/ node'[p] \in Range(printed'))
    BY <1>0, <1>4, <1>10, <1>15 DEF IInv, Walk
  <2>5. \A p \in Waiting' : p \in Recorded' /\ node'[p] \in Range(printed')
    BY <1>0, <1>4, <1>7, <1>11, <1>14, <1>15 DEF IInv, Walk
  <2> QED BY <1>15, <2>1, <2>2, <2>3, <2>4, <2>5 DEF Walk
<1>18. Complete'
  BY <1>0, <1>4, <1>7, <1>11, <1>14, <1>15 DEF IInv, Complete
<1>19. Sound'
  <2> SUFFICES ASSUME NEW T \in SUBSET Recorded, Family(T)
               PROVE  Range(printed') \cup Waiting' \subseteq T
    BY <1>0, <1>4 DEF Sound, Family
  <2>1. Range(printed) \cup Waiting \subseteq T
    BY DEF IInv, Sound
  <2>2. Range(kids) \subseteq T
    BY <1>10, <1>11, <2>1 DEF Family
  <2> QED BY <1>7, <1>14, <1>15, <2>1, <2>2
<1>20. Phase'
  BY <1>0, <1>15 DEF IInv, Phase
<1> QED BY <1>4, <1>16, <1>17, <1>18, <1>19, <1>20 DEF IInv

\* The program ends, or nothing happens.
LEMMA FinishInv ==
  ASSUME IInv, Finish \/ UNCHANGED vars
  PROVE  IInv'
<1>1. CASE Finish
  <2>0. /\ pc = "print" /\ pc' = "done" /\ frames = <<>> /\ UNCHANGED <<frames, printed>>
        /\ UNCHANGED <<kernel, option, cursor, entry, node, buckets, unlinked, children>>
    BY <1>1 DEF Finish
  <2>1. \A i \in Slots : unlinked[i] = <<>>
    BY <2>0 DEF IInv, Unvisited
  <2>2. Recorded' = Recorded /\ Scanned' /\ Hashed' /\ Unvisited' /\ Linked'
    BY <2>0, <2>1, LinksSame
  <2>3. Walk' /\ Complete' /\ Sound'
    BY <2>0, OutputSame DEF IInv
  <2>4. TypeOK' /\ Phase'
    BY <2>0 DEF IInv, TypeOK, Phase, kernel
  <2> QED BY <2>2, <2>3, <2>4 DEF IInv
<1>2. CASE UNCHANGED vars
  <2>1. UNCHANGED <<kernel, option, pc, cursor, entry, node, buckets, unlinked, children, frames,
                    printed>>
    BY <1>2 DEF vars
  <2>2. TypeOK'
    BY <2>1 DEF IInv, TypeOK, kernel
  <2>3. Recorded' = Recorded
    BY <2>1 DEF Recorded
  <2>4. Scanned'
    BY <2>1, <2>3 DEF IInv, Scanned, kernel
  <2> QED BY <2>1, <2>2, <2>4, TablesSame DEF IInv
<1> QED BY <1>1, <1>2

-----------------------------------------------------------------------------
\* The invariant is inductive.
THEOREM Invariance == Spec => []IInv
<1>1. IInv /\ [Next]_vars => IInv'
  <2> SUFFICES ASSUME IInv, [Next]_vars PROVE IInv'
    OBVIOUS
  <2>1. CASE Program
    BY <2>1, ReadDirInv, ReadInfoInv, LinkInv, PrintRootInv, PrintNodeInv, PrintReturnInv, FinishInv
       DEF Program
  <2>2. CASE Done \/ UNCHANGED vars
    BY <2>2, FinishInv DEF Done
  <2>3. ASSUME NEW p \in Pids, NEW q \in Pids, Fork(p, q) PROVE IInv'
    BY <2>3, KernelInv
  <2>4. ASSUME NEW p \in Pids, Exit(p) PROVE IInv'
    BY <2>4, KernelInv
  <2> QED BY <2>1, <2>2, <2>3, <2>4 DEF Next
<1> QED BY <1>1, InitInv, PTL DEF Spec

\* The nodes, the hash table and the lists of pstree stay well-typed.
THEOREM TypeCorrect == Spec => []TypeOK
  BY Invariance, PTL DEF IInv

\* print_node prints no process twice and so does not loop, although the ppids
\* the scan recorded may form a cycle, for any number of processes.
THEOREM OnceCorrect == Spec => []PrintedOnce
<1>1. IInv => PrintedOnce
  BY DEF IInv, Walk, PrintedOnce
<1> QED BY <1>1, Invariance, PTL

\* What main has printed when it returns is exactly what descends from process
\* 1 among the recorded processes, whatever the order and the hash collisions.
THEOREM TreeCorrect == Spec => []TreeComplete
<1>1. IInv => TreeComplete
  <2> SUFFICES ASSUME IInv, pc = "done" PROVE Range(printed) = Below(1, Recorded, node)
    BY DEF TreeComplete
  <2>1. Waiting = {} /\ 1 \in Range(printed) /\ Range(printed) \subseteq Recorded
    BY EmptyList DEF IInv, Phase, Waiting, Walk
  <2>2. Range(printed) \subseteq Below(1, Recorded, node)
    BY <2>1 DEF IInv, Sound, Family, Below
  <2>3. Below(1, Recorded, node) \subseteq Range(printed)
    <3>1. \A q \in Recorded : node[q] \in Range(printed) => q \in Range(printed)
      BY <2>1 DEF IInv, Complete
    <3> QED BY <2>1, <3>1 DEF Below
  <2> QED BY <2>2, <2>3
<1> QED BY <1>1, Invariance, PTL

\* A process that was there during the whole scan, with all its ancestors and
\* without odd names, is printed, whatever the kernel did to the others.
THEOREM StableCorrect == Spec => []StablePrinted
<1>1. IInv => StablePrinted
  <2> SUFFICES ASSUME IInv, pc = "done", NEW p \in Below(1, stable \ OddNames, par)
               PROVE  p \in Range(printed)
    BY DEF StablePrinted
  <2>1. Waiting = {} /\ 1 \in Range(printed)
    BY EmptyList DEF IInv, Phase, Waiting
  <2> DEFINE S == stable \ OddNames
             T == Range(printed) \cap S
  <2>2. \A q \in S : q \in Pids /\ node[q] = par[q] /\ par[q] # None
    <3> TAKE q \in S
    <3>1. q \in Pids /\ q # entry /\ q <= cursor
      BY PidFacts DEF IInv, Scanned, TypeOK
    <3> QED BY <3>1 DEF IInv, Scanned
  <2>3. S \subseteq Recorded
    BY <2>2 DEF Recorded
  <2>4. 1 \in T
    BY <2>1, PidFacts DEF IInv, Scanned
  <2>5. \A q \in S : par[q] \in T => q \in T
    BY <2>1, <2>2, <2>3 DEF IInv, Complete
  <2>6. p \in S /\ \A U \in SUBSET S : 1 \in U /\ (\A q \in S : par[q] \in U => q \in U) => p \in U
    BY DEF Below
  <2> HIDE DEF S
  <2>7. T \in SUBSET S
    OBVIOUS
  <2> HIDE DEF T
  <2>8. p \in T
    BY <2>4, <2>5, <2>6, <2>7
  <2> QED BY <2>8 DEF T
<1> QED BY <1>1, Invariance, PTL
=============================================================================
