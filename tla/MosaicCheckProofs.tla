-------------------------- MODULE MosaicCheckProofs --------------------------
(***************************************************************************)
(* Proofs about the explorer for every set of applications.  The first     *)
(* part is about the operating system: replaying a longer trace is one     *)
(* more step, and the states after n steps.  The second part is the        *)
(* breadth-first search: its invariant IInv, that the edges are complete,  *)
(* and that the search is exhaustive and its depths the shortest wherever  *)
(* state_dump() tells states apart.                                         *)
(***************************************************************************)
EXTENDS MosaicCheck, FiniteSetTheorems, SequenceTheorems, WellFoundedInduction, TLAPS

-----------------------------------------------------------------------------
(* Least elements: what the inductions below are made of. *)

Less == {ss \in Nat \X Nat : ss[1] < ss[2]}

\* Among numbers there is a least one.
LEMMA LeastNat ==
  ASSUME NEW T \in SUBSET Nat, T # {}
  PROVE  \E x \in T : \A y \in T : x <= y
<1>1. IsWellFoundedOn(Less, Nat) /\ T \subseteq Nat
  BY NatLessThanWellFounded DEF OpToRel, Less
<1>2. PICK x \in T : \A y \in T : ~(<<y, x>> \in Less)
  BY ONLY <1>1, T # {}, WFMin
<1>3. \A y \in T : ~(y < x)
  BY <1>1, <1>2 DEF Less
<1> QED BY <1>1, <1>3

\* A set of numbers with 0 and the successor of each of its members is Nat.
LEMMA AllNat ==
  ASSUME NEW T, 0 \in T, \A n \in Nat : n \in T => n + 1 \in T
  PROVE  Nat \subseteq T
<1> SUFFICES ASSUME NEW m \in Nat, m \notin T
             PROVE  FALSE
  OBVIOUS
<1>1. PICK x \in Nat \ T : \A y \in Nat \ T : x <= y
  <2> DEFINE U == Nat \ T
  <2>1. U \in SUBSET Nat /\ U # {}
    OBVIOUS
  <2> HIDE DEF U
  <2>2. \E x \in U : \A y \in U : x <= y
    BY <2>1, LeastNat
  <2> QED BY <2>2 DEF U
<1>2. x - 1 \in Nat /\ ~(x <= x - 1) /\ (x - 1) + 1 = x
  BY <1>1
<1> QED BY <1>1, <1>2

-----------------------------------------------------------------------------
(* os.replay() *)

\* g[n] is the state after the first n choices of tr.
IsRun(p, tr, m, g) ==
    g = [n \in 0..m |-> IF n = 0 THEN OSInit ELSE Step(p, g[n - 1], tr[n])]

\* A trace can be run as far as one likes.
LEMMA RunExists ==
  ASSUME NEW p, NEW tr, NEW m \in Nat
  PROVE  \E g : IsRun(p, tr, m, g)
<1> DEFINE T == {n \in Nat : \E g : IsRun(p, tr, n, g)}
<1>1. 0 \in T
  <2> DEFINE g == [n \in 0..0 |-> OSInit]
  <2>1. g = [n \in 0..0 |-> IF n = 0 THEN OSInit ELSE Step(p, g[n - 1], tr[n])]
    OBVIOUS
  <2> QED BY <2>1 DEF IsRun
<1>2. ASSUME NEW n \in Nat, n \in T
      PROVE  n + 1 \in T
  <2>1. PICK g : IsRun(p, tr, n, g)
    BY <1>2
  <2> DEFINE h == [k \in 0..(n + 1) |-> IF k = n + 1 THEN Step(p, g[n], tr[n + 1]) ELSE g[k]]
             f == [k \in 0..(n + 1) |-> IF k = 0 THEN OSInit ELSE Step(p, h[k - 1], tr[k])]
  <2>2. ASSUME NEW k \in 0..(n + 1)
        PROVE  h[k] = IF k = 0 THEN OSInit ELSE Step(p, h[k - 1], tr[k])
    <3>1. CASE k = n + 1
      <4>1. h[k] = Step(p, g[n], tr[n + 1]) /\ k - 1 = n /\ n \in 0..(n + 1) /\ n # n + 1 /\ k # 0
        BY <3>1
      <4>2. h[n] = g[n]
        BY <4>1
      <4> QED BY <3>1, <4>1, <4>2
    <3>2. CASE k # n + 1
      <4>1. k \in 0..n
        BY <3>2
      <4>2. h[k] = g[k] /\ g[k] = IF k = 0 THEN OSInit ELSE Step(p, g[k - 1], tr[k])
        BY <2>1, <3>2, <4>1 DEF IsRun
      <4>3. k # 0 => k - 1 \in 0..(n + 1) /\ k - 1 # n + 1
        BY <4>1
      <4>4. k # 0 => h[k - 1] = g[k - 1]
        BY <4>3
      <4> QED BY <4>2, <4>4
    <3> QED BY <3>1, <3>2
  <2>3. h = f
    <3>1. DOMAIN h = 0..(n + 1) /\ DOMAIN f = 0..(n + 1)
      OBVIOUS
    <3>2. \A k \in 0..(n + 1) : h[k] = f[k]
      BY <2>2
    <3>3. h = [k \in 0..(n + 1) |-> h[k]] /\ f = [k \in 0..(n + 1) |-> f[k]]
      OBVIOUS
    <3> HIDE DEF h, f
    <3> QED BY <3>2, <3>3
  <2>4. IsRun(p, tr, n + 1, h)
    <3> HIDE DEF h
    <3> QED BY <2>3 DEF IsRun
  <2> QED BY <2>4
<1> HIDE DEF T
<1>3. Nat \subseteq T
  BY <1>1, <1>2, AllNat
<1> QED BY <1>3 DEF T

\* The states along a longer trace begin with those of the shorter one.
LEMMA RunAgrees ==
  ASSUME NEW p, NEW tr, NEW ts, NEW m \in Nat, NEW n \in Nat, m <= n,
         NEW g, NEW h, IsRun(p, tr, m, g), IsRun(p, ts, n, h),
         \A k \in 1..m : tr[k] = ts[k]
  PROVE  \A k \in 0..m : g[k] = h[k]
<1> DEFINE T == {k \in Nat : k <= m => g[k] = h[k]}
<1>1. 0 \in T
  BY DEF IsRun
<1>2. ASSUME NEW k \in Nat, k \in T
      PROVE  k + 1 \in T
  <2> SUFFICES ASSUME k + 1 <= m PROVE g[k + 1] = h[k + 1]
    OBVIOUS
  <2>1. g[k] = h[k] /\ k + 1 \in 1..m /\ k + 1 \in 0..m /\ k + 1 \in 0..n /\ k + 1 # 0 /\ (k + 1) - 1 = k
    BY <1>2
  <2>2. g[k + 1] = Step(p, g[k], tr[k + 1])
    BY <2>1 DEF IsRun
  <2>3. h[k + 1] = Step(p, h[k], ts[k + 1])
    BY <2>1 DEF IsRun
  <2> QED BY <2>1, <2>2, <2>3
<1> HIDE DEF T
<1>3. Nat \subseteq T
  BY <1>1, <1>2, AllNat
<1> QED BY <1>3 DEF T

\* The recursion of After computes such a run.
LEMMA AfterIsRun ==
  ASSUME NEW p, NEW tr, Len(tr) \in Nat
  PROVE  IsRun(p, tr, Len(tr), After(p, tr))
<1> DEFINE Rec(g) == [n \in 0..Len(tr) |->
             IF n = 0 THEN OSInit
             ELSE CHOOSE os1 \in {Act(p, os, tr[n], CurrentOf(g[ClonedAfter(n - 1)])) :
                                     os \in {g[n - 1]}} : TRUE]
           Run(g) == [n \in 0..Len(tr) |-> IF n = 0 THEN OSInit ELSE Step(p, g[n - 1], tr[n])]
<1>1. ASSUME NEW g PROVE Rec(g) = Run(g)
  <2>1. ASSUME NEW n \in 0..Len(tr), n # 0
        PROVE  (CHOOSE os1 \in {Act(p, os, tr[n], CurrentOf(g[ClonedAfter(n - 1)])) :
                                  os \in {g[n - 1]}} : TRUE) = Step(p, g[n - 1], tr[n])
    <3>1. ClonedAfter(n - 1) = n - 1
      BY <2>1 DEF ClonedAfter
    <3>2. {Act(p, os, tr[n], CurrentOf(g[n - 1])) : os \in {g[n - 1]}} = {Step(p, g[n - 1], tr[n])}
      BY DEF Step
    <3> QED BY <3>1, <3>2
  <2> QED BY <2>1
<1>2. After(p, tr) = CHOOSE g : g = Rec(g)
  BY DEF After
<1>3. PICK g : g = Run(g)
  <2>1. PICK g : IsRun(p, tr, Len(tr), g)
    BY RunExists
  <2> QED BY <2>1 DEF IsRun
<1>4. g = Rec(g)
  BY <1>1, <1>3
<1>5. After(p, tr) = Rec(After(p, tr))
  <2> HIDE DEF Rec
  <2> QED BY <1>2, <1>4
<1>6. After(p, tr) = Run(After(p, tr))
  <2>1. Rec(After(p, tr)) = Run(After(p, tr))
    BY <1>1
  <2> HIDE DEF Rec, Run
  <2> QED BY <1>5, <2>1
<1> QED BY <1>6 DEF IsRun

\* replay(trace + [choice]) is replay(trace) and one more step: the states of a
\* thread cloned by a fork are the states of a thread copied by it.
LEMMA ReplayStep ==
  ASSUME NEW p, NEW S, NEW tr \in Seq(S), NEW c \in S
  PROVE  /\ Replay(p, <<>>) = OSInit
         /\ Replay(p, Append(tr, c)) = Step(p, Replay(p, tr), c)
<1>1. Replay(p, <<>>) = OSInit
  <2>1. Len(<<>>) = 0 /\ Len(<<>>) \in Nat
    OBVIOUS
  <2>2. IsRun(p, <<>>, 0, After(p, <<>>))
    BY <2>1, AfterIsRun
  <2> QED BY <2>1, <2>2 DEF IsRun, Replay
<1> DEFINE m == Len(tr)
           ts == Append(tr, c)
<1>2. /\ m \in Nat /\ Len(ts) = m + 1 /\ ts[m + 1] = c
      /\ \A k \in 1..m : tr[k] = ts[k]
  BY AppendProperties
<1>3. IsRun(p, tr, m, After(p, tr)) /\ IsRun(p, ts, m + 1, After(p, ts))
  <2>1. IsRun(p, tr, m, After(p, tr))
    BY <1>2, AfterIsRun
  <2>2. Len(ts) \in Nat
    BY <1>2
  <2>3. IsRun(p, ts, Len(ts), After(p, ts))
    BY <2>2, AfterIsRun
  <2> QED BY <1>2, <2>1, <2>3
<1> HIDE DEF ts, m
<1>4. \A k \in 0..m : After(p, tr)[k] = After(p, ts)[k]
  <2> DEFINE n == m + 1
             g == After(p, tr)
             h == After(p, ts)
  <2>1. n \in Nat /\ m <= n
    BY <1>2
  <2> HIDE DEF n, g, h
  <2>2. IsRun(p, tr, m, g) /\ IsRun(p, ts, n, h)
    BY <1>3 DEF n, g, h
  <2>3. m \in Nat /\ \A k \in 1..m : tr[k] = ts[k]
    BY <1>2
  <2>4. \A k \in 0..m : g[k] = h[k]
    BY ONLY <2>1, <2>2, <2>3, RunAgrees
  <2> QED BY <2>4 DEF g, h
<1>5. After(p, tr)[m] = After(p, ts)[m]
  BY <1>2, <1>4
<1>6. m + 1 \in 0..(m + 1) /\ m + 1 # 0 /\ (m + 1) - 1 = m
  BY <1>2
<1>7. After(p, ts)[m + 1] = Step(p, After(p, ts)[m], ts[m + 1])
  BY <1>3, <1>6 DEF IsRun
<1>8. Replay(p, ts) = Step(p, Replay(p, tr), c)
  BY <1>2, <1>5, <1>7 DEF Replay, m
<1> QED BY <1>1, <1>8 DEF ts

-----------------------------------------------------------------------------
(* The states after n steps. *)

IsLevels(p, m, g) ==
    g = [k \in 0..m |-> IF k = 0 THEN {OSInit}
                        ELSE UNION {Successors(p, os) : os \in g[k - 1]}]

\* There are states after any number of steps.
LEMMA LevelsExist ==
  ASSUME NEW p, NEW m \in Nat
  PROVE  \E g : IsLevels(p, m, g)
<1> DEFINE Onward(L) == UNION {Successors(p, os) : os \in L}
           T == {n \in Nat : \E g : IsLevels(p, n, g)}
<1>1. 0 \in T
  <2> DEFINE g == [n \in 0..0 |-> {OSInit}]
  <2>1. g = [n \in 0..0 |-> IF n = 0 THEN {OSInit} ELSE Onward(g[n - 1])]
    OBVIOUS
  <2> QED BY <2>1 DEF IsLevels
<1>2. ASSUME NEW n \in Nat, n \in T
      PROVE  n + 1 \in T
  <2>1. PICK g : IsLevels(p, n, g)
    BY <1>2
  <2>2. g = [k \in 0..n |-> IF k = 0 THEN {OSInit} ELSE Onward(g[k - 1])]
    BY <2>1 DEF IsLevels
  <2> HIDE DEF Onward
  <2> DEFINE h == [k \in 0..(n + 1) |-> IF k = n + 1 THEN Onward(g[n]) ELSE g[k]]
             f == [k \in 0..(n + 1) |-> IF k = 0 THEN {OSInit} ELSE Onward(h[k - 1])]
  <2>3. ASSUME NEW k \in 0..(n + 1)
        PROVE  h[k] = IF k = 0 THEN {OSInit} ELSE Onward(h[k - 1])
    <3>1. CASE k = n + 1
      <4>1. h[k] = Onward(g[n]) /\ k - 1 = n /\ n \in 0..(n + 1) /\ n # n + 1 /\ k # 0
        BY <3>1
      <4>2. h[n] = g[n]
        BY <4>1
      <4> QED BY <3>1, <4>1, <4>2
    <3>2. CASE k # n + 1
      <4>1. k \in 0..n
        BY <3>2
      <4>2. h[k] = g[k] /\ g[k] = IF k = 0 THEN {OSInit} ELSE Onward(g[k - 1])
        BY <2>2, <3>2, <4>1
      <4>3. k # 0 => k - 1 \in 0..(n + 1) /\ k - 1 # n + 1
        BY <4>1
      <4>4. k # 0 => h[k - 1] = g[k - 1]
        BY <4>3
      <4> QED BY <4>2, <4>4
    <3> QED BY <3>1, <3>2
  <2>4. h = f
    <3>1. \A k \in 0..(n + 1) : h[k] = f[k]
      BY <2>3
    <3>2. h = [k \in 0..(n + 1) |-> h[k]] /\ f = [k \in 0..(n + 1) |-> f[k]]
      OBVIOUS
    <3> HIDE DEF h, f
    <3> QED BY <3>1, <3>2
  <2>5. IsLevels(p, n + 1, h)
    <3> HIDE DEF h
    <3> QED BY <2>4 DEF IsLevels, Onward
  <2> QED BY <2>5
<1> HIDE DEF T
<1>3. Nat \subseteq T
  BY <1>1, <1>2, AllNat
<1> QED BY <1>3 DEF T

\* The recursion of Levels computes them.
LEMMA LevelsIsLevels ==
  ASSUME NEW p, NEW n \in Nat
  PROVE  IsLevels(p, n, Levels(p, n))
<1> DEFINE Rec(g) == [k \in 0..n |-> IF k = 0 THEN {OSInit}
                                     ELSE UNION {Successors(p, os) : os \in g[k - 1]}]
<1>1. Levels(p, n) = CHOOSE g : g = Rec(g)
  BY DEF Levels
<1>2. PICK g : g = Rec(g)
  <2>1. PICK g : IsLevels(p, n, g)
    BY LevelsExist
  <2> QED BY <2>1 DEF IsLevels
<1>3. Levels(p, n) = Rec(Levels(p, n))
  <2> HIDE DEF Rec
  <2> QED BY <1>1, <1>2
<1> QED BY <1>3 DEF IsLevels

\* How many levels are computed makes no difference to the first ones.
LEMMA LevelsAgree ==
  ASSUME NEW p, NEW m \in Nat, NEW n \in Nat, m <= n
  PROVE  \A k \in 0..m : Levels(p, m)[k] = Levels(p, n)[k]
<1> DEFINE Onward(L) == UNION {Successors(p, os) : os \in L}
           g == Levels(p, m)
           h == Levels(p, n)
           T == {k \in Nat : k <= m => g[k] = h[k]}
<1>1. /\ g = [k \in 0..m |-> IF k = 0 THEN {OSInit} ELSE Onward(g[k - 1])]
      /\ h = [k \in 0..n |-> IF k = 0 THEN {OSInit} ELSE Onward(h[k - 1])]
  BY LevelsIsLevels DEF IsLevels
<1> HIDE DEF Onward, g, h
<1>2. 0 \in T
  BY <1>1
<1>3. ASSUME NEW k \in Nat, k \in T
      PROVE  k + 1 \in T
  <2> SUFFICES ASSUME k + 1 <= m PROVE g[k + 1] = h[k + 1]
    OBVIOUS
  <2>1. g[k] = h[k] /\ k + 1 \in 0..m /\ k + 1 \in 0..n /\ k + 1 # 0 /\ (k + 1) - 1 = k
    BY <1>3
  <2>2. g[k + 1] = Onward(g[k])
    BY <1>1, <2>1
  <2>3. h[k + 1] = Onward(h[k])
    BY <1>1, <2>1
  <2> QED BY <2>1, <2>2, <2>3
<1> HIDE DEF T
<1>4. Nat \subseteq T
  BY <1>2, <1>3, AllNat
<1> QED BY <1>4 DEF T, g, h

\* The states after exactly n steps.
Level(p, n) == Levels(p, n)[n]

\* One step leads from each level to the next, and Reached joins the levels.
LEMMA LevelFacts ==
  ASSUME NEW p, NEW n \in Nat
  PROVE  /\ Level(p, 0) = {OSInit}
         /\ Level(p, n + 1) = UNION {Successors(p, os) : os \in Level(p, n)}
         /\ Reached(p, n) = UNION {Level(p, k) : k \in 0..n}
<1>1. Level(p, 0) = {OSInit}
  BY LevelsIsLevels DEF IsLevels, Level
<1>2. Level(p, n + 1) = UNION {Successors(p, os) : os \in Level(p, n)}
  <2> DEFINE Onward(L) == UNION {Successors(p, os) : os \in L}
             m == n + 1
             h == Levels(p, m)
  <2>1. m \in Nat /\ n <= m /\ m \in 0..m /\ m # 0 /\ m - 1 = n /\ n \in 0..n
    OBVIOUS
  <2>2. h = [k \in 0..m |-> IF k = 0 THEN {OSInit} ELSE Onward(h[k - 1])]
    <3> HIDE DEF m
    <3>1. IsLevels(p, m, Levels(p, m))
      BY <2>1, LevelsIsLevels
    <3> QED BY <3>1 DEF IsLevels
  <2>3. Levels(p, n)[n] = h[n]
    BY <2>1, LevelsAgree
  <2> HIDE DEF Onward, m, h
  <2>4. h[m] = Onward(h[n])
    BY <2>1, <2>2
  <2>5. h[m] = Onward(Levels(p, n)[n])
    BY <2>3, <2>4
  <2> QED BY <2>5 DEF Onward, Level, m, h
<1>3. Reached(p, n) = UNION {Level(p, k) : k \in 0..n}
  <2>1. \A k \in 0..n : Levels(p, n)[k] = Levels(p, k)[k]
    <3> TAKE k \in 0..n
    <3>1. k \in Nat /\ k <= n /\ k \in 0..k
      OBVIOUS
    <3> QED BY <3>1, LevelsAgree
  <2> QED BY <2>1 DEF Reached, Level
<1> QED BY <1>1, <1>2, <1>3

-----------------------------------------------------------------------------
(* _choices *)

\* The threads of an OS are a list.
WellFormed(os) == "threads" \in DOMAIN os /\ os.threads \in Seq(Range(os.threads))

\* A call that returns changes no thread but the current one.
LEMMA SendKeeps ==
  ASSUME NEW p, NEW os, NEW res, WellFormed(os)
  PROVE  WellFormed(Send(p, os, res))
<1> DEFINE o == Send(p, os, res)
<1>1. "threads" \in DOMAIN o /\ DOMAIN o.threads = DOMAIN os.threads
      /\ o.threads = [t \in DOMAIN os.threads |-> o.threads[t]]
  BY DEF Send, WellFormed
<1>2. DOMAIN os.threads = 1..Len(os.threads) /\ Len(os.threads) \in Nat
  BY DEF WellFormed
<1> HIDE DEF o
<1>3. o.threads \in [1..Len(os.threads) -> Range(o.threads)]
  BY <1>1, <1>2 DEF Range
<1>4. o.threads \in Seq(Range(o.threads))
  BY <1>2, <1>3
<1> QED BY <1>1, <1>4 DEF WellFormed, o

\* spawn and fork add a thread at the end; no other call changes their number.
LEMMA StepKeeps ==
  ASSUME NEW p, NEW os, NEW c, WellFormed(os)
  PROVE  WellFormed(Step(p, os, c))
<1>1. ASSUME NEW o, NEW th, "threads" \in DOMAIN o, o.threads = Append(os.threads, th)
      PROVE  WellFormed(o)
  <2> DEFINE S == Range(os.threads) \cup {th}
  <2>1. os.threads \in Seq(S) /\ th \in S
    <3>1. os.threads \in Seq(Range(os.threads))
      BY DEF WellFormed
    <3> QED BY <3>1, SeqMonotonic
  <2> HIDE DEF S
  <2>2. o.threads \in Seq(S)
    BY <1>1, <2>1, AppendProperties
  <2> QED BY <1>1, <2>2, SeqOfRange DEF WellFormed
<1>2. ASSUME NEW o, "threads" \in DOMAIN o, o.threads = os.threads
      PROVE  WellFormed(o)
  BY <1>2 DEF WellFormed
<1> DEFINE clone == CurrentOf(os)
           n == Len(os.threads) + 1
           spawned == [os EXCEPT !.threads = Append(@, NewThread("worker", os.threads[os.cur].heap))]
           forked == [os EXCEPT !.heaps = Append(@, clone.x), !.newfork = @ \cup {n},
                        !.threads = Append(@, [clone.th EXCEPT !.heap = Len(os.heaps) + 1])]
           switched == [os EXCEPT !.cur = c[2], !.newfork = @ \ {c[2]}]
           written == [os EXCEPT !.out = Append(@, os.threads[os.cur].locals["x"])]
<1>3. WellFormed(spawned)
  <2> DEFINE th == NewThread("worker", os.threads[os.cur].heap)
  <2> HIDE DEF th
  <2>1. spawned = [os EXCEPT !.threads = Append(@, th)]
    BY DEF th
  <2>2. "threads" \in DOMAIN spawned /\ spawned.threads = Append(os.threads, th)
    BY <2>1 DEF WellFormed
  <2> HIDE DEF spawned
  <2> QED BY <1>1, <2>2
<1>4. WellFormed(forked)
  <2> DEFINE th == [clone.th EXCEPT !.heap = Len(os.heaps) + 1]
  <2> HIDE DEF th
  <2>1. forked = [os EXCEPT !.heaps = Append(@, clone.x), !.newfork = @ \cup {n},
                            !.threads = Append(@, th)]
    BY DEF th
  <2>2. "threads" \in DOMAIN forked /\ forked.threads = Append(os.threads, th)
    BY <2>1 DEF WellFormed
  <2> HIDE DEF forked
  <2> QED BY <1>1, <2>2
<1>5. WellFormed(switched) /\ WellFormed(written)
  <2>1. "threads" \in DOMAIN switched /\ switched.threads = os.threads
    BY DEF WellFormed
  <2>2. "threads" \in DOMAIN written /\ written.threads = os.threads
    BY DEF WellFormed
  <2> HIDE DEF switched, written
  <2> QED BY <1>2, <2>1, <2>2
<1>6. Step(p, os, c) \in {Send(p, spawned, 0), Send(p, forked, 1000 + n), Send(p, switched, 0),
                          Send(p, os, c[2]), Send(p, written, 0), Send(p, os, 0)}
  BY DEF Step, Act
<1> HIDE DEF spawned, forked, switched, written
<1> QED BY <1>3, <1>4, <1>5, <1>6, SendKeeps

\* Every state that is reached has a list of threads.
LEMMA LevelsWellFormed ==
  ASSUME NEW p, NEW n \in Nat, NEW os \in Level(p, n)
  PROVE  WellFormed(os)
<1> DEFINE T == {k \in Nat : \A o \in Level(p, k) : WellFormed(o)}
<1>1. 0 \in T
  <2>1. WellFormed(OSInit)
    <3>1. "threads" \in DOMAIN OSInit /\ OSInit.threads = <<NewThread("main", 1)>>
      BY DEF OSInit
    <3> DEFINE th == NewThread("main", 1)
    <3> HIDE DEF th
    <3>2. <<th>> \in Seq({th})
      OBVIOUS
    <3>3. <<th>> \in Seq(Range(<<th>>))
      BY <3>2, SeqOfRange
    <3> QED BY <3>1, <3>3 DEF WellFormed, th
  <2> QED BY <2>1, LevelFacts
<1>2. ASSUME NEW k \in Nat, k \in T
      PROVE  k + 1 \in T
  BY <1>2, LevelFacts, StepKeeps DEF Successors
<1> HIDE DEF T
<1>3. Nat \subseteq T
  BY <1>1, <1>2, AllNat
<1> QED BY <1>3 DEF T

\* The choices of a state are a list.
LEMMA ChoicesAreListed ==
  ASSUME NEW p, NEW os, WellFormed(os)
  PROVE  ChoicesOf(p, os) \in Seq(Range(ChoicesOf(p, os)))
<1>1. CASE Pending(p, os) = "sched"
  <2> DEFINE S == {t \in DOMAIN os.threads : ~Ended(p, os, t)}
             alive == Sorted(S)
             l == [i \in DOMAIN alive |-> <<"t", alive[i]>>]
  <2>1. DOMAIN os.threads = 1..Len(os.threads) /\ Len(os.threads) \in Nat
    BY DEF WellFormed
  <2>2. IsFiniteSet(S)
    <3>1. IsFiniteSet(1..Len(os.threads))
      BY <2>1, FS_Interval
    <3> QED BY <2>1, <3>1, FS_Subset
  <2>3. Cardinality(S) \in Nat
    BY <2>2, FS_CardinalityType
  <2>4. DOMAIN alive = 1..Cardinality(S)
    BY DEF Sorted
  <2>5. ChoicesOf(p, os) = l
    BY <1>1 DEF ChoicesOf
  <2> HIDE DEF S, alive
  <2>6. l \in [1..Cardinality(S) -> Range(l)]
    BY <2>4 DEF Range
  <2> HIDE DEF l
  <2>7. l \in Seq(Range(l))
    BY <2>3, <2>6
  <2> QED BY <2>5, <2>7
<1>2. CASE Pending(p, os) # "sched"
  <2>1. \/ ChoicesOf(p, os) = <<(<<"choose", 0>>), (<<"choose", 1>>)>>
        \/ ChoicesOf(p, os) = <<(<<Pending(p, os), 0>>)>>
    BY <1>2 DEF ChoicesOf
  <2>2. ASSUME NEW a, NEW b
        PROVE  <<a, b>> \in Seq(Range(<<a, b>>)) /\ <<a>> \in Seq(Range(<<a>>))
    <3>1. <<a, b>> \in Seq({a, b}) /\ <<a>> \in Seq({a})
      OBVIOUS
    <3> QED BY <3>1, SeqOfRange
  <2> QED BY <2>1, <2>2
<1> QED BY <1>1, <1>2

-----------------------------------------------------------------------------
(* The traces of the search. *)

\* The choices an application ever offers.
ChoiceSet(p) ==
    UNION {Range(ChoicesOf(p, os)) : os \in UNION {Level(p, n) : n \in Nat}}

\* The traces that choose, at every step, what the state offers.
Traces(p) == {tr \in Seq(ChoiceSet(p)) : Replay(p, tr) \in Level(p, Len(tr))}

\* What is shown of the states after n steps.
Dumps(p, n) == {Dump(p, os) : os \in Level(p, n)}

\* Where a trace leads: its state is a state after as many steps.
LEMMA TraceFacts ==
  ASSUME NEW tr \in Traces(prog)
  PROVE  /\ Len(tr) \in Nat
         /\ At(tr) \in Dumps(prog, Len(tr))
         /\ At(tr).choices = ChoicesOf(prog, Replay(prog, tr))
         /\ At(tr).choices \in Seq(Range(At(tr).choices))
<1>1. Len(tr) \in Nat /\ Replay(prog, tr) \in Level(prog, Len(tr))
  BY DEF Traces
<1>2. At(tr) \in Dumps(prog, Len(tr))
  BY <1>1 DEF At, Dumps
<1>3. At(tr).choices = ChoicesOf(prog, Replay(prog, tr))
  BY DEF At, Dump
<1>4. WellFormed(Replay(prog, tr))
  BY <1>1, LevelsWellFormed
<1> QED BY <1>1, <1>2, <1>3, <1>4, ChoicesAreListed

\* The empty trace, and a trace with one more choice that its state offers.
LEMMA TraceGrows ==
  ASSUME NEW tr \in Traces(prog), NEW c \in Range(At(tr).choices)
  PROVE  /\ Append(tr, c) \in Traces(prog)
         /\ Len(Append(tr, c)) = Len(tr) + 1
         /\ At(Append(tr, c)) = Dump(prog, Step(prog, Replay(prog, tr), c))
<1> DEFINE os == Replay(prog, tr)
           C == ChoiceSet(prog)
<1>1. Len(tr) \in Nat /\ os \in Level(prog, Len(tr)) /\ tr \in Seq(C)
  BY DEF Traces
<1>2. c \in Range(ChoicesOf(prog, os))
  BY TraceFacts
<1>3. c \in C
  BY <1>1, <1>2 DEF ChoiceSet
<1>4. Replay(prog, Append(tr, c)) = Step(prog, os, c)
  BY <1>1, <1>3, ReplayStep
<1>5. Step(prog, os, c) \in Level(prog, Len(tr) + 1)
  <2>1. Step(prog, os, c) \in Successors(prog, os)
    BY <1>2 DEF Successors
  <2>2. Level(prog, Len(tr) + 1) = UNION {Successors(prog, o) : o \in Level(prog, Len(tr))}
    BY <1>1, LevelFacts
  <2> QED BY <1>1, <2>1, <2>2
<1> HIDE DEF C, os
<1>6. Append(tr, c) \in Seq(C) /\ Len(Append(tr, c)) = Len(tr) + 1
  BY <1>1, <1>3, AppendProperties
<1> QED BY <1>4, <1>5, <1>6 DEF Traces, At, C, os

\* The search begins at the first state.
LEMMA EmptyTrace ==
  /\ <<>> \in Traces(prog)
  /\ At(<<>>) = Dump(prog, OSInit)
  /\ Dump(prog, OSInit) \in Dumps(prog, 0)
<1>1. IsRun(prog, <<>>, 0, After(prog, <<>>))
  <2>1. Len(<<>>) = 0 /\ Len(<<>>) \in Nat
    OBVIOUS
  <2> QED BY <2>1, AfterIsRun
<1>2. Replay(prog, <<>>) = OSInit
  BY <1>1 DEF IsRun, Replay
<1>3. OSInit \in Level(prog, 0)
  BY LevelFacts
<1>4. <<>> \in Seq(ChoiceSet(prog)) /\ Len(<<>>) = 0
  OBVIOUS
<1> QED BY <1>2, <1>3, <1>4 DEF Traces, At, Dumps

-----------------------------------------------------------------------------
(* The invariant of the search. *)

\* The state being expanded and the states queued are at the ends of traces,
\* and the choices left are choices of the state being expanded.
Searching ==
    /\ prog \in Programs
    /\ queued \in Seq(Traces(prog))
    /\ trace \in Traces(prog)
    /\ todo \in Seq(Range(At(trace).choices))

\* The queue is a queue of a breadth-first search.
Ordered ==
    /\ \A i \in DOMAIN queued : Len(trace) <= Len(queued[i]) /\ Len(queued[i]) <= Len(trace) + 1
    /\ \A i, j \in DOMAIN queued : i < j => Len(queued[i]) <= Len(queued[j])

\* The vertices are states after as many steps as their depth says, and none
\* is deeper than the next level.
Seen ==
    /\ V \in [DOMAIN V -> Nat]
    /\ Dump(prog, OSInit) \in DOMAIN V /\ V[Dump(prog, OSInit)] = 0
    /\ At(trace) \in DOMAIN V
    /\ \A i \in DOMAIN queued : At(queued[i]) \in DOMAIN V
    /\ \A d \in DOMAIN V : V[d] <= Len(trace) + 1 /\ d \in Dumps(prog, V[d])

\* An edge joins two vertices and is one of the choices of the first.
Edges ==
    \A e \in E : e[1] \in DOMAIN V /\ e[2] \in DOMAIN V /\ e[3] \in Range(e[1].choices)

\* The state a choice leads to from the end of a trace has been recorded.
Followed(tr, c) ==
    /\ <<At(tr), At(Append(tr, c)), c>> \in E
    /\ At(Append(tr, c)) \in DOMAIN V
    /\ V[At(Append(tr, c))] <= Len(tr) + 1

Waiting(d) == \E i \in DOMAIN queued : At(queued[i]) = d /\ Len(queued[i]) = V[d]
Expanded(d) ==
    \E tr \in Traces(prog) :
        /\ At(tr) = d /\ Len(tr) = V[d]
        /\ \A c \in Range(d.choices) : Followed(tr, c) \/ (tr = trace /\ c \in Range(todo))

\* A vertex waits in the queue, or each of its choices has been followed or is
\* still to be followed in the loop.
Explored == \A d \in DOMAIN V : Waiting(d) \/ Expanded(d)

IInv == Searching /\ Ordered /\ Seen /\ Edges /\ Explored

\* The search begins with the first state in the queue.
LEMMA InitInv ==
  ASSUME Init
  PROVE  IInv
<1> DEFINE d0 == Dump(prog, OSInit)
<1>1. /\ prog \in Programs /\ queued = <<(<<>>)>> /\ trace = <<>> /\ todo = <<>> /\ E = {}
      /\ V = [d \in {d0} |-> 0]
  BY DEF Init
<1>2. <<>> \in Traces(prog) /\ At(<<>>) = d0 /\ d0 \in Dumps(prog, 0)
  BY EmptyTrace
<1>3. /\ queued \in Seq(Traces(prog)) /\ DOMAIN queued = {1} /\ queued[1] = <<>>
      /\ Len(trace) = 0 /\ Len(queued[1]) = 0
  BY <1>1, <1>2
<1> HIDE DEF d0
<1>4. Searching
  BY <1>1, <1>2, <1>3 DEF Searching
<1>5. Ordered
  BY <1>3 DEF Ordered
<1>6. DOMAIN V = {d0} /\ V[d0] = 0 /\ V \in [DOMAIN V -> Nat]
  BY <1>1
<1>7. Seen
  BY <1>1, <1>2, <1>3, <1>6 DEF Seen, d0
<1>8. Edges
  BY <1>1 DEF Edges
<1>9. Waiting(d0)
  BY <1>2, <1>3, <1>6 DEF Waiting
<1>10. Explored
  BY <1>6, <1>9 DEF Explored
<1> QED BY <1>4, <1>5, <1>7, <1>8, <1>10 DEF IInv

\* Taking a state out of the queue.
LEMMA PopInv ==
  ASSUME IInv, Pop
  PROVE  IInv'
<1>1. /\ prog \in Programs /\ queued \in Seq(Traces(prog)) /\ trace \in Traces(prog)
      /\ V \in [DOMAIN V -> Nat]
  BY DEF IInv, Searching, Seen
<1>2. /\ todo = <<>> /\ queued # <<>> /\ trace' = Head(queued) /\ queued' = Tail(queued)
      /\ todo' = At(trace').choices
      /\ prog' = prog /\ V' = V /\ E' = E
  BY DEF Pop
<1>3. \A tr : At(tr)' = At(tr)
  BY <1>2 DEF At
<1>4. /\ trace' \in Traces(prog) /\ queued' \in Seq(Traces(prog))
      /\ trace' = queued[1] /\ 1 \in DOMAIN queued
      /\ \A i \in DOMAIN queued' : i + 1 \in DOMAIN queued /\ queued'[i] = queued[i + 1] /\ i \in Nat
      /\ \A i \in DOMAIN queued : i = 1 \/ (i - 1 \in DOMAIN queued' /\ queued'[i - 1] = queued[i])
  <2> DEFINE T == Traces(prog)
  <2> HIDE DEF T
  <2>1. queued \in Seq(T) /\ queued # <<>>
    BY <1>1, <1>2 DEF T
  <2>2. /\ Head(queued) \in T /\ Tail(queued) \in Seq(T) /\ Head(queued) = queued[1]
        /\ Len(queued) \in Nat /\ Len(queued) > 0 /\ DOMAIN queued = 1..Len(queued)
        /\ Len(Tail(queued)) = Len(queued) - 1 /\ DOMAIN Tail(queued) = 1..(Len(queued) - 1)
        /\ \A i \in 1..(Len(queued) - 1) : Tail(queued)[i] = queued[i + 1]
    BY <2>1, HeadTailProperties
  <2>3. \A i \in 1..Len(queued) : i = 1 \/ (i - 1 \in 1..(Len(queued) - 1) /\ (i - 1) + 1 = i)
    BY <2>2
  <2> QED BY <1>2, <2>2, <2>3 DEF T
<1>5. /\ Len(trace) \in Nat /\ Len(trace') \in Nat
      /\ todo' \in Seq(Range(At(trace').choices))
      /\ \A i \in DOMAIN queued : Len(queued[i]) \in Nat
  <2>1. \A tr \in Traces(prog) : Len(tr) \in Nat /\ At(tr).choices \in Seq(Range(At(tr).choices))
    BY TraceFacts
  <2>2. \A i \in DOMAIN queued : queued[i] \in Traces(prog)
    BY <1>1
  <2> QED BY <1>1, <1>2, <1>4, <2>1, <2>2
<1>6. Searching'
  BY <1>1, <1>2, <1>3, <1>4, <1>5 DEF Searching
<1>7. /\ \A i \in DOMAIN queued : Len(trace) <= Len(queued[i]) /\ Len(queued[i]) <= Len(trace) + 1
      /\ \A i, j \in DOMAIN queued : i < j => Len(queued[i]) <= Len(queued[j])
  BY DEF IInv, Ordered
<1>8. Ordered'
  <2>1. ASSUME NEW i \in DOMAIN queued'
        PROVE  Len(trace') <= Len(queued'[i]) /\ Len(queued'[i]) <= Len(trace') + 1
    <3>1. i + 1 \in DOMAIN queued /\ queued'[i] = queued[i + 1] /\ i \in Nat /\ i # 0
      BY <1>4
    <3>2. 1 < i + 1
      BY <3>1
    <3>3. Len(queued[1]) <= Len(queued[i + 1]) /\ Len(queued[i + 1]) <= Len(trace) + 1
          /\ Len(trace) <= Len(queued[1])
      BY <1>4, <1>7, <3>1, <3>2
    <3> QED BY <1>4, <1>5, <3>1, <3>3
  <2>2. ASSUME NEW i \in DOMAIN queued', NEW j \in DOMAIN queued', i < j
        PROVE  Len(queued'[i]) <= Len(queued'[j])
    <3>1. i + 1 < j + 1
      BY <1>4, <2>2
    <3> QED BY <1>4, <1>7, <3>1
  <2> QED BY <2>1, <2>2 DEF Ordered
<1>9. Seen'
  <2>1. /\ Dump(prog, OSInit) \in DOMAIN V /\ V[Dump(prog, OSInit)] = 0
        /\ \A i \in DOMAIN queued : At(queued[i]) \in DOMAIN V
        /\ \A d \in DOMAIN V : V[d] <= Len(trace) + 1 /\ d \in Dumps(prog, V[d]) /\ V[d] \in Nat
    BY <1>1 DEF IInv, Seen
  <2>2. Len(trace) <= Len(trace')
    BY <1>4, <1>7
  <2>3. \A d \in DOMAIN V : V[d] <= Len(trace') + 1
    BY <1>5, <2>1, <2>2
  <2>4. At(trace') \in DOMAIN V /\ \A i \in DOMAIN queued' : At(queued'[i]) \in DOMAIN V
    BY <1>4, <2>1
  <2>5. (At(trace) \in DOMAIN V)' /\ \A i \in DOMAIN queued' : (At(queued[i]) \in DOMAIN V)'
    BY <1>2, <2>4 DEF At
  <2> QED BY <1>1, <1>2, <2>1, <2>3, <2>5 DEF Seen
<1>10. Edges'
  BY <1>2 DEF IInv, Edges
<1>11. Explored'
  <2> SUFFICES ASSUME NEW d \in DOMAIN V
               PROVE  Waiting(d)' \/ Expanded(d)'
    BY <1>2 DEF Explored
  <2>1. Waiting(d) \/ Expanded(d)
    BY DEF IInv, Explored
  <2>2. CASE Waiting(d)
    <3>1. PICK i \in DOMAIN queued : At(queued[i]) = d /\ Len(queued[i]) = V[d]
      BY <2>2 DEF Waiting
    <3>2. CASE i = 1
      <4>1. At(trace') = d /\ Len(trace') = V'[d] /\ todo' = d.choices
        BY <1>2, <1>4, <3>1, <3>2
      <4>2. Expanded(d)'
        BY <1>2, <1>3, <1>4, <4>1 DEF Expanded
      <4> QED BY <4>2
    <3>3. CASE i # 1
      <4>1. i - 1 \in DOMAIN queued' /\ queued'[i - 1] = queued[i]
        BY <1>4, <3>3
      <4>2. At(queued'[i - 1]) = d /\ Len(queued'[i - 1]) = V'[d]
        BY <1>2, <3>1, <4>1
      <4>3. Waiting(d)'
        BY <1>2, <4>1, <4>2 DEF Waiting, At
      <4> QED BY <4>3
    <3> QED BY <3>2, <3>3
  <2>3. CASE Expanded(d)
    <3>1. PICK tr \in Traces(prog) :
            /\ At(tr) = d /\ Len(tr) = V[d]
            /\ \A c \in Range(d.choices) : Followed(tr, c) \/ (tr = trace /\ c \in Range(todo))
      BY <2>3 DEF Expanded
    <3>2. Range(todo) = {}
      BY <1>2 DEF Range
    <3>3. \A c \in Range(d.choices) : Followed(tr, c)'
      BY <1>2, <1>3, <3>1, <3>2 DEF Followed
    <3>4. Expanded(d)'
      BY <1>2, <1>3, <3>1, <3>3 DEF Expanded
    <3> QED BY <3>4
  <2> QED BY <2>1, <2>2, <2>3
<1> QED BY <1>6, <1>8, <1>9, <1>10, <1>11 DEF IInv

\* Following a choice of the state being expanded.
LEMMA ExtendInv ==
  ASSUME IInv, Extend
  PROVE  IInv'
<1> DEFINE c1 == Head(todo)
           tr1 == Append(trace, c1)
           st == At(trace)
           st1 == At(tr1)
<1>1. /\ prog \in Programs /\ queued \in Seq(Traces(prog)) /\ trace \in Traces(prog)
      /\ todo \in Seq(Range(st.choices)) /\ V \in [DOMAIN V -> Nat] /\ st \in DOMAIN V
  BY DEF IInv, Searching, Seen
<1>2. /\ todo # <<>> /\ todo' = Tail(todo) /\ E' = E \cup {<<st, st1, c1>>}
      /\ prog' = prog /\ trace' = trace
      /\ \/ st1 \in DOMAIN V /\ V' = V /\ queued' = queued
         \/ /\ st1 \notin DOMAIN V
            /\ V' = [d \in DOMAIN V \cup {st1} |-> IF d = st1 THEN Len(tr1) ELSE V[d]]
            /\ queued' = Append(queued, tr1)
  BY DEF Extend
<1>3. \A tr : At(tr)' = At(tr)
  BY <1>2 DEF At
<1>4. /\ c1 \in Range(st.choices) /\ todo' \in Seq(Range(st.choices))
      /\ Range(todo) \subseteq {c1} \cup Range(todo')
  <2> DEFINE S == Range(st.choices)
  <2> HIDE DEF S, st
  <2>1. todo \in Seq(S) /\ todo # <<>>
    BY <1>1, <1>2 DEF S
  <2>2. /\ Head(todo) \in S /\ Tail(todo) \in Seq(S) /\ Head(todo) = todo[1]
        /\ Len(todo) \in Nat /\ Len(todo) > 0 /\ DOMAIN todo = 1..Len(todo)
        /\ DOMAIN Tail(todo) = 1..(Len(todo) - 1)
        /\ \A i \in 1..(Len(todo) - 1) : Tail(todo)[i] = todo[i + 1]
    BY <2>1, HeadTailProperties
  <2>3. \A i \in 1..Len(todo) : i = 1 \/ (i - 1 \in 1..(Len(todo) - 1) /\ (i - 1) + 1 = i)
    BY <2>2
  <2>4. \A i \in DOMAIN todo :
          todo[i] = Head(todo) \/ \E k \in DOMAIN Tail(todo) : todo[i] = Tail(todo)[k]
    BY <2>2, <2>3
  <2>5. Range(todo) \subseteq {Head(todo)} \cup Range(Tail(todo))
    BY <2>4 DEF Range
  <2> QED BY <1>2, <2>2, <2>5 DEF S
<1> HIDE DEF c1
<1>5. /\ tr1 \in Traces(prog) /\ Len(tr1) = Len(trace) + 1
      /\ Len(trace) \in Nat /\ st1 \in Dumps(prog, Len(tr1))
  <2>1. tr1 \in Traces(prog) /\ Len(tr1) = Len(trace) + 1
    BY <1>1, <1>4, TraceGrows
  <2> HIDE DEF tr1
  <2> QED BY <1>1, <2>1, TraceFacts
<1> HIDE DEF tr1
<1>6. \A i \in DOMAIN queued : Len(queued[i]) \in Nat /\ i \in Nat /\ queued[i] \in Traces(prog)
  <2>1. \A i \in DOMAIN queued : queued[i] \in Traces(prog) /\ i \in Nat
    BY <1>1
  <2> QED BY <2>1, TraceFacts
\* The queue and the vertices after the step.
<1>7. /\ queued' \in Seq(Traces(prog))
      /\ \A i \in DOMAIN queued : i \in DOMAIN queued' /\ queued'[i] = queued[i]
      /\ \A i \in DOMAIN queued' : i \in DOMAIN queued \/ (queued'[i] = tr1 /\ st1 \notin DOMAIN V)
      /\ \A i \in DOMAIN queued' : \A j \in DOMAIN queued : i < j => i \in DOMAIN queued
      /\ st1 \notin DOMAIN V => \E i \in DOMAIN queued' : queued'[i] = tr1
  <2> DEFINE T == Traces(prog)
  <2> HIDE DEF T, st1
  <2>1. queued \in Seq(T) /\ tr1 \in T
    BY <1>1, <1>5 DEF T
  <2>2. /\ Append(queued, tr1) \in Seq(T) /\ Len(queued) \in Nat /\ DOMAIN queued = 1..Len(queued)
        /\ DOMAIN Append(queued, tr1) = 1..(Len(queued) + 1)
        /\ \A i \in 1..Len(queued) : Append(queued, tr1)[i] = queued[i]
        /\ Append(queued, tr1)[Len(queued) + 1] = tr1
    BY <2>1, AppendProperties
  <2>3. CASE st1 \in DOMAIN V /\ queued' = queued
    BY <2>1, <2>2, <2>3 DEF T
  <2>4. CASE st1 \notin DOMAIN V /\ queued' = Append(queued, tr1)
    <3>1. \A i \in 1..(Len(queued) + 1) : i \in 1..Len(queued) \/ i = Len(queued) + 1
      BY <2>2
    <3>2. \A i \in 1..Len(queued) : i \in 1..(Len(queued) + 1)
      BY <2>2
    <3>3. Len(queued) + 1 \in 1..(Len(queued) + 1)
      BY <2>2
    <3>4. \A i \in 1..(Len(queued) + 1) : \A j \in 1..Len(queued) : i < j => i \in 1..Len(queued)
      BY <2>2
    <3> DEFINE q == Append(queued, tr1)
               n == Len(queued)
    <3> HIDE DEF q, n
    <3> QED BY <2>2, <2>4, <3>1, <3>2, <3>3, <3>4 DEF T, q, n
  <2> QED BY <1>2, <2>3, <2>4
<1>8. /\ DOMAIN V' = DOMAIN V \cup {st1}
      /\ V' \in [DOMAIN V' -> Nat]
      /\ \A d \in DOMAIN V : V'[d] = V[d]
      /\ st1 \notin DOMAIN V => V'[st1] = Len(tr1)
  <2> HIDE DEF st1
  <2>1. Len(tr1) \in Nat
    BY <1>5
  <2>2. CASE st1 \in DOMAIN V /\ V' = V
    <3>1. DOMAIN V' = DOMAIN V \cup {st1}
      BY <2>2
    <3> QED BY <1>1, <2>2, <3>1
  <2>3. CASE /\ st1 \notin DOMAIN V
             /\ V' = [d \in DOMAIN V \cup {st1} |-> IF d = st1 THEN Len(tr1) ELSE V[d]]
    BY <1>1, <2>1, <2>3
  <2> QED BY <1>2, <2>2, <2>3
<1>9. Searching'
  <2>1. (At(trace).choices)' = st.choices
    BY <1>2 DEF At
  <2> QED BY <1>1, <1>2, <1>4, <1>7, <2>1 DEF Searching
<1>10. /\ \A i \in DOMAIN queued : Len(trace) <= Len(queued[i]) /\ Len(queued[i]) <= Len(trace) + 1
       /\ \A i, j \in DOMAIN queued : i < j => Len(queued[i]) <= Len(queued[j])
  BY DEF IInv, Ordered
<1>11. Ordered'
  <2>1. ASSUME NEW i \in DOMAIN queued'
        PROVE  Len(trace) <= Len(queued'[i]) /\ Len(queued'[i]) <= Len(trace) + 1
    <3>1. CASE i \in DOMAIN queued
      BY <1>7, <1>10, <3>1
    <3>2. CASE queued'[i] = tr1
      BY <1>5, <3>2
    <3> QED BY <1>7, <3>1, <3>2
  <2>2. ASSUME NEW i \in DOMAIN queued', NEW j \in DOMAIN queued', i < j
        PROVE  Len(queued'[i]) <= Len(queued'[j])
    <3>1. CASE j \in DOMAIN queued
      <4>1. i \in DOMAIN queued
        BY <1>7, <2>2, <3>1
      <4> QED BY <1>7, <1>10, <2>2, <3>1, <4>1
    <3>2. CASE queued'[j] = tr1
      BY <1>5, <2>1, <3>2
    <3> QED BY <1>7, <3>1, <3>2
  <2> QED BY <1>2, <2>1, <2>2 DEF Ordered
<1>12. /\ Dump(prog, OSInit) \in DOMAIN V /\ V[Dump(prog, OSInit)] = 0
       /\ \A i \in DOMAIN queued : At(queued[i]) \in DOMAIN V
       /\ \A d \in DOMAIN V : V[d] <= Len(trace) + 1 /\ d \in Dumps(prog, V[d]) /\ V[d] \in Nat
  BY <1>1 DEF IInv, Seen
<1>13. V'[st1] <= Len(trace) + 1
  <2>1. CASE st1 \in DOMAIN V
    BY <1>8, <1>12, <2>1
  <2>2. CASE st1 \notin DOMAIN V
    BY <1>5, <1>8, <2>2
  <2> QED BY <2>1, <2>2
<1>14. Seen'
  <2> DEFINE d0 == Dump(prog, OSInit)
  <2>1. d0 \in DOMAIN V' /\ V'[d0] = 0 /\ st \in DOMAIN V'
    BY <1>1, <1>8, <1>12
  <2>2. \A i \in DOMAIN queued' : At(queued'[i]) \in DOMAIN V'
    BY <1>7, <1>8, <1>12
  <2>3. \A d \in DOMAIN V' : V'[d] <= Len(trace) + 1 /\ d \in Dumps(prog, V'[d])
    <3>1. ASSUME NEW d \in DOMAIN V
          PROVE  V'[d] <= Len(trace) + 1 /\ d \in Dumps(prog, V'[d])
      BY <1>8, <1>12
    <3>2. st1 \notin DOMAIN V => st1 \in Dumps(prog, V'[st1])
      BY <1>5, <1>8
    <3> HIDE DEF st1
    <3> QED BY <1>8, <1>13, <3>1, <3>2
  <2>4. (At(trace) \in DOMAIN V)' /\ \A i \in DOMAIN queued' : (At(queued[i]) \in DOMAIN V)'
    BY <1>2, <2>1, <2>2 DEF At
  <2> QED BY <1>2, <1>8, <2>1, <2>3, <2>4 DEF Seen
<1>15. Edges'
  <2> SUFFICES ASSUME NEW e \in E'
               PROVE  e[1] \in DOMAIN V' /\ e[2] \in DOMAIN V' /\ e[3] \in Range(e[1].choices)
    BY DEF Edges
  <2>1. CASE e \in E
    BY <1>8, <2>1 DEF IInv, Edges
  <2>2. CASE e = <<st, st1, c1>>
    <3>1. e[1] = st /\ e[2] = st1 /\ e[3] = c1
      BY <2>2
    <3> HIDE DEF st, st1
    <3> QED BY <1>1, <1>4, <1>8, <3>1
  <2> QED BY <1>2, <2>1, <2>2
<1>16. Explored'
  <2>1. ASSUME NEW tr \in Traces(prog), NEW c, Followed(tr, c)
        PROVE  Followed(tr, c)'
    <3> DEFINE a == At(tr)
               b == At(Append(tr, c))
    <3>1. <<a, b, c>> \in E' /\ b \in DOMAIN V' /\ V'[b] <= Len(tr) + 1
      BY <1>2, <1>8, <2>1 DEF Followed
    <3> QED BY <1>2, <3>1 DEF Followed, At
  <2>2. ASSUME NEW tr, NEW c, tr = trace, c = c1
        PROVE  Followed(tr, c)'
    <3>1. <<st, st1, c1>> \in E' /\ st1 \in DOMAIN V' /\ V'[st1] <= Len(trace) + 1
      BY <1>2, <1>8, <1>13
    <3>2. <<At(tr), At(Append(tr, c)), c>> \in E' /\ At(Append(tr, c)) \in DOMAIN V'
          /\ V'[At(Append(tr, c))] <= Len(tr) + 1
      BY <2>2, <3>1 DEF tr1
    <3> QED BY <1>3, <3>2 DEF Followed
  <2>3. ASSUME NEW d \in DOMAIN V, Waiting(d)
        PROVE  Waiting(d)'
    <3>1. PICK i \in DOMAIN queued : At(queued[i]) = d /\ Len(queued[i]) = V[d]
      BY <2>3 DEF Waiting
    <3>2. i \in DOMAIN queued' /\ At(queued'[i]) = d /\ Len(queued'[i]) = V'[d]
      BY <1>7, <1>8, <3>1
    <3> QED BY <1>2, <3>2 DEF Waiting, At
  <2>4. ASSUME NEW d \in DOMAIN V, Expanded(d)
        PROVE  Expanded(d)'
    <3>1. PICK tr \in Traces(prog) :
            /\ At(tr) = d /\ Len(tr) = V[d]
            /\ \A c \in Range(d.choices) : Followed(tr, c) \/ (tr = trace /\ c \in Range(todo))
      BY <2>4 DEF Expanded
    <3>2. ASSUME NEW c \in Range(d.choices)
          PROVE  Followed(tr, c)' \/ (tr = trace' /\ c \in Range(todo'))
      <4>1. CASE Followed(tr, c)
        BY <2>1, <3>1, <4>1
      <4>2. CASE tr = trace /\ c = c1
        BY <2>2, <4>2
      <4>3. CASE tr = trace /\ c \in Range(todo')
        BY <1>2, <4>3
      <4> QED BY <1>4, <3>1, <4>1, <4>2, <4>3
    <3>3. At(tr)' = d /\ Len(tr) = V'[d] /\ tr \in Traces(prog')
      BY <1>2, <1>3, <1>8, <3>1
    <3> QED BY <3>2, <3>3 DEF Expanded
  <2>5. ASSUME NEW d, d = st1, st1 \notin DOMAIN V
        PROVE  Waiting(d)'
    <3>1. PICK i \in DOMAIN queued' : queued'[i] = tr1
      BY <1>7, <2>5
    <3>2. At(queued'[i]) = d /\ Len(queued'[i]) = V'[d]
      BY <1>8, <2>5, <3>1
    <3> QED BY <1>2, <3>1, <3>2 DEF Waiting, At
  <2>6. \A d \in DOMAIN V : Waiting(d) \/ Expanded(d)
    BY DEF IInv, Explored
  <2> SUFFICES ASSUME NEW d \in DOMAIN V' PROVE Waiting(d)' \/ Expanded(d)'
    BY DEF Explored
  <2>7. CASE d \in DOMAIN V
    BY <2>3, <2>4, <2>6, <2>7
  <2>8. CASE d = st1 /\ st1 \notin DOMAIN V
    BY <2>5, <2>8
  <2> QED BY <1>8, <2>7, <2>8
<1> QED BY <1>9, <1>11, <1>14, <1>15, <1>16 DEF IInv

\* IInv holds throughout: Mosaic.check() is a breadth-first search in which no
\* vertex is forgotten before its choices have been followed.
THEOREM Invariance == Spec => []IInv
<1>1. Init => IInv
  BY InitInv
<1>2. IInv /\ [Next]_vars => IInv'
  <2> SUFFICES ASSUME IInv, [Next]_vars PROVE IInv'
    OBVIOUS
  <2>1. CASE Pop
    BY <2>1, PopInv
  <2>2. CASE Extend
    BY <2>2, ExtendInv
  <2>3. CASE UNCHANGED vars
    BY <2>3 DEF vars, IInv, Searching, Ordered, Seen, Edges, Explored, Waiting, Expanded,
                Followed, At
  <2> QED BY <2>1, <2>2, <2>3 DEF Next, Returned
<1> QED BY <1>1, <1>2, PTL DEF Spec

-----------------------------------------------------------------------------
(* What check() has found when it returns. *)

\* When the loop and the queue are empty, every choice has been followed.
LEMMA AllFollowed ==
  ASSUME IInv, Done, NEW d \in DOMAIN V
  PROVE  \E tr \in Traces(prog) : /\ At(tr) = d /\ Len(tr) = V[d]
                                  /\ \A c \in Range(d.choices) : Followed(tr, c)
<1>1. todo = <<>> /\ queued = <<>>
  BY DEF Done
<1>2. Range(todo) = {} /\ DOMAIN queued = {}
  BY <1>1 DEF Range
<1>3. Expanded(d)
  BY <1>2 DEF IInv, Explored, Waiting
<1> QED BY <1>2, <1>3 DEF Expanded

\* The transition graph is complete, for every application: each vertex has one
\* edge for each of its choices, and the edges join vertices.
THEOREM EdgesCorrect == Spec => []EdgesComplete
<1>1. IInv => EdgesComplete
  <2> SUFFICES ASSUME IInv, Done
               PROVE  /\ \A e \in E : e[1] \in DOMAIN V /\ e[2] \in DOMAIN V
                      /\ \A d \in DOMAIN V : {e[3] : e \in {f \in E : f[1] = d}} = Range(d.choices)
    BY DEF EdgesComplete
  <2>1. \A e \in E : e[1] \in DOMAIN V /\ e[2] \in DOMAIN V /\ e[3] \in Range(e[1].choices)
    BY DEF IInv, Edges
  <2>2. ASSUME NEW d \in DOMAIN V, NEW c \in Range(d.choices)
        PROVE  \E e \in E : e[1] = d /\ e[3] = c
    <3>1. PICK tr \in Traces(prog) : At(tr) = d /\ \A k \in Range(d.choices) : Followed(tr, k)
      BY AllFollowed
    <3>2. <<d, At(Append(tr, c)), c>> \in E
      BY <3>1 DEF Followed
    <3> QED BY <3>2
  <2> QED BY <2>1, <2>2
<1> QED BY <1>1, Invariance, PTL

\* However many steps an application takes, MaxSteps lead to the same states.
LEMMA LevelsClosed ==
  ASSUME NEW p \in Programs, NEW n \in Nat
  PROVE  Level(p, n) \subseteq Reached(p, MaxSteps)
<1> DEFINE T == {k \in Nat : Level(p, k) \subseteq Reached(p, MaxSteps)}
<1>0. MaxSteps \in Nat /\ Level(p, MaxSteps + 1) \subseteq Reached(p, MaxSteps)
  BY StepsAssumption DEF Level
<1>1. Reached(p, MaxSteps) = UNION {Level(p, k) : k \in 0..MaxSteps}
  BY <1>0, LevelFacts
<1>2. 0 \in T
  BY <1>0, <1>1
<1>3. ASSUME NEW k \in Nat, k \in T
      PROVE  k + 1 \in T
  <2> SUFFICES ASSUME NEW os \in Level(p, k + 1) PROVE os \in Reached(p, MaxSteps)
    OBVIOUS
  <2>1. PICK o \in Level(p, k) : os \in Successors(p, o)
    BY LevelFacts
  <2>2. PICK j \in 0..MaxSteps : o \in Level(p, j)
    BY <1>1, <1>3, <2>1
  <2>3. os \in Level(p, j + 1)
    <3>1. Level(p, j + 1) = UNION {Successors(p, x) : x \in Level(p, j)}
      BY <2>2, LevelFacts
    <3> QED BY <2>1, <2>2, <3>1
  <2>4. j + 1 \in 0..MaxSteps \/ j + 1 = MaxSteps + 1
    BY <1>0, <2>2
  <2> QED BY <1>0, <1>1, <2>3, <2>4
<1> HIDE DEF T
<1>4. Nat \subseteq T
  BY <1>2, <1>3, AllNat
<1> QED BY <1>4 DEF T

\* Where state_dump() tells states apart, the vertices hold every state, at a
\* depth that no execution undercuts: by induction on the steps.
LEMMA AllFound ==
  ASSUME IInv, Done, TellsApart, NEW n \in Nat
  PROVE  \A os \in Level(prog, n) : Dump(prog, os) \in DOMAIN V /\ V[Dump(prog, os)] <= n
<1> DEFINE Found(os, k) == Dump(prog, os) \in DOMAIN V /\ V[Dump(prog, os)] <= k
           T == {k \in Nat : \A os \in Level(prog, k) : Found(os, k)}
<1>0. prog \in Programs /\ V \in [DOMAIN V -> Nat]
  BY DEF IInv, Searching, Seen
<1>1. 0 \in T
  <2>1. Dump(prog, OSInit) \in DOMAIN V /\ V[Dump(prog, OSInit)] = 0
    BY DEF IInv, Seen
  <2> QED BY <2>1, LevelFacts
<1>2. ASSUME NEW k \in Nat, k \in T
      PROVE  k + 1 \in T
  <2> SUFFICES ASSUME NEW os1 \in Level(prog, k + 1) PROVE Found(os1, k + 1)
    OBVIOUS
  <2>1. PICK os \in Level(prog, k) : os1 \in Successors(prog, os)
    BY LevelFacts
  <2>2. PICK c \in Range(ChoicesOf(prog, os)) : os1 = Step(prog, os, c)
    BY <2>1 DEF Successors
  <2> DEFINE d == Dump(prog, os)
  <2>3. d \in DOMAIN V /\ V[d] <= k /\ V[d] \in Nat /\ d.choices = ChoicesOf(prog, os)
    <3>1. d \in DOMAIN V /\ V[d] <= k
      BY <1>2, <2>1
    <3>2. d.choices = ChoicesOf(prog, os)
      BY DEF Dump
    <3> QED BY <1>0, <3>1, <3>2
  <2>4. PICK tr \in Traces(prog) : /\ At(tr) = d /\ Len(tr) = V[d]
                                   /\ \A x \in Range(d.choices) : Followed(tr, x)
    <3> HIDE DEF d
    <3> QED BY <2>3, AllFollowed
  <2> DEFINE o == Replay(prog, tr)
  <2>5. Dump(prog, o) = d /\ o \in Level(prog, Len(tr)) /\ Len(tr) \in Nat
    BY <2>4 DEF At, Traces
  <2>6. o \in Reached(prog, MaxSteps) /\ os \in Reached(prog, MaxSteps)
    BY <1>0, <2>1, <2>5, LevelsClosed
  <2>7. Dump(prog, Step(prog, o, c)) = Dump(prog, os1)
    <3>1. Shown(prog, o) = Shown(prog, os)
      <4> DEFINE shown == {Shown(prog, x) : x \in Reached(prog, MaxSteps)}
      <4>1. \A a, b \in shown : a[1] = b[1] => a = b
        BY DEF TellsApart
      <4>2. Shown(prog, o)[1] = d /\ Shown(prog, os)[1] = d
        BY <2>5 DEF Shown
      <4> QED BY <2>6, <4>1, <4>2
    <3>2. c \in Range(ChoicesOf(prog, o))
      <4>1. Dump(prog, o).choices = ChoicesOf(prog, o)
        BY DEF Dump
      <4> QED BY <2>2, <2>3, <2>5, <4>1
    <3>3. [x \in Range(ChoicesOf(prog, o)) |-> Dump(prog, Step(prog, o, x))] =
          [x \in Range(ChoicesOf(prog, os)) |-> Dump(prog, Step(prog, os, x))]
      BY <3>1 DEF Shown
    <3>4. Dump(prog, Step(prog, o, c)) = Dump(prog, Step(prog, os, c))
      BY <2>2, <3>2, <3>3
    <3> QED BY <2>2, <3>4
  <2>8. Followed(tr, c) /\ c \in Range(At(tr).choices)
    BY <2>2, <2>3, <2>4
  <2>9. At(Append(tr, c)) = Dump(prog, os1)
    BY <2>7, <2>8, TraceGrows
  <2>10. Dump(prog, os1) \in DOMAIN V /\ V[Dump(prog, os1)] <= Len(tr) + 1
    BY <2>8, <2>9 DEF Followed
  <2> HIDE DEF d
  <2>11. V[Dump(prog, os1)] \in Nat /\ Len(tr) + 1 <= k + 1 /\ Len(tr) \in Nat
    BY <1>0, <2>3, <2>4, <2>10
  <2> QED BY <2>10, <2>11
<1> HIDE DEF T
<1>3. Nat \subseteq T
  BY <1>1, <1>2, AllNat
<1> QED BY <1>3 DEF T

\* Mosaic.check() is exhaustive wherever state_dump() tells states apart: when
\* it returns, the vertices are exactly the states that can be reached.
THEOREM ExhaustiveCorrect == Spec => [](TellsApart => Exhaustive)
<1>1. IInv => (TellsApart => Exhaustive)
  <2> SUFFICES ASSUME IInv, TellsApart, Done
               PROVE  DOMAIN V = UNION {ReachedIn(n) : n \in 0..MaxSteps}
    BY DEF Exhaustive
  <2>0. prog \in Programs /\ V \in [DOMAIN V -> Nat] /\ MaxSteps \in Nat
    BY StepsAssumption DEF IInv, Searching, Seen
  <2>1. ASSUME NEW d \in DOMAIN V
        PROVE  \E n \in 0..MaxSteps : d \in ReachedIn(n)
    <3>1. PICK os \in Level(prog, V[d]) : d = Dump(prog, os)
      BY DEF IInv, Seen, Dumps
    <3>2. V[d] \in Nat
      BY <2>0
    <3>3. os \in Reached(prog, MaxSteps)
      BY <2>0, <3>1, <3>2, LevelsClosed
    <3>4. PICK n \in 0..MaxSteps : os \in Level(prog, n)
      BY <2>0, <3>3, LevelFacts
    <3> QED BY <3>1, <3>4 DEF ReachedIn, Level
  <2>2. ASSUME NEW n \in 0..MaxSteps, NEW d \in ReachedIn(n)
        PROVE  d \in DOMAIN V
    <3>1. PICK os \in Level(prog, n) : d = Dump(prog, os)
      BY DEF ReachedIn, Level
    <3>2. n \in Nat
      OBVIOUS
    <3> QED BY <3>1, <3>2, AllFound
  <2> QED BY <2>1, <2>2
<1> QED BY <1>1, Invariance, PTL

\* The depths are the lengths of shortest executions under the same condition,
\* although only the first trace to each state is kept.
THEOREM DepthCorrect == Spec => [](TellsApart => DepthIsShortest)
<1>1. IInv => (TellsApart => DepthIsShortest)
  <2> SUFFICES ASSUME IInv, TellsApart, Done, NEW n \in 0..MaxSteps
               PROVE  /\ \A d \in ReachedIn(n) : V[d] <= n
                      /\ \A d \in DOMAIN V : V[d] = n => d \in ReachedIn(n)
    BY DEF DepthIsShortest
  <2>1. ReachedIn(n) = Dumps(prog, n) /\ n \in Nat
    BY StepsAssumption DEF ReachedIn, Dumps, Level
  <2>2. \A d \in ReachedIn(n) : V[d] <= n
    <3>1. \A os \in Level(prog, n) : V[Dump(prog, os)] <= n
      BY <2>1, AllFound
    <3> QED BY <2>1, <3>1 DEF Dumps
  <2>3. \A d \in DOMAIN V : V[d] = n => d \in ReachedIn(n)
    BY <2>1 DEF IInv, Seen
  <2> QED BY <2>2, <2>3
<1> QED BY <1>1, Invariance, PTL
=============================================================================
