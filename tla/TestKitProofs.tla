---------------------------- MODULE TestKitProofs ----------------------------
(***************************************************************************)
(* Proofs about TestKit for every suite, table, pipe and program: which     *)
(* cases run, what their verdicts say, that every case is cleaned up and     *)
(* that the handler TestKit registers does not kill the program.            *)
(***************************************************************************)
EXTENDS TestKit, SequenceTheorems, TLAPS

\* The table travels once: what the two programs wrote is in the pipe or has
\* been read, and before main() nothing was written.
Flow ==
    /\ Len(w.got) + Len(pipe) = m.sent + c.sent
    /\ c.pc = "none" => c.sent = 0
    /\ m.pc = "ctor" => c.pc = "none" /\ w.pc \in {"none", "reading"}
    /\ m.pc \in {"ctor", "main"} => m.sent = 0
    /\ m.pc # "ctor" => w.pc # "none"
    /\ m.pc = "wait" \/ m.status = "exit" => m.sent = Chunks
    /\ m.status # "none" => m.pc = "dead"

\* The hook forks the worker.
Hooked == m.hooked => w.pc # "none"

\* The worker stops reading only with the whole table, or when nobody is left
\* to write to it.
Reader ==
    /\ c.pc = "none" /\ m.pc \in {"main", "notify"} /\ m.sent < Chunks => w.pc = "reading"
    /\ c.pc = "none" => m.status # "sigpipe"
    /\ m.status = "sigpipe" => w.pc # "reading"
    /\ w.pc \notin {"none", "reading"} /\ m.status # "killed" =>
         w.got # <<>> /\ (c.pc = "none" => Len(w.got) = Chunks)
    /\ m.pc = "dead" => m.status # "none"

\* The first piece of the table comes first, whoever writes it, and the pieces
\* of a single writer come in order.
Order ==
    /\ w.got # <<>> => w.got[1] = 1
    /\ w.got = <<>> /\ pipe # <<>> => pipe[1] = 1
    /\ c.pc = "none" => /\ \A k \in 1..Len(w.got) : w.got[k] = k
                        /\ \A k \in 1..Len(pipe) : pipe[k] = Len(w.got) + k

\* The worker was forked with some of the cases, and it does not go beyond the
\* cases of the program unless the table is full or mixed.
Table ==
    /\ w.n <= m.n /\ m.n <= Len(suite)
    /\ w.pc \in {"none", "reading"} => w.i = 1
    /\ m.n < MaxTests /\ Unmixed =>
         w.i <= m.n + 1 /\ (w.pc \in {"wait", "cleanup"} => w.i <= m.n)
    /\ w.i <= MaxTests + 2 /\ (w.pc \in {"wait", "cleanup"} => w.i <= MaxTests + 1)
    /\ w.pc = "done" => IsDisabled(w.i)

\* The cases that are behind the worker are those with a verdict.
Behind(i) == i < w.i \/ (i = w.i /\ w.pc = "cleanup")
Verdicts == \A i \in Cases : verdict[i] # "none" <=> Behind(i)

\* What check_results makes of the status st of the test process, see Collect,
\* explains the case.
Tells(case, st) == Explains(IF st = "exit" THEN "PASS" ELSE st, case)

\* The test process of the current case is where the outcome of its code so
\* far lets it be, and main() of a case ends with the status of that code.
Running ==
    /\ t.pc # "none" <=> w.pc = "wait"
    /\ t.pc \in {"main", "body"} => CaseAt(w.i).init = "ok"
    /\ t.pc = "main" => CaseAt(w.i).sys
    /\ t.pc = "body" /\ CaseAt(w.i).sys => CaseAt(w.i).main = "ok"
    /\ t.pc = "dead" => t.status # "none" /\ Tells(CaseAt(w.i), t.status)
    /\ \A i \in Cases : s[i] \in {"none", "run", Status(CaseAt(i).main)}
    /\ w.pc \in {"none", "reading"} => \A i \in Cases : s[i] = "none"

\* The cleanup code of exactly the cases behind the worker has been started.
Cleanup ==
    /\ f # "none" <=> w.pc = "cleanup"
    /\ \A i \in Nat \ {0} : i \in cleaned <=> Behind(i) /\ CaseAt(i).fini # "none"

\* The inductive invariant.
IInv == TypeOK /\ Hooked /\ Flow /\ Reader /\ Order /\ Table /\ Verdicts /\ Running /\ Cleanup
        /\ VerdictSound

\* A sequence that grows by one element of its set.
LEMMA AppendIn ==
  ASSUME NEW S, NEW q \in Seq(S), NEW x \in S
  PROVE  Append(q, x) \in Seq(S) /\ Len(Append(q, x)) = Len(q) + 1 /\ Append(q, x) # <<>>
<1>1. Append(q, x) \in Seq(S) /\ Len(Append(q, x)) = Len(q) + 1 /\ Len(q) \in Nat
  OBVIOUS
<1>2. Len(<<>>) = 0
  OBVIOUS
<1> QED BY <1>1, <1>2

\* A case of a suite is a case, and so is what lies behind the table.
LEMMA CaseType == TypeOK => \A i \in Nat \ {0} : CaseAt(i) \in Case
<1> SUFFICES ASSUME TypeOK, NEW i \in Nat \ {0} PROVE CaseAt(i) \in Case
  OBVIOUS
<1>1. suite \in Seq(Case)
  BY SuitesAssumption DEF TypeOK
<1>2. CASE Entry(i) \in DOMAIN suite
  BY <1>1, <1>2 DEF CaseAt
<1>3. CASE Entry(i) \notin DOMAIN suite
  BY <1>3 DEF CaseAt, Case, Outcomes
<1> QED BY <1>2, <1>3

\* The invariant holds before the constructors run.
LEMMA InitInv == Init => IInv
<1> SUFFICES ASSUME Init PROVE IInv
  OBVIOUS
<1> USE SuitesAssumption, PipeAssumption DEF Init
<1>1. TypeOK
  BY DEF TypeOK, Cases, ProgramStates, ChildStates, WorkerStates, TestStates
<1>2. Len(suite) \in Nat
  BY <1>1 DEF TypeOK
<1>3. Flow /\ Reader /\ Hooked
  BY DEF Flow, Reader, Hooked
<1>9. Order
  BY DEF Order
<1>4. Table /\ Verdicts
  BY <1>2 DEF Table, Verdicts, Behind, Cases
<1>5. Running /\ Cleanup
  BY DEF Running, Cleanup, Behind, Cases
<1>6. \A i \in 1..MaxTests : verdict[i] = "none"
  BY <1>2 DEF Cases
<1>7. VerdictSound
  BY <1>6 DEF VerdictSound, Explains
<1> QED BY <1>1, <1>3, <1>4, <1>5, <1>7, <1>9 DEF IInv

\* Type correctness, step by step.
LEMMA TypeInv == IInv /\ [Next]_vars => TypeOK'
<1> SUFFICES ASSUME IInv, TypeOK, [Next]_vars PROVE TypeOK'
  BY DEF IInv
<1> USE PipeAssumption
<1>0. CaseAt(w.i) \in Case /\ \A i \in Cases : CaseAt(i) \in Case
  BY CaseType, SuitesAssumption DEF TypeOK, Cases, WorkerStates
<1>1. CASE AddTest
  <2>1. m' \in ProgramStates
    BY SMTT(30), <1>0, <1>1 DEF TypeOK, AddTest, ProgramStates
  <2> QED BY <1>1, <2>1 DEF TypeOK, AddTest
<1>2. CASE Hook
  <2>1. m' \in ProgramStates
    BY <1>0, <1>2 DEF TypeOK, Hook, ProgramStates
  <2>2. w' \in WorkerStates
    BY <1>0, <1>2 DEF TypeOK, Hook, WorkerStates, ProgramStates
  <2> QED BY <1>2, <2>1, <2>2 DEF TypeOK, Hook
<1>3. CASE StartMain
  <2>1. m' \in ProgramStates
    BY <1>0, <1>3 DEF TypeOK, StartMain, ProgramStates
  <2> QED BY <1>3, <2>1 DEF TypeOK, StartMain
<1>4. CASE ForkChild
  <2>1. c' \in ChildStates
    BY <1>0, <1>4 DEF TypeOK, ForkChild, ChildStates
  <2> QED BY <1>4, <2>1 DEF TypeOK, ForkChild
<1>5. CASE MainExits
  <2>1. m' \in ProgramStates
    BY <1>0, <1>5 DEF TypeOK, MainExits, ProgramStates
  <2> QED BY <1>5, <2>1 DEF TypeOK, MainExits
<1>6. CASE MainKilled
  <2>1. m' \in ProgramStates
    BY <1>0, <1>6 DEF TypeOK, MainKilled, ProgramStates
  <2> QED BY <1>6, <2>1 DEF TypeOK, MainKilled
<1>7. CASE Notify
  <2>0. m.sent + 1 \in 1..Chunks /\ m.sent + 1 \in 0..Chunks
    BY <1>7 DEF TypeOK, Notify, ProgramStates
  <2>1. m' \in ProgramStates
    <3>1. [m EXCEPT !.sent = @ + 1] \in ProgramStates
      <4> DEFINE k == m.sent + 1
      <4>1. k \in 0..Chunks
        BY <2>0
      <4> HIDE DEF k
      <4>2. [m EXCEPT !.sent = k] \in ProgramStates
        BY <4>1 DEF TypeOK, ProgramStates
      <4> QED BY <4>2 DEF k
    <3>2. [m EXCEPT !.pc = "dead", !.status = "sigpipe"] \in ProgramStates
      BY DEF TypeOK, ProgramStates
    <3> QED BY <1>7, <3>1, <3>2 DEF Notify
  <2>2. Append(pipe, m.sent + 1) \in Seq(1..Chunks)
    BY <2>0, AppendIn DEF TypeOK
  <2>3. pipe' \in Seq(1..Chunks)
    BY <1>7, <2>2 DEF TypeOK, Notify
  <2> QED BY <1>7, <2>1, <2>3 DEF TypeOK, Notify
<1>8. CASE NotifyDone
  <2>1. m' \in ProgramStates
    BY <1>0, <1>8 DEF TypeOK, NotifyDone, ProgramStates
  <2> QED BY <1>8, <2>1 DEF TypeOK, NotifyDone
<1>9. CASE MainGone
  <2>1. m' \in ProgramStates
    BY <1>0, <1>9 DEF TypeOK, MainGone, ProgramStates
  <2> QED BY <1>9, <2>1 DEF TypeOK, MainGone
<1>10. CASE ChildNotify
  <2>1. c' \in ChildStates
    BY <1>0, <1>10 DEF TypeOK, ChildNotify, ChildStates
  <2>2. c.sent \in 0..Chunks
    BY DEF TypeOK, ChildStates
  <2>3. pipe' \in Seq(1..Chunks)
    <3>1. CASE pipe' = Append(pipe, c.sent + 1) /\ c.sent < Chunks
      <4>1. c.sent + 1 \in 1..Chunks
        BY <2>2, <3>1
      <4> QED BY <3>1, <4>1, AppendIn DEF TypeOK
    <3>2. CASE UNCHANGED pipe
      BY <3>2 DEF TypeOK
    <3> QED BY <1>10, <3>1, <3>2 DEF ChildNotify
  <2> QED BY <1>10, <2>1, <2>3 DEF TypeOK, ChildNotify
<1>11. CASE Read
  <2>0. w.got \in Seq(1..Chunks) /\ m.n \in Nat /\ pipe \in Seq(1..Chunks) /\ pipe # <<>>
    BY <1>11 DEF TypeOK, Read, WorkerStates, ProgramStates
  <2>1. w' \in WorkerStates
    <3> DEFINE got == Append(w.got, Head(pipe))
    <3>1. got \in Seq(1..Chunks)
      BY <2>0
    <3>2. w' = [w EXCEPT !.got = got]
      BY <1>11 DEF Read
    <3> HIDE DEF got
    <3> QED BY <3>1, <3>2 DEF TypeOK, WorkerStates
  <2>2. pipe' \in Seq(1..Chunks)
    BY <1>0, <1>11 DEF TypeOK, Read, ProgramStates, ChildStates
  <2> QED BY <1>11, <2>1, <2>2 DEF TypeOK, Read
<1>12. CASE ReadDone
  <2>1. w' \in WorkerStates
    BY <1>0, <1>12 DEF TypeOK, ReadDone, WorkerStates
  <2> QED BY <1>12, <2>1 DEF TypeOK, ReadDone
<1>13. CASE StartTest
  <2>1. w' \in WorkerStates
    BY <1>0, <1>13 DEF TypeOK, StartTest, WorkerStates
  <2>2. t' \in TestStates
    BY <1>0, <1>13 DEF TypeOK, StartTest, TestStates
  <2> QED BY <1>13, <2>1, <2>2 DEF TypeOK, StartTest
<1>14. CASE Collect
  <2>0. w.i + 1 \in Nat \ {0}
    BY DEF TypeOK, WorkerStates
  <2>1. w' \in WorkerStates
    <3>1. [w EXCEPT !.pc = "next", !.i = @ + 1] \in WorkerStates
      BY <2>0 DEF TypeOK, WorkerStates
    <3>2. [w EXCEPT !.pc = "cleanup"] \in WorkerStates
      BY DEF TypeOK, WorkerStates
    <3> QED BY <1>14, <3>1, <3>2 DEF Collect
  <2>2. t' \in TestStates
    BY <1>0, <1>14 DEF TypeOK, Collect, TestStates
  <2> QED BY <1>14, <2>1, <2>2 DEF TypeOK, Collect, TestStates, WorkerStates
<1>15. CASE CleanupDone
  <2>0. w.i + 1 \in Nat \ {0}
    BY DEF TypeOK, WorkerStates
  <2>1. w' \in WorkerStates
    <3>1. [w EXCEPT !.pc = "next", !.i = @ + 1] \in WorkerStates
      BY <2>0 DEF TypeOK, WorkerStates
    <3>2. [w EXCEPT !.pc = "cleanup"] \in WorkerStates
      BY DEF TypeOK, WorkerStates
    <3> QED BY <1>15, <3>1, <3>2 DEF CleanupDone
  <2> QED BY <1>15, <2>1 DEF TypeOK, CleanupDone
<1>16. CASE WorkerDone
  <2>1. w' \in WorkerStates
    BY <1>0, <1>16 DEF TypeOK, WorkerDone, WorkerStates
  <2> QED BY <1>16, <2>1 DEF TypeOK, WorkerDone
<1>17. CASE TestInit
  <2>1. t' \in TestStates
    BY <1>0, <1>17 DEF TypeOK, TestInit, TestStates, DieT, Case, Outcomes
  <2> QED BY <1>17, <2>1 DEF TypeOK, TestInit
<1>18. CASE MainReturned
  <2>1. t' \in TestStates
    <3>1. w.i \in Cases
      BY <1>18, SuitesAssumption DEF IInv, MainReturned, Running, Table, Cases, TypeOK, WorkerStates
    <3> QED BY <1>18, <3>1 DEF TypeOK, MainReturned, TestStates, DieT
  <2> QED BY <1>18, <2>1 DEF TypeOK, MainReturned
<1>19. CASE TestBody
  <2>1. t' \in TestStates
    BY <1>0, <1>19 DEF TypeOK, TestBody, TestStates, DieT, Case, Outcomes, Status
  <2> QED BY <1>19, <2>1 DEF TypeOK, TestBody
<1>20. CASE AlarmTest
  <2>1. t' \in TestStates
    BY <1>0, <1>20 DEF TypeOK, AlarmTest, TestStates, DieT, Case, Outcomes
  <2> QED BY <1>20, <2>1 DEF TypeOK, AlarmTest
<1>21. CASE RunFini
  <2> QED BY <1>21 DEF TypeOK, RunFini
<1>22. CASE AlarmFini
  <2> QED BY <1>22 DEF TypeOK, AlarmFini
<1>23. ASSUME NEW i \in Cases, RunMain(i) PROVE TypeOK'
  BY <1>0, <1>23 DEF TypeOK, RunMain, Status, Case, Outcomes
<1>24. CASE UNCHANGED vars
  BY <1>24 DEF TypeOK, vars
<1> QED BY <1>1, <1>2, <1>3, <1>4, <1>5, <1>6, <1>7, <1>8, <1>9, <1>10, <1>11, <1>12,
       <1>13, <1>14, <1>15, <1>16, <1>17, <1>18, <1>19, <1>20, <1>21, <1>22, <1>23, <1>24
  DEF Next, Program, Worker, Testing, Finished

\* The processes of a case touch neither the program nor the worker.
LEMMA TestingKeeps ==
  ASSUME Testing \/ \E i \in Cases : RunMain(i)
  PROVE  UNCHANGED <<suite, enabled, m, c, pipe, w, verdict, cleaned>>
  BY DEF Testing, TestInit, MainReturned, TestBody, AlarmTest, RunFini, AlarmFini, RunMain

\* The worker reads the table only at its beginning.
LEMMA WorkingKeeps ==
  ASSUME IInv, StartTest \/ Collect \/ CleanupDone \/ WorkerDone
  PROVE  /\ UNCHANGED <<suite, enabled, m, c, pipe>>
         /\ w.pc \notin {"none", "reading"} /\ w'.pc \notin {"none", "reading"}
         /\ w'.got = w.got /\ w'.n = w.n
  BY DEF IInv, TypeOK, WorkerStates, StartTest, Collect, CleanupDone, WorkerDone

\* The worker is there once the hook has run.
LEMMA HookedInv == IInv /\ [Next]_vars => Hooked'
<1> SUFFICES ASSUME IInv, [Next]_vars PROVE Hooked'
  OBVIOUS
<1>0. m \in ProgramStates /\ w \in WorkerStates /\ Hooked
  BY DEF IInv, TypeOK
<1>1. CASE Hook
  BY <1>0, <1>1 DEF Hook, Hooked, WorkerStates
<1>2. CASE m'.hooked = m.hooked /\ (UNCHANGED w \/ w'.pc # "none")
  BY <1>0, <1>2 DEF Hooked
<1>3. CASE AddTest \/ StartMain \/ MainExits \/ MainKilled \/ Notify \/ NotifyDone \/ MainGone
  BY <1>0, <1>2, <1>3 DEF ProgramStates, AddTest, StartMain, MainExits, MainKilled, Notify,
                          NotifyDone, MainGone
<1>4. CASE Read \/ ReadDone
  BY <1>0, <1>2, <1>4 DEF WorkerStates, Read, ReadDone
<1>5. CASE StartTest \/ Collect \/ CleanupDone \/ WorkerDone
  BY <1>2, <1>5, WorkingKeeps
<1>6. CASE Testing \/ \E i \in Cases : RunMain(i)
  BY <1>2, <1>6, TestingKeeps
<1>7. CASE ForkChild \/ ChildNotify \/ UNCHANGED vars
  BY <1>2, <1>7 DEF ForkChild, ChildNotify, vars
<1> QED BY <1>1, <1>3, <1>4, <1>5, <1>6, <1>7 DEF Next, Program, Worker, Finished

\* What is written and read stays accounted for, and the worker reads for as
\* long as a program without children writes.
LEMMA PipeInv == IInv /\ [Next]_vars => Flow' /\ Reader'
<1> SUFFICES ASSUME IInv, [Next]_vars PROVE Flow' /\ Reader'
  OBVIOUS
<1> USE PipeAssumption
<1>0. /\ m \in ProgramStates /\ c \in ChildStates /\ w \in WorkerStates
      /\ pipe \in Seq(1..Chunks) /\ w.got \in Seq(1..Chunks)
      /\ Flow /\ Reader
  BY DEF IInv, TypeOK, WorkerStates
<1> DEFINE g == Len(w.got)
           l == Len(pipe)
<1>g. g \in Nat /\ l \in Nat /\ m.sent \in Nat /\ m.sent <= Chunks /\ c.sent \in Nat
  BY <1>0 DEF ProgramStates, ChildStates
<1>f. Flow /\ Reader /\ g + l = m.sent + c.sent
  BY <1>0 DEF Flow
<1>1. CASE AddTest
  BY <1>0, <1>1 DEF AddTest, Flow, Reader, ProgramStates, ChildStates, WorkerStates
<1>2. CASE Hook
  BY <1>0, <1>2 DEF Hook, Flow, Reader, ProgramStates, ChildStates, WorkerStates
<1>3. CASE StartMain
  BY <1>0, <1>3 DEF IInv, Hooked, StartMain, Flow, Reader, ProgramStates, ChildStates, WorkerStates
<1>4. CASE ForkChild
  BY <1>0, <1>4 DEF ForkChild, Flow, Reader, ProgramStates, ChildStates, WorkerStates
<1>5. CASE MainExits
  BY <1>0, <1>5 DEF MainExits, Flow, Reader, ProgramStates, ChildStates, WorkerStates
<1>6. CASE MainKilled
  BY <1>0, <1>6 DEF MainKilled, Flow, Reader, ProgramStates, ChildStates, WorkerStates
<1>7. CASE Notify
  <2>1. CASE ReaderOpen
    <3>1. /\ pipe' = Append(pipe, m.sent + 1) /\ m.sent < Chunks /\ m.pc = "notify"
          /\ m' = [m EXCEPT !.sent = @ + 1] /\ UNCHANGED <<c, w>>
      BY <1>7, <2>1 DEF Notify
    <3>2. Len(pipe') = Len(pipe) + 1
      BY <1>0, <3>1
    <3>3. /\ m'.pc = m.pc /\ m'.sent = m.sent + 1 /\ m'.status = m.status
          /\ m.sent \in 0..Chunks
      BY <1>0, <3>1 DEF ProgramStates
    <3>4. Len(w.got) + Len(pipe') = m'.sent + c.sent
      <4>1. Len(pipe') = l + 1 /\ m'.sent = m.sent + 1
        BY <3>2, <3>3
      <4> HIDE DEF g, l
      <4>2. g + Len(pipe') = m'.sent + c.sent
        BY <1>g, <1>f, <4>1
      <4> QED BY <4>2 DEF g
    <3>6. Flow'
      BY <1>f, <3>1, <3>3, <3>4 DEF Flow
    <3>5. Reader'
      BY <1>0, <2>1, <3>1, <3>3 DEF Reader, Flow, ReaderOpen
    <3> QED BY <3>5, <3>6
  <2>2. CASE ~ReaderOpen
    <3>1. /\ m.sent < Chunks /\ m.pc = "notify" /\ UNCHANGED <<c, w, pipe>>
          /\ m' = [m EXCEPT !.pc = "dead", !.status = "sigpipe"]
      BY <1>7, <2>2 DEF Notify
    <3>2. m'.pc = "dead" /\ m'.status = "sigpipe" /\ m'.sent = m.sent
      BY <1>0, <3>1 DEF ProgramStates
    <3>3. Flow'
      BY <1>0, <3>1, <3>2 DEF Flow
    <3>4. Reader'
      BY <1>0, <2>2, <3>1, <3>2 DEF Reader, Flow, ReaderOpen
    <3> QED BY <3>3, <3>4
  <2> QED BY <2>1, <2>2
<1>8. CASE NotifyDone
  BY <1>0, <1>8 DEF NotifyDone, Flow, Reader, ProgramStates, ChildStates, WorkerStates
<1>9. CASE MainGone
  BY <1>0, <1>9 DEF MainGone, Flow, Reader, ProgramStates, ChildStates, WorkerStates
<1>10. CASE ChildNotify
  <2>1. c.pc = "main" /\ UNCHANGED <<m, w>> /\ c'.pc # "none" /\ c.sent \in 0..Chunks
    BY <1>0, <1>10 DEF ChildNotify, ChildStates
  <2>2. Len(pipe') - Len(pipe) = c'.sent - c.sent
    <3>1. CASE pipe' = Append(pipe, c.sent + 1) /\ c' = [c EXCEPT !.sent = @ + 1]
      BY <1>0, <2>1, <3>1 DEF ChildStates
    <3>2. CASE UNCHANGED pipe /\ c' = [c EXCEPT !.pc = "dead"]
      BY <1>0, <2>1, <3>2 DEF ChildStates
    <3> QED BY <1>10, <3>1, <3>2 DEF ChildNotify
  <2>3. Len(pipe') \in Nat /\ c'.sent \in Nat /\ Len(pipe) \in Nat /\ Len(w.got) \in Nat
    <3>1. pipe' \in Seq(1..Chunks) /\ c' \in ChildStates
      BY TypeInv DEF TypeOK
    <3> QED BY <1>0, <3>1 DEF ChildStates
  <2>4. m.sent \in Nat /\ m.pc # "ctor"
    BY <1>0, <2>1 DEF Flow, ProgramStates
  <2>5. Len(w.got) + Len(pipe') = m.sent + c'.sent
    <3> DEFINE ln == Len(pipe')
               cs == c'.sent
    <3>1. ln - l = cs - c.sent /\ ln \in Nat /\ cs \in Nat
      BY <2>2, <2>3
    <3> HIDE DEF ln, cs, g, l
    <3>2. g + ln = m.sent + cs
      BY <1>g, <1>f, <3>1
    <3> QED BY <3>2 DEF g, ln, cs
  <2>6. Flow'
    BY <1>0, <2>1, <2>4, <2>5 DEF Flow
  <2>7. Reader'
    BY <1>0, <2>1 DEF Reader
  <2> QED BY <2>6, <2>7
<1>11. CASE Read
  BY <1>0, <1>11 DEF Read, Flow, Reader, ProgramStates, ChildStates, WorkerStates
<1>12. CASE ReadDone
  <2>1. /\ UNCHANGED <<m, c, pipe>> /\ w.pc = "reading"
        /\ w'.pc = "next" /\ w'.got = w.got
        /\ Len(w.got) = Chunks \/ (Len(pipe) = 0 /\ ~WriterOpen)
    BY <1>0, <1>12 DEF ReadDone, WorkerStates
  <2>2. Len(w.got) \in Nat /\ Len(pipe) \in Nat /\ m.sent \in Nat /\ c.sent \in Nat
    BY <1>0 DEF ProgramStates, ChildStates
  <2>3. m.pc # "ctor"
    <3> SUFFICES ASSUME m.pc = "ctor" PROVE FALSE
      OBVIOUS
    <3>1. g = Chunks /\ m.sent = 0 /\ c.sent = 0
      BY <1>f, <2>1 DEF Flow, WriterOpen
    <3> HIDE DEF g, l
    <3> QED BY <1>g, <1>f, <3>1
  <2>4. Flow'
    BY <1>0, <2>1, <2>3 DEF Flow
  <2>5. c.pc = "none" /\ m.pc \in {"main", "notify"} => m.sent = Chunks
    <3>1. SUFFICES ASSUME c.pc = "none", m.pc \in {"main", "notify"} PROVE m.sent = Chunks
      OBVIOUS
    <3>2. Len(w.got) = Chunks /\ c.sent = 0 /\ m.sent <= Chunks
      BY <1>0, <2>1, <3>1 DEF Flow, WriterOpen, ProgramStates
    <3> QED BY <1>0, <2>2, <3>2 DEF Flow
  <2>6. m.status # "killed" => Len(w.got) # 0 /\ (c.pc = "none" => Len(w.got) = Chunks)
    <3>1. CASE Len(w.got) = Chunks
      BY <3>1
    <3>2. CASE Len(pipe) = 0 /\ ~WriterOpen /\ m.status # "killed"
      <4>1. m.pc = "wait" \/ m.status = "exit"
        BY <1>0, <2>1, <3>2 DEF WriterOpen, Reader, ProgramStates
      <4> QED BY <1>0, <2>2, <3>2, <4>1 DEF Flow
    <3> QED BY <2>1, <3>1, <3>2
  <2>7. m.status # "killed" => w.got # <<>> /\ (c.pc = "none" => Len(w.got) = Chunks)
    <3>1. Len(<<>>) = 0
      OBVIOUS
    <3> QED BY <2>6, <3>1
  <2>8. Reader'
    BY <1>0, <2>1, <2>5, <2>7 DEF Reader
  <2> QED BY <2>4, <2>8
<1>13. CASE StartTest \/ Collect \/ CleanupDone \/ WorkerDone
  BY <1>0, <1>13, WorkingKeeps DEF Flow, Reader
<1>14. CASE Testing \/ \E i \in Cases : RunMain(i)
  BY <1>0, <1>14, TestingKeeps DEF Flow, Reader
<1>15. CASE UNCHANGED vars
  BY <1>0, <1>15 DEF vars, Flow, Reader
<1> QED BY <1>1, <1>2, <1>3, <1>4, <1>5, <1>6, <1>7, <1>8, <1>9, <1>10, <1>11, <1>12,
           <1>13, <1>14, <1>15
  DEF Next, Program, Worker, Finished

\* The numbers that the worker's loop compares.
LEMMA Numbers ==
  ASSUME IInv
  PROVE  /\ MaxTests \in Nat /\ Len(suite) \in Nat /\ Len(suite) <= MaxTests
         /\ m.n \in Nat /\ w.n \in Nat /\ w.i \in Nat \ {0}
         /\ m.n <= MaxTests /\ w.n <= MaxTests
         /\ w.pc \in {"wait", "cleanup"} => w.i \in Cases
<1>1. /\ MaxTests \in Nat /\ Len(suite) \in Nat /\ Len(suite) <= MaxTests
      /\ m.n \in Nat /\ w.n \in Nat /\ w.i \in Nat \ {0}
  BY SuitesAssumption DEF IInv, TypeOK, ProgramStates, WorkerStates
<1> QED BY <1>1 DEF IInv, Table, Cases

\* One more, counted on either side.
LEMMA Sums ==
  ASSUME NEW a \in Nat, NEW b \in Nat
  PROVE  a + b + 1 = a + (b + 1) /\ (a + 1) + b = a + (b + 1)
  OBVIOUS

\* What a sequence starts with, and what is left of it.
LEMMA FirstOf ==
  ASSUME NEW S, NEW q \in Seq(S), q # <<>>
  PROVE  /\ Len(q) >= 1 /\ Head(q) = q[1] /\ q[1] \in S
         /\ Len(Tail(q)) = Len(q) - 1 /\ \A k \in 1..(Len(q) - 1) : Tail(q)[k] = q[k + 1]
<1>1. Len(q) \in Nat /\ Len(q) # 0
  OBVIOUS
<1>2. Len(q) >= 1 /\ Head(q) = q[1]
  BY <1>1
<1>3. q[1] \in S
  BY <1>1
<1>4. Len(Tail(q)) = Len(q) - 1 /\ \A k \in 1..(Len(q) - 1) : Tail(q)[k] = q[k + 1]
  BY <1>1
<1> QED BY <1>2, <1>3, <1>4

\* The pieces arrive in the order in which they are written.
LEMMA OrderInv == IInv /\ [Next]_vars => Order'
<1> SUFFICES ASSUME IInv, [Next]_vars PROVE Order'
  OBVIOUS
<1> USE PipeAssumption
<1>0. /\ m \in ProgramStates /\ c \in ChildStates /\ w \in WorkerStates
      /\ pipe \in Seq(1..Chunks) /\ w.got \in Seq(1..Chunks)
      /\ Flow /\ Order
  BY DEF IInv, TypeOK, WorkerStates
<1>g. /\ Len(w.got) \in Nat /\ Len(pipe) \in Nat /\ m.sent \in Nat /\ c.sent \in Nat
      /\ Len(w.got) + Len(pipe) = m.sent + c.sent
      /\ c.pc = "none" => c.sent = 0
  BY <1>0 DEF ProgramStates, ChildStates, Flow
<1>e. Len(<<>>) = 0 /\ (Len(w.got) = 0 => w.got = <<>>) /\ (Len(pipe) = 0 => pipe = <<>>)
  BY <1>0
\* A step that appends the piece x to the pipe.
<1>a. ASSUME NEW x \in 1..Chunks, pipe' = Append(pipe, x), UNCHANGED w,
             w.got = <<>> /\ pipe = <<>> => x = 1,
             c'.pc = "none" => c.pc = "none" /\ x = Len(w.got) + Len(pipe) + 1
      PROVE  Order'
  <2>1. /\ Len(pipe') = Len(pipe) + 1 /\ pipe'[Len(pipe) + 1] = x
        /\ \A k \in 1..Len(pipe) : pipe'[k] = pipe[k]
    BY <1>0, <1>a
  <2>2. w.got = <<>> => pipe'[1] = 1
    <3>1. CASE pipe = <<>>
      BY <1>a, <1>e, <2>1, <3>1
    <3>2. CASE pipe # <<>>
      <4>1. 1 \in 1..Len(pipe)
        BY <1>g, <1>e, <3>2
      <4> QED BY <1>0, <2>1, <3>2, <4>1 DEF Order
    <3> QED BY <3>1, <3>2
  <2>3. ASSUME c'.pc = "none", NEW k \in 1..Len(pipe') PROVE pipe'[k] = Len(w.got) + k
    <3>1. CASE k \in 1..Len(pipe)
      BY <1>0, <1>a, <2>1, <2>3, <3>1 DEF Order
    <3>2. CASE k = Len(pipe) + 1
      <4>1. pipe'[k] = x /\ x = Len(w.got) + Len(pipe) + 1
        BY <1>a, <2>1, <2>3, <3>2
      <4>2. Len(w.got) + Len(pipe) + 1 = Len(w.got) + k
        BY <1>g, <3>2, Sums, Zenon
      <4> QED BY <4>1, <4>2
    <3> QED BY <1>g, <2>1, <2>3, <3>1, <3>2
  <2> QED BY <1>0, <1>a, <2>2, <2>3 DEF Order
<1>1. CASE Notify
  <2>1. CASE ReaderOpen
    <3>1. pipe' = Append(pipe, m.sent + 1) /\ UNCHANGED <<c, w>> /\ m.sent + 1 \in 1..Chunks
      BY SMTT(30), <1>0, <1>g, <1>1, <2>1 DEF Notify, ProgramStates
    <3>2. w.got = <<>> /\ pipe = <<>> => m.sent + 1 = 1
      BY <1>g, <1>e
    <3>3. c'.pc = "none" => c.pc = "none" /\ m.sent + 1 = Len(w.got) + Len(pipe) + 1
      BY <1>g, <3>1
    <3> QED BY <1>a, <3>1, <3>2, <3>3
  <2>2. CASE ~ReaderOpen
    BY <1>0, <1>1, <2>2 DEF Notify, Order
  <2> QED BY <2>1, <2>2
<1>2. CASE ChildNotify
  <2>1. UNCHANGED w /\ c'.pc # "none"
    BY <1>0, <1>2 DEF ChildNotify, ChildStates
  <2>2. CASE pipe' = Append(pipe, c.sent + 1) /\ c.sent < Chunks
    <3>1. c.sent + 1 \in 1..Chunks
      BY <1>g, <2>2
    <3>2. w.got = <<>> /\ pipe = <<>> => c.sent + 1 = 1
      BY <1>g, <1>e
    <3> QED BY <1>a, <2>1, <2>2, <3>1, <3>2
  <2>3. CASE UNCHANGED pipe
    BY <1>0, <2>1, <2>3 DEF Order
  <2> QED BY <1>2, <2>2, <2>3 DEF ChildNotify
<1>3. CASE Read
  <2>1. /\ pipe # <<>> /\ pipe' = Tail(pipe) /\ UNCHANGED c
        /\ w'.got = Append(w.got, Head(pipe))
    BY <1>0, <1>3 DEF Read, WorkerStates
  <2>2. Len(pipe) >= 1 /\ Head(pipe) = pipe[1] /\ pipe[1] \in 1..Chunks
    BY <1>0, <2>1, FirstOf
  <2>3. /\ Len(w'.got) = Len(w.got) + 1 /\ w'.got[Len(w.got) + 1] = pipe[1]
        /\ \A k \in 1..Len(w.got) : w'.got[k] = w.got[k]
    BY <1>0, <2>1, <2>2
  <2>4. /\ Len(pipe') = Len(pipe) - 1
        /\ \A k \in 1..(Len(pipe) - 1) : pipe'[k] = pipe[k + 1]
    BY <1>0, <2>1, FirstOf
  <2>5. w'.got[1] = 1 /\ w'.got # <<>>
    <3>1. CASE w.got = <<>>
      BY <1>0, <1>e, <2>1, <2>3, <3>1 DEF Order
    <3>2. CASE w.got # <<>>
      <4>1. 1 \in 1..Len(w.got)
        BY <1>g, <1>e, <3>2
      <4> QED BY SMTT(30), <1>0, <1>e, <1>g, <2>3, <3>2, <4>1 DEF Order
    <3>3. w'.got # <<>>
      BY <1>g, <1>e, <2>3
    <3> QED BY <3>1, <3>2, <3>3
  <2>6. ASSUME c.pc = "none", NEW k \in 1..Len(w'.got) PROVE w'.got[k] = k
    <3>1. CASE k \in 1..Len(w.got)
      BY <1>0, <2>3, <2>6, <3>1 DEF Order
    <3>2. CASE k = Len(w.got) + 1
      <4>1. pipe[1] = Len(w.got) + 1
        BY <1>0, <1>g, <2>2, <2>6 DEF Order
      <4> QED BY <2>3, <3>2, <4>1
    <3> QED BY <1>g, <2>3, <2>6, <3>1, <3>2
  <2>7. ASSUME c.pc = "none", NEW k \in 1..Len(pipe') PROVE pipe'[k] = Len(w'.got) + k
    <3>1. k \in 1..(Len(pipe) - 1) /\ k + 1 \in 1..Len(pipe)
      BY <1>g, <2>4, <2>7
    <3>2. pipe[k + 1] = Len(w.got) + (k + 1)
      BY <1>0, <2>7, <3>1 DEF Order
    <3>3. pipe'[k] = pipe[k + 1]
      BY <2>4, <3>1
    <3>4. Len(w.got) + (k + 1) = Len(w'.got) + k
      <4>1. k \in Nat
        BY <3>1
      <4>2. (Len(w.got) + 1) + k = Len(w.got) + (k + 1)
        BY <1>g, <4>1, Sums, Zenon
      <4>3. Len(w'.got) = Len(w.got) + 1
        BY <2>3
      <4> QED BY <4>2, <4>3, Zenon
    <3> QED BY <3>2, <3>3, <3>4
  <2> QED BY <2>1, <2>5, <2>6, <2>7 DEF Order
<1>4. CASE UNCHANGED pipe /\ w'.got = w.got /\ (c'.pc = "none" => c.pc = "none")
  BY <1>0, <1>4 DEF Order
<1>5. CASE AddTest \/ Hook \/ StartMain \/ ForkChild \/ MainExits \/ MainKilled \/ NotifyDone
           \/ MainGone \/ ReadDone \/ UNCHANGED vars
  BY <1>0, <1>4, <1>5 DEF AddTest, Hook, StartMain, ForkChild, MainExits, MainKilled, NotifyDone,
     MainGone, ReadDone, vars, WorkerStates, ChildStates
<1>6. CASE StartTest \/ Collect \/ CleanupDone \/ WorkerDone
  BY <1>4, <1>6, WorkingKeeps
<1>7. CASE Testing \/ \E i \in Cases : RunMain(i)
  BY <1>4, <1>7, TestingKeeps
<1> QED BY <1>1, <1>2, <1>3, <1>5, <1>6, <1>7 DEF Next, Program, Worker, Finished

\* The pieces that the entries of the table lie in.
LEMMA Pieces ==
  /\ \A i \in 1..PerChunk : Piece(i) = 1
  /\ \A i \in 1..MaxTests : Piece(i) \in 1..Chunks
<1>1. ASSUME NEW i \in 1..PerChunk PROVE Piece(i) = 1
  BY <1>1, PipeAssumption DEF Piece
<1>2. ASSUME NEW i \in 1..MaxTests PROVE Piece(i) \in 1..Chunks
  BY <1>2, PipeAssumption DEF Piece
<1> QED BY <1>1, <1>2

\* As long as the tables cannot mix, the worker finds every case of the program,
\* and the entry behind them, in its place; it knows of all the cases when the
\* program was not killed.
LEMMA InPlace ==
  ASSUME IInv, m.n < MaxTests, Unmixed, NEW i \in 1..(m.n + 1)
  PROVE  /\ Entry(i) = i /\ Known(i) \in Nat /\ Known(i) <= m.n
         /\ w.pc \notin {"none", "reading"} /\ m.status # "killed" => Known(i) = m.n
<1>1. /\ MaxTests \in Nat /\ m.n \in Nat /\ w.n \in Nat /\ w.n <= m.n
      /\ i \in 1..MaxTests /\ PerChunk \in Nat
      /\ w.got \in Seq(1..Chunks) /\ Len(w.got) \in Nat /\ i \in Nat
  BY SMTT(30), Numbers, PipeAssumption DEF IInv, Table, TypeOK, WorkerStates
<1>2. Piece(i) \in 1..Chunks
  BY <1>1, Pieces
<1>3. Piece(i) <= Len(w.got) => w.got[Piece(i)] = Piece(i)
  <2>1. CASE c.pc = "none"
    BY <1>1, <1>2, <2>1 DEF IInv, Order
  <2>2. CASE m.n < PerChunk
    <3>1. i \in 1..PerChunk
      BY <1>1, <2>2
    <3>2. Piece(i) = 1
      BY <3>1, Pieces
    <3>3. Piece(i) <= Len(w.got) => w.got # <<>>
      BY <1>1, <3>2
    <3> QED BY <3>2, <3>3 DEF IInv, Order
  <2> QED BY <2>1, <2>2 DEF Unmixed
<1>4. Entry(i) = i
  <2> DEFINE p == Piece(i)
  <2>1. p \in Nat
    BY <1>2, PipeAssumption
  <2>2. p <= Len(w.got) => w.got[p] - p = 0
    BY <1>3, <2>1
  <2>3. p <= Len(w.got) => i + (w.got[p] - p) * PerChunk = i
    <3>1. i + 0 * PerChunk = i
      BY <1>1
    <3> HIDE DEF p
    <3> QED BY <2>2, <3>1
  <2> QED BY <2>3 DEF Entry
<1>5. Known(i) \in Nat /\ Known(i) <= m.n
  BY <1>1 DEF Known
<1>6. ASSUME w.pc \notin {"none", "reading"}, m.status # "killed" PROVE Known(i) = m.n
  <2>1. w.got # <<>> /\ (c.pc = "none" => Len(w.got) = Chunks)
    BY <1>6 DEF IInv, Reader
  <2>2. Piece(i) <= Len(w.got)
    <3>1. CASE c.pc = "none"
      BY <1>2, <2>1, <3>1, PipeAssumption
    <3>2. CASE m.n < PerChunk
      <4>1. i \in 1..PerChunk
        BY <1>1, <3>2
      <4>2. Len(w.got) # 0
        BY <1>1, <2>1
      <4> QED BY <1>1, <4>1, <4>2, Pieces
    <3> QED BY <3>1, <3>2 DEF Unmixed
  <2> QED BY <2>2 DEF Known
<1> QED BY <1>4, <1>5, <1>6

\* The worker's loop stays within the cases it knows of.
LEMMA TableInv == IInv /\ [Next]_vars => Table'
<1> SUFFICES ASSUME IInv, [Next]_vars PROVE Table'
  OBVIOUS
<1>0. /\ m \in ProgramStates /\ w \in WorkerStates /\ c \in ChildStates /\ Table
      /\ m.pc = "ctor" => w.pc \in {"none", "reading"} /\ c.pc = "none"
  BY DEF IInv, TypeOK, Flow
<1> USE PipeAssumption
<1>n. /\ MaxTests \in Nat /\ Len(suite) \in Nat /\ Len(suite) <= MaxTests
      /\ m.n \in Nat /\ w.n \in Nat /\ w.i \in Nat \ {0}
      /\ m.n <= MaxTests /\ w.n <= MaxTests
  BY Numbers
<1>1. CASE AddTest
  <2>1. UNCHANGED <<suite, w, c>> /\ m'.n = m.n + 1 /\ m.n < Len(suite) /\ m.pc = "ctor"
    BY <1>0, <1>1 DEF AddTest, ProgramStates
  <2> QED BY SMTT(30), <1>0, <1>n, <2>1 DEF Table
<1>2. CASE Hook
  <2>1. /\ UNCHANGED suite /\ m'.n = m.n /\ m.pc = "ctor"
        /\ w'.pc = "reading" /\ w'.n = m.n /\ w'.i = w.i
    BY <1>0, <1>2 DEF Hook, ProgramStates, WorkerStates
  <2> QED BY <1>0, <1>n, <2>1 DEF Table
\* Steps that leave the loop of the worker alone.
<1>k. ASSUME UNCHANGED suite, m'.n = m.n, w'.i = w.i, w'.n = w.n, w'.pc = w.pc, w'.got = w.got,
             c'.pc = "none" => c.pc = "none"
      PROVE  Table'
  <2>1. Unmixed' => Unmixed
    BY <1>k DEF Unmixed
  <2>2. IsDisabled(w.i)' <=> IsDisabled(w.i)
    BY <1>k DEF IsDisabled, Entry, Known
  <2> QED BY <1>0, <1>k, <2>1, <2>2 DEF Table
<1>3. CASE StartMain \/ MainExits \/ MainKilled \/ Notify \/ NotifyDone \/ MainGone
  <2>1. UNCHANGED <<suite, w, c>> /\ m'.n = m.n
    BY <1>0, <1>3 DEF StartMain, MainExits, MainKilled, Notify, NotifyDone, MainGone, ProgramStates
  <2> QED BY <1>k, <2>1
<1>4. CASE Read \/ ReadDone
  <2>1. /\ UNCHANGED <<suite, m, c>> /\ w.pc = "reading" /\ w'.pc \in {"reading", "next"}
        /\ w'.i = w.i /\ w'.n = w.n
    BY <1>0, <1>4 DEF Read, ReadDone, WorkerStates
  <2> QED BY <1>0, <1>n, <2>1 DEF Table
<1>6. CASE StartTest
  <2>1. /\ UNCHANGED <<suite, m, c>> /\ w.pc = "next" /\ w'.pc = "wait"
        /\ w'.i = w.i /\ w'.n = w.n /\ w'.got = w.got /\ IsEnabled(w.i)
    BY <1>0, <1>6 DEF StartTest, WorkerStates
  <2>2. w.i <= MaxTests + 1
    BY <1>n, <2>1 DEF IsEnabled
  <2>3. m.n < MaxTests /\ Unmixed => w.i <= m.n
    <3> SUFFICES ASSUME m.n < MaxTests, Unmixed PROVE w.i <= m.n
      OBVIOUS
    <3>1. w.i \in 1..(m.n + 1) /\ w.i # MaxTests + 1
      BY <1>0, <1>n DEF Table
    <3>2. Entry(w.i) <= Known(w.i)
      BY <2>1, <3>1 DEF IsEnabled
    <3> HIDE DEF IInv
    <3>3. Entry(w.i) = w.i /\ Known(w.i) \in Nat /\ Known(w.i) <= m.n
      BY <3>1, InPlace
    <3> QED BY <1>n, <3>2, <3>3
  <2> QED BY <1>0, <1>n, <2>1, <2>2, <2>3 DEF Table, Unmixed
<1>7. CASE Collect \/ CleanupDone
  <2>1. /\ UNCHANGED <<suite, m, c>> /\ w.pc \in {"wait", "cleanup"}
        /\ w'.n = w.n /\ w'.got = w.got
        /\ \/ w'.pc = "next" /\ w'.i = w.i + 1
           \/ w'.pc = "cleanup" /\ w'.i = w.i
    BY <1>0, <1>7 DEF Collect, CleanupDone, WorkerStates
  <2> QED BY <1>0, <1>n, <2>1 DEF Table, Unmixed
<1>8. CASE WorkerDone
  <2>1. /\ UNCHANGED <<suite, m, c>> /\ w.pc = "next" /\ w'.pc = "done"
        /\ w'.i = w.i /\ w'.n = w.n /\ w'.got = w.got /\ IsDisabled(w.i)
    BY <1>0, <1>8 DEF WorkerDone, WorkerStates
  <2>2. IsDisabled(w.i)'
    BY <2>1 DEF IsDisabled, Entry, Known
  <2> QED BY <1>0, <1>n, <2>1, <2>2 DEF Table, Unmixed
<1>9. CASE Testing \/ \E i \in Cases : RunMain(i)
  BY <1>k, <1>9, TestingKeeps
<1>10. CASE ForkChild \/ ChildNotify \/ UNCHANGED vars
  BY <1>0, <1>k, <1>10 DEF ForkChild, ChildNotify, ChildStates, vars
<1> QED BY <1>1, <1>2, <1>3, <1>4, <1>6, <1>7, <1>8, <1>9, <1>10
  DEF Next, Program, Worker, Finished

-----------------------------------------------------------------------------
(* What the status of a test process tells about the code of its case. *)

\* The code of a case in the order in which it runs.
LEMMA CodeParts ==
  ASSUME NEW case \in Case
  PROVE  LET code == CodeOf(case)
         IN  /\ DOMAIN code = IF case.sys THEN 1..3 ELSE 1..2
             /\ code[1] = case.init
             /\ case.sys => code[2] = case.main /\ code[3] = case.body
             /\ ~case.sys => code[2] = case.body
<1>1. case.init \in Outcomes /\ case.main \in Outcomes /\ case.body \in Outcomes
  BY DEF Case
<1> DEFINE first == <<case.init>>
           middle == IF case.sys THEN <<case.main>> ELSE <<>>
           last == <<case.body>>
<1>2. first \in Seq(Outcomes) /\ Len(first) = 1 /\ first[1] = case.init
  BY <1>1
<1>3. /\ middle \in Seq(Outcomes)
      /\ case.sys => Len(middle) = 1 /\ middle[1] = case.main
      /\ ~case.sys => Len(middle) = 0
  BY <1>1
<1>4. last \in Seq(Outcomes) /\ Len(last) = 1 /\ last[1] = case.body
  BY <1>1
<1>5. CodeOf(case) = (first \o middle) \o last
  BY DEF CodeOf
<1> HIDE DEF first, middle, last
<1> DEFINE front == first \o middle
<1>6. /\ front \in Seq(Outcomes) /\ Len(front) = 1 + Len(middle) /\ front[1] = case.init
      /\ case.sys => front[2] = case.main
  BY <1>2, <1>3, ConcatProperties
<1> HIDE DEF front
<1> DEFINE code == front \o last
<1>7. /\ code \in Seq(Outcomes) /\ Len(code) = Len(front) + Len(last)
      /\ \A i \in 1..(Len(front) + Len(last)) :
           code[i] = IF i <= Len(front) THEN front[i] ELSE last[i - Len(front)]
  BY <1>4, <1>6, ConcatProperties
<1>8. CodeOf(case) = code
  BY <1>5 DEF front
<1> HIDE DEF code
<1>9. DOMAIN code = 1..Len(code) /\ Len(last) = 1 /\ last[1] = case.body
  BY <1>4, <1>7
<1>10. CASE case.sys
  <2>1. Len(front) = 2 /\ Len(code) = 3
    <3>1. Len(middle) = 1
      BY <1>3, <1>10
    <3>2. Len(front) = 1 + 1
      BY <1>6, <3>1
    <3> QED BY <1>7, <1>9, <3>2
  <2>2. code[1] = front[1] /\ code[2] = front[2] /\ code[3] = last[1]
    BY <1>7, <1>9, <2>1
  <2> QED BY <1>6, <1>8, <1>9, <1>10, <2>1, <2>2
<1>11. CASE ~case.sys
  <2>1. Len(front) = 1 /\ Len(code) = 2
    BY <1>3, <1>6, <1>7, <1>9, <1>11
  <2>2. code[1] = front[1] /\ code[2] = last[1]
    BY <1>7, <1>9, <2>1
  <2> QED BY <1>6, <1>8, <1>9, <1>11, <2>1, <2>2
<1> QED BY <1>10, <1>11

\* A setup function that fails is the first code that does.
LEMMA TellsInit ==
  ASSUME NEW case \in Case, case.init \in {"abort", "segv"}
  PROVE  Tells(case, case.init)
<1> DEFINE code == CodeOf(case)
<1>1. 1 \in DOMAIN code /\ code[1] = case.init
  BY CodeParts
<1> HIDE DEF code
<1>2. \A j \in 1..(1 - 1) : code[j] = "ok"
  OBVIOUS
<1>3. \E k \in DOMAIN code : code[k] = case.init /\ \A j \in 1..(k - 1) : code[j] = "ok"
  BY <1>1, <1>2
<1> QED BY <1>3 DEF Tells, Explains, code

\* main() of a system test fails after a setup that did not.
LEMMA TellsMain ==
  ASSUME NEW case \in Case, case.sys, case.init = "ok", case.main \in {"abort", "segv"}
  PROVE  Tells(case, case.main)
<1> DEFINE code == CodeOf(case)
<1>1. 2 \in DOMAIN code /\ code[1] = "ok" /\ code[2] = case.main
  BY CodeParts
<1> HIDE DEF code
<1>2. \A j \in 1..(2 - 1) : code[j] = "ok"
  BY <1>1
<1>3. \E k \in DOMAIN code : code[k] = case.main /\ \A j \in 1..(k - 1) : code[j] = "ok"
  BY <1>1, <1>2
<1> QED BY <1>3 DEF Tells, Explains, code

\* The body runs last, after everything else was right.
LEMMA TellsBody ==
  ASSUME NEW case \in Case, case.init = "ok", case.sys => case.main = "ok", case.body # "loop"
  PROVE  Tells(case, Status(case.body))
<1> DEFINE code == CodeOf(case)
<1>1. \E n \in {2, 3} : /\ DOMAIN code = 1..n /\ code[n] = case.body
                        /\ \A j \in 1..(n - 1) : code[j] = "ok"
  BY CodeParts
<1> HIDE DEF code
<1>2. PICK n \in {2, 3} : /\ DOMAIN code = 1..n /\ code[n] = case.body
                          /\ \A j \in 1..(n - 1) : code[j] = "ok"
  BY <1>1
<1>3. CASE case.body = "ok"
  <2>1. \A k \in DOMAIN code : code[k] = "ok"
    BY <1>2, <1>3
  <2> QED BY <1>3, <2>1 DEF Tells, Explains, Status, code
<1>4. CASE case.body \in {"abort", "segv"}
  <2>1. \E k \in DOMAIN code : code[k] = case.body /\ \A j \in 1..(k - 1) : code[j] = "ok"
    BY <1>2
  <2> QED BY <1>4, <2>1 DEF Tells, Explains, Status, code
<1> QED BY <1>3, <1>4 DEF Case, Outcomes

-----------------------------------------------------------------------------
\* Before it runs the cases the worker leaves everything about them alone, and
\* the program does so at all times.
LEMMA EarlyKeeps ==
  ASSUME IInv, Program \/ ForkChild \/ MainExits \/ MainKilled \/ Read \/ ReadDone
  PROVE  /\ UNCHANGED <<suite, t, s, f, verdict, cleaned>>
         /\ w'.i = w.i
         /\ w'.pc = w.pc \/ (w.pc \notin {"wait", "cleanup"} /\ w'.pc \notin {"wait", "cleanup"})
         /\ w'.pc \in {"none", "reading"} => w.pc \in {"none", "reading"}
<1>1. w \in WorkerStates /\ (m.pc = "ctor" => w.pc \in {"none", "reading"})
  BY DEF IInv, TypeOK, Flow
<1> QED BY <1>1 DEF Program, AddTest, Hook, StartMain, Notify, NotifyDone, MainGone, ChildNotify,
              ForkChild, MainExits, MainKilled, Read, ReadDone, WorkerStates

\* What the worker does with the case at hand.
LEMMA WorkingStep ==
  ASSUME IInv
  PROVE  /\ StartTest => w.pc = "next" /\ w'.pc = "wait" /\ w'.i = w.i
         /\ Collect => /\ w.pc = "wait" /\ t.pc = "dead" /\ t'.pc = "none" /\ w.i \in Cases
                       /\ \/ w'.pc = "next" /\ w'.i = w.i + 1 /\ CaseAt(w.i).fini = "none"
                             /\ UNCHANGED <<f, cleaned>>
                          \/ w'.pc = "cleanup" /\ w'.i = w.i /\ CaseAt(w.i).fini # "none"
                             /\ f' = "run" /\ cleaned' = cleaned \cup {w.i}
         /\ CleanupDone => w.pc = "cleanup" /\ w'.pc = "next" /\ w'.i = w.i + 1
         /\ WorkerDone => w.pc = "next" /\ w'.pc = "done" /\ w'.i = w.i
<1>1. w \in WorkerStates /\ t \in TestStates
  BY DEF IInv, TypeOK
<1> QED BY <1>1, Numbers DEF StartTest, Collect, CleanupDone, WorkerDone, WorkerStates, TestStates

\* The cases behind the worker are those with a verdict.
LEMMA VerdictsInv == IInv /\ [Next]_vars => Verdicts'
<1> SUFFICES ASSUME IInv, [Next]_vars PROVE Verdicts'
  OBVIOUS
<1>0. Verdicts /\ verdict \in [Cases -> {"none", "PASS", "abort", "segv", "alarm"}]
  BY DEF IInv, TypeOK
<1>n. w.i \in Nat \ {0} /\ Cases \subseteq Nat
  BY Numbers, SuitesAssumption DEF Cases
<1>1. CASE Program \/ ForkChild \/ MainExits \/ MainKilled \/ Read \/ ReadDone
  BY <1>0, <1>1, EarlyKeeps DEF Verdicts, Behind
<1>2. CASE StartTest \/ CleanupDone \/ WorkerDone
  <2>1. UNCHANGED verdict
    BY <1>2 DEF StartTest, CleanupDone, WorkerDone
  <2> QED BY <1>0, <1>2, <1>n, <2>1, WorkingStep DEF Verdicts, Behind
<1>3. CASE Collect
  <2>1. t.status # "none" 
        /\ verdict' = [verdict EXCEPT ![w.i] = IF t.status = "exit" THEN "PASS" ELSE t.status]
    BY <1>3 DEF Collect, IInv, Running
  <2>2. \A i \in Cases : i # w.i => verdict'[i] = verdict[i]
    BY <1>0, <2>1
  <2>3. w.i \in Cases /\ verdict'[w.i] # "none"
    BY <1>0, <1>3, <2>1, WorkingStep
  <2>4. \A i \in Cases : Behind(i)' <=> i < w.i \/ i = w.i
    BY <1>3, <1>n, WorkingStep DEF Behind
  <2>5. \A i \in Cases : i # w.i => (Behind(i) <=> i < w.i)
    BY DEF Behind
  <2> QED BY <1>0, <2>2, <2>3, <2>4, <2>5 DEF Verdicts
<1>4. CASE Testing \/ \E i \in Cases : RunMain(i)
  BY <1>0, <1>4, TestingKeeps DEF Verdicts, Behind
<1>5. CASE UNCHANGED vars
  BY <1>0, <1>5 DEF vars, Verdicts, Behind
<1> QED BY <1>1, <1>2, <1>3, <1>4, <1>5 DEF Next, Worker, Finished

\* The cases are those of the table, which only a read changes.
LEMMA SameCases ==
  ASSUME IInv, [Next]_vars, ~Read
  PROVE  \A i : CaseAt(i)' = CaseAt(i)
<1>1. UNCHANGED suite /\ w'.got = w.got
  <2>0. w \in WorkerStates
    BY DEF IInv, TypeOK
  <2>1. CASE StartTest \/ Collect \/ CleanupDone \/ WorkerDone
    BY <2>1, WorkingKeeps
  <2>2. CASE Testing \/ \E i \in Cases : RunMain(i)
    BY <2>2, TestingKeeps
  <2>3. CASE Program \/ ForkChild \/ MainExits \/ MainKilled \/ ReadDone \/ UNCHANGED vars
    BY <2>0, <2>3 DEF Program, AddTest, Hook, StartMain, Notify, NotifyDone, MainGone, ChildNotify,
           ForkChild, MainExits, MainKilled, ReadDone, vars, WorkerStates
  <2> QED BY <2>1, <2>2, <2>3 DEF Next, Worker, Finished
<1> QED BY <1>1 DEF CaseAt, Entry

\* While the worker reads, no case has begun.
LEMMA NothingYet ==
  ASSUME IInv, Read
  PROVE  /\ w.pc = "reading" /\ w'.pc = "reading" /\ w.i = 1 /\ w'.i = 1
         /\ UNCHANGED <<suite, t, s, f, verdict, cleaned>>
         /\ t.pc = "none" /\ \A i \in Cases : s[i] = "none" /\ verdict[i] = "none"
<1>1. w.pc = "reading" /\ w \in WorkerStates /\ w.i = 1 /\ Cases \subseteq Nat \ {0}
  BY SuitesAssumption DEF Read, IInv, TypeOK, Table, Cases
<1>2. w'.pc = "reading" /\ w'.i = 1 /\ UNCHANGED <<suite, t, s, f, verdict, cleaned>>
  BY <1>1 DEF Read, WorkerStates
<1>3. t.pc = "none" /\ \A i \in Cases : s[i] = "none"
  BY <1>1 DEF IInv, Running
<1>4. \A i \in Cases : verdict[i] = "none"
  BY <1>1 DEF IInv, Verdicts, Behind
<1> QED BY <1>1, <1>2, <1>3, <1>4

\* The test process and main() follow the code of their case.
LEMMA RunningInv == IInv /\ [Next]_vars => Running'
<1> SUFFICES ASSUME IInv, [Next]_vars PROVE Running'
  OBVIOUS
<1>0. /\ Running /\ t \in TestStates /\ s \in [Cases -> {"none", "run", "exit", "abort", "segv"}]
      /\ w.i \in Nat \ {0} /\ CaseAt(w.i) \in Case
  BY CaseType, Numbers DEF IInv, TypeOK
<1>r. CASE Read
  BY <1>0, <1>r, NothingYet DEF Running
<1> SUFFICES ASSUME ~Read PROVE Running'
  BY <1>r
<1>c. \A i : CaseAt(i)' = CaseAt(i)
  BY SameCases
<1>1. CASE Program \/ ForkChild \/ MainExits \/ MainKilled \/ ReadDone
  BY <1>0, <1>1, <1>c, EarlyKeeps DEF Running
<1>2. CASE CleanupDone \/ WorkerDone
  <2>1. UNCHANGED <<t, s>>
    BY <1>2 DEF CleanupDone, WorkerDone
  <2> QED BY <1>0, <1>2, <1>c, <2>1, WorkingStep DEF Running
<1>3. CASE StartTest
  <2>1. UNCHANGED s /\ t'.pc = "init"
    BY <1>3 DEF StartTest
  <2> QED BY <1>0, <1>3, <1>c, <2>1, WorkingStep DEF Running
<1>4. CASE Collect
  <2>1. UNCHANGED s
    BY <1>4 DEF Collect
  <2> QED BY <1>0, <1>4, <1>c, <2>1, WorkingStep DEF Running
<1>5. CASE TestInit
  <2>0. w' = w /\ t.pc = "init" /\ w.pc = "wait" /\ w.i \in Cases
    BY <1>0, <1>5, Numbers DEF TestInit, Running
  <2>1. CASE CaseAt(w.i).init # "ok"
    <3>1. CaseAt(w.i).init \in {"abort", "segv"}
      BY <1>0, <1>5, <2>1 DEF TestInit, Case, Outcomes
    <3>2. t'.pc = "dead" /\ t'.status = CaseAt(w.i).init /\ UNCHANGED s
      BY <1>5, <2>1 DEF TestInit, DieT
    <3>3. Tells(CaseAt(w.i), t'.status)
      BY <1>0, <3>1, <3>2, TellsInit
    <3> QED BY <1>0, <1>c, <2>0, <3>1, <3>2, <3>3 DEF Running
  <2>2. CASE CaseAt(w.i).init = "ok" /\ CaseAt(w.i).sys
    <3>1. t'.pc = "main" /\ s' = [s EXCEPT ![w.i] = "run"]
      BY <1>0, <1>5, <2>2 DEF TestInit, TestStates
    <3> QED BY <1>0, <1>c, <2>0, <2>2, <3>1 DEF Running
  <2>3. CASE CaseAt(w.i).init = "ok" /\ ~CaseAt(w.i).sys
    <3>1. t'.pc = "body" /\ UNCHANGED s
      BY <1>0, <1>5, <2>3 DEF TestInit, TestStates
    <3> QED BY <1>0, <1>c, <2>0, <2>3, <3>1 DEF Running
  <2> QED BY <2>1, <2>2, <2>3
<1>6. CASE MainReturned
  <2>0. /\ w' = w /\ s' = s /\ t.pc = "main" /\ w.pc = "wait" /\ w.i \in Cases
        /\ CaseAt(w.i).init = "ok" /\ CaseAt(w.i).sys
        /\ s[w.i] = Status(CaseAt(w.i).main)
    BY <1>0, <1>6, Numbers DEF MainReturned, Running
  <2>1. CASE s[w.i] = "exit"
    <3>1. CaseAt(w.i).main = "ok"
      BY <1>0, <2>0, <2>1 DEF Status, Case, Outcomes
    <3>2. t'.pc = "body"
      BY <1>0, <1>6, <2>1 DEF MainReturned, TestStates
    <3> QED BY <1>0, <1>c, <2>0, <3>1, <3>2 DEF Running
  <2>2. CASE s[w.i] # "exit"
    <3>1. CaseAt(w.i).main \in {"abort", "segv"} /\ s[w.i] = CaseAt(w.i).main
      BY <1>0, <2>0, <2>2 DEF Status, Case, Outcomes
    <3>2. t'.pc = "dead" /\ t'.status = CaseAt(w.i).main
      BY <1>6, <2>2, <3>1 DEF MainReturned, DieT
    <3>3. Tells(CaseAt(w.i), t'.status)
      BY <1>0, <2>0, <3>1, <3>2, TellsMain
    <3> QED BY <1>0, <1>c, <2>0, <3>1, <3>2, <3>3 DEF Running
  <2> QED BY <2>1, <2>2
<1>7. CASE TestBody
  <2>0. /\ w' = w /\ s' = s /\ t.pc = "body" /\ w.pc = "wait" /\ CaseAt(w.i).init = "ok"
        /\ CaseAt(w.i).sys => CaseAt(w.i).main = "ok"
        /\ CaseAt(w.i).body # "loop"
        /\ t'.pc = "dead" /\ t'.status = Status(CaseAt(w.i).body)
    BY <1>0, <1>7 DEF TestBody, Running, DieT
  <2>1. Tells(CaseAt(w.i), t'.status)
    BY <1>0, <2>0, TellsBody
  <2>2. t'.status # "none"
    BY <1>0, <2>0 DEF Status, Case, Outcomes
  <2> QED BY <1>0, <1>c, <2>0, <2>1, <2>2 DEF Running
<1>8. CASE AlarmTest
  <2>0. w' = w /\ s' = s /\ w.pc = "wait" /\ t'.pc = "dead" /\ t'.status = "alarm"
    BY <1>0, <1>8 DEF AlarmTest, Running, DieT
  <2>1. Tells(CaseAt(w.i), "alarm")
    BY DEF Tells, Explains
  <2> QED BY <1>0, <1>c, <2>0, <2>1 DEF Running
<1>9. ASSUME NEW i \in Cases, RunMain(i) PROVE Running'
  <2>1. /\ w' = w /\ t' = t /\ s' = [s EXCEPT ![i] = Status(CaseAt(i).main)]
        /\ s[i] = "run"
    BY <1>9 DEF RunMain
  <2>2. w.pc \notin {"none", "reading"}
    BY <1>0, <2>1 DEF Running
  <2> QED BY <1>0, <1>c, <2>1, <2>2 DEF Running
<1>10. CASE RunFini \/ AlarmFini \/ UNCHANGED vars
  <2>1. w' = w /\ t' = t /\ s' = s
    BY <1>10 DEF RunFini, AlarmFini, vars
  <2> QED BY <1>0, <1>c, <2>1 DEF Running
<1> QED BY <1>1, <1>2, <1>3, <1>4, <1>5, <1>6, <1>7, <1>8, <1>9, <1>10
  DEF Next, Worker, Testing, Finished

\* A verdict is written once, from a status that tells what the case did.
LEMMA SoundInv == IInv /\ [Next]_vars => VerdictSound'
<1> SUFFICES ASSUME IInv, [Next]_vars PROVE VerdictSound'
  OBVIOUS
<1>0. /\ VerdictSound /\ verdict \in [Cases -> {"none", "PASS", "abort", "segv", "alarm"}]
      /\ MaxTests \in Nat
  BY Numbers DEF IInv, TypeOK
<1>r. CASE Read
  <2>1. \A i \in 1..MaxTests : verdict'[i] = "none"
    BY <1>0, <1>r, NothingYet DEF Cases
  <2> QED BY <2>1 DEF VerdictSound, Explains
<1> SUFFICES ASSUME ~Read PROVE VerdictSound'
  BY <1>r
<1>c. \A i : CaseAt(i)' = CaseAt(i)
  BY SameCases
<1>1. CASE UNCHANGED verdict
  BY <1>0, <1>1, <1>c DEF VerdictSound
<1>2. CASE Program \/ ForkChild \/ MainExits \/ MainKilled \/ ReadDone
  BY <1>1, <1>2, EarlyKeeps
<1>3. CASE StartTest \/ CleanupDone \/ WorkerDone
  BY <1>1, <1>3 DEF StartTest, CleanupDone, WorkerDone
<1>4. CASE Testing \/ \E i \in Cases : RunMain(i)
  BY <1>1, <1>4, TestingKeeps
<1>5. CASE UNCHANGED vars
  BY <1>1, <1>5 DEF vars
<1>6. CASE Collect
  <2> DEFINE v == IF t.status = "exit" THEN "PASS" ELSE t.status
  <2>1. verdict' = [verdict EXCEPT ![w.i] = v]
    BY <1>6 DEF Collect
  <2>2. Explains(v, CaseAt(w.i))
    BY <1>6 DEF Collect, IInv, Running, Tells
  <2> HIDE DEF v
  <2> SUFFICES ASSUME NEW i \in 1..MaxTests PROVE Explains(verdict'[i], CaseAt(i))
    BY <1>c DEF VerdictSound
  <2>3. i \in Cases
    BY <1>0 DEF Cases
  <2>4. CASE i = w.i
    <3>1. verdict'[i] = v
      BY <1>0, <2>1, <2>3, <2>4
    <3> QED BY <2>2, <2>4, <3>1
  <2>5. CASE i # w.i
    <3>1. verdict'[i] = verdict[i]
      BY <1>0, <2>1, <2>3, <2>5
    <3> QED BY <1>0, <3>1 DEF VerdictSound
  <2> QED BY <2>4, <2>5
<1> QED BY <1>2, <1>3, <1>4, <1>5, <1>6 DEF Next, Worker, Finished

\* The cleanup code of a case is started when the worker leaves it.
LEMMA CleanupInv == IInv /\ [Next]_vars => Cleanup'
<1> SUFFICES ASSUME IInv, [Next]_vars PROVE Cleanup'
  OBVIOUS
<1>0. Cleanup /\ w.i \in Nat \ {0}
  BY Numbers DEF IInv
<1>r. CASE Read
  <2>1. \A i \in Nat \ {0} : ~Behind(i) /\ ~Behind(i)'
    BY <1>r, NothingYet DEF Behind
  <2> QED BY <1>0, <1>r, <2>1, NothingYet DEF Cleanup
<1> SUFFICES ASSUME ~Read PROVE Cleanup'
  BY <1>r
<1>c. \A i : CaseAt(i)' = CaseAt(i)
  BY SameCases
<1>1. CASE Program \/ ForkChild \/ MainExits \/ MainKilled \/ ReadDone
  BY <1>0, <1>1, <1>c, EarlyKeeps DEF Cleanup, Behind
<1>2. CASE StartTest \/ WorkerDone
  <2>1. UNCHANGED <<f, cleaned>>
    BY <1>2 DEF StartTest, WorkerDone
  <2> QED BY <1>0, <1>2, <1>c, <2>1, WorkingStep DEF Cleanup, Behind
<1>3. CASE CleanupDone
  <2>1. f' = "none" /\ UNCHANGED cleaned
    BY <1>3 DEF CleanupDone
  <2>2. \A i \in Nat \ {0} : Behind(i)' <=> Behind(i)
    BY <1>0, <1>3, WorkingStep DEF Behind
  <2> QED BY <1>0, <1>3, <1>c, <2>1, <2>2, WorkingStep DEF Cleanup
<1>4. CASE Collect
  <2>1. \A i \in Nat \ {0} : /\ Behind(i) <=> i < w.i
                             /\ Behind(i)' <=> i < w.i \/ i = w.i
    BY <1>0, <1>4, WorkingStep DEF Behind
  <2>2. f = "none"
    BY <1>0, <1>4, WorkingStep DEF Cleanup
  <2> QED BY <1>0, <1>4, <1>c, <2>1, <2>2, WorkingStep DEF Cleanup
<1>5. CASE RunFini \/ AlarmFini
  <2>1. f = "run" /\ f' = "dead" /\ UNCHANGED <<w, cleaned>>
    BY <1>5 DEF RunFini, AlarmFini
  <2> QED BY <1>0, <1>c, <2>1 DEF Cleanup, Behind
<1>6. CASE UNCHANGED <<f, w, cleaned>>
  BY <1>0, <1>6, <1>c DEF Cleanup, Behind
<1>7. CASE TestInit \/ MainReturned \/ TestBody \/ AlarmTest \/ (\E i \in Cases : RunMain(i))
           \/ UNCHANGED vars
  BY <1>6, <1>7 DEF TestInit, MainReturned, TestBody, AlarmTest, RunMain, vars
<1> QED BY <1>1, <1>2, <1>3, <1>4, <1>5, <1>7 DEF Next, Worker, Testing, Finished

\* Every step of every process keeps the invariant.
LEMMA NextInv == IInv /\ [Next]_vars => IInv'
<1> SUFFICES ASSUME IInv, [Next]_vars PROVE IInv'
  OBVIOUS
<1>1. TypeOK' /\ Hooked' /\ Flow' /\ Reader'
  BY TypeInv, HookedInv, PipeInv
<1>2. Order' /\ Table' /\ Verdicts' /\ Running' /\ Cleanup' /\ VerdictSound'
  BY OrderInv, TableInv, VerdictsInv, RunningInv, CleanupInv, SoundInv
<1> QED BY <1>1, <1>2 DEF IInv

-----------------------------------------------------------------------------
\* The invariant is inductive.
THEOREM Invariance == Spec => []IInv
  BY InitInv, NextInv, PTL DEF Spec

\* Type correctness of the processes, the pipe and the verdicts.
THEOREM TypeCorrect == Spec => []TypeOK
  BY Invariance, PTL DEF IInv

\* The verdicts tell what the cases did, for suites of any cases in any order
\* and alarms at any moment.
THEOREM VerdictsCorrect == Spec => []VerdictSound
  BY Invariance, PTL DEF IInv

\* The handler that TestKit registers with atexit does not kill a program that
\* forked no child, for tables and pipes of every size.
THEOREM ExitCorrect == Spec => []ExitsNormally
<1>1. IInv => ExitsNormally
  BY DEF IInv, Reader, ExitsNormally
<1> QED BY <1>1, Invariance, PTL

\* Every case that is behind the worker was cleaned up, after its test process
\* had ended, however it ended.
THEOREM CleanupCorrect == Spec => []CleanupAlways
<1>1. IInv => CleanupAlways
  <2> SUFFICES ASSUME IInv PROVE CleanupAlways
    OBVIOUS
  <2>1. ASSUME NEW i \in 1..MaxTests, i < w.i
        PROVE  CaseAt(i).fini # "none" <=> i \in cleaned
    <3>1. i \in Nat \ {0} /\ Behind(i)
      BY <2>1, Numbers DEF Behind
    <3> QED BY <3>1 DEF IInv, Cleanup
  <2>2. ASSUME f = "run" PROVE t.pc = "none" /\ verdict[w.i] # "none"
    <3>1. w.pc = "cleanup" /\ w.i \in Cases
      BY <2>2, Numbers DEF IInv, Cleanup
    <3> QED BY <3>1 DEF IInv, Running, Verdicts, Behind
  <2> QED BY <2>1, <2>2 DEF CleanupAlways
<1> QED BY <1>1, Invariance, PTL

\* The worker runs the cases of the program and no others, all of them when the
\* program ended by itself: for every order of the constructors, every suite
\* that leaves an element of the table free and every size of table and pipe, if
\* the program forks no child; with a child that writes the table too, for the
\* suites that leave an entry of its first piece free.
THEOREM SuiteCorrect == Spec => []RunsTheSuite
<1>1. IInv => RunsTheSuite
  <2> SUFFICES ASSUME IInv, w.pc = "done", m.n < MaxTests, Unmixed
               PROVE  LET ran == {i \in Cases : verdict[i] # "none"}
                      IN  /\ \A i \in ran : Entry(i) = i
                          /\ \E n \in 0..m.n : ran = 1..n
                          /\ m.status \notin {"none", "killed"} \/ m.pc = "wait" => ran = 1..m.n
    BY DEF RunsTheSuite
  <2> DEFINE ran == {i \in Cases : verdict[i] # "none"}
             n == w.i - 1
  <2>1. /\ MaxTests \in Nat /\ m.n \in Nat /\ w.i \in Nat \ {0}
        /\ w.i <= m.n + 1 /\ IsDisabled(w.i)
    BY Numbers DEF IInv, Table
  <2>2. \A i \in Cases : verdict[i] # "none" <=> i < w.i
    BY DEF IInv, Verdicts, Behind
  <2>3. ran = 1..n /\ n \in 0..m.n
    BY <2>1, <2>2 DEF Cases
  <2>4. ASSUME NEW i \in ran PROVE Entry(i) = i
    <3>1. i \in 1..(m.n + 1)
      BY <2>1, <2>3
    <3> QED BY <3>1, InPlace
  <2>5. ASSUME m.status \notin {"none", "killed"} \/ m.pc = "wait" PROVE n = m.n
    <3>1. m.status # "killed"
      BY <2>5 DEF IInv, Flow
    <3>2. w.i \in 1..(m.n + 1)
      BY <2>1
    <3>3. Entry(w.i) = w.i /\ Known(w.i) = m.n
      BY <3>1, <3>2, InPlace
    <3>4. w.i > m.n
      BY <2>1, <3>3 DEF IsDisabled
    <3> QED BY <2>1, <3>4
  <2> HIDE DEF ran, n
  <2>6. \E k \in 0..m.n : ran = 1..k
    BY <2>3
  <2>7. m.status \notin {"none", "killed"} \/ m.pc = "wait" => ran = 1..m.n
    BY <2>3, <2>5
  <2> QED BY <2>4, <2>6, <2>7 DEF ran
<1> QED BY <1>1, Invariance, PTL
=============================================================================
