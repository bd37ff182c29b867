------------------------------- MODULE TestKit -------------------------------
(***************************************************************************)
(* TestKit (os2025/testkit/testkit.c, a copy of course3/testkit): test     *)
(* cases register themselves in constructors of the program under test; a  *)
(* worker process forked before main() receives the table through a pipe   *)
(* when the program exits, and runs every case in processes of its own.    *)
(*                                                                         *)
(* Processes: the program M, a child C it may fork, the worker W, the test *)
(* process T of the current case, main() called by a system test (S), and  *)
(* the cleanup process F.  A step is what one of them does between two     *)
(* points where another can notice.  The table is larger than the pipe: it *)
(* travels in Chunks pieces of PerChunk entries each through a pipe that    *)
(* holds Capacity of them, and the pieces of two writers may mix.           *)
(***************************************************************************)
EXTENDS Integers, Sequences, FiniteSets

CONSTANTS Suites,    \* the test suites: sequences of cases, see Case
          MaxTests,  \* TK_MAX_TESTS
          Chunks,    \* sizeof(tests), in pieces
          PerChunk,  \* entries of the table in a piece
          Capacity,  \* pieces a pipe holds
          Forking    \* suites of programs that fork a child, which returns from main

Outcomes == {"ok", "abort", "segv", "loop"}
\* sys: a system test (calls main), init/main/body/fini: what that code does.
Case == [sys : BOOLEAN, init : Outcomes, main : Outcomes, body : Outcomes,
         fini : Outcomes \cup {"none"}]

ASSUME SuitesAssumption ==
    /\ MaxTests \in Nat \ {0}
    /\ Forking \subseteq Suites
    /\ \A s \in Suites : s \in Seq(Case) /\ Len(s) <= MaxTests
ASSUME PipeAssumption ==
    /\ Chunks \in Nat \ {0} /\ PerChunk \in Nat \ {0} /\ Capacity \in Nat \ {0}
    /\ MaxTests = Chunks * PerChunk

VARIABLES
    suite,    \* the constructors linked into the program
    enabled,  \* TK_RUN or TK_VERBOSE is set
    m,        \* program: [pc, n (cases registered), hooked, sent, status]
    c,        \* child of the program: [pc, sent]
    pipe,     \* chunks in flight
    w,        \* worker: [pc, got, n (cases in the table it was forked with),
              \* i (current case)]
    t,        \* test process: [pc, status]
    s,        \* s[i]: main() called by case i
    f,        \* cleanup process: its pc
    verdict,  \* verdict[i]: how T ended, as check_results reports it
    cleaned   \* cases whose cleanup code was started

vars == <<suite, enabled, m, c, pipe, w, t, s, f, verdict, cleaned>>

Cases == 1..(MaxTests + 1)
Status(outcome) == IF outcome = "ok" THEN "exit" ELSE outcome

Init ==
    /\ suite \in Suites
    /\ enabled \in BOOLEAN
    /\ m = [pc |-> "ctor", n |-> 0, hooked |-> FALSE, sent |-> 0, status |-> "none"]
    /\ c = [pc |-> "none", sent |-> 0]
    /\ pipe = <<>>
    /\ w = [pc |-> "none", got |-> <<>>, n |-> 0, i |-> 1]
    /\ t = [pc |-> "none", status |-> "none"]
    /\ s = [i \in Cases |-> "none"]
    /\ f = "none"
    /\ verdict = [i \in Cases |-> "none"]
    /\ cleaned = {}

-----------------------------------------------------------------------------
(* The program: constructors in any order, main, exit. *)

\* tk_add_test, called by the constructor of the next case.
AddTest ==
    /\ m.pc = "ctor" /\ m.n < Len(suite) /\ enabled
    /\ m' = [m EXCEPT !.n = @ + 1]
    /\ UNCHANGED <<suite, enabled, c, pipe, w, t, s, f, verdict, cleaned>>

\* tk_register_hook forks the worker with the table as it is at that moment.
Hook ==
    /\ m.pc = "ctor" /\ ~m.hooked
    /\ m' = [m EXCEPT !.hooked = TRUE]
    /\ w' = [w EXCEPT !.pc = "reading", !.n = m.n]
    /\ UNCHANGED <<suite, enabled, c, pipe, t, s, f, verdict, cleaned>>

StartMain ==
    /\ m.pc = "ctor" /\ m.hooked /\ (enabled => m.n = Len(suite))
    /\ m' = [m EXCEPT !.pc = "main"]
    /\ UNCHANGED <<suite, enabled, c, pipe, w, t, s, f, verdict, cleaned>>

\* The application forks; the child inherits the atexit handler and the pipe.
ForkChild ==
    /\ suite \in Forking /\ m.pc = "main" /\ c.pc = "none"
    /\ c' = [c EXCEPT !.pc = "main"]
    /\ UNCHANGED <<suite, enabled, m, pipe, w, t, s, f, verdict, cleaned>>

\* exit() runs notify_worker.
MainExits ==
    /\ m.pc = "main"
    /\ m' = [m EXCEPT !.pc = "notify"]
    /\ UNCHANGED <<suite, enabled, c, pipe, w, t, s, f, verdict, cleaned>>

\* A signal ends the program without its atexit handlers.
MainKilled ==
    /\ m.pc \in {"main", "notify"}
    /\ m' = [m EXCEPT !.pc = "dead", !.status = "killed"]
    /\ UNCHANGED <<suite, enabled, c, pipe, w, t, s, f, verdict, cleaned>>

ReaderOpen == w.pc = "reading"

\* write(pipe_write, tests, sizeof(tests)) blocks while the pipe is full;
\* without a reader it raises SIGPIPE.
Notify ==
    /\ m.pc = "notify" /\ m.sent < Chunks
    /\ \/ /\ ReaderOpen /\ Len(pipe) < Capacity
          /\ pipe' = Append(pipe, m.sent + 1)
          /\ m' = [m EXCEPT !.sent = @ + 1]
       \/ /\ ~ReaderOpen
          /\ m' = [m EXCEPT !.pc = "dead", !.status = "sigpipe"]
          /\ UNCHANGED pipe
    /\ UNCHANGED <<suite, enabled, c, w, t, s, f, verdict, cleaned>>

\* close(pipe_write) and waitpid(worker_pid).
NotifyDone ==
    /\ m.pc = "notify" /\ m.sent = Chunks
    /\ m' = [m EXCEPT !.pc = "wait"]
    /\ UNCHANGED <<suite, enabled, c, pipe, w, t, s, f, verdict, cleaned>>

MainGone ==
    /\ m.pc = "wait" /\ w.pc = "done"
    /\ m' = [m EXCEPT !.pc = "dead", !.status = "exit"]
    /\ UNCHANGED <<suite, enabled, c, pipe, w, t, s, f, verdict, cleaned>>

\* The child runs the same handler; the worker is not its child, so waitpid
\* returns at once.
ChildNotify ==
    /\ c.pc = "main"
    /\ \/ /\ c.sent < Chunks /\ ReaderOpen /\ Len(pipe) < Capacity
          /\ pipe' = Append(pipe, c.sent + 1)
          /\ c' = [c EXCEPT !.sent = @ + 1]
       \/ /\ c.sent < Chunks => ~ReaderOpen
          /\ c' = [c EXCEPT !.pc = "dead"]
          /\ UNCHANGED pipe
    /\ UNCHANGED <<suite, enabled, m, w, t, s, f, verdict, cleaned>>

-----------------------------------------------------------------------------
(* The worker. *)

WriterOpen == m.pc \in {"ctor", "main", "notify"} \/ c.pc = "main"

\* worker_process: one read(), which lays the piece behind those before it.
Read ==
    /\ w.pc = "reading" /\ Len(w.got) < Chunks /\ pipe # <<>>
    /\ w' = [w EXCEPT !.got = Append(@, Head(pipe))]
    /\ pipe' = Tail(pipe)
    /\ UNCHANGED <<suite, enabled, m, c, t, s, f, verdict, cleaned>>

\* Mutant: one read() is taken for the whole table.
ReadDoneShort ==
    /\ w.pc = "reading"
    /\ w.got # <<>> \/ (pipe = <<>> /\ ~WriterOpen)
    /\ w' = [w EXCEPT !.pc = "next"]
    /\ UNCHANGED <<suite, enabled, m, c, pipe, t, s, f, verdict, cleaned>>

\* The table is complete, or read() reports the end of the file; close.
ReadDone ==
    /\ w.pc = "reading"
    /\ Len(w.got) = Chunks \/ (pipe = <<>> /\ ~WriterOpen)
    /\ w' = [w EXCEPT !.pc = "next"]
    /\ UNCHANGED <<suite, enabled, m, c, pipe, t, s, f, verdict, cleaned>>

\* What lies at place i of the worker's table: the entry of the program's table
\* that a piece has brought there, or the one it was forked with.
Piece(i) == (i - 1) \div PerChunk + 1
Entry(i) == IF Piece(i) <= Len(w.got) THEN i + (w.got[Piece(i)] - Piece(i)) * PerChunk ELSE i

\* Mutant: the worker keeps the table it was forked with.
KnownAtFork(i) == w.n

\* The cases registered in the table that entry comes from.
Known(i) == IF Piece(i) <= Len(w.got) THEN m.n ELSE w.n

\* tests[i].enabled.  The element behind the array is whatever the linker put
\* there: the test may go either way.
IsEnabled(i) == (i <= MaxTests /\ Entry(i) <= Known(i)) \/ i = MaxTests + 1
IsDisabled(i) == i > MaxTests \/ Entry(i) > Known(i)

CaseAt(i) == IF Entry(i) \in DOMAIN suite THEN suite[Entry(i)]
             ELSE [sys |-> FALSE, init |-> "ok", main |-> "ok", body |-> "segv",
                   fini |-> "none"]

\* run_all_testcases: fork the test process, whose alarm is set.
StartTest ==
    /\ w.pc = "next" /\ IsEnabled(w.i)
    /\ w' = [w EXCEPT !.pc = "wait"]
    /\ t' = [pc |-> "init", status |-> "none"]
    /\ UNCHANGED <<suite, enabled, m, c, pipe, s, f, verdict, cleaned>>

\* Mutant: only a case that passed is cleaned up.
CollectCleansPassed ==
    /\ w.pc = "wait" /\ t.pc = "dead"
    /\ verdict' = [verdict EXCEPT ![w.i] = IF t.status = "exit" THEN "PASS" ELSE t.status]
    /\ t' = [t EXCEPT !.pc = "none"]
    /\ IF CaseAt(w.i).fini = "none" \/ t.status # "exit"
       THEN /\ w' = [w EXCEPT !.pc = "next", !.i = @ + 1]
            /\ UNCHANGED <<f, cleaned>>
       ELSE /\ w' = [w EXCEPT !.pc = "cleanup"]
            /\ f' = "run"
            /\ cleaned' = cleaned \cup {w.i}
    /\ UNCHANGED <<suite, enabled, m, c, pipe, s>>

\* waitpid, check_results: the verdict is taken from the exit status; then
\* run_cleanup forks a process for the cleanup function, if there is one.
Collect ==
    /\ w.pc = "wait" /\ t.pc = "dead"
    /\ verdict' = [verdict EXCEPT ![w.i] = IF t.status = "exit" THEN "PASS" ELSE t.status]
    /\ t' = [t EXCEPT !.pc = "none"]
    /\ IF CaseAt(w.i).fini = "none"
       THEN /\ w' = [w EXCEPT !.pc = "next", !.i = @ + 1]
            /\ UNCHANGED <<f, cleaned>>
       ELSE /\ w' = [w EXCEPT !.pc = "cleanup"]
            /\ f' = "run"
            /\ cleaned' = cleaned \cup {w.i}
    /\ UNCHANGED <<suite, enabled, m, c, pipe, s>>

\* Mutant: a cleanup that fails is tried again.
CleanupRetry ==
    /\ w.pc = "cleanup" /\ f = "dead"
    /\ w' = IF CaseAt(w.i).fini = "ok" THEN [w EXCEPT !.pc = "next", !.i = @ + 1] ELSE w
    /\ f' = IF CaseAt(w.i).fini = "ok" THEN "none" ELSE "run"
    /\ UNCHANGED <<suite, enabled, m, c, pipe, t, s, verdict, cleaned>>

\* The worker waits for the cleanup process, however it ends.
CleanupDone ==
    /\ w.pc = "cleanup" /\ f = "dead"
    /\ w' = [w EXCEPT !.pc = "next", !.i = @ + 1]
    /\ f' = "none"
    /\ UNCHANGED <<suite, enabled, m, c, pipe, t, s, verdict, cleaned>>

WorkerDone ==
    /\ w.pc = "next" /\ IsDisabled(w.i)
    /\ w' = [w EXCEPT !.pc = "done"]
    /\ UNCHANGED <<suite, enabled, m, c, pipe, t, s, f, verdict, cleaned>>

-----------------------------------------------------------------------------
(* The processes of a case.  A loop has no further step; alarm() may ring    *)
(* at any moment, however little the code has to do.                        *)

DieT(status) == t' = [pc |-> "dead", status |-> status]

\* run_testcase: setup, then the case itself; main() runs in a process of its
\* own, which has no alarm.
TestInit ==
    /\ t.pc = "init" /\ CaseAt(w.i).init # "loop"
    /\ IF CaseAt(w.i).init # "ok"
       THEN DieT(CaseAt(w.i).init) /\ UNCHANGED s
       ELSE IF CaseAt(w.i).sys
            THEN t' = [t EXCEPT !.pc = "main"] /\ s' = [s EXCEPT ![w.i] = "run"]
            ELSE t' = [t EXCEPT !.pc = "body"] /\ UNCHANGED s
    /\ UNCHANGED <<suite, enabled, m, c, pipe, w, f, verdict, cleaned>>

\* main() of case i ends unless it loops.
RunMain(i) ==
    /\ s[i] = "run" /\ CaseAt(i).main # "loop"
    /\ s' = [s EXCEPT ![i] = Status(CaseAt(i).main)]
    /\ UNCHANGED <<suite, enabled, m, c, pipe, w, t, f, verdict, cleaned>>

\* Mutant: the signal that ended main() is not passed on.
MainReturnedNoKill ==
    /\ t.pc = "main" /\ s[w.i] \notin {"none", "run"}
    /\ t' = [t EXCEPT !.pc = "body"]
    /\ UNCHANGED <<suite, enabled, m, c, pipe, w, s, f, verdict, cleaned>>

\* waitpid in the test process: a signal that ended main() ends it too.
MainReturned ==
    /\ t.pc = "main" /\ s[w.i] \notin {"none", "run"}
    /\ IF s[w.i] = "exit" THEN t' = [t EXCEPT !.pc = "body"] ELSE DieT(s[w.i])
    /\ UNCHANGED <<suite, enabled, m, c, pipe, w, s, f, verdict, cleaned>>

\* The test body: its return, a failing tk_assert or a signal ends the process.
TestBody ==
    /\ t.pc = "body" /\ CaseAt(w.i).body # "loop"
    /\ DieT(Status(CaseAt(w.i).body))
    /\ UNCHANGED <<suite, enabled, m, c, pipe, w, s, f, verdict, cleaned>>

\* SIGALRM ends the test process, whatever it is doing.
AlarmTest ==
    /\ t.pc \in {"init", "main", "body"}
    /\ DieT("alarm")
    /\ UNCHANGED <<suite, enabled, m, c, pipe, w, s, f, verdict, cleaned>>

RunFini ==
    /\ f = "run" /\ CaseAt(w.i).fini # "loop"
    /\ f' = "dead"
    /\ UNCHANGED <<suite, enabled, m, c, pipe, w, t, s, verdict, cleaned>>

AlarmFini ==
    /\ f = "run"
    /\ f' = "dead"
    /\ UNCHANGED <<suite, enabled, m, c, pipe, w, t, s, verdict, cleaned>>

\* Everyone has exited, save a main() that loops.
Finished == m.pc = "dead" /\ w.pc = "done" /\ c.pc \in {"none", "dead"} /\ UNCHANGED vars

Program == AddTest \/ Hook \/ StartMain \/ Notify \/ NotifyDone \/ MainGone \/ ChildNotify
Worker == Read \/ ReadDone \/ StartTest \/ Collect \/ CleanupDone \/ WorkerDone
Testing == TestInit \/ MainReturned \/ TestBody \/ AlarmTest \/ RunFini \/ AlarmFini

Next == \/ Program \/ ForkChild \/ MainExits \/ MainKilled
        \/ Worker
        \/ Testing \/ \E i \in Cases : RunMain(i)
        \/ Finished

(***************************************************************************)
(* The kernel runs every process that can run and delivers SIGALRM when the *)
(* time is up; nothing makes main() return.                                 *)
(***************************************************************************)
Spec == /\ Init /\ [][Next]_vars
        /\ WF_vars(Program) /\ WF_vars(Worker) /\ WF_vars(Testing)

-----------------------------------------------------------------------------
ProgramStates == [pc : {"ctor", "main", "notify", "wait", "dead"}, n : Nat, hooked : BOOLEAN,
                  sent : 0..Chunks, status : {"none", "exit", "killed", "sigpipe"}]
ChildStates == [pc : {"none", "main", "dead"}, sent : 0..Chunks]
WorkerStates == [pc : {"none", "reading", "next", "wait", "cleanup", "done"},
                 got : Seq(1..Chunks), n : Nat, i : Nat \ {0}]
TestStates == [pc : {"none", "init", "main", "body", "dead"},
               status : {"none", "exit", "abort", "segv", "alarm"}]

TypeOK ==
    /\ suite \in Suites /\ enabled \in BOOLEAN
    /\ m \in ProgramStates /\ c \in ChildStates /\ pipe \in Seq(1..Chunks)
    /\ w \in WorkerStates /\ t \in TestStates
    /\ s \in [Cases -> {"none", "run", "exit", "abort", "segv"}]
    /\ f \in {"none", "run", "dead"}
    /\ verdict \in [Cases -> {"none", "PASS", "abort", "segv", "alarm"}]
    /\ cleaned \subseteq Nat

\* The pieces of the table cannot mix in a way that matters: no child writes a
\* second table, or the cases and the entry that ends them are one piece.
Unmixed == c.pc = "none" \/ m.n < PerChunk

\* The worker runs the cases of the program, each once and in order, and never
\* anything else: when the program exits normally, all of them whatever the
\* order of the constructors; when it is killed, the first ones.  This is so for
\* a program that forks no child, and with one for suites within a piece of the
\* table.  A full table is the exception: the loop that runs the cases has no
\* bound of its own and reads on behind the array.
RunsTheSuite ==
    w.pc = "done" /\ m.n < MaxTests /\ Unmixed =>
        LET ran == {i \in Cases : verdict[i] # "none"}
        IN  /\ \A i \in ran : Entry(i) = i
            /\ \E n \in 0..m.n : ran = 1..n
            /\ m.status \notin {"none", "killed"} \/ m.pc = "wait" => ran = 1..m.n

\* The code of a case in the order in which it runs, and what a verdict says of
\* it: nothing failed, or the first code that did failed in that way.
CodeOf(case) == <<case.init>> \o (IF case.sys THEN <<case.main>> ELSE <<>>) \o <<case.body>>
Explains(v, case) ==
    LET code == CodeOf(case)
    IN  CASE v \in {"none", "alarm"} -> TRUE
          [] v = "PASS" -> \A k \in DOMAIN code : code[k] = "ok"
          [] OTHER -> \E k \in DOMAIN code :
                        code[k] = v /\ \A j \in 1..(k - 1) : code[j] = "ok"

\* The verdict tells what the case did: PASS only if no code of the case
\* failed, a failure only from the code that failed (main() included, whose
\* signal the test process takes over), Timeout for every case that loops.
VerdictSound == \A i \in 1..MaxTests : Explains(verdict[i], CaseAt(i))

\* "The post-test cleanup function is called even if the test crashes":
\* whenever the worker moves on, the case behind it has been cleaned up, and
\* no cleanup runs while the test process of its case is still there.
CleanupAlways ==
    /\ \A i \in 1..MaxTests : i < w.i => (CaseAt(i).fini # "none" <=> i \in cleaned)
    /\ f = "run" => t.pc = "none" /\ verdict[w.i] # "none"

\* A program that ends its main() normally, and forked no child, is not
\* killed by the handler TestKit registered: the worker reads for as long as
\* the program writes.
ExitsNormally == c.pc = "none" => m.status # "sigpipe"

\* Once the program has ended, with any mix of crashing and looping cases,
\* the worker reports them all and the exiting program is released.
WorkerFinishes == (m.pc \in {"notify", "dead"}) ~> (w.pc = "done" /\ m.pc = "dead")
=============================================================================
