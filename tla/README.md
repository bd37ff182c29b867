# A TLA+ verification of OS-jyy

OS-jyy is the course repository of an operating systems class: small systems
written to be studied, and the programs of its assignments. This directory holds
TLA+ models of the parts that carry logic of their own, the TLC runs that check
them on small instances and TLAPS proofs of the most important results for every
instance. Paths below are relative to `src/`.

Contents: [the system](#the-system), [plan](#plan), [modules](#modules-and-the-code),
[runs](#runs-what-they-show-and-their-bounds), [findings](#findings),
[differences](#where-the-code-differs-from-its-texts),
[fairness](#fairness), [proofs](#proofs), [not proved](#only-model-checked),
[not modelled](#not-modelled).

## The system

About 7,500 lines are the repository's own; the rest is vendored (OpenSBI, toybox,
mini-rv32ima), generated, or a second copy (`os2025/.shadow`). Of the vendored code the
part of OpenSBI in which the harts of a machine act on each other is modelled: it is the
one place in the repository with real multiprocessor protocols.

| component | state | operations | what is hard |
|---|---|---|---|
| Mosaic OS, `course2/mosaic/mosaic.py` | threads (generators), heaps, current thread, choices, fork marks, stdout, block storage | nine system calls, `_step`, `_switch_to`, `replay` | fork by replaying the trace in a second OS that shares the globals `os` and `heap`; crashes that keep any subset of buffered writes |
| Mosaic explorer, same file | queue, vertices, edges | `check()`, `run()`, `state_dump()` | which states count as equal; breadth-first order; replay |
| TestKit, `os2025/testkit` (= `course3/testkit`) | table of cases, worker process, pipe, test/main/cleanup processes, shared output buffer | constructors, `atexit` handler, worker loop, alarms | constructor order, a table larger than a pipe, processes that outlive their parents, crashes and loops in every part of a case |
| Labyrinth program, `os2025/labyrinth/labyrinth.c` | a map in memory, map files | options, `loadMap`, `isConnected`/`dfs`, `movePlayer`, `saveMap` | recursion; concurrent processes on one file; truncated files |
| Labyrinth server, `frontend/online.py` | player table, lock, sessions, temporary map, shutdown flag | connect, assign an id, move, leave, shut down | a table by user and a cleanup by session; joins that time out |
| pstree, `os2025/pstree/pstree.c` | hash table, nodes, links | scan of `/proc`, link, print | the scan is no snapshot of a changing process table |
| HTTP server, `os2025/httpd/httpd.c` | listen queue, client sockets | accept, handle_request | descriptors that are not closed |
| thread library, `os2025/gpt/thread.h` | `threads_[16]`, `n_` | `spawn`, `join` | unlocked shared counter |
| spinlocks and mymalloc, `os2025/mymalloc`, `os2025/gpt/thread-sync.h` | lock word, counter | `spin_lock`, `spin_unlock`, `mymalloc` | mutual exclusion, progress |
| OpenSBI harts, `course2/opensbi/lib/sbi/sbi_init.c`, `sbi_hsm.c` | lottery, hart states, start tickets, scratch areas, entry and init counts | boot, start, stop, suspend, resume | compare-and-swap between harts, parameters in another hart's scratch area, wake-ups |
| OpenSBI interrupts and system calls, `sbi_ipi.c`, `sbi_system.c` | posted events, pending interrupts | send to many, process, halt, reset, system suspend | an interrupt only for the first event; harts that stop meanwhile |
| OpenSBI fences, `sbi_tlb.c` with `sbi_fifo.c` | ring buffers, counters | request, merge, retry, process, wait | requests merged and answered by other harts; full buffers, mutual waiting |
| OpenSBI software events, `sbi_sse.c` | events, lists by priority, locks, injection buffers | register, configure, enable, inject, complete, mask | two kinds of lock, an unlocked path, nested handlers |

Interactions: Mosaic's explorer drives the OS through `replay`, and the OS drives the
application through generators. TestKit runs the programs of the assignments; its
alarm is one of the signals that may kill the Labyrinth program. The server runs the
Labyrinth program as a subprocess and shares map files with it. The HTTP server and
gpt.c include the thread library. In OpenSBI the fences and the software events are
events of the interrupts, which go to the harts that hart state management says can be
interrupted; boot and exit of a hart reset the state of all three.

What makes each part correct:

* Mosaic OS: a fork copies the heap of the caller at the moment of the call, a
  thread never writes the heap of another process, a result is sent into the context
  that waits for it, and the storage is a device that applications can reason about.
* Explorer: vertices, depths and edges are those of the real transition graph.
* TestKit: the suite of the program runs, once the program ends, with the right
  verdicts and every cleanup, and nothing hangs.
* Labyrinth: `isConnected` is right; whatever processes do, a saved map is legal.
* Server: no two users control one player, no id is lost, shutdown ends.
* pstree: each process is printed at most once, stable processes always.
* HTTP: each request is answered. Threads: `join` waits for all. Lock: one at a time.
* OpenSBI: a hart enters the supervisor where it was asked to and hangs only when its device
  fails; no event posted to a hart that is up is without an interrupt; a fence returns, with everything flushed; a software
  event that can be handled is signalled, and its completion restores what it interrupted.

`PROJECT.json` lists the places in the code where these are at risk ("hazards") with
the properties that guard them.

## Plan

Done, in this order:

1. `MosaicOS` with the abstract `BlockDevice`, and `MosaicOSProofs`;
2. `MosaicCheck`, the explorer on top of a compact OS with replayed forks, and
   `MosaicCheckProofs`;
3. `TestKit` and `TestKitProofs`;
4. `MyMalloc` and `ThreadLib`, composed by `MallocThreads`, and `MallocThreadsProofs`;
5. `LabyrinthGame` (the map, shared), `MazeDFS`, `Labyrinth`, and `LabyrinthServer`, which
   composes the server with `LabyrinthGame`; `LabyrinthProofs` holds the proofs of all four;
6. `Pstree` and `PstreeProofs`; 7. `HttpServer` and `HttpServerProofs`;
8. OpenSBI: `SbiHart`, `SbiFifo`, `SbiTlb`, `SbiSse`, composed by `Sbi`, and `SbiProofs`.

Next:

* the Mosaic applications: the condition variables of `examples/concurrency/cond-var.py`
  on the scheduler, and the log of `examples/persistence/xv6-log.py` as an
  implementation of atomic transactions over `BlockDevice`;
* explicit-stack programs (`course1/hanoi/hanoi-nr.c`, `hanoi-o3mini.c`, `f_g.c`)
  refining the recursive definition; `os-model.py`; `hotseat.py`; file offsets and
  pipes (`course4`); the FLE linker as operators;
* theorems: that a saved map stays connected (a move keeps the set of empty spaces);
  `EntersWhereAsked` with an HSM device.

## Modules and the code

`PROJECT.json` ("map") gives the lines of every definition; this section says what a
step is and what is abstracted. Definitions named `XxxSomething` that a comment calls
a mutant are wrong variants of an operation: they are not part of any specification
and serve to show that a property can fail.

**MosaicOS.** One action is one `_step()`: the handler of the pending call makes its
choice, the result is sent, and the thread runs to its next call. The application is
the environment: it may write any content to its heap and make any call of `Ops`.
Heaps are numbered objects; `gheap` is the object the global name `heap` refers to, so
the model shows the moment when a fork handler has left it at the clone's heap. The
cloned thread is what replaying a deterministic trace gives, namely a copy of the
current thread; that the replay does give this is what MosaicCheck checks. Contexts are
abstracted to the call they wait in. Storage is a function with `Absent` for no entry.
A `sys_choose` from an empty list is a call of its own (`"choose from nothing"`): it offers
no choice although its thread is alive, and `run()` and `check()` stop there as they do at
the end of the program. `MaxThreads` and `MaxOut` bound the threads and the output;
application steps that exceed them are left out.

**BlockDevice** is the abstract device: `view` is what a read returns, `safe` what a
crash cannot take away. `MosaicOS!DeviceSpec` maps `view` to `persist | buf` and `safe`
to `persist`.

**MosaicCheck.** One `Pop` or one body of the `for` loop per step. A state is computed
from its trace by `Replay`, whose forks take the clone from a second replay, as
`sys_fork` does; `Dump` is `state_dump` without the hash (hashes are taken to be
injective). The reference (`Successors`, `Levels`, `ReachedIn`) copies threads directly,
level by level up to `MaxSteps`; `StepsAssumption` says that more steps of an application
of `Programs` lead to no new state, and TLC evaluates it for the applications of the runs.
An application is a list of calls, each with the source line it is on and the call that
follows a zero and a nonzero result, so that branches and loops can be written. A dump
sees the line and the locals, not the operands of a half-evaluated expression.

**TestKit.** Program, forked child, worker, test process, `main()` process and cleanup
process; a step is what one of them does between two points where another can notice.
The code of a case is abstracted to how each part ends (`ok`, `abort`, `segv`, `loop`).
The table travels in `Chunks` pieces of `PerChunk` entries through a pipe that holds
`Capacity` of them; the pieces of a forked child mix with those of the program, and the
worker's table is whatever it has read, piece by piece. A piece that ends within an entry is
left out. An element behind a full table may look enabled or not. `pipe()` and `fork()` in
the hook are taken to succeed. Registration beyond `TK_MAX_TESTS` aborts
before main and is excluded by `SuitesAssumption`; the environment variables are set
during registration or not at all. The programs of the suites in `Forking` fork a child
that returns from main as well. The shared output buffer and the messages are left out.

**MyMalloc.** One instruction per step: the atomic operation that takes the lock, load,
store, release. The compare-and-exchange of `mymalloc.h` and the exchange of
`thread-sync.h` succeed in the same states and set the same value, so they are one action.

**ThreadLib.** `spawn` in three steps (fill the slot, create, increment), so that the new
thread may start, run and return before `spawn` does; `join` one slot per step. A program
is the list of functions main spawns. Only main spawns: with two spawning threads the
unlocked `n_` is a data race, which the library does not claim to handle. `pthread_create`
is taken to succeed: the code ignores its result (`thread.h:50`), and a slot without a thread
would give `join` an uninitialised handle.

**MallocThreads** runs the two together: a thread whose function is `T_malloc` makes the
steps of `MyMalloc` and returns to the library after its last call; the process is gone
when `join` has returned or the assertion in `spawn` has failed.

**LabyrinthGame** holds the map and what a move does to it. **MazeDFS** makes one step
per iteration of dfs's loop with the activations as a stack. **Labyrinth** runs
processes: an invocation decides and moves in one step (its read of the file is one
buffer, see below), then opens, which empties the file, and writes in steps of their own. `Loadable`
uses `Connected`, which MazeDFS shows to be what `isConnected` computes. Maps are
rectangular; a file is a map, empty or missing, and whether its last line ends in a
newline is kept because the column limit depends on it. The text of a map fits one buffer
of the C library (`BufferAssumption`), so that it is read and written at once; a larger one,
up to the 100 by 100 that the limits allow, is written in pieces, of which a kill, a full
disk or a second process may leave a mixture. That case is not modelled, and the results
about saved maps do not speak of it.

**LabyrinthServer.** A block under `server.lock` is a step; the refusal, which sleeps in
its block, is two. SSH (paramiko) is external: a channel comes or does not, and a
session may end at any of its sends and receives. The Labyrinth program is the rules of
`LabyrinthGame` applied to the temporary map, with the result saved to `maps/map.txt`;
that directory is taken to exist. A session is `Sole` when its user has no other.

**Pstree.** The kernel forks and ends processes between any two steps of the scan;
`/proc` is listed in the order of the pids. After that the program is alone. A name with
a closing parenthesis makes the parsed parent any number; process 1 has none. A name with a
newline, which cuts the line that `fgets` reads so that the process is dropped
(`pstree.c:93`), is left out, and so is the tree's layout.

**HttpServer.** Peers are prompt (a request arrives within the receive timeout) or
silent. `MaxFds` is the descriptor limit of the process.

**SbiHart.** A hart is somewhere (`pc`) in the firmware or in the supervisor (`"S"`), with
the locals of the call it executes. An access to a word that another hart can write
(`state`, `start_ticket`, the scratch area, `ipi_type`, the pending interrupt) is a step
of its own, and what a hart does between two such accesses belongs to one of them. There
are three exceptions.

* `Sending` reads the states of all targets at once, where the code reads one after the
  other (`sbi_hsm.c:128`). A sender deals with each target by itself, and no property
  compares the states of two targets at one moment.
* `ResumeFinish` joins the change to STARTED and the reading of `next_*`
  (`sbi_hsm.c:466-478`). Only a caller of `hart_start` writes them in between, and starting
  a hart that suspends is left out for the reason given [below](#where-the-code-differs-from-its-texts).
* `InitHart` joins the last step of `sbi_ipi_init`, which clears the interrupt, with
  `sbi_tlb_init`, `sbi_sse_init` and the count of `init_warm_startup`. A call that starts
  meanwhile does not find the hart interruptible. A sender that found it before it stopped
  may still be under way: it puts at most one entry into a buffer of the hart and then posts
  one event. If the entry comes before the buffer is reset it is lost, as when
  it comes before the whole step; what follows is the same after the step. The first
  step of `sbi_ipi_init`, which clears the posted events, is an action of its own
  (`IpiInit`), because such a sender can post and raise between the two: the harts it
  happens to are in `late` until they take their events, see the same section.

The
supervisor is the environment: it makes any of the calls of its scenario, as often as
the scenario allows. A scenario also says which harts run at first (none: cold boot) and
whether there is an HSM device that switches harts on and off (`hotplug`), one that boots
secondary harts only (`secondary`), or none. Any device may refuse to start a hart. A
hotplug device switches a hart off, or fails to and leaves it in `sbi_hart_hang`
(`"stuck"`); for the harts in `awake` it returns SBI_ENOTSUPP, and these wait in the
firmware for an interrupt, as the first hart of `ae350.c` does. `at` is where a hart entered S-mode, `asked`
where it should. There is one domain with all harts, every address passes its checks,
no reset device resets the machine, and memory is sequentially consistent: the fences of
the code are taken to do what their comments say.

**SbiFifo** has the operations of the ring buffer as operators, with its indices. A slot
that was read is cleared, which is not visible and saves states.

**SbiTlb.** Addresses are numbers modulo `Word`; a translation is a pair of space and page,
and `need` records which translations a call still has to flush where. `hand` is an entry
a hart has taken and flushed but not yet answered. The merge compares ranges as the code
does, overflow and the two spellings of a full flush included. The four hypervisor
fences, which are never merged, are one kind.

**SbiSse.** An event is its attributes; a list is a sequence. Calls that hold their locks
from beginning to end are one step; `sbi_sse_enable` keeps its locks while it sends an
interrupt, `sbi_sse_complete` holds only the lock of the list, and `set_pending` reads
and writes the status word in two steps. `interrupted` stands for the registers an event
has saved: the stack of handlers it interrupted. Left out are `read_attrs`; the callbacks of
drivers, of which `sbi_pmu.c:1124` defines three, since they touch only the control registers
and the counters of the calling hart; writes of the INTERRUPTED_* attributes
(`sbi_sse.c:427-443`), by which a handler changes where its own interrupted code goes on; and
calls of `write_attrs` for several attributes, which are so many calls for one, under one lock.

**Sbi** composes the four: boot, exit and the end of a trap are steps of all components.

## Runs: what they show and their bounds

Passing runs (each property has a wrong variant of the code that violates it):

| run | shows | bounds, and why they suffice |
|---|---|---|
| `mosaic_os` | isolation and copying of heaps, a heap of its own for each child, resumption; storage implements BlockDevice | applications with threads: 3 of them, so a clone can meet its parent and a third, 2 heap contents; applications with storage: 2 blocks, 2 values, so that overwrites and partial crashes occur |
| `mosaic_check` | no two states with one dump differ; vertices, depths and edges are right | every main of up to 3 calls with a worker, and mains with branches and with a loop; up to 3 threads, forks of forks included |
| `testkit` | suite, verdicts, cleanup, exit, progress | every pair of 17 kinds of case, suites that reach the second piece and fill the table, programs that fork with suites that fit the first piece and that do not; the table has 2 pieces of 2 entries, the pipe holds 1, so the writer blocks and tables mix |
| `threads` | exact count at exit, join, right function, end | 0, 2, 3 and 4 threads in 3 slots, so that the table is empty, partly filled, full and too small; up to 3 of them make 3 calls each |
| `mazedfs` | isConnected is right and ends | all 3x3 maps with walls, spaces and a player: rings, dead ends, islands |
| `labyrinth` | a saved map has its walls, and no player twice | 2 processes, 2x3 maps that fit the buffer, 15 command lines, kills, full disk, no directory |
| `server` | ids returned, exclusive control, shutdown | 4 connections of 3 users, one connected twice, 2 ids: refusals, reuse and early release occur |
| `pstree` | no process twice, stable ones printed, exact tree, termination | all tables of 4 pids, 2 buckets (collisions), 3 changes (exit, adoption, reuse of a pid), one odd name, with and without `-n` |
| `http` | answers; only silent peers leak | 4 connections, 2 of them silent, 2 descriptors: they can take them all |
| `sbi` | see `SbiHart`, `SbiTlb`, `SbiSse`: where harts enter, no hang but by a failing device, no lost interrupt, complete fences that return, events listed, signalled and completed in order | 3 harts, so that two can meet over a third; 21 mixtures of one to three calls per hart (each mixture lets two to four kinds of call meet); 8 pages, a limit of 2 pages per range, buffers of one entry so that they are full; one local and one global event |

Deadlock is checked in all of them but `sbi`, whose supervisors may stop calling: where a
system may stop for good a named stuttering action says so (`Terminated`, `Returned`, `Finished`, `Exited`, `Done`, `Idle`).

## Findings

The run `mosaic_check_one_line` checks `Exhaustive`, which `mosaic_check` shows for
applications with one call per line, on `heap.x = sys_choose([0, 1]) + sys_choose([0, 1])`
and is violated: between the two calls the first result is an operand on the stack, which
is in no dump (`mosaic.py:341`), so `check()` takes two states for one and expands only
the first.

The run `sbi_tlb_ranges` checks `FenceComplete`, which `sbi` shows for ranges that are not
empty, when one hart asks for the first page and another for everything with start and
size zero. `tlb_range_check` (`sbi_tlb.c:281`) computes the end of the second range as
zero, takes it to lie within the waiting one and skips it; the caller is answered when
only the first page has been flushed.

`PROJECT.json` quotes the texts they contradict.

## Where the code differs from its texts

Met while modelling. The models follow the code, and the properties are stated with the
exception named here.

| code | what it does | how the properties treat it |
|---|---|---|
| `testkit.c:234` | a forked child that returns from main starts the tests while the program runs | `ExitsNormally` speaks of programs without a child |
| `testkit.c:238` | the tables of a program and its forked child mix when they are written in several pieces | `RunsTheSuite` speaks of suites within the first piece when there is a child (`Unmixed`) |
| `testkit.c:41` | `argc` is not compared with the length of `argv_copy` | left out |
| `testkit.c:89` | `main()` of a system test has no alarm and outlives its case | no claim that the processes of a case are gone |
| `testkit.c:79` | the assertion message overwrites the output of `main()` | output left out |
| `testkit.c:192` | a full table has no terminating element | `RunsTheSuite` speaks of tables with one free |
| `thread.h:62` | `join` misses a thread spawned while it waits | only main spawns |
| `labyrinth.c:81` | `--version`, which the usage lists, goes on to load a map and exits with 1 | statuses follow the code (`Outcome`) |
| `labyrinth.c:225` | the call without `--move` crashes in `strcmp` | a status of its own, SIGSEGV |
| `labyrinth.c:148` | a map of exactly MAX_COLS columns is refused | `FitsLimits` counts the newline |
| `labyrinth.c:216` | an entering player erases another who stands on the first space | `NoDuplicates` says at most once, not exactly once |
| `labyrinth.c:253` | moves are always saved to `maps/map.txt`, not to the file of `--map` | two files, `given` and `saved` |
| `online.py:241` | the id of a user connected twice is given away when one session ends | `ExclusiveControl` speaks of `Sole` sessions |
| `online.py:105` | the sessions look at the temporary map, which no move changes | display left out |
| `pstree.c:283` | `--numeric-sort` is accepted and ignored | `sorted` is the option `-n` |
| `labyrinth.c:253` | the result of `saveMap` is ignored and the status is 0 | no claim about the status after a failed save |
| `online.py:147` | a refusal sleeps three seconds with the lock held | `Refuse` holds the lock; no claim about time |
| `mosaic.py:459` | a system call in the arguments of another call is not rewritten | an application is the calls that are |
| `sbi_hsm.c:331` | a refused start of a suspended hart has replaced its resume address (`EntersWhereAsked` fails) | no scenario starts a hart that suspends |
| `sbi_hsm.c:356` | equal counts before the first warm boot send a start to a hotplug device that must refuse it, and the roll-back races with the hart (`NoHang` fails) | no scenario boots cold with such a device |
| `sbi_ipi.c:120` | a target that stops after the targets were chosen never answers a fence | `FenceReturns` speaks of supervisors that stop no hart |
| `sbi_ipi.c:341` | an interrupt raised after `sbi_ipi_init` has cleared the posted events, by a sender that found the hart before it stopped, is cleared; the event stays posted and keeps later senders from raising one | `PendingHasInterrupt` excepts these harts (`late`) until they take their events; without the exception the run `sbi` violates it |
| `sbi_hsm.c:282` | a hart that its device fails to switch off hangs, STOPPED for the others | a place of its own (`"stuck"`), which `NoHang` does not forbid |
| `sbi_ipi.c:216` | a halt forgets the events taken with it; a hart in START_PENDING is sent none | the same |
| `sbi_sse.c:1175` | a hart that starts again drops global events enabled on it meanwhile (`EnabledIsListed` fails) | no scenario has start, stop and enable together |
| `sbi_sse.c:1268` | an event made unused at exit stays in the list and may be inserted twice | no scenario enables an event that is in a list |
| `sbi_sse.c:809` | complete of a oneshot global event changes it without its lock (`RestoresInterrupted` fails) | no scenario has oneshot, prefer, inject and complete together |
| `sbi_sse.c:765` | the preferred hart may change before an injection arrives | no scenario injects while the preference changes |
| `sbi_sse.c:792` | a hart that enables a pending event on itself waits for its own lock when the event is also in its buffer | no claim about the return of the call |
| `httpd.c:110` | a peer that sends nothing costs a descriptor for good | `RequestsAnswered` holds until such peers hold all of them |

## Fairness

Only safety is claimed where no fairness is stated (`MosaicOS`, `MosaicCheck`, `Labyrinth`).

* `TestKit`: weak fairness of the program's handler, of the worker and of the processes of
  a case, alarms included: the kernel runs what can run and delivers SIGALRM. Nothing is
  assumed of `main()`, which may run or be killed at will.
* `MyMalloc`, `MallocThreads`: each thread takes steps, no more: a thread that spins may
  lose every round, but the others make finitely many calls, so it gets the lock in the end.
* `Sbi`: a hart in the firmware executes its instructions, and a pending interrupt wakes a
  hart that sleeps (wfi, suspend). Nothing is assumed of the supervisors, nor of the
  wake-up of a hart without an interrupt.
* `MazeDFS`, `Pstree`: weak fairness of the program: it is scheduled.
* `LabyrinthServer`: only `main()`: its joins have timeouts. Nothing of clients or the lock.
* `HttpServer`: the process is scheduled and what a prompt peer sent arrives.

## Proofs

TLAPS checks the following for every value of the constants, from the named assumptions
of the modules (sizes are naturals, thread sets finite, maps are maps).

**MosaicOSProofs.** Invariant `IInv == TypeOK /\ FrozenElsewhere /\ CloneHeapPrivate /\
PendingCloneHeap`. Type correctness alone is not inductive for the fork: that the clone's
heap is private needs the newest heap to be unused while a fork is pending, and that a
switch delivers the right value needs to know where other threads are frozen. `RunStep`
states once what the second half of `_step` does; each handler is a lemma on top of it.
From `IInv` follow the invariants, the action properties
`HeapIsolation`, `ForkCopiesHeap` and `ResumeMatches`, and `DeviceCorrect`: storage steps
are writes, syncs and crashes of `BlockDevice`, everything else stutters.

**MosaicCheckProofs.** First the operators. The recursions of `After` and `Levels` have
solutions, and only one (`RunExists`, `RunAgrees`, `LevelsExist`, `LevelsAgree`): the
inductions over data are made with the least counterexample (`LeastNat`, `AllNat`), since
the library's induction rules are out of the provers' reach. Hence `ReplayStep`: a replay
with one choice more is the replay and one step of an OS whose fork copies. Then the
search: `Searching`, `Ordered` (the traces in the queue are sorted by length and span two
levels), `Seen` (a vertex of depth n is a state after n steps, and none is deeper than the
next level), `Edges` and `Explored` (a vertex waits in the queue, or it was expanded from a
trace of its depth and each choice has an edge to a vertex at most one deeper, or is still
to be followed). They give `EdgesCorrect` outright, for every set of applications.
`ExhaustiveCorrect` and `DepthCorrect` are stated as `TellsApart => ...`: by induction on
the steps, the vertex of a state stands for another state with the same dump, so the same
choice must lead to the same dump. `TellsApart` is a run's property for one call per line,
and the run `mosaic_check_one_line` shows that without it the search is not exhaustive.

**TestKitProofs.** For suites and pipes of every size. `Flow` accounts for the pieces of the
table in the pipe, `Order` says that they arrive as one writer wrote them and that the first
one arrives first whoever writes, `Reader` when the worker may stop reading, `Hooked` and
`Table` that it then goes by the cases of the program; `Verdicts` and `Cleanup` that exactly the cases behind
the worker have a verdict and had their cleanup started; `Running` that the test process
is where its code lets it be. From them `RunsTheSuite`, `VerdictSound`, `CleanupAlways` and
`ExitsNormally`. `RunsTheSuite` is stated for tables that cannot have been mixed (`Unmixed`):
the program forks no child, or its cases and the entry that ends them lie in the first
piece, which both writers send alike. For a longer suite of a program that forks it is false:
pieces of the two tables alternate, and cases come twice or not at all.

**MallocThreadsProofs.** `MallocInv` adds to mutual exclusion that the counter equals the
number of stores made, a set of (thread, call) pairs whose cardinality grows by one per
store, and that a thread loads the value it stores over, which needs mutual exclusion.
`LibInv`: thread k was made for slot k - 2, which holds its handle and function, and the
slot is dead only when the thread has returned (`OwnSlot`); there are n_ threads besides
main, and one more while `spawn` has created and not yet incremented (`InSpawn`); no slot
behind `join` is live (`Joins`). Each is shown for its own module, for any number of
threads and tables of every length, and again for the composition, in which a step of the
one leaves the other alone or is a step of it too. `Started` and `LoopOf` tie a thread's
place in the library to its place in `mymalloc`; when `join` has returned all of them are
at the end of their loops, which is `ExitCount`.

**LabyrinthProofs.** What the models of the game share: the scan order has a first element
(`FirstOfCells`, by well-founded minima), `movePlayer` starts from a cell that is no wall
(`PlaceFound`), and a move keeps the walls and puts no player on the map twice
(`MovedWalls`, `MovedSingle`), for maps of every size.
For `isConnected`, `DfsInv`: nothing is visited outside the least closed set containing
the first space (`Sound`); a visited cell has an activation on the stack or all its
neighbours are dealt with, and an activation has dealt with the offsets before its index
(`Progress`). When the stack is empty the visited set is closed, hence the least one.
For the processes, `IInv == TypeOK /\ AllLegal`: the invariants of the saved map are not
inductive, since what is saved comes from the memory of a process and what a process
loads may come from either file, also from one that another process emptied. `AllLegal`
says it of all of them. `StartsAssumption`: the map that is given has no player twice.
`WallsCorrect` and `PlayersCorrect` are for every map within `BufferAssumption`.
For the server, `ServerInv`: every entry of the player table has a live session of its
user (`Owned`); `Sessions` relates program counters, names and ids; `Entries` says that a
`Sole` session in the game holds the id in its user's entry, and from it follows
`ControlCorrect`, for any number of other sessions of other users.

**PstreeProofs.** For any number of processes and buckets, and a kernel that changes the
processes at will during the scan. `Scanned` says what the cursor has passed, `Hashed` that
each recorded process is in its bucket once, `Unvisited` and `Linked` that each process
the linking loop has visited is in its parent's list, once. For the printing, `Walk` (the
printed and the waiting processes are different ones), `Complete` (the children of a
printed process are printed or waiting) and `Sound` (nothing is printed outside any set
that contains process 1 and is closed under children: the set quantifier replaces an
induction on the depth). `SortedList` shows that an arrangement by pid exists and loses
nothing, by induction on the length.

**HttpServerProofs.** A connection is in one place (`Places`); with it the descriptors that
stay open are those of silent peers, and they are never more than `MaxFds`.

**SbiProofs** is about the composition, for any number of harts, any scenarios, buffers
and events. `InterruptsNotLost`: `PendingHasInterrupt` with what it needs of the senders
(the target of a hart that is about to raise an interrupt stays the same) and of booting
(between the two steps of `sbi_ipi_init` events are posted to harts in `late` only,
`ClearedFirst`) is inductive, and the many steps that touch neither interrupts nor posted events are one lemma
(`QuietStep`). `StartsWhereAsked` assumes that no scenario suspends or has a device
(`PlainScenarios`); `HsmInv` says that the ticket of a hart is held by the one caller that
prepares it or by the hart that starts (`TicketHeld`), that the parameters of a starting
hart are those of the caller whose compare-and-swap succeeded (`StartPrepared`), and that
nothing is asked before the cold boot is over (`BootAlone`, `BeforeBoot`). With suspending
harts the theorem is false, see above. `NeverHangs` (no hart reaches `sbi_hart_hang` through a change of state that fails) has
weaker hypotheses: harts may suspend and there may be an HSM device, but not in a scenario
that boots cold (`KnownStart`), where it is false (`sbi_hsm.c:356`, above). Its invariant
`HangInv` has four parts. `StatesFit` gives the HSM states possible at each label of a
hart; a hart's own steps move it from one such pair to the next, and what matters is
that nobody else takes away a state it relies on: another hart changes only STOPPED and
START_PENDING, which the labels before `init` both allow, and may undo a start only while
the hart has not run. `ColdAlone` says that nobody else has left the reset while one
hart boots cold, `CallerKnown` is the type of a caller's locals, and `DeviceHeld` says, for
the scenarios with a device, that a ticket has one holder, which keeps it until the device
has powered the hart on, and that nobody holds it from then until the hart runs: hence no
roll-back meets a hart that is booting.

`FencesComplete` states `FenceComplete` for any number of harts that send fences at once,
buffers of any size and any address space. `FenceInv`, which is inductive together with
`HangInv`, rests on two facts. The counter: a target owes the sender an answer while its
name is in a slot of the target's buffer or in the entry the target has taken; it is never
owed twice by one target (`Once`), and `tlb_sync`, with the one that a sender at `add` has
yet to count, is at least the number of those who owe (`Counts`). It may be more, and then
the fence does not return: a hart that stops empties its buffer when it is started again
and never answers. The work: what the call still has to flush on a hart is either on a
target still to be asked or in the range of the entry that waits there with the sender's
name (`Needed`), and concerns only harts that have not left the supervisor (`NeedUp`). So
when the counter is zero nobody owes, and nothing is left. Slots that are not in use are
cleared, so that a position in the ring never matters (`Kept`). Merging is where ranges
matter: of two ranges of whole pages, the one between the ends of the other adds no page
(`Contained`), and the merged entry covers both requests (`MergeSound`). The hypothesis
`PageRanges` says that the ranges `tlb_range_check` compares, after `sbi_tlb_request` has
replaced large ones, start at a page, are not empty and end below the end of the address
space. Without it the theorem is false: see the run `sbi_tlb_ranges` for the empty range; a
range that ends at the top of the address space has its end at zero; and of two ranges
that start within a page, the inner one may reach a page that the loop over the outer one
does not.

`EnabledAreListed`, `ResumesInterrupted` and `ReadyAreSignalled` state the three invariants
of `SbiSse` for any number of harts, any set of events, any priorities and handlers nested
to any depth. They need one invariant, `EventInv`, which is inductive together with
`HangInv` and has three parts.

* `SseInv`: a list has the enabled events of its hart, once each (`Listed`), which gives
  `EnabledIsListed` when an event is taken out of the list or changes its hart. Nothing is
  known of the list of a hart that has left (`sbi_sse_exit` keeps it), but such a hart has no
  enabled event, and it empties the list before it comes back (`Alive` separates the
  two). What is in the ring buffer of a hart, or on its way into it, is an event that hart
  handles (`Injected`, `Midway`): so the state that `set_pending` writes back in its second
  step is still the one it has read, because a hart that handles an event is the only
  one that changes it while it is enabled, apart from calls that wait for its lock.
  `Placed` says where global events are during boot, `Orderly` that a hart sends a software
  event to one hart at a time.
* `StackInv`: the handlers a hart is in are its running events, each has saved exactly
  those it interrupted, and each comes before them in the list (`Nested`). The list is
  ordered by priorities that do not change while an event is enabled, but the proof needs
  no order: `sse_event_inject` is only reached for an event before every running one, and
  an insertion or removal keeps the others in their places (`InsertedOrder`). So the
  first running event of the list is the innermost handler (`Innermost`), which is what
  `sbi_sse_complete` relies on. `Resuming` carries this over the step between the change of
  state and `sse_event_resume`, when the event may already be disabled.
* `SignalInv`: an event that waits on a hart which is at a place from where it goes to the
  supervisor without a look at its list (`Unlooked`: after a boot, a suspend or in the
  supervisor itself) has an event posted for it, or a sender about to post one. That the
  posted event has an interrupt is `PendingHasInterrupt`.

The hypothesis `SseScenarios` leaves out the mixtures of calls in which a property is false
(the lines of `sbi_sse.c` above), and no more than calls that are part of one: a scenario that
changes preferred harts neither injects nor sets oneshot, and one that enables events
neither stops harts nor resets the system. It also says how a scenario may
begin: hart 0, which has the global events, is up if any hart is, and no event is
enabled, pending and not masked in a supervisor that runs. The scenarios of the run `sbi`
satisfy it.

The assumptions on the constants are that `NHarts` and `Word` are numbers, the targets of a
scenario are harts and its device one of the three kinds, a page divides the address space, a buffer has a slot, the event ids are
finitely many numbers, each local or global, and priorities are numbers.

The type invariants of the modules above are proved and not part of a run. `JoinedCount`,
`CountExact` and `MutualExclusion` of `MyMalloc`, `DepthBounded` of `MazeDFS`, `IdsDistinct` of
`LabyrinthServer`, `AnsweredClosed` and `FdsBounded` of `HttpServer` and `FrozenElsewhere`
and `PendingCloneHeap` of `MosaicOS` are proved only.

## Only model-checked

* Liveness (`WorkerFinishes`, `Ends`, `Terminates`, `MainExits`, `RequestsAnswered`,
  `StartCompletes`, `FenceReturns`): fairness and ENABLED are out of the prover's reach.
* `TellsApart` of `MosaicCheck`, a hypothesis of two theorems: it depends on the
  applications, and is false for some.

## Not modelled

Most lines of the repository are vendored and not modelled: the device trees, drivers,
instruction emulation, counters, domains and register definitions of OpenSBI, toybox with
its kconfig, and mini-rv32ima. They are drivers, parsers, tables and single-threaded
tools: they either have no state that several actors share or are made of devices that
the repository does not contain, and a model of them would repeat the code. The models
cover what interacts, and a small share of all lines.

Of the repository's own code: gpt.c (floating point); skeletons without implementation
(crepl, sperf, libkvdb, fsrecov); demonstrations of single system calls; minilibc;
logisim; the rewriting of Mosaic applications (`Transformer`), whose result is the input
of the model; real time; memory out of bounds. hotseat.py, os-model.py, the Mosaic
applications, the stack machines, the descriptor demonstrations and the FLE linker are
planned, see above.
