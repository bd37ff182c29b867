--------------------------------- MODULE Sbi ---------------------------------
(***************************************************************************)
(* OpenSBI's run-time services together: the harts and their interrupts    *)
(* (SbiHart), the remote fences (SbiTlb) and the software events (SbiSse).  *)
(***************************************************************************)
EXTENDS SbiTlb, SbiSse

vars == <<hartVars, tlbVars, sseVars>>

Init == HartInit /\ TlbInit /\ SseInit

\* The firmware on hart h; an entry it has flushed is reported first.
Firmware(h) ==
    \/ EntryDone(h) /\ UNCHANGED sseVars
    \/ /\ hand[h] = NoEntry
       /\ \/ Machine(h) /\ UNCHANGED <<tlbVars, sseVars>>
          \/ TlbMachine(h) /\ UNCHANGED sseVars
          \/ SseMachine(h) /\ UNCHANGED tlbVars
          \/ InitHart(h) /\ InitTlb(h) /\ InitSse(h)
          \/ SbiExit(h) /\ ExitTlb(h) /\ ExitSse(h)
          \/ TrapReturn(h) /\ ProcessPendingEvents(h) /\ UNCHANGED tlbVars

\* What the supervisor on hart h may do.
Calls(h) ==
    \/ Supervisor(h) /\ UNCHANGED <<tlbVars, sseVars>>
    \/ TlbSupervisor(h) /\ UNCHANGED sseVars
    \/ SseSupervisor(h) /\ UNCHANGED tlbVars

Wakes(h) == Wake(h) /\ UNCHANGED <<tlbVars, sseVars>>

Next == \E h \in Harts : Firmware(h) \/ Calls(h) \/ Wakes(h)

\* A hart in the firmware runs on, and a pending interrupt wakes one that
\* sleeps.  The supervisors make no call they do not want to make.
Fairness == \A h \in Harts : WF_vars(Firmware(h) \/ (msip[h] /\ Wakes(h)))

Spec == Init /\ [][Next]_vars /\ Fairness
-----------------------------------------------------------------------------
\* A hart that has been accepted for start leaves START_PENDING, to run or
\* because the device refused: the interrupt that wakes it is not lost, though
\* the hart clears it on its way into sbi_hsm_hart_wait.  (The supervisors make
\* finitely many calls, so this holds for each start if it does for all.)
StartCompletes == []<>(\A h \in Harts : state[h] # "START_PENDING")

\* A remote fence returns as long as no hart is stopped: harts whose buffers are
\* full, and harts that wait for each other, work on what was sent to them.
FenceReturns ==
    calls \cap {"stop", "reset"} = {} => []<>(\A h \in Harts : request[h] = NoEntry)
=============================================================================
