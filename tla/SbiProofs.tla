------------------------------ MODULE SbiProofs ------------------------------
(***************************************************************************)
(* Proofs about Sbi, for every number of harts, the scenarios each theorem *)
(* names, every size of the buffers and every set of software events.       *)
(***************************************************************************)
EXTENDS Sbi, FiniteSetTheorems, SequenceTheorems, WellFoundedInduction, TLAPS

-----------------------------
(* Interrupts are not lost. *)

\* The variables are functions on the harts.
OnHarts(f) == f = [h \in Harts |-> f[h]]
IpiFunctions == OnHarts(pc) /\ OnHarts(local) /\ OnHarts(msip) /\ OnHarts(ipi_type)

\* Nothing is posted to a hart between the steps of its sbi_ipi_init but what came late.
ClearedFirst == \A h \in Harts \ late : pc[h] = "clear" => ipi_type[h] = {}
IpiInv == IpiFunctions /\ PendingHasInterrupt /\ ClearedFirst

\* The labels that excuse a hart with events posted and no interrupt, and the
\* one of a sender that is about to raise it.
Excused == {"xchg", "wait", "wfi", "init", "raw"}

\* Only hart h has moved, and only its locals have changed.
OnlyMoves(h) ==
    /\ OnHarts(pc') /\ OnHarts(local')
    /\ \A i \in Harts \ {h} : pc'[i] = pc[i] /\ local'[i] = local[i]

\* A step of hart h that does not leave such a label, raises no more than
\* interrupts and posts nothing preserves the invariant.
LEMMA QuietStep ==
    ASSUME IpiInv, NEW h \in Harts, pc[h] \notin Excused, OnlyMoves(h),
           UNCHANGED <<ipi_type, late>>, pc'[h] # "clear",
           OnHarts(msip'), \A i \in Harts : msip[i] => msip'[i]
    PROVE  IpiInv'
<1>1. OnHarts(ipi_type')
  BY DEF IpiInv, IpiFunctions, OnHarts
<1>2. PendingHasInterrupt'
  <2> SUFFICES ASSUME NEW g \in Harts \ late, ipi_type[g] # {}
               PROVE  \/ msip'[g]
                      \/ pc'[g] \in {"xchg", "wait", "wfi", "init"}
                      \/ \E i \in Harts : pc'[i] = "raw" /\ Target(i)' = g
    BY DEF PendingHasInterrupt
  <2>1. CASE msip[g]
    BY <2>1
  <2>2. CASE pc[g] \in {"xchg", "wait", "wfi", "init"}
    BY <2>2 DEF Excused, OnlyMoves
  <2>3. CASE \E i \in Harts : pc[i] = "raw" /\ Target(i) = g
    <3>1. PICK i \in Harts : pc[i] = "raw" /\ Target(i) = g
      BY <2>3
    <3>2. pc'[i] = "raw" /\ Target(i)' = g
      BY <3>1 DEF Target, Excused, OnlyMoves
    <3> QED BY <3>2
  <2> QED BY <2>1, <2>2, <2>3 DEF IpiInv, PendingHasInterrupt
<1>3. ClearedFirst'
  BY DEF IpiInv, ClearedFirst, OnlyMoves
<1> QED BY <1>1, <1>2, <1>3 DEF IpiInv, IpiFunctions, OnlyMoves

\* The remote fences do not touch the interrupts.
LEMMA TlbQuiet ==
    ASSUME IpiInv, NEW h \in Harts, TlbMachine(h) \/ TlbSupervisor(h)
    PROVE  IpiInv'
<1> USE DEF IpiInv, IpiFunctions, OnHarts, OnlyMoves, Set, Goto, ipiVars, bootVars, Excused
<1>1. CASE UpdateSelf(h)
  BY <1>1, QuietStep DEF UpdateSelf
<1>2. CASE UpdateInplace(h)
  BY <1>2, QuietStep DEF UpdateInplace
<1>3. CASE UpdateEnqueue(h)
  BY <1>3, QuietStep DEF UpdateEnqueue
<1>4. CASE UpdateRetry(h)
  BY <1>4, QuietStep DEF UpdateRetry
<1>5. CASE UpdateAdd(h)
  BY <1>5, QuietStep DEF UpdateAdd
<1>6. CASE SyncTake(h)
  BY <1>6, QuietStep DEF SyncTake, hartVars
<1>7. CASE SyncDone(h)
  BY <1>7, QuietStep DEF SyncDone
<1>8. CASE ProcessTake(h)
  BY <1>8, QuietStep DEF ProcessTake, Processing, hartVars
<1>9. CASE ProcessTlbDone(h)
  BY <1>9, QuietStep DEF ProcessTlbDone, Processing
<1>10. CASE TlbSupervisor(h)
  <2>1. PICK r \in scenario.fences[h] : RemoteFence(h, r, scenario.targets)
    BY <1>10 DEF TlbSupervisor
  <2> DEFINE v == Sending("tlb", scenario.targets)
  <2>2. local' = [local EXCEPT ![h] = v]
    BY <2>1 DEF RemoteFence
  <2>3. pc[h] = "S" /\ pc' = [pc EXCEPT ![h] = "send"] /\ UNCHANGED <<ipiVars, late>>
    BY <2>1 DEF RemoteFence, Ecall
  <2> HIDE DEF v
  <2>4. QED BY <2>2, <2>3, QuietStep
<1> QED BY <1>1, <1>2, <1>3, <1>4, <1>5, <1>6, <1>7, <1>8, <1>9, <1>10 DEF TlbMachine

\* Nor do the software events, but through sbi_ipi_send_many.
LEMMA SseQuiet ==
    ASSUME IpiInv, NEW h \in Harts, SseMachine(h)
    PROVE  IpiInv'
<1> USE DEF IpiInv, IpiFunctions, OnHarts, OnlyMoves, Set, Goto, ipiVars, bootVars, Excused
<1>1. CASE SseSent(h)
  BY <1>1, QuietStep DEF SseSent
<1>2. CASE SseResume(h)
  BY <1>2, QuietStep DEF SseResume
<1>3. CASE InjectSend(h)
  BY <1>3, QuietStep DEF InjectSend
<1>4. CASE InjectSelf(h)
  BY <1>4, QuietStep DEF InjectSelf
<1>5. CASE InjectTake(h)
  BY <1>5, QuietStep DEF InjectTake, Injecting, Processing
<1>6. CASE InjectPend(h)
  BY <1>6, QuietStep DEF InjectPend
<1>7. CASE InjectDone(h)
  BY <1>7, QuietStep DEF InjectDone, Injecting, Processing
<1> QED BY <1>1, <1>2, <1>3, <1>4, <1>5, <1>6, <1>7 DEF SseMachine

\* Nor do the calls about them.
LEMMA SseCallsQuiet ==
    ASSUME IpiInv, NEW h \in Harts, SseSupervisor(h)
    PROVE  IpiInv'
<1> USE DEF IpiInv, IpiFunctions, OnHarts, OnlyMoves, Set, Goto, ipiVars, bootVars, Excused
<1>1. CASE \E id \in EventIds : SseRegister(h, id)
  BY ZenonT(40), <1>1, QuietStep DEF SseRegister, SseCall, Ecall, Writes
<1>2. CASE \E id \in EventIds : SseUnregister(h, id)
  BY <1>2, QuietStep DEF SseUnregister, SseCall, Ecall, Writes
<1>3. CASE \E id \in EventIds : SseEnable(h, id)
  BY <1>3, QuietStep DEF SseEnable, SseCall, Ecall
<1>4. CASE \E id \in EventIds : SseDisable(h, id)
  BY <1>4, QuietStep DEF SseDisable, SseCall, Ecall
<1>5. CASE \E id \in EventIds, prio \in Prios : SetPrio(h, id, prio)
  BY SMTT(30), <1>5, QuietStep DEF SetPrio, SseCall, Ecall, Writes
<1>6. CASE \E id \in EventIds, oneshot \in BOOLEAN : SetOneshot(h, id, oneshot)
  BY SMTT(30), <1>6, QuietStep DEF SetOneshot, SseCall, Ecall, Writes
<1>7. CASE \E id \in EventIds, t \in scenario.targets : SetPreferredHart(h, id, t)
  BY <1>7, QuietStep DEF SetPreferredHart, SseCall, Ecall, Writes
<1>8. CASE \E id \in EventIds, t \in scenario.targets : SseInject(h, id, t)
  <2>1. PICK id \in EventIds, t \in scenario.targets : SseInject(h, id, t)
    BY <1>8
  <2> DEFINE v == local'[h]
  <2>2. local' = [local EXCEPT ![h] = v]
    BY <2>1 DEF SseInject
  <2>3. pc[h] = "S" /\ (\E l : l # "clear" /\ pc' = [pc EXCEPT ![h] = l]) /\ UNCHANGED <<ipiVars, late>>
    BY Zenon, <2>1 DEF SseInject, Ecall, SseCall
  <2> HIDE DEF v
  <2>4. QED BY <2>2, <2>3, QuietStep
<1>9. CASE SseComplete(h)
  BY ZenonT(40), <1>9, QuietStep DEF SseComplete, Ecall
<1>10. CASE \E on \in BOOLEAN : SseMask(h, on)
  BY <1>10, QuietStep DEF SseMask, Ecall
<1> QED BY <1>1, <1>2, <1>3, <1>4, <1>5, <1>6, <1>7, <1>8, <1>9, <1>10 DEF SseSupervisor

\* Nor do the other calls of the supervisor.
LEMMA CallsQuiet ==
    ASSUME IpiInv, NEW h \in Harts, Supervisor(h)
    PROVE  IpiInv'
<1> USE DEF IpiInv, IpiFunctions, OnHarts, OnlyMoves, Set, Goto, ipiVars, bootVars, Excused
<1>1. CASE \E t \in scenario.targets, a \in Addrs(h) : HartStart(h, t, a)
  <2>1. PICK t \in scenario.targets, a \in Addrs(h) : HartStart(h, t, a)
    BY <1>1
  <2> DEFINE v == [Local EXCEPT !.to = t, !.addr = a]
  <2>2. local' = [local EXCEPT ![h] = v]
    BY <2>1 DEF HartStart
  <2>3. pc[h] = "S" /\ (\E l : l # "clear" /\ pc' = [pc EXCEPT ![h] = l]) /\ UNCHANGED <<ipiVars, late>>
    BY <2>1 DEF HartStart, Ecall
  <2> HIDE DEF v
  <2>4. QED BY <2>2, <2>3, QuietStep
<1>2. CASE HartStop(h)
  BY <1>2, QuietStep DEF HartStop, Ecall, ChangeState
<1>3. CASE \E ret \in BOOLEAN, a \in Addrs(h) : HartSuspend(h, ret, a)
  <2>1. PICK ret \in BOOLEAN, a \in Addrs(h) : HartSuspend(h, ret, a)
    BY <1>3
  <2> DEFINE v == [Local EXCEPT !.ret = ret]
  <2>2. local' = [local EXCEPT ![h] = v]
    BY <2>1 DEF HartSuspend
  <2>3. pc[h] = "S" /\ pc' = [pc EXCEPT ![h] = "su_cas"] /\ UNCHANGED <<ipiVars, late>>
    BY <2>1 DEF HartSuspend, Ecall
  <2> HIDE DEF v
  <2>4. QED BY <2>2, <2>3, QuietStep
<1>4. CASE SendSmode(h, scenario.targets)
  BY <1>4, QuietStep DEF SendSmode, Ecall
<1>5. CASE ClearSmode(h)
  BY <1>5, QuietStep DEF ClearSmode
<1>6. CASE SystemReset(h)
  BY <1>6, QuietStep DEF SystemReset, Ecall
<1>7. CASE \E a \in Addrs(h) : SystemSuspend(h, a)
  <2>1. PICK a \in Addrs(h) : SystemSuspend(h, a)
    BY <1>7
  <2> DEFINE v == [Local EXCEPT !.addr = a]
  <2>2. local' = [local EXCEPT ![h] = v]
    BY <2>1 DEF SystemSuspend
  <2>3. pc[h] = "S" /\ (\E l : l # "clear" /\ pc' = [pc EXCEPT ![h] = l]) /\ UNCHANGED <<ipiVars, late>>
    BY <2>1 DEF SystemSuspend, Ecall
  <2> HIDE DEF v
  <2>4. QED BY <2>2, <2>3, QuietStep
<1> QED BY <1>1, <1>2, <1>3, <1>4, <1>5, <1>6, <1>7 DEF Supervisor

\* The steps of the firmware that neither post events nor handle interrupts.
Quiet(h) ==
    \/ SbiInit(h) \/ InitColdboot(h) \/ WakeColdbootHarts(h) \/ StartFinish(h)
    \/ Launch(h) \/ StartWrite(h) \/ StartCas(h) \/ StartRefused(h)
    \/ StartIpi(h) \/ StartRelease(h) \/ HsmExit(h) \/ HsmStopped(h)
    \/ SuspendCas(h) \/ ResumeStart(h) \/ ResumeFinish(h) \/ SendSelf(h)
    \/ SendRetry(h) \/ SendDone(h) \/ TakeIpi(h) \/ ProcessSmode(h)
    \/ ProcessHalt(h) \/ IpiDone(h) \/ ResetStop(h) \/ SystemSuspendCas(h)
    \/ SystemSuspendNext(h) \/ SuspendReturn(h) \/ SuspendWarm(h) \/ SbiExit(h)
    \/ TrapReturn(h)

\* They preserve the invariant.
LEMMA MachineQuiet ==
    ASSUME IpiInv, NEW h \in Harts, Quiet(h)
    PROVE  IpiInv'
<1> USE DEF IpiInv, IpiFunctions, OnHarts, OnlyMoves, Set, Goto, ipiVars, bootVars, Excused
<1>1. CASE SbiInit(h)
  BY <1>1, QuietStep DEF SbiInit
<1>2. CASE InitColdboot(h)
  BY <1>2, QuietStep DEF InitColdboot
<1>3. CASE WakeColdbootHarts(h)
  BY <1>3, QuietStep DEF WakeColdbootHarts
<1>4. CASE StartFinish(h)
  BY <1>4, QuietStep DEF StartFinish, ChangeState
<1>5. CASE Launch(h)
  BY <1>5, QuietStep DEF Launch
<1>6. CASE StartWrite(h)
  BY <1>6, QuietStep DEF StartWrite
<1>7. CASE StartCas(h)
  BY <1>7, QuietStep DEF StartCas
<1>8. CASE StartRefused(h)
  BY <1>8, QuietStep DEF StartRefused
<1>9. CASE StartIpi(h)
  BY <1>9, QuietStep DEF StartIpi
<1>10. CASE StartRelease(h)
  BY <1>10, QuietStep DEF StartRelease
<1>11. CASE HsmExit(h)
  BY <1>11, QuietStep DEF HsmExit, ChangeState
<1>12. CASE HsmStopped(h)
  BY <1>12, QuietStep DEF HsmStopped
<1>13. CASE SuspendCas(h)
  BY <1>13, QuietStep DEF SuspendCas, ChangeState
<1>14. CASE ResumeStart(h)
  BY <1>14, QuietStep DEF ResumeStart, ChangeState
<1>15. CASE ResumeFinish(h)
  BY <1>15, QuietStep DEF ResumeFinish, ChangeState
<1>16. CASE SendSelf(h)
  BY <1>16, QuietStep DEF SendSelf
<1>17. CASE SendRetry(h)
  BY <1>17, QuietStep DEF SendRetry
<1>18. CASE SendDone(h)
  BY <1>18, QuietStep DEF SendDone
<1>19. CASE TakeIpi(h)
  BY <1>19, QuietStep DEF TakeIpi
<1>20. CASE ProcessSmode(h)
  BY <1>20, QuietStep DEF ProcessSmode, Processing
<1>21. CASE ProcessHalt(h)
  BY <1>21, QuietStep DEF ProcessHalt, ChangeState, Processing
<1>22. CASE IpiDone(h)
  BY <1>22, QuietStep DEF IpiDone
<1>23. CASE ResetStop(h)
  BY <1>23, QuietStep DEF ResetStop, ChangeState
<1>24. CASE SystemSuspendCas(h)
  BY <1>24, QuietStep DEF SystemSuspendCas, ChangeState
<1>25. CASE SystemSuspendNext(h)
  BY <1>25, QuietStep DEF SystemSuspendNext
<1>26. CASE SuspendReturn(h)
  BY <1>26, QuietStep DEF SuspendReturn, ChangeState
<1>27. CASE SuspendWarm(h)
  BY <1>27, QuietStep DEF SuspendWarm
<1>28. CASE SbiExit(h)
  BY <1>28, QuietStep DEF SbiExit
<1>29. CASE TrapReturn(h)
  BY <1>29, QuietStep DEF TrapReturn
<1> QED BY <1>1, <1>2, <1>3, <1>4, <1>5, <1>6, <1>7, <1>8, <1>9, <1>10, <1>11, <1>12,
           <1>13, <1>14, <1>15, <1>16, <1>17, <1>18, <1>19, <1>20, <1>21, <1>22, <1>23,
           <1>24, <1>25, <1>26, <1>27, <1>28, <1>29 DEF Quiet

\* The steps that do.
LEMMA PostKeeps ==
    ASSUME IpiInv, NEW h \in Harts, PostEvent(h) \/ RawSend(h)
    PROVE  IpiInv'
<1> USE DEF IpiInv, IpiFunctions, OnHarts, Set, Goto
<1>1. CASE PostEvent(h)
  <2>1. pc[h] \in {"post", "send"} /\ \A i \in Harts \ {h} : pc'[i] = pc[i] /\ local'[i] = local[i]
    BY <1>1 DEF PostEvent
  <2>2. \A i \in Harts : pc[i] = "raw" => pc'[i] = "raw" /\ Target(i)' = Target(i)
    BY <2>1 DEF Target
  <2>3. ASSUME ipi_type[Target(h)] = {}
        PROVE  pc'[h] = "raw" /\ Target(h)' = Target(h)
    BY <1>1, <2>3 DEF PostEvent, Target
  <2>4. \A i \in Harts : i # Target(h) => ipi_type'[i] = ipi_type[i]
    BY <1>1 DEF PostEvent
  <2>5. UNCHANGED msip /\ OnHarts(pc') /\ OnHarts(local') /\ OnHarts(ipi_type')
    BY <1>1 DEF PostEvent
  <2>6. \A i \in Harts : i \notin late' => i \notin late /\ ~(i = Target(h) /\ pc[i] = "clear")
    BY <1>1 DEF PostEvent
  <2>7. PendingHasInterrupt'
    BY <2>1, <2>2, <2>3, <2>4, <2>5, <2>6 DEF PendingHasInterrupt
  <2>8. pc'[h] # "clear"
    BY <1>1 DEF PostEvent
  <2>9. ClearedFirst'
    BY <2>1, <2>4, <2>6, <2>8 DEF ClearedFirst
  <2> QED BY <2>5, <2>7, <2>9
<1>2. CASE RawSend(h)
  <2>1. pc[h] = "raw" /\ pc' = [pc EXCEPT ![h] = "send"] /\ UNCHANGED <<ipi_type, late>>
        /\ msip' = [msip EXCEPT ![Target(h)] = TRUE]
    BY <1>2 DEF RawSend, bootVars
  <2>2. OnHarts(local') /\ \A i \in Harts \ {h} : local'[i] = local[i]
    BY <1>2 DEF RawSend
  <2>3. \A i \in Harts : pc[i] = "raw" => i = h \/ (pc'[i] = "raw" /\ Target(i)' = Target(i))
    BY <2>1, <2>2 DEF Target
  <2>4. \A i \in Harts : (msip[i] \/ i = Target(h)) => msip'[i]
    BY <2>1
  <2>5. \A i \in Harts : pc[i] \in {"xchg", "wait", "wfi", "init"} => pc'[i] = pc[i]
    BY <2>1
  <2>6. ASSUME NEW g \in Harts \ late, ipi_type[g] # {}
        PROVE  \/ msip'[g]
               \/ pc'[g] \in {"xchg", "wait", "wfi", "init"}
               \/ \E i \in Harts : pc'[i] = "raw" /\ Target(i)' = g
    <3>1. CASE msip[g]
      BY <3>1, <2>4
    <3>2. CASE pc[g] \in {"xchg", "wait", "wfi", "init"}
      BY <3>2, <2>5
    <3>3. CASE \E i \in Harts : pc[i] = "raw" /\ Target(i) = g
      BY <3>3, <2>3, <2>4
    <3> QED BY <2>6, <3>1, <3>2, <3>3 DEF PendingHasInterrupt
  <2>7. PendingHasInterrupt'
    BY <2>1, <2>6 DEF PendingHasInterrupt
  <2>8. ClearedFirst'
    BY <2>1 DEF ClearedFirst
  <2> QED BY <2>1, <2>2, <2>7, <2>8
<1> QED BY <1>1, <1>2

\* The steps on the other side: a hart that clears its interrupt takes its events,
\* and a hart that boots has dropped them.
LEMMA HandleKeeps ==
    ASSUME IpiInv, NEW h \in Harts,
           \/ InitWarmboot(h) \/ IpiInit(h) \/ InitHart(h) \/ HartWait(h) \/ Wfi(h)
           \/ StartDevice(h) \/ IpiClear(h) \/ IpiXchg(h)
    PROVE  IpiInv'
<1> USE DEF IpiInv, IpiFunctions, OnHarts, Set, Goto, ipiVars, bootVars
<1>1. CASE InitWarmboot(h)
  BY <1>1 DEF InitWarmboot, PendingHasInterrupt, ClearedFirst, Target
<1>2. CASE IpiInit(h)
  <2>1. pc[h] = "init" /\ pc' = [pc EXCEPT ![h] = "clear"] /\ UNCHANGED <<msip, local>>
        /\ ipi_type' = [ipi_type EXCEPT ![h] = {}] /\ late' = late \ {h}
    BY <1>2 DEF IpiInit
  <2>2. PendingHasInterrupt'
    BY <2>1 DEF PendingHasInterrupt, Target
  <2>3. ClearedFirst'
    BY <2>1 DEF ClearedFirst
  <2> QED BY <2>1, <2>2, <2>3
<1>3. CASE InitHart(h)
  BY <1>3 DEF InitHart, PendingHasInterrupt, ClearedFirst, Target
<1>4. CASE HartWait(h)
  BY <1>4 DEF HartWait, PendingHasInterrupt, ClearedFirst, Target
<1>5. CASE Wfi(h)
  BY <1>5 DEF Wfi, PendingHasInterrupt, ClearedFirst, Target
<1>6. CASE StartDevice(h)
  BY <1>6 DEF StartDevice, PendingHasInterrupt, ClearedFirst, Target
<1>7. CASE IpiClear(h)
  BY <1>7 DEF IpiClear, PendingHasInterrupt, ClearedFirst, Target
<1>8. CASE IpiXchg(h)
  <2>1. pc[h] = "xchg" /\ pc' = [pc EXCEPT ![h] = "process"] /\ UNCHANGED msip
        /\ ipi_type' = [ipi_type EXCEPT ![h] = {}] /\ late' = late \ {h}
    BY <1>8 DEF IpiXchg
  <2>2. OnHarts(local') /\ \A i \in Harts \ {h} : local'[i] = local[i]
    BY <1>8 DEF IpiXchg
  <2>3. PendingHasInterrupt'
    BY ZenonT(40), <2>1, <2>2 DEF PendingHasInterrupt, Target
  <2>4. ClearedFirst'
    BY <2>1 DEF ClearedFirst
  <2> QED BY <2>1, <2>2, <2>3, <2>4
<1> QED BY <1>1, <1>2, <1>3, <1>4, <1>5, <1>6, <1>7, <1>8

\* No event is posted at first.
LEMMA IpiInvInit == Init => IpiInv
BY DEF Init, HartInit, IpiInv, IpiFunctions, OnHarts, PendingHasInterrupt, ClearedFirst

\* Every step of the harts and their supervisors preserves the invariant.
LEMMA IpiInvNext == IpiInv /\ [Next]_vars => IpiInv'
<1> SUFFICES ASSUME IpiInv, [Next]_vars PROVE IpiInv'
  OBVIOUS
<1>1. CASE UNCHANGED vars
  BY <1>1 DEF vars, hartVars, ipiVars, bootVars, IpiInv, IpiFunctions, OnHarts,
              PendingHasInterrupt, ClearedFirst, Target
<1>2. ASSUME NEW h \in Harts, Firmware(h) PROVE IpiInv'
  <2>1. CASE EntryDone(h)
    BY <2>1 DEF EntryDone, hartVars, ipiVars, bootVars, IpiInv, IpiFunctions, OnHarts,
                PendingHasInterrupt, ClearedFirst, Target
  <2>2. CASE Machine(h)
    BY <2>2, MachineQuiet, PostKeeps, HandleKeeps DEF Machine, Quiet
  <2>3. CASE TlbMachine(h)
    BY <2>3, TlbQuiet
  <2>4. CASE SseMachine(h)
    BY <2>4, SseQuiet
  <2>5. CASE InitHart(h)
    BY <2>5, HandleKeeps
  <2>6. CASE SbiExit(h) \/ TrapReturn(h)
    BY <2>6, MachineQuiet DEF Quiet
  <2> QED BY <1>2, <2>1, <2>2, <2>3, <2>4, <2>5, <2>6 DEF Firmware
<1>3. ASSUME NEW h \in Harts, Calls(h) \/ Wakes(h) PROVE IpiInv'
  BY <1>3, CallsQuiet, TlbQuiet, SseCallsQuiet, MachineQuiet DEF Calls, Wakes, Wake, Quiet
<1> QED BY <1>1, <1>2, <1>3 DEF Next

\* Whatever the harts do, and however many there are, an event that is posted
\* to a hart is noticed, unless it comes between the two steps of sbi_ipi_init on
\* a hart that boots: sbi_ipi_send raises the interrupt only when it finds
\* nothing posted, sbi_ipi_process clears it before it takes the events.
THEOREM InterruptsNotLost == Spec => []PendingHasInterrupt
<1>1. Init => IpiInv
  BY IpiInvInit
<1>2. IpiInv /\ [Next]_vars => IpiInv'
  BY IpiInvNext
<1>3. IpiInv => PendingHasInterrupt
  BY DEF IpiInv
<1> QED BY <1>1, <1>2, <1>3, PTL DEF Spec

-----------------------------
(* A hart enters S-mode where it was asked to: without an HSM device and     *)
(* without the suspend calls.                                                *)

\* The scenarios of this part.
PlainScenarios ==
    \A s \in Scenarios : s.dev = "none" /\ s.calls \cap {"suspend", "sysuspend"} = {}

\* Hart i holds the ticket of hart t and may still write its parameters, or is
\* about to give the ticket back.
Preparing(i, t) == pc[i] \in {"st_write", "st_cas", "st_rel"} /\ local[i].to = t

\* Hart t is to start with the parameters that are there now.
Starting(t) == state[t] = "START_PENDING" \/ pc[t] = "launch"

Parked == {"reset", "warm", "wait", "wfi"}
SuspendLabels == {"su_cas", "asleep", "resume", "resumed", "ss_cas", "ss_next"}

HsmFunctions ==
    /\ scenario \in Scenarios
    /\ OnHarts(pc) /\ OnHarts(local) /\ OnHarts(state) /\ OnHarts(next) /\ OnHarts(asked)
    /\ ticket \in [Harts -> BOOLEAN]

\* The ticket of a hart is held by one hart, which has written what it asks for.
TicketHeld ==
    /\ \A i \in Harts : pc[i] \in {"st_write", "st_cas", "st_rel"} => local[i].to \in Harts
    /\ \A i, t \in Harts : Preparing(i, t) =>
          /\ ticket[t] /\ {"to", "addr"} \subseteq DOMAIN local[i]
          /\ \A j \in Harts : Preparing(j, t) => i = j
          /\ pc[i] = "st_cas" => next[t] = local[i].addr

\* A hart that is to start has the parameters of its start, and nobody prepares
\* another one.
StartPrepared ==
    \A t \in Harts : Starting(t) =>
       /\ next[t] = asked[t]
       /\ \A i \in Harts : ~Preparing(i, t)
       /\ pc[t] = "launch" => state[t] = "STARTED"

\* Only the first hart starts without a ticket, and then it is alone.
BootAlone ==
    \A t \in Harts : Starting(t) /\ ~ticket[t] =>
       /\ pc[t] \in {"cold2", "init", "clear", "finish", "launch"}
       /\ \A i \in Harts \ {t} : pc[i] \in Parked /\ state[i] = "STOPPED"

BeforeBoot ==
    /\ \A c \in Harts : pc[c] \in {"cold", "cold2"} =>
          /\ ~coldboot_done /\ next[c] = asked[c]
          /\ \A i \in Harts \ {c} : pc[i] \in {"reset", "warm"}
    /\ ~lottery => /\ ~coldboot_done
                   /\ \A i \in Harts : pc[i] = "reset" /\ next[i] = asked[i]

NoSuspend == \A h \in Harts : pc[h] \notin SuspendLabels /\ state[h] # "SUSPENDED"

HsmInv == /\ HsmFunctions /\ TicketHeld /\ StartPrepared /\ BootAlone /\ BeforeBoot
          /\ NoSuspend

\* The labels the parts of the invariant speak of.
Watched == Parked \cup SuspendLabels
           \cup {"cold", "cold2", "init", "clear", "finish", "launch", "st_write", "st_cas",
                 "st_rel"}

\* A step of hart h between other labels, which may take it out of service.
LEMMA UnwatchedStep ==
    ASSUME HsmInv, NEW h \in Harts, OnlyMoves(h),
           pc[h] \notin Watched, pc'[h] \notin Watched,
           UNCHANGED <<scenario, lottery, coldboot_done, ticket, next, asked>>,
           \/ state' = state
           \/ \E s \in {"STOP_PENDING", "STOPPED"} : state' = [state EXCEPT ![h] = s]
    PROVE  HsmInv'
<1> USE DEF OnHarts, OnlyMoves, Watched, Parked, SuspendLabels
<1>1. /\ \A i \in Harts : i # h => state'[i] = state[i] /\ pc'[i] = pc[i] /\ local'[i] = local[i]
      /\ OnHarts(state')
  BY DEF HsmInv, HsmFunctions
<1>2. state'[h] = state[h] \/ state'[h] \in {"STOP_PENDING", "STOPPED"}
  BY DEF HsmInv, HsmFunctions
<1>3. \A i, t \in Harts : Preparing(i, t)' => i # h /\ Preparing(i, t)
  BY <1>1 DEF Preparing
<1>4. \A t \in Harts : Starting(t)' => Starting(t)
  BY <1>1, <1>2 DEF Starting
<1>5. HsmFunctions'
  BY <1>1 DEF HsmInv, HsmFunctions
<1>6. TicketHeld'
  BY <1>1, <1>3 DEF HsmInv, TicketHeld
<1>7. StartPrepared'
  BY <1>1, <1>3, <1>4 DEF HsmInv, StartPrepared
<1>8. BootAlone'
  BY <1>1, <1>4 DEF HsmInv, BootAlone
<1>9. BeforeBoot'
  BY <1>1 DEF HsmInv, BeforeBoot
<1>10. NoSuspend'
  BY <1>1, <1>2 DEF HsmInv, NoSuspend
<1> QED BY <1>5, <1>6, <1>7, <1>8, <1>9, <1>10 DEF HsmInv

\* A hart boots.
LEMMA BootSteps ==
    ASSUME HsmInv, NEW h \in Harts,
           \/ SbiInit(h) \/ InitColdboot(h) \/ WakeColdbootHarts(h) \/ InitWarmboot(h)
           \/ IpiInit(h) \/ InitHart(h) \/ HartWait(h) \/ Wfi(h) \/ HsmStopped(h)
           \/ StartFinish(h) \/ Launch(h)
    PROVE  HsmInv'
<1> USE DEF OnHarts, Set, Goto, Parked, SuspendLabels, Preparing, Starting, bootVars, hsmVars,
            HsmInv, HsmFunctions, TicketHeld, StartPrepared, BootAlone, BeforeBoot, NoSuspend
<1>1. CASE SbiInit(h)
  <2>1. /\ pc[h] = "reset" /\ UNCHANGED <<scenario, local, next, asked, ticket, state, coldboot_done>>
        /\ lottery' /\ pc' = [pc EXCEPT ![h] = IF lottery THEN "warm" ELSE "cold"]
    BY <1>1 DEF SbiInit
  <2>2. HsmFunctions'
    BY <2>1
  <2>3. TicketHeld'
    BY <2>1
  <2>4. StartPrepared'
    BY <2>1
  <2>5. BootAlone'
    BY <2>1
  <2>6. BeforeBoot'
    BY <2>1
  <2>7. NoSuspend'
    BY <2>1
  <2> QED BY <2>2, <2>3, <2>4, <2>5, <2>6, <2>7
<1>2. CASE InitColdboot(h)
  <2>1. /\ pc[h] = "cold" /\ UNCHANGED <<scenario, local, next, asked, lottery, coldboot_done>>
        /\ ticket' = [i \in Harts |-> FALSE] /\ pc' = [pc EXCEPT ![h] = "cold2"]
        /\ state' = [i \in Harts |-> IF i = h THEN "START_PENDING" ELSE "STOPPED"]
    BY <1>2 DEF InitColdboot
  <2>2. HsmFunctions'
    BY <2>1
  <2>3. TicketHeld'
    BY <2>1
  <2>4. StartPrepared'
    BY <2>1
  <2>5. BootAlone'
    BY <2>1
  <2>6. BeforeBoot'
    BY <2>1
  <2>7. NoSuspend'
    BY <2>1
  <2> QED BY <2>2, <2>3, <2>4, <2>5, <2>6, <2>7
<1>3. CASE WakeColdbootHarts(h)
  <2>1. /\ pc[h] = "cold2" /\ UNCHANGED <<scenario, local, next, asked, ticket, state, lottery>>
        /\ coldboot_done' /\ pc' = [pc EXCEPT ![h] = "init"]
    BY <1>3 DEF WakeColdbootHarts
  <2>2. HsmFunctions'
    BY <2>1
  <2>3. TicketHeld'
    BY <2>1
  <2>4. StartPrepared'
    BY <2>1
  <2>5. BootAlone'
    BY <2>1
  <2>6. BeforeBoot'
    BY <2>1
  <2>7. NoSuspend'
    BY <2>1
  <2> QED BY <2>2, <2>3, <2>4, <2>5, <2>6, <2>7
<1>4. CASE InitWarmboot(h)
  <2>1. /\ pc[h] = "warm" /\ coldboot_done
        /\ UNCHANGED <<scenario, local, next, asked, ticket, state, lottery, coldboot_done>>
        /\ pc' = [pc EXCEPT ![h] = IF state[h] = "SUSPENDED" THEN "resume" ELSE "wait"]
    BY <1>4 DEF InitWarmboot
  <2>2. HsmFunctions'
    BY <2>1
  <2>3. TicketHeld'
    BY <2>1
  <2>4. StartPrepared'
    BY <2>1
  <2>5. BootAlone'
    BY <2>1
  <2>6. BeforeBoot'
    BY <2>1
  <2>7. NoSuspend'
    BY <2>1
  <2> QED BY <2>2, <2>3, <2>4, <2>5, <2>6, <2>7
<1>5. CASE IpiInit(h) \/ InitHart(h)
  <2>1. /\ \/ pc[h] = "init" /\ pc' = [pc EXCEPT ![h] = "clear"]
           \/ pc[h] = "clear" /\ pc' = [pc EXCEPT ![h] = "finish"]
        /\ UNCHANGED <<scenario, local, next, asked, ticket, state, lottery, coldboot_done>>
    BY <1>5 DEF IpiInit, InitHart
  <2>2. HsmFunctions'
    BY <2>1
  <2>3. TicketHeld'
    BY <2>1
  <2>4. StartPrepared'
    BY <2>1
  <2>5. BootAlone'
    BY <2>1
  <2>6. BeforeBoot'
    BY <2>1
  <2>7. NoSuspend'
    BY <2>1
  <2> QED BY <2>2, <2>3, <2>4, <2>5, <2>6, <2>7
<1>6. CASE HartWait(h)
  <2>1. /\ pc[h] = "wait"
        /\ UNCHANGED <<scenario, local, next, asked, ticket, state, lottery, coldboot_done>>
        /\ pc' = [pc EXCEPT ![h] = IF state[h] = "START_PENDING" THEN "init" ELSE "wfi"]
    BY <1>6 DEF HartWait
  <2>2. HsmFunctions'
    BY <2>1
  <2>3. TicketHeld'
    BY <2>1
  <2>4. StartPrepared'
    BY <2>1
  <2>5. BootAlone'
    BY <2>1
  <2>6. BeforeBoot'
    BY <2>1
  <2>7. NoSuspend'
    BY <2>1
  <2> QED BY <2>2, <2>3, <2>4, <2>5, <2>6, <2>7
<1>7. CASE Wfi(h)
  <2>1. /\ pc[h] = "wfi" /\ pc' = [pc EXCEPT ![h] = "wait"]
        /\ UNCHANGED <<scenario, local, next, asked, ticket, state, lottery, coldboot_done>>
    BY <1>7 DEF Wfi
  <2>2. HsmFunctions'
    BY <2>1
  <2>3. TicketHeld'
    BY <2>1
  <2>4. StartPrepared'
    BY <2>1
  <2>5. BootAlone'
    BY <2>1
  <2>6. BeforeBoot'
    BY <2>1
  <2>7. NoSuspend'
    BY <2>1
  <2> QED BY <2>2, <2>3, <2>4, <2>5, <2>6, <2>7
<1>8. CASE HsmStopped(h)
  <2>1. /\ pc[h] = "stopped" /\ \E l \in {"warm", "off", "stuck"} : pc' = [pc EXCEPT ![h] = l]
        /\ UNCHANGED <<scenario, local, next, asked, ticket, state, lottery, coldboot_done>>
    BY <1>8 DEF HsmStopped
  <2>2. HsmFunctions'
    BY <2>1
  <2>3. TicketHeld'
    BY <2>1
  <2>4. StartPrepared'
    BY <2>1
  <2>5. BootAlone'
    BY <2>1
  <2>6. BeforeBoot'
    BY <2>1
  <2>7. NoSuspend'
    BY <2>1
  <2> QED BY <2>2, <2>3, <2>4, <2>5, <2>6, <2>7
<1>9. CASE StartFinish(h)
  <2>1. /\ pc[h] = "finish"
        /\ UNCHANGED <<scenario, local, next, asked, ticket, lottery, coldboot_done>>
        /\ \/ /\ state[h] = "START_PENDING" /\ state' = [state EXCEPT ![h] = "STARTED"]
              /\ pc' = [pc EXCEPT ![h] = "launch"]
           \/ /\ state[h] # "START_PENDING" /\ UNCHANGED state
              /\ pc' = [pc EXCEPT ![h] = "hang"]
    BY <1>9 DEF StartFinish, ChangeState
  <2>2. HsmFunctions'
    BY <2>1
  <2>3. TicketHeld'
    BY <2>1
  <2>4. StartPrepared'
    BY <2>1
  <2>5. BootAlone'
    BY <2>1
  <2>6. BeforeBoot'
    BY <2>1
  <2>7. NoSuspend'
    BY <2>1
  <2> QED BY <2>2, <2>3, <2>4, <2>5, <2>6, <2>7
<1>10. CASE Launch(h)
  <2>1. /\ pc[h] = "launch" /\ pc' = [pc EXCEPT ![h] = "S"]
        /\ ticket' = [ticket EXCEPT ![h] = FALSE]
        /\ UNCHANGED <<scenario, local, next, asked, state, lottery, coldboot_done>>
    BY <1>10 DEF Launch
  <2>2. HsmFunctions'
    BY <2>1
  <2>3. TicketHeld'
    BY <2>1
  <2>4. StartPrepared'
    BY <2>1
  <2>5. BootAlone'
    BY <2>1
  <2>6. BeforeBoot'
    BY <2>1
  <2>7. NoSuspend'
    BY <2>1
  <2> QED BY <2>2, <2>3, <2>4, <2>5, <2>6, <2>7
<1> QED BY <1>1, <1>2, <1>3, <1>4, <1>5, <1>6, <1>7, <1>8, <1>9, <1>10

\* An assignment to the counts read leaves the other locals alone.
LEMMA OtherFields ==
    ASSUME NEW r, NEW x, NEW y, {"to", "addr"} \subseteq DOMAIN r
    PROVE  LET v == [r EXCEPT !.off = x, !.new = y]
           IN  v.to = r.to /\ v.addr = r.addr /\ {"to", "addr"} \subseteq DOMAIN v
OBVIOUS

\* A hart that holds the ticket of hart t writes its parameters.
LEMMA WriteStep ==
    ASSUME HsmInv, NEW h \in Harts, NEW t \in Harts, t = local[h].to, StartWrite(h)
    PROVE  HsmInv'
<1> USE DEF Set, Goto, bootVars
<1>1. /\ pc[h] = "st_write" /\ pc' = [pc EXCEPT ![h] = "st_cas"]
      /\ next' = [next EXCEPT ![t] = local[h].addr]
      /\ UNCHANGED <<scenario, asked, state, ticket, lottery, coldboot_done>>
  BY DEF StartWrite
<1>2. /\ Preparing(h, t) /\ {"to", "addr"} \subseteq DOMAIN local[h]
      /\ \A j \in Harts : Preparing(j, t) => h = j
      /\ ~Starting(t) /\ ticket[t]
  BY <1>1 DEF Preparing, HsmInv, TicketHeld, StartPrepared
<1>3. PICK v : /\ local' = [local EXCEPT ![h] = v]
               /\ v.to = t /\ v.addr = local[h].addr /\ {"to", "addr"} \subseteq DOMAIN v
  <2> DEFINE w == [local[h] EXCEPT !.off = entered[t] = inited[t], !.new = inited[t] = 0]
  <2>1. local' = [local EXCEPT ![h] = w]
    BY DEF StartWrite
  <2>2. w.to = t /\ w.addr = local[h].addr /\ {"to", "addr"} \subseteq DOMAIN w
    BY <1>2, OtherFields
  <2> HIDE DEF w
  <2> QED BY <2>1, <2>2
<1>4. HsmFunctions'
  BY <1>1, <1>3 DEF HsmInv, HsmFunctions, OnHarts
<1>5. /\ pc'[h] = "st_cas" /\ local'[h] = v /\ next'[t] = v.addr
      /\ \A i \in Harts : i # h => pc'[i] = pc[i] /\ local'[i] = local[i]
      /\ \A i \in Harts : i # t => next'[i] = next[i]
  BY <1>1, <1>3 DEF HsmInv, HsmFunctions, OnHarts
<1>6. \A i, u \in Harts : Preparing(i, u)' => Preparing(i, u) /\ (i = h => u = t)
  BY <1>2, <1>3, <1>5 DEF Preparing
<1>7. \A u \in Harts : Starting(u)' => u # t /\ Starting(u)
  BY <1>1, <1>2, <1>5 DEF Starting
<1>8. TicketHeld'
  BY <1>1, <1>2, <1>3, <1>5, <1>6 DEF HsmInv, TicketHeld
<1>9. StartPrepared'
  BY <1>1, <1>5, <1>6, <1>7 DEF HsmInv, StartPrepared
<1>10. BootAlone'
  BY <1>1, <1>5, <1>7 DEF HsmInv, BootAlone, Parked
<1>11. BeforeBoot' /\ NoSuspend'
  BY <1>1, <1>5 DEF HsmInv, BeforeBoot, NoSuspend, SuspendLabels
<1> QED BY <1>4, <1>8, <1>9, <1>10, <1>11 DEF HsmInv

\* It changes the state of hart t, or gives the ticket back.
LEMMA CasSteps ==
    ASSUME HsmInv, NEW h \in Harts, NEW t \in Harts, t = local[h].to,
           StartCas(h) \/ StartRelease(h)
    PROVE  HsmInv'
<1> USE DEF OnHarts, Set, Goto, Parked, SuspendLabels, Preparing, Starting, bootVars, hsmVars,
            HsmInv, HsmFunctions, TicketHeld, StartPrepared, BootAlone, BeforeBoot, NoSuspend
<1>1. CASE StartCas(h)
  <2>1. /\ pc[h] = "st_cas" /\ UNCHANGED <<scenario, local, next, ticket, lottery, coldboot_done>>
        /\ \/ /\ state[t] = "STOPPED" /\ state' = [state EXCEPT ![t] = "START_PENDING"]
              /\ asked' = [asked EXCEPT ![t] = local[h].addr]
              /\ pc' = [pc EXCEPT ![h] = "st_kick"]
           \/ UNCHANGED <<state, asked>> /\ pc' = [pc EXCEPT ![h] = "st_rel"]
    BY <1>1 DEF StartCas
  <2>2. HsmFunctions'
    BY <2>1
  <2>3. TicketHeld'
    BY <2>1
  <2>4. StartPrepared'
    BY <2>1
  <2>5. BootAlone'
    BY <2>1
  <2>6. BeforeBoot'
    BY <2>1
  <2>7. NoSuspend'
    BY <2>1
  <2> QED BY <2>2, <2>3, <2>4, <2>5, <2>6, <2>7
<1>2. CASE StartRelease(h)
  <2>1. /\ pc[h] = "st_rel" /\ pc' = [pc EXCEPT ![h] = "ret"]
        /\ ticket' = [ticket EXCEPT ![t] = FALSE]
        /\ UNCHANGED <<scenario, local, next, asked, state, lottery, coldboot_done>>
    BY <1>2 DEF StartRelease
  <2>2. HsmFunctions'
    BY <2>1
  <2>3. TicketHeld'
    BY <2>1
  <2>4. StartPrepared'
    BY <2>1
  <2>5. BootAlone'
    BY <2>1
  <2>6. BeforeBoot'
    BY <2>1
  <2>7. NoSuspend'
    BY <2>1
  <2> QED BY <2>2, <2>3, <2>4, <2>5, <2>6, <2>7
<1> QED BY <1>1, <1>2

\* A hart asks for the ticket of hart t.
LEMMA TicketStep ==
    ASSUME HsmInv, NEW h \in Harts, NEW t \in Harts, NEW a, HartStart(h, t, a)
    PROVE  HsmInv'
<1> USE DEF Set, Goto, bootVars
<1>1. /\ pc[h] = "S" /\ ticket' = [ticket EXCEPT ![t] = TRUE]
      /\ pc' = [pc EXCEPT ![h] = IF ticket[t] THEN "ret" ELSE "st_write"]
      /\ UNCHANGED <<scenario, next, asked, state, lottery, coldboot_done>>
  BY DEF HartStart, Ecall
<1>2. PICK v : /\ local' = [local EXCEPT ![h] = v]
               /\ v.to = t /\ {"to", "addr"} \subseteq DOMAIN v
  <2> DEFINE w == [Local EXCEPT !.to = t, !.addr = a]
  <2>1. local' = [local EXCEPT ![h] = w]
    BY DEF HartStart
  <2>2. w.to = t /\ {"to", "addr"} \subseteq DOMAIN w
    BY DEF Local
  <2> HIDE DEF w
  <2> QED BY <2>1, <2>2
<1>3. HsmFunctions'
  BY <1>1, <1>2 DEF HsmInv, HsmFunctions, OnHarts
<1>4. /\ pc'[h] = (IF ticket[t] THEN "ret" ELSE "st_write") /\ local'[h] = v /\ ticket'[t]
      /\ \A i \in Harts : i # h => pc'[i] = pc[i] /\ local'[i] = local[i]
      /\ \A i \in Harts : i # t => ticket'[i] = ticket[i]
  BY <1>1, <1>2 DEF HsmInv, HsmFunctions, OnHarts
<1>5. \A u \in Harts : Starting(u)' => Starting(u)
  BY <1>1, <1>4 DEF Starting
<1>6. \A i, u \in Harts : Preparing(i, u)' =>
         \/ i # h /\ Preparing(i, u)
         \/ i = h /\ u = t /\ ~ticket[t]
  BY <1>2, <1>4 DEF Preparing
<1>7. ~ticket[t] => /\ \A i \in Harts : ~Preparing(i, t)
                    /\ ~Starting(t)
  BY <1>1 DEF HsmInv, TicketHeld, BootAlone, Parked
<1>8. TicketHeld'
  <2>1. \A i \in Harts : pc'[i] \in {"st_write", "st_cas", "st_rel"} => local'[i].to \in Harts
    BY <1>2, <1>4 DEF HsmInv, TicketHeld
  <2>2. \A i, u \in Harts : Preparing(i, u)' =>
          /\ ticket'[u] /\ {"to", "addr"} \subseteq DOMAIN local'[i]
          /\ \A j \in Harts : Preparing(j, u)' => i = j
          /\ pc'[i] = "st_cas" => next'[u] = local'[i].addr
    BY <1>1, <1>2, <1>4, <1>6, <1>7 DEF HsmInv, TicketHeld
  <2> QED BY <2>1, <2>2 DEF TicketHeld
<1>9. StartPrepared'
  BY <1>1, <1>4, <1>5, <1>6, <1>7 DEF HsmInv, StartPrepared
<1>10. BootAlone'
  BY <1>1, <1>4, <1>5 DEF HsmInv, BootAlone, Parked
<1>11. BeforeBoot' /\ NoSuspend'
  BY <1>1, <1>4 DEF HsmInv, BeforeBoot, NoSuspend, SuspendLabels
<1> QED BY <1>3, <1>8, <1>9, <1>10, <1>11 DEF HsmInv

\* The other steps of the harts.
LEMMA MachineUnwatched ==
    ASSUME HsmInv, HsmFunctions, NEW h \in Harts,
           \/ StartIpi(h) \/ HsmExit(h) \/ HartStop(h) \/ SbiExit(h) \/ TrapReturn(h)
           \/ SendSelf(h) \/ PostEvent(h) \/ RawSend(h) \/ SendRetry(h) \/ SendDone(h)
           \/ TakeIpi(h) \/ IpiClear(h) \/ IpiXchg(h) \/ ProcessSmode(h) \/ ProcessHalt(h)
           \/ IpiDone(h) \/ ResetStop(h) \/ ClearSmode(h) \/ SystemReset(h)
           \/ SendSmode(h, scenario.targets)
    PROVE  HsmInv'
<1> USE DEF HsmFunctions, OnHarts, OnlyMoves, Set, Goto, bootVars, hsmVars, hartVars, Watched,
            Parked, SuspendLabels
<1>1. CASE StartIpi(h)
  BY <1>1, UnwatchedStep DEF StartIpi
<1>2. CASE HsmExit(h)
  BY <1>2, UnwatchedStep DEF HsmExit, ChangeState
<1>3. CASE HartStop(h)
  BY <1>3, UnwatchedStep DEF HartStop, Ecall, ChangeState
<1>4. CASE SbiExit(h)
  BY <1>4, UnwatchedStep DEF SbiExit
<1>5. CASE TrapReturn(h)
  BY <1>5, UnwatchedStep DEF TrapReturn
<1>6. CASE SendSelf(h)
  BY <1>6, UnwatchedStep DEF SendSelf
<1>7. CASE PostEvent(h)
  BY <1>7, UnwatchedStep DEF PostEvent
<1>8. CASE RawSend(h)
  BY <1>8, UnwatchedStep DEF RawSend
<1>9. CASE SendRetry(h)
  BY <1>9, UnwatchedStep DEF SendRetry
<1>10. CASE SendDone(h)
  BY <1>10, UnwatchedStep DEF SendDone
<1>11. CASE TakeIpi(h)
  BY <1>11, UnwatchedStep DEF TakeIpi
<1>12. CASE IpiClear(h)
  BY <1>12, UnwatchedStep DEF IpiClear
<1>13. CASE IpiXchg(h)
  BY <1>13, UnwatchedStep DEF IpiXchg
<1>14. CASE ProcessSmode(h)
  BY <1>14, UnwatchedStep DEF ProcessSmode, Processing
<1>15. CASE ProcessHalt(h)
  BY <1>15, UnwatchedStep DEF ProcessHalt, Processing, ChangeState
<1>16. CASE IpiDone(h)
  BY <1>16, UnwatchedStep DEF IpiDone
<1>17. CASE ResetStop(h)
  BY <1>17, UnwatchedStep DEF ResetStop, ChangeState
<1>18. CASE ClearSmode(h)
  BY <1>18, UnwatchedStep DEF ClearSmode
<1>19. CASE SystemReset(h)
  BY <1>19, UnwatchedStep DEF SystemReset, Ecall
<1>20. CASE SendSmode(h, scenario.targets)
  BY <1>20, UnwatchedStep DEF SendSmode, Ecall
<1> QED BY <1>1, <1>2, <1>3, <1>4, <1>5, <1>6, <1>7, <1>8, <1>9, <1>10, <1>11, <1>12,
           <1>13, <1>14, <1>15, <1>16, <1>17, <1>18, <1>19, <1>20

\* The remote fences.
LEMMA TlbUnwatched ==
    ASSUME HsmInv, HsmFunctions, NEW h \in Harts,
           EntryDone(h) \/ TlbMachine(h) \/ TlbSupervisor(h)
    PROVE  HsmInv'
<1> USE DEF HsmFunctions, OnHarts, OnlyMoves, Set, Goto, bootVars, hsmVars, hartVars, Watched,
            Parked, SuspendLabels
<1>1. CASE EntryDone(h)
  BY <1>1 DEF EntryDone, HsmInv, TicketHeld, StartPrepared, BootAlone, BeforeBoot, NoSuspend,
              Preparing, Starting
<1>2. CASE UpdateSelf(h)
  BY <1>2, UnwatchedStep DEF UpdateSelf
<1>3. CASE UpdateInplace(h)
  BY <1>3, UnwatchedStep DEF UpdateInplace
<1>4. CASE UpdateEnqueue(h)
  BY <1>4, UnwatchedStep DEF UpdateEnqueue
<1>5. CASE UpdateRetry(h)
  BY <1>5, UnwatchedStep DEF UpdateRetry
<1>6. CASE UpdateAdd(h)
  BY <1>6, UnwatchedStep DEF UpdateAdd
<1>7. CASE SyncTake(h)
  BY <1>7, UnwatchedStep DEF SyncTake
<1>8. CASE SyncDone(h)
  BY <1>8, UnwatchedStep DEF SyncDone
<1>9. CASE ProcessTake(h)
  BY <1>9, UnwatchedStep DEF ProcessTake, Processing
<1>10. CASE ProcessTlbDone(h)
  BY <1>10, UnwatchedStep DEF ProcessTlbDone, Processing
<1>11. CASE TlbSupervisor(h)
  <2>1. PICK r \in scenario.fences[h] : RemoteFence(h, r, scenario.targets)
    BY <1>11 DEF TlbSupervisor
  <2> DEFINE v == Sending("tlb", scenario.targets)
  <2>2. local' = [local EXCEPT ![h] = v]
    BY <2>1 DEF RemoteFence
  <2>3. pc[h] = "S" /\ pc' = [pc EXCEPT ![h] = "send"] /\ UNCHANGED <<bootVars, hsmVars, asked>>
    BY <2>1 DEF RemoteFence, Ecall
  <2> HIDE DEF v
  <2>4. QED BY <2>2, <2>3, UnwatchedStep
<1> QED BY <1>1, <1>2, <1>3, <1>4, <1>5, <1>6, <1>7, <1>8, <1>9, <1>10, <1>11 DEF
           TlbMachine

\* The software events.
LEMMA SseUnwatched ==
    ASSUME HsmInv, HsmFunctions, NEW h \in Harts,
           SseMachine(h)
    PROVE  HsmInv'
<1> USE DEF HsmFunctions, OnHarts, OnlyMoves, Set, Goto, bootVars, hsmVars, hartVars, Watched,
            Parked, SuspendLabels
<1>1. CASE SseSent(h)
  BY <1>1, UnwatchedStep DEF SseSent
<1>2. CASE SseResume(h)
  BY <1>2, UnwatchedStep DEF SseResume
<1>3. CASE InjectSend(h)
  BY <1>3, UnwatchedStep DEF InjectSend
<1>4. CASE InjectSelf(h)
  BY <1>4, UnwatchedStep DEF InjectSelf
<1>5. CASE InjectTake(h)
  BY <1>5, UnwatchedStep DEF InjectTake, Injecting, Processing
<1>6. CASE InjectPend(h)
  BY <1>6, UnwatchedStep DEF InjectPend
<1>7. CASE InjectDone(h)
  BY <1>7, UnwatchedStep DEF InjectDone, Injecting, Processing
<1> QED BY <1>1, <1>2, <1>3, <1>4, <1>5, <1>6, <1>7 DEF SseMachine

\* The calls about software events.
LEMMA SseCallsUnwatched ==
    ASSUME HsmInv, HsmFunctions, NEW h \in Harts,
           SseSupervisor(h)
    PROVE  HsmInv'
<1> USE DEF HsmFunctions, OnHarts, OnlyMoves, Set, Goto, bootVars, hsmVars, hartVars, Watched,
            Parked, SuspendLabels
<1>1. CASE \E id \in EventIds : SseRegister(h, id)
  BY <1>1, UnwatchedStep DEF SseRegister, SseCall, Ecall, Writes
<1>2. CASE \E id \in EventIds : SseUnregister(h, id)
  BY <1>2, UnwatchedStep DEF SseUnregister, SseCall, Ecall, Writes
<1>3. CASE \E id \in EventIds : SseEnable(h, id)
  BY <1>3, UnwatchedStep DEF SseEnable, SseCall, Ecall
<1>4. CASE \E id \in EventIds : SseDisable(h, id)
  BY ZenonT(40), <1>4, UnwatchedStep DEF SseDisable, SseCall, Ecall
<1>5. CASE \E id \in EventIds, prio \in Prios : SetPrio(h, id, prio)
  BY <1>5, UnwatchedStep DEF SetPrio, SseCall, Ecall, Writes
<1>6. CASE \E id \in EventIds, oneshot \in BOOLEAN : SetOneshot(h, id, oneshot)
  BY SMTT(30), <1>6, UnwatchedStep DEF SetOneshot, SseCall, Ecall, Writes
<1>7. CASE \E id \in EventIds, t \in scenario.targets : SetPreferredHart(h, id, t)
  BY SMTT(30), <1>7, UnwatchedStep DEF SetPreferredHart, SseCall, Ecall, Writes
<1>8. CASE \E id \in EventIds, t \in scenario.targets : SseInject(h, id, t)
  <2>1. PICK id \in EventIds, t \in scenario.targets : SseInject(h, id, t)
    BY <1>8
  <2> DEFINE v == local'[h]
  <2>2. local' = [local EXCEPT ![h] = v]
    BY <2>1 DEF SseInject
  <2>3. /\ pc[h] = "S" /\ (\E l : l \notin Watched /\ pc' = [pc EXCEPT ![h] = l])
        /\ UNCHANGED <<bootVars, hsmVars, asked>>
    BY <2>1 DEF SseInject, Ecall, SseCall
  <2> HIDE DEF v
  <2>4. QED BY <2>2, <2>3, UnwatchedStep
<1>9. CASE SseComplete(h)
  <2> DEFINE runs == {i \in DOMAIN enabled_events[h] :
                        event[enabled_events[h][i]].state = "RUNNING"}
             e == enabled_events[h][First(runs)]
             v == [Local EXCEPT !.sse = e]
             idle == runs = {} \/ event[e].hartid # h
  <2>1. /\ pc[h] = "S" /\ UNCHANGED <<bootVars, hsmVars, asked>>
        /\ idle => pc' = [pc EXCEPT ![h] = "ret"] /\ UNCHANGED local
        /\ ~idle => /\ pc' = [pc EXCEPT ![h] = "sse_resume"]
                    /\ local' = [local EXCEPT ![h] = v]
    BY <1>9, Zenon DEF SseComplete, Ecall
  <2> HIDE DEF v, idle
  <2>2. OnlyMoves(h) /\ pc'[h] \in {"ret", "sse_resume"}
    BY <2>1
  <2>3. QED BY <2>1, <2>2, UnwatchedStep
<1>10. CASE \E on \in BOOLEAN : SseMask(h, on)
  BY <1>10, UnwatchedStep DEF SseMask, Ecall
<1> QED BY <1>1, <1>2, <1>3, <1>4, <1>5, <1>6, <1>7, <1>8, <1>9, <1>10 DEF SseSupervisor

\* No hart is about to start at first.
LEMMA HsmInvInit == Init => HsmInv
<1> SUFFICES ASSUME Init PROVE HsmInv
  OBVIOUS
<1>1. PICK s \in Scenarios :
        LET cold == s.up = {}
        IN  /\ scenario = s /\ lottery = ~cold /\ coldboot_done = ~cold
            /\ state = [h \in Harts |-> IF h \in s.up THEN "STARTED" ELSE "STOPPED"]
            /\ pc = [h \in Harts |-> IF cold THEN "reset"
                                     ELSE IF h \in s.up THEN "S" ELSE pc[h]]
            /\ \A h \in Harts : pc[h] \in {"reset", "S", "off", "wait"}
  BY DEF Init, HartInit
<1>2. /\ ticket = [h \in Harts |-> FALSE] /\ next = [h \in Harts |-> BootAddr]
      /\ asked = [h \in Harts |-> BootAddr] /\ local = [h \in Harts |-> Local]
  BY DEF Init, HartInit
<1>3. \A h \in Harts : /\ pc[h] \in {"reset", "S", "off", "wait"}
                       /\ state[h] \in {"STARTED", "STOPPED"}
                       /\ ~lottery => pc[h] = "reset"
  BY <1>1
<1>4. HsmFunctions
  BY <1>1, <1>2 DEF HsmFunctions, OnHarts
<1>5. TicketHeld /\ StartPrepared /\ BootAlone
  BY <1>3 DEF TicketHeld, StartPrepared, BootAlone, Preparing, Starting
<1>6. BeforeBoot /\ NoSuspend
  BY <1>1, <1>2, <1>3 DEF BeforeBoot, NoSuspend, SuspendLabels
<1> QED BY <1>4, <1>5, <1>6 DEF HsmInv

\* Every step preserves the invariant, in the scenarios of this part.
LEMMA HsmInvNext == PlainScenarios /\ HsmInv /\ [Next]_vars => HsmInv'
<1> SUFFICES ASSUME PlainScenarios, HsmInv, [Next]_vars PROVE HsmInv'
  OBVIOUS
<1>1. HsmFunctions
  BY DEF HsmInv
<1>2. scenario.targets \subseteq Harts /\ dev = "none" /\ calls \cap {"suspend", "sysuspend"} = {}
  BY <1>1, HartAssumption DEF HsmFunctions, PlainScenarios, dev, calls
<1>3. \A h \in Harts : /\ pc[h] \notin SuspendLabels
                       /\ pc[h] \in {"st_write", "st_cas", "st_rel"} => local[h].to \in Harts
  BY DEF HsmInv, NoSuspend, TicketHeld
<1>4. CASE UNCHANGED vars
  BY <1>4 DEF vars, hartVars, bootVars, hsmVars, HsmInv, HsmFunctions, OnHarts, TicketHeld,
              StartPrepared, BootAlone, BeforeBoot, NoSuspend, Preparing, Starting
<1>5. ASSUME NEW h \in Harts, Machine(h) PROVE HsmInv'
  <2>1. CASE \/ SbiInit(h) \/ InitColdboot(h) \/ WakeColdbootHarts(h) \/ InitWarmboot(h)
             \/ IpiInit(h) \/ HartWait(h) \/ Wfi(h) \/ HsmStopped(h) \/ StartFinish(h)
             \/ Launch(h)
    BY <2>1, BootSteps
  <2>2. CASE StartWrite(h)
    <3>1. pc[h] = "st_write"
      BY <2>2 DEF StartWrite
    <3> QED BY <2>2, <3>1, <1>3, WriteStep
  <2>3. CASE StartCas(h) \/ StartRelease(h)
    <3>1. pc[h] \in {"st_cas", "st_rel"}
      BY <2>3 DEF StartCas, StartRelease
    <3> QED BY <2>3, <3>1, <1>3, CasSteps
  <2>4. ~StartDevice(h) /\ ~StartRefused(h)
    BY <1>2 DEF StartDevice, StartRefused, UseDevice, Plugged, dev
  <2>5. ~SuspendCas(h) /\ ~ResumeStart(h) /\ ~ResumeFinish(h)
        /\ ~SystemSuspendCas(h) /\ ~SystemSuspendNext(h)
    <3>1. /\ SuspendCas(h) => pc[h] = "su_cas"
          /\ ResumeStart(h) => pc[h] = "resume"
          /\ ResumeFinish(h) => pc[h] = "resumed"
          /\ SystemSuspendCas(h) => pc[h] = "ss_cas"
          /\ SystemSuspendNext(h) => pc[h] = "ss_next"
      BY DEF SuspendCas, ResumeStart, ResumeFinish, SystemSuspendCas, SystemSuspendNext
    <3> QED BY <3>1, <1>3 DEF SuspendLabels
  <2>6. CASE \/ StartIpi(h) \/ HsmExit(h) \/ SendSelf(h) \/ PostEvent(h) \/ RawSend(h)
             \/ SendRetry(h) \/ SendDone(h) \/ TakeIpi(h) \/ IpiClear(h) \/ IpiXchg(h)
             \/ ProcessSmode(h) \/ ProcessHalt(h) \/ IpiDone(h) \/ ResetStop(h)
    BY <2>6, <1>1, MachineUnwatched
  <2> QED BY <1>5, <2>1, <2>2, <2>3, <2>4, <2>5, <2>6 DEF Machine
<1>6. ASSUME NEW h \in Harts, Supervisor(h) PROVE HsmInv'
  <2>1. CASE \E t \in scenario.targets, a \in Addrs(h) : HartStart(h, t, a)
    BY <2>1, <1>2, TicketStep
  <2>2. ~(\E ret \in BOOLEAN, a \in Addrs(h) : HartSuspend(h, ret, a))
    BY <1>2 DEF HartSuspend, Ecall
  <2>3. ~(\E a \in Addrs(h) : SystemSuspend(h, a))
    BY <1>2 DEF SystemSuspend, Ecall
  <2>4. CASE \/ HartStop(h) \/ SendSmode(h, scenario.targets) \/ ClearSmode(h)
             \/ SystemReset(h)
    BY <2>4, <1>1, MachineUnwatched
  <2> QED BY <1>6, <2>1, <2>2, <2>3, <2>4 DEF Supervisor
<1>7. \A h \in Harts : ~Wake(h)
  <2>1. \A h \in Harts : Wake(h) => pc[h] = "asleep"
    BY DEF Wake, SuspendReturn, SuspendWarm
  <2> QED BY <2>1, <1>3 DEF SuspendLabels
<1>8. ASSUME NEW h \in Harts, InitHart(h) \/ SbiExit(h) \/ TrapReturn(h) PROVE HsmInv'
  BY <1>8, <1>1, BootSteps, MachineUnwatched
<1>9. ASSUME NEW h \in Harts,
             \/ EntryDone(h) \/ TlbMachine(h) \/ TlbSupervisor(h) \/ SseMachine(h) \/ SseSupervisor(h)
      PROVE  HsmInv'
  BY <1>9, <1>1, TlbUnwatched, SseUnwatched, SseCallsUnwatched
<1> QED BY <1>4, <1>5, <1>6, <1>7, <1>8, <1>9 DEF Next, Firmware, Calls, Wakes

\* Without an HSM device and without the suspend calls, a hart enters S-mode
\* where the hart that put it in START_PENDING asked for, however many harts
\* call sbi_hsm_hart_start at once: start_ticket keeps the others away from
\* the scratch area until the hart has read it.  (With the suspend calls it is
\* not true: the parameters of a suspended hart are written before the state is
\* looked at.)
THEOREM StartsWhereAsked ==
    ASSUME PlainScenarios
    PROVE  Spec => []EntersWhereAsked
<1>1. Init => HsmInv
  BY HsmInvInit
<1>2. HsmInv /\ [Next]_vars => HsmInv'
  BY HsmInvNext
<1>3. HsmInv => EntersWhereAsked
  BY DEF HsmInv, EntersWhereAsked, StartPrepared, Starting, NoSuspend, SuspendLabels
<1> QED BY <1>1, <1>2, <1>3, PTL DEF Spec

-----------------------------
(* No hart hangs.                                                            *)

\* The scenarios of this part: a machine that boots cold has no HSM device.
\* (With one, a hart that has not yet entered its first warm boot is taken for
\* one that has left the firmware.)
KnownStart == \A s \in Scenarios : s.up = {} => s.dev = "none"

\* Where a hart is that runs, and in a call that does not change its state.
Running == {"launch", "S", "ret", "send", "post", "raw", "enqueue", "add", "sync", "rs_stop",
            "st_write", "st_cas", "st_kick", "st_rel", "su_cas", "ss_cas",
            "sse_put", "sse_self", "sse_sent", "sse_resume"}

\* The states a hart may be in at label l: what the changes of state expect.
Fits(l, s) ==
    \/ l \in Running /\ s = "STARTED"
    \/ l \in {"cold2", "init", "clear", "finish"} /\ s = "START_PENDING"
    \/ l \in {"exit", "hsm_exit"} /\ s = "STOP_PENDING"
    \/ l \in {"ipi", "xchg", "process", "sse_pend"} /\ s \in {"STARTED", "STOP_PENDING"}
    \/ l \in {"asleep", "resume", "ss_next", "warm"} /\ s = "SUSPENDED"
    \/ l = "resumed" /\ s = "RESUME_PENDING"
    \/ l \in {"reset", "cold", "warm", "wait", "wfi", "stopped", "off", "stuck"}
       /\ s \in {"STOPPED", "START_PENDING"}

\* A hart that stops only processes what was posted to it: it sends nothing to
\* itself meanwhile (sse_self).
InOrder(l, s, r) ==
    l \in {"process", "sse_pend"} /\ s = "STOP_PENDING" => "event" \in DOMAIN r /\ r.event = "none"

StatesFit == \A h \in Harts : Fits(pc[h], state[h]) /\ InOrder(pc[h], state[h], local[h])

\* The first hart boots alone.
ColdAlone ==
    /\ \A c \in Harts : pc[c] \in {"cold", "cold2"} =>
          ~coldboot_done /\ \A i \in Harts \ {c} : pc[i] \in {"reset", "warm"}
    /\ ~lottery => ~coldboot_done /\ \A i \in Harts : pc[i] = "reset"
    /\ dev # "none" => lottery /\ \A i \in Harts : pc[i] \notin {"cold", "cold2"}

\* Hart i holds the ticket of hart t: it prepares the start, or waits for the device.
Holding(i, t) ==
    /\ local[i].to = t
    /\ \/ pc[i] \in {"st_write", "st_cas", "st_rel"}
       \/ pc[i] = "st_kick" /\ UseDevice(i)

\* A device has powered hart t on, and it has not run yet.
Booting(t) ==
    IF dev = "hotplug"
    THEN /\ t \in Plugged(scenario)
         /\ \/ pc[t] \in {"reset", "wait", "wfi", "init", "clear", "finish", "launch"}
            \/ pc[t] = "warm" /\ state[t] # "SUSPENDED"
    ELSE inited[t] = 0 /\ pc[t] # "off"

\* With a device: the ticket has one holder, which has seen whether the hart has
\* ever run; it keeps the ticket until the hart runs, and nobody else gets hold
\* of it meanwhile.
DeviceHeld == dev # "none" =>
    /\ \A i, t \in Harts : Holding(i, t) =>
          /\ ticket[t] /\ \A j \in Harts : Holding(j, t) => i = j
          /\ pc[i] \in {"st_cas", "st_kick"} /\ local[i].new => inited[t] = 0
    /\ \A t \in Harts : Starting(t) =>
          ticket[t] /\ \A i \in Harts : Holding(i, t) => pc[i] = "st_kick"
    /\ \A t \in Harts : Booting(t) =>
          ticket[t] /\ \A i \in Harts : ~Holding(i, t)
    /\ dev # "hotplug" => \A t \in Harts : inited[t] = 0 =>
          pc[t] \in {"off", "reset", "warm", "wait", "wfi", "init", "clear"} /\ state[t] # "SUSPENDED"

HangFunctions ==
    /\ scenario \in Scenarios
    /\ OnHarts(pc) /\ OnHarts(local) /\ OnHarts(state)
    /\ ticket \in [Harts -> BOOLEAN] /\ inited \in [Harts -> Nat]

\* A hart that starts another one.
CallerKnown ==
    \A i \in Harts : pc[i] \in {"st_write", "st_cas", "st_kick", "st_rel"} =>
       local[i].to \in Harts /\ {"to", "new"} \subseteq DOMAIN local[i]

HangInv == HangFunctions /\ StatesFit /\ ColdAlone /\ CallerKnown /\ DeviceHeld

\* The labels the parts of the invariant speak of.
Noted == {"reset", "cold", "cold2", "warm", "wait", "wfi", "init", "clear", "finish", "launch",
          "off", "st_write", "st_cas", "st_kick", "st_rel"}

\* A step of hart h between other labels, which may change its state.
LEMMA OwnStep ==
    ASSUME HangInv, NEW h \in Harts, OnlyMoves(h), pc[h] \notin Noted, pc'[h] \notin Noted,
           UNCHANGED <<scenario, lottery, coldboot_done, ticket, inited>>,
           \/ state' = state
           \/ \E s : s # "START_PENDING" /\ state' = [state EXCEPT ![h] = s],
           Fits(pc'[h], state'[h]), InOrder(pc'[h], state'[h], local'[h])
    PROVE  HangInv'
<1>1. /\ \A i \in Harts : i # h => state'[i] = state[i] /\ pc'[i] = pc[i] /\ local'[i] = local[i]
      /\ OnHarts(state')
  BY DEF HangInv, HangFunctions, OnHarts, OnlyMoves
<1>2. dev' = dev
  BY DEF dev
<1>3. \A i, t \in Harts : Holding(i, t)' => i # h /\ Holding(i, t)
  BY <1>1, <1>2 DEF Holding, UseDevice, Noted
<1>4. \A t \in Harts : Starting(t)' => Starting(t)
  BY <1>1 DEF Starting, Noted, HangInv, HangFunctions, OnHarts
<1>5. \A t \in Harts : Booting(t)' => Booting(t)
  BY <1>1, <1>2 DEF Booting, Noted
<1>6. HangFunctions'
  BY <1>1 DEF HangInv, HangFunctions, OnlyMoves
<1>7. StatesFit'
  BY <1>1 DEF HangInv, StatesFit
<1>8. ColdAlone'
  BY <1>1, <1>2 DEF HangInv, ColdAlone, Noted
<1>9. DeviceHeld'
  <2> SUFFICES ASSUME dev # "none" PROVE DeviceHeld'
    BY <1>2 DEF DeviceHeld
  <2>1. \A i, t \in Harts : Holding(i, t)' =>
          /\ ticket'[t] /\ \A j \in Harts : Holding(j, t)' => i = j
          /\ pc'[i] \in {"st_cas", "st_kick"} /\ local'[i].new => inited'[t] = 0
    BY <1>1, <1>3 DEF HangInv, DeviceHeld
  <2>2. \A t \in Harts : Starting(t)' =>
          ticket'[t] /\ \A i \in Harts : Holding(i, t)' => pc'[i] = "st_kick"
    BY <1>1, <1>3, <1>4 DEF HangInv, DeviceHeld
  <2>3. \A t \in Harts : Booting(t)' => ticket'[t] /\ \A i \in Harts : ~Holding(i, t)'
    BY <1>3, <1>5 DEF HangInv, DeviceHeld
  <2>4. dev # "hotplug" => \A t \in Harts : inited'[t] = 0 =>
          pc'[t] \in {"off", "reset", "warm", "wait", "wfi", "init", "clear"} /\ state'[t] # "SUSPENDED"
    BY <1>1 DEF HangInv, DeviceHeld, Noted
  <2> QED BY <1>2, <2>1, <2>2, <2>3, <2>4 DEF DeviceHeld
<1>10. CallerKnown'
  BY <1>1 DEF HangInv, CallerKnown, Noted
<1> QED BY <1>6, <1>7, <1>8, <1>9, <1>10 DEF HangInv

\* The steps of the harts that are of this kind.
LEMMA MachineOwn ==
    ASSUME HangInv, HangFunctions, StatesFit, NEW h \in Harts,
           \/ HsmExit(h) \/ HartStop(h) \/ SbiExit(h) \/ TrapReturn(h) \/ SendSelf(h)
           \/ PostEvent(h) \/ RawSend(h) \/ SendRetry(h) \/ SendDone(h) \/ TakeIpi(h)
           \/ IpiClear(h) \/ IpiXchg(h) \/ ProcessSmode(h) \/ ProcessHalt(h) \/ IpiDone(h)
           \/ ResetStop(h) \/ ClearSmode(h) \/ SystemReset(h)
           \/ SendSmode(h, scenario.targets) \/ SuspendCas(h) \/ SuspendReturn(h)
           \/ ResumeStart(h) \/ ResumeFinish(h) \/ SystemSuspendCas(h)
           \/ SystemSuspendNext(h)
    PROVE  HangInv'
<1> USE DEF HangFunctions, StatesFit, OnHarts, OnlyMoves, Set, Goto, bootVars, hsmVars, hartVars,
            Noted, Running, Fits, InOrder
<1>1. CASE HsmExit(h)
  BY <1>1, OwnStep DEF HsmExit, ChangeState
<1>2. CASE HartStop(h)
  BY <1>2, OwnStep DEF HartStop, Ecall, ChangeState
<1>3. CASE SbiExit(h)
  BY <1>3, OwnStep DEF SbiExit
<1>4. CASE TrapReturn(h)
  BY <1>4, OwnStep DEF TrapReturn, Local
<1>5. CASE SendSelf(h)
  BY <1>5, OwnStep DEF SendSelf
<1>6. CASE PostEvent(h)
  BY <1>6, OwnStep DEF PostEvent
<1>7. CASE RawSend(h)
  BY <1>7, OwnStep DEF RawSend
<1>8. CASE SendRetry(h)
  BY <1>8, OwnStep DEF SendRetry
<1>9. CASE SendDone(h)
  BY <1>9, OwnStep DEF SendDone
<1>10. CASE TakeIpi(h)
  BY <1>10, OwnStep DEF TakeIpi
<1>11. CASE IpiClear(h)
  BY <1>11, OwnStep DEF IpiClear
<1>12. CASE IpiXchg(h)
  BY <1>12, OwnStep DEF IpiXchg, Local
<1>13. CASE ProcessSmode(h)
  BY <1>13, OwnStep DEF ProcessSmode, Processing, Processed
<1>14. CASE ProcessHalt(h)
  <2>1. /\ pc[h] = "process" /\ UNCHANGED <<bootVars, ticket, inited>>
        /\ \/ /\ state' = [state EXCEPT ![h] = "STOP_PENDING"] /\ pc' = [pc EXCEPT ![h] = "exit"]
           \/ UNCHANGED state /\ pc' = [pc EXCEPT ![h] = "process"] /\ state[h] # "STARTED"
    BY <1>14 DEF ProcessHalt, Processing, ChangeState
  <2>2. OnlyMoves(h)
    BY <1>14, <2>1 DEF ProcessHalt
  <2>3. state[h] # "STARTED" => "event" \in DOMAIN local'[h] /\ local'[h].event = "none"
    BY <1>14, <2>1 DEF ProcessHalt, Processed
  <2>4. QED BY <2>1, <2>2, <2>3, OwnStep
<1>15. CASE IpiDone(h)
  BY <1>15, OwnStep DEF IpiDone
<1>16. CASE ResetStop(h)
  BY <1>16, OwnStep DEF ResetStop, ChangeState
<1>17. CASE ClearSmode(h)
  BY <1>17, OwnStep DEF ClearSmode
<1>18. CASE SystemReset(h)
  BY <1>18, OwnStep DEF SystemReset, Ecall
<1>19. CASE SendSmode(h, scenario.targets)
  BY <1>19, OwnStep DEF SendSmode, Ecall
<1>20. CASE SuspendCas(h)
  BY <1>20, OwnStep DEF SuspendCas, ChangeState
<1>21. CASE SuspendReturn(h)
  BY <1>21, OwnStep DEF SuspendReturn, ChangeState
<1>22. CASE ResumeStart(h)
  BY <1>22, OwnStep DEF ResumeStart, ChangeState
<1>23. CASE ResumeFinish(h)
  BY <1>23, OwnStep DEF ResumeFinish, ChangeState
<1>24. CASE SystemSuspendCas(h)
  BY <1>24, OwnStep DEF SystemSuspendCas, ChangeState
<1>25. CASE SystemSuspendNext(h)
  BY <1>25, OwnStep DEF SystemSuspendNext
<1> QED BY <1>1, <1>2, <1>3, <1>4, <1>5, <1>6, <1>7, <1>8, <1>9, <1>10, <1>11, <1>12, <1>13, <1>14, <1>15, <1>16, <1>17, <1>18, <1>19, <1>20, <1>21, <1>22, <1>23, <1>24, <1>25

\* The suspend calls.
LEMMA SuspendOwn ==
    ASSUME HangInv, HangFunctions, StatesFit, NEW h \in Harts,
           \/ \E ret \in BOOLEAN, a \in Addrs(h) : HartSuspend(h, ret, a)
           \/ \E a \in Addrs(h) : SystemSuspend(h, a)
    PROVE  HangInv'
<1> USE DEF HangFunctions, StatesFit, OnHarts, OnlyMoves, Set, Goto, bootVars, hsmVars, hartVars,
            Noted, Running, Fits, InOrder
<1> DEFINE v == local'[h]
<1>1. local' = [local EXCEPT ![h] = v]
  BY DEF HartSuspend, SystemSuspend
<1>2. /\ pc[h] = "S" /\ UNCHANGED <<bootVars, state, ticket, inited>>
      /\ \E l \in {"su_cas", "ss_cas", "ret"} : pc' = [pc EXCEPT ![h] = l]
  BY DEF HartSuspend, SystemSuspend, Ecall
<1> HIDE DEF v
<1> QED BY ZenonT(40), <1>1, <1>2, OwnStep

\* The remote fences.
LEMMA TlbOwn ==
    ASSUME HangInv, HangFunctions, StatesFit, NEW h \in Harts, TlbMachine(h) \/ TlbSupervisor(h)
    PROVE  HangInv'
<1> USE DEF HangFunctions, StatesFit, OnHarts, OnlyMoves, Set, Goto, bootVars, hsmVars, hartVars,
            Noted, Running, Fits, InOrder
<1>1. CASE UpdateSelf(h)
  BY <1>1, OwnStep DEF UpdateSelf
<1>2. CASE UpdateInplace(h)
  BY <1>2, OwnStep DEF UpdateInplace
<1>3. CASE UpdateEnqueue(h)
  BY <1>3, OwnStep DEF UpdateEnqueue
<1>4. CASE UpdateRetry(h)
  BY <1>4, OwnStep DEF UpdateRetry
<1>5. CASE UpdateAdd(h)
  BY <1>5, OwnStep DEF UpdateAdd
<1>6. CASE SyncTake(h)
  BY <1>6, OwnStep DEF SyncTake
<1>7. CASE SyncDone(h)
  BY <1>7, OwnStep DEF SyncDone
<1>8. CASE ProcessTake(h)
  BY <1>8, OwnStep DEF ProcessTake, Processing
<1>9. CASE ProcessTlbDone(h)
  BY <1>9, OwnStep DEF ProcessTlbDone, Processing, Processed
<1>10. CASE TlbSupervisor(h)
  <2>1. PICK r \in scenario.fences[h] : RemoteFence(h, r, scenario.targets)
    BY <1>10 DEF TlbSupervisor
  <2> DEFINE v == Sending("tlb", scenario.targets)
  <2>2. local' = [local EXCEPT ![h] = v]
    BY <2>1 DEF RemoteFence
  <2>3. /\ pc[h] = "S" /\ pc' = [pc EXCEPT ![h] = "send"]
        /\ UNCHANGED <<bootVars, state, ticket, inited>>
    BY <2>1 DEF RemoteFence, Ecall
  <2> HIDE DEF v
  <2>4. QED BY <2>2, <2>3, OwnStep
<1> QED BY <1>1, <1>2, <1>3, <1>4, <1>5, <1>6, <1>7, <1>8, <1>9, <1>10 DEF TlbMachine

\* An assignment to the event read leaves the one that is sent alone.
LEMMA EventKept ==
    ASSUME NEW r, NEW x, NEW y, "event" \in DOMAIN r
    PROVE  LET v == [r EXCEPT !.sse = x, !.was = y]
           IN  "event" \in DOMAIN v /\ v.event = r.event
OBVIOUS

\* The software events.
LEMMA SseOwn ==
    ASSUME HangInv, HangFunctions, StatesFit, NEW h \in Harts, SseMachine(h)
    PROVE  HangInv'
<1> USE DEF HangFunctions, StatesFit, OnHarts, OnlyMoves, Set, Goto, bootVars, hsmVars, hartVars,
            Noted, Running, Fits, InOrder
<1>1. CASE SseSent(h)
  BY <1>1, OwnStep DEF SseSent
<1>2. CASE SseResume(h)
  BY <1>2, OwnStep DEF SseResume
<1>3. CASE InjectSend(h)
  BY <1>3, OwnStep DEF InjectSend
<1>4. CASE InjectSelf(h)
  BY <1>4, OwnStep DEF InjectSelf
<1>5. CASE InjectTake(h)
  <2>1. /\ pc[h] \in {"process", "sse_self"} /\ UNCHANGED <<bootVars, state, ticket, inited>>
        /\ pc' = [pc EXCEPT ![h] = "sse_pend"] \/ (UNCHANGED pc /\ UNCHANGED local)
    BY <1>5 DEF InjectTake, Injecting, Processing
  <2>2. OnlyMoves(h)
    BY <1>5, <2>1 DEF InjectTake
  <2>3. state[h] = "STOP_PENDING" => "event" \in DOMAIN local'[h] /\ local'[h].event = "none"
    <3> DEFINE e == sse_event_get(fifo_oldest(inject_fifo[h]), h)
               s == event[e].state
               v == [local[h] EXCEPT !.sse = e, !.was = s]
    <3>1. UNCHANGED local \/ local' = [local EXCEPT ![h] = v]
      BY <1>5, Zenon DEF InjectTake
    <3>2. state[h] = "STOP_PENDING" => "event" \in DOMAIN local[h] /\ local[h].event = "none"
      BY <2>1
    <3> HIDE DEF e, s
    <3>3. state[h] = "STOP_PENDING" => "event" \in DOMAIN v /\ v.event = "none"
      BY <3>2, EventKept
    <3> HIDE DEF v
    <3> QED BY <3>1, <3>2, <3>3
  <2>4. QED BY <2>1, <2>2, <2>3, OwnStep
<1>6. CASE InjectPend(h)
  <2>1. /\ pc[h] = "sse_pend" /\ UNCHANGED <<bootVars, state, ticket, inited, local>>
        /\ pc' = [pc EXCEPT ![h] = IF local[h].event = "sse" THEN "sse_self" ELSE "process"]
    BY <1>6 DEF InjectPend
  <2>2. QED BY <2>1, OwnStep
<1>7. CASE InjectDone(h)
  <2>1. /\ UNCHANGED <<bootVars, state, ticket, inited>>
        /\ \/ pc[h] = "sse_self" /\ pc' = [pc EXCEPT ![h] = "send"]
           \/ pc[h] = "process" /\ UNCHANGED pc
    BY <1>7 DEF InjectDone, Injecting, Processing
  <2>2. OnlyMoves(h)
    BY <1>7, <2>1 DEF InjectDone
  <2>3. state[h] = "STOP_PENDING" => "event" \in DOMAIN local'[h] /\ local'[h].event = "none"
    BY <1>7, <2>1 DEF InjectDone, Processed
  <2>4. QED BY <2>1, <2>2, <2>3, OwnStep
<1> QED BY <1>1, <1>2, <1>3, <1>4, <1>5, <1>6, <1>7 DEF SseMachine

\* The calls about software events.
LEMMA SseCallsOwn ==
    ASSUME HangInv, HangFunctions, StatesFit, NEW h \in Harts, SseSupervisor(h)
    PROVE  HangInv'
<1> USE DEF HangFunctions, StatesFit, OnHarts, OnlyMoves, Set, Goto, bootVars, hsmVars, hartVars,
            Noted, Running, Fits, InOrder
<1>1. CASE \E id \in EventIds : SseRegister(h, id)
  BY SMTT(30), <1>1, OwnStep DEF SseRegister, SseCall, Ecall, Writes
<1>2. CASE \E id \in EventIds : SseUnregister(h, id)
  BY SMTT(30), <1>2, OwnStep DEF SseUnregister, SseCall, Ecall, Writes
<1>3. CASE \E id \in EventIds : SseEnable(h, id)
  BY <1>3, OwnStep DEF SseEnable, SseCall, Ecall
<1>4. CASE \E id \in EventIds : SseDisable(h, id)
  BY SMTT(30), <1>4, OwnStep DEF SseDisable, SseCall, Ecall
<1>5. CASE \E id \in EventIds, prio \in Prios : SetPrio(h, id, prio)
  BY SMTT(30), <1>5, OwnStep DEF SetPrio, SseCall, Ecall, Writes
<1>6. CASE \E id \in EventIds, oneshot \in BOOLEAN : SetOneshot(h, id, oneshot)
  BY <1>6, OwnStep DEF SetOneshot, SseCall, Ecall, Writes
<1>7. CASE \E id \in EventIds, t \in scenario.targets : SetPreferredHart(h, id, t)
  BY <1>7, OwnStep DEF SetPreferredHart, SseCall, Ecall, Writes
<1>8. CASE \E id \in EventIds, t \in scenario.targets : SseInject(h, id, t)
  <2>1. PICK id \in EventIds, t \in scenario.targets : SseInject(h, id, t)
    BY <1>8
  <2> DEFINE v == local'[h]
  <2>2. local' = [local EXCEPT ![h] = v]
    BY <2>1 DEF SseInject
  <2>3. /\ pc[h] = "S" /\ (\E l \in {"ret", "sse_put"} : pc' = [pc EXCEPT ![h] = l])
        /\ UNCHANGED <<bootVars, state, ticket, inited>>
    BY <2>1 DEF SseInject, Ecall, SseCall
  <2> HIDE DEF v
  <2>4. QED BY ZenonT(40), <2>2, <2>3, OwnStep
<1>9. CASE SseComplete(h)
  <2> DEFINE runs == {i \in DOMAIN enabled_events[h] :
                        event[enabled_events[h][i]].state = "RUNNING"}
             e == enabled_events[h][First(runs)]
             v == [Local EXCEPT !.sse = e]
             idle == runs = {} \/ event[e].hartid # h
  <2>1. /\ pc[h] = "S" /\ UNCHANGED <<bootVars, hsmVars, asked>>
        /\ idle => pc' = [pc EXCEPT ![h] = "ret"] /\ UNCHANGED local
        /\ ~idle => /\ pc' = [pc EXCEPT ![h] = "sse_resume"]
                    /\ local' = [local EXCEPT ![h] = v]
    BY <1>9, Zenon DEF SseComplete, Ecall
  <2> HIDE DEF v, idle
  <2>2. OnlyMoves(h) /\ pc'[h] \in {"ret", "sse_resume"}
    BY <2>1
  <2>3. QED BY <2>1, <2>2, OwnStep
<1>10. CASE \E on \in BOOLEAN : SseMask(h, on)
  BY SMTT(30), <1>10, OwnStep DEF SseMask, Ecall
<1> QED BY <1>1, <1>2, <1>3, <1>4, <1>5, <1>6, <1>7, <1>8, <1>9, <1>10 DEF SseSupervisor

\* A hart boots.
LEMMA BootFits ==
    ASSUME HangInv, NEW h \in Harts,
           \/ SbiInit(h) \/ WakeColdbootHarts(h) \/ InitWarmboot(h) \/ HartWait(h) \/ Wfi(h)
           \/ HsmStopped(h) \/ StartFinish(h) \/ IpiInit(h) \/ InitHart(h)
    PROVE  HangInv'
<1> USE DEF HangInv, HangFunctions, OnHarts, Set, Goto, bootVars, hsmVars
<1>1. CASE SbiInit(h)
  <2>1. /\ pc[h] = "reset" /\ lottery' /\ UNCHANGED <<scenario, coldboot_done, local, state, ticket, inited>>
        /\ pc' = [pc EXCEPT ![h] = IF lottery THEN "warm" ELSE "cold"]
    BY <1>1 DEF SbiInit, StatesFit, Fits, Running
  <2>2. HangFunctions'
    BY <2>1
  <2>3. StatesFit'
    BY <2>1 DEF StatesFit, Fits, InOrder, Running
  <2>4. ColdAlone'
    BY <2>1 DEF ColdAlone, dev
  <2>5. DeviceHeld'
    <3>1. \A i, t \in Harts : Holding(i, t)' = Holding(i, t)
      BY <2>1 DEF Holding, UseDevice, dev
    <3>2. \A t \in Harts : Starting(t)' => Starting(t)
      BY <2>1 DEF Starting
    <3>3. \A t \in Harts : Booting(t)' /\ dev # "none" => Booting(t)
      BY <2>1 DEF Booting, ColdAlone, StatesFit, Fits, dev, DeviceHeld
    <3> QED BY <2>1, <3>1, <3>2, <3>3 DEF DeviceHeld, ColdAlone, dev, Holding
  <2>6. CallerKnown'
    BY <2>1 DEF CallerKnown
  <2> QED BY <2>2, <2>3, <2>4, <2>5, <2>6
<1>2. CASE WakeColdbootHarts(h)
  <2>1. /\ pc[h] = "cold2" /\ coldboot_done' /\ UNCHANGED <<scenario, lottery, local, state, ticket, inited>>
        /\ pc' = [pc EXCEPT ![h] = "init"]
    BY <1>2 DEF WakeColdbootHarts, StatesFit, Fits, Running
  <2>2. HangFunctions'
    BY <2>1
  <2>3. StatesFit'
    BY <2>1 DEF StatesFit, Fits, InOrder, Running
  <2>4. ColdAlone'
    BY <2>1 DEF ColdAlone, dev
  <2>5. DeviceHeld'
    <3>1. \A i, t \in Harts : Holding(i, t)' = Holding(i, t)
      BY <2>1 DEF Holding, UseDevice, dev
    <3>2. \A t \in Harts : Starting(t)' => Starting(t)
      BY <2>1 DEF Starting
    <3>3. \A t \in Harts : Booting(t)' /\ dev # "none" => Booting(t)
      BY <2>1 DEF Booting, ColdAlone, StatesFit, Fits, dev, DeviceHeld
    <3> QED BY <2>1, <3>1, <3>2, <3>3 DEF DeviceHeld, ColdAlone, dev, Holding
  <2>6. CallerKnown'
    BY <2>1 DEF CallerKnown
  <2> QED BY <2>2, <2>3, <2>4, <2>5, <2>6
<1>3. CASE InitWarmboot(h)
  <2>1. /\ pc[h] = "warm" /\ coldboot_done
        /\ UNCHANGED <<scenario, lottery, coldboot_done, local, state, ticket, inited>>
        /\ pc' = [pc EXCEPT ![h] = IF state[h] = "SUSPENDED" THEN "resume" ELSE "wait"]
    BY <1>3 DEF InitWarmboot, StatesFit, Fits, Running
  <2>2. HangFunctions'
    BY <2>1
  <2>3. StatesFit'
    BY <2>1 DEF StatesFit, Fits, InOrder, Running
  <2>4. ColdAlone'
    BY <2>1 DEF ColdAlone, dev
  <2>5. DeviceHeld'
    <3>1. \A i, t \in Harts : Holding(i, t)' = Holding(i, t)
      BY <2>1 DEF Holding, UseDevice, dev
    <3>2. \A t \in Harts : Starting(t)' => Starting(t)
      BY <2>1 DEF Starting
    <3>3. \A t \in Harts : Booting(t)' /\ dev # "none" => Booting(t)
      BY <2>1 DEF Booting, ColdAlone, StatesFit, Fits, dev, DeviceHeld
    <3> QED BY <2>1, <3>1, <3>2, <3>3 DEF DeviceHeld, ColdAlone, dev, Holding
  <2>6. CallerKnown'
    BY <2>1 DEF CallerKnown
  <2> QED BY <2>2, <2>3, <2>4, <2>5, <2>6
<1>4. CASE HartWait(h)
  <2>1. /\ pc[h] = "wait" /\ UNCHANGED <<scenario, lottery, coldboot_done, local, state, ticket, inited>>
        /\ pc' = [pc EXCEPT ![h] = IF state[h] = "START_PENDING" THEN "init" ELSE "wfi"]
    BY <1>4 DEF HartWait, StatesFit, Fits, Running
  <2>2. HangFunctions'
    BY <2>1
  <2>3. StatesFit'
    BY <2>1 DEF StatesFit, Fits, InOrder, Running
  <2>4. ColdAlone'
    BY <2>1 DEF ColdAlone, dev
  <2>5. DeviceHeld'
    <3>1. \A i, t \in Harts : Holding(i, t)' = Holding(i, t)
      BY <2>1 DEF Holding, UseDevice, dev
    <3>2. \A t \in Harts : Starting(t)' => Starting(t)
      BY <2>1 DEF Starting
    <3>3. \A t \in Harts : Booting(t)' /\ dev # "none" => Booting(t)
      BY <2>1 DEF Booting, ColdAlone, StatesFit, Fits, dev, DeviceHeld
    <3> QED BY <2>1, <3>1, <3>2, <3>3 DEF DeviceHeld, ColdAlone, dev, Holding
  <2>6. CallerKnown'
    BY <2>1 DEF CallerKnown
  <2> QED BY <2>2, <2>3, <2>4, <2>5, <2>6
<1>5. CASE Wfi(h)
  <2>1. /\ pc[h] = "wfi" /\ UNCHANGED <<scenario, lottery, coldboot_done, local, state, ticket, inited>>
        /\ pc' = [pc EXCEPT ![h] = "wait"]
    BY <1>5 DEF Wfi, StatesFit, Fits, Running
  <2>2. HangFunctions'
    BY <2>1
  <2>3. StatesFit'
    BY <2>1 DEF StatesFit, Fits, InOrder, Running
  <2>4. ColdAlone'
    BY <2>1 DEF ColdAlone, dev
  <2>5. DeviceHeld'
    <3>1. \A i, t \in Harts : Holding(i, t)' = Holding(i, t)
      BY <2>1 DEF Holding, UseDevice, dev
    <3>2. \A t \in Harts : Starting(t)' => Starting(t)
      BY <2>1 DEF Starting
    <3>3. \A t \in Harts : Booting(t)' /\ dev # "none" => Booting(t)
      BY <2>1 DEF Booting, ColdAlone, StatesFit, Fits, dev, DeviceHeld
    <3> QED BY <2>1, <3>1, <3>2, <3>3 DEF DeviceHeld, ColdAlone, dev, Holding
  <2>6. CallerKnown'
    BY <2>1 DEF CallerKnown
  <2> QED BY <2>2, <2>3, <2>4, <2>5, <2>6
<1>6. CASE HsmStopped(h)
  <2>1. /\ pc[h] = "stopped" /\ UNCHANGED <<scenario, lottery, coldboot_done, local, state, ticket, inited>>
        /\ \E l \in {"off", "stuck", "warm"} :
              pc' = [pc EXCEPT ![h] = l] /\ (l = "warm" => h \notin Plugged(scenario))
    BY <1>6 DEF HsmStopped
  <2>2. HangFunctions'
    BY <2>1
  <2>3. StatesFit'
    BY <2>1 DEF StatesFit, Fits, InOrder, Running
  <2>4. ColdAlone'
    BY <2>1 DEF ColdAlone, dev
  <2>5. DeviceHeld'
    <3>1. \A i, t \in Harts : Holding(i, t)' = Holding(i, t)
      BY <2>1 DEF Holding, UseDevice, dev
    <3>2. \A t \in Harts : Starting(t)' => Starting(t)
      BY <2>1 DEF Starting
    <3>3. \A t \in Harts : Booting(t)' /\ dev # "none" => Booting(t)
      BY <2>1 DEF Booting, ColdAlone, StatesFit, Fits, dev, DeviceHeld
    <3> QED BY <2>1, <3>1, <3>2, <3>3 DEF DeviceHeld, ColdAlone, dev, Holding
  <2>6. CallerKnown'
    BY <2>1 DEF CallerKnown
  <2> QED BY <2>2, <2>3, <2>4, <2>5, <2>6
<1>7. CASE StartFinish(h)
  <2>1. /\ pc[h] = "finish" /\ state[h] = "START_PENDING"
        /\ UNCHANGED <<scenario, lottery, coldboot_done, local, ticket, inited>>
        /\ state' = [state EXCEPT ![h] = "STARTED"] /\ pc' = [pc EXCEPT ![h] = "launch"]
    BY <1>7 DEF StartFinish, ChangeState, StatesFit, Fits, Running
  <2>2. HangFunctions'
    BY <2>1
  <2>3. StatesFit'
    BY <2>1 DEF StatesFit, Fits, InOrder, Running
  <2>4. ColdAlone'
    BY <2>1 DEF ColdAlone, dev
  <2>5. DeviceHeld'
    <3>1. \A i, t \in Harts : Holding(i, t)' = Holding(i, t)
      BY <2>1 DEF Holding, UseDevice, dev
    <3>2. \A t \in Harts : Starting(t)' => Starting(t)
      BY <2>1 DEF Starting
    <3>3. \A t \in Harts : Booting(t)' /\ dev # "none" => Booting(t)
      BY <2>1 DEF Booting, ColdAlone, StatesFit, Fits, dev, DeviceHeld
    <3> QED BY SMTT(30), <2>1, <3>1, <3>2, <3>3 DEF DeviceHeld, ColdAlone, dev, Holding
  <2>6. CallerKnown'
    BY <2>1 DEF CallerKnown
  <2> QED BY <2>2, <2>3, <2>4, <2>5, <2>6
<1>8. CASE InitHart(h)
  <2>1. /\ pc[h] = "clear" /\ UNCHANGED <<scenario, lottery, coldboot_done, local, state, ticket>>
        /\ inited' = [inited EXCEPT ![h] = inited[h] + 1] /\ pc' = [pc EXCEPT ![h] = "finish"]
    BY <1>8 DEF InitHart, StatesFit, Fits, Running
  <2>2. HangFunctions'
    BY <2>1
  <2>3. StatesFit'
    BY <2>1 DEF StatesFit, Fits, InOrder, Running
  <2>4. ColdAlone'
    BY <2>1 DEF ColdAlone, dev
  <2>5. DeviceHeld'
    <3>1. \A i, t \in Harts : Holding(i, t)' = Holding(i, t)
      BY <2>1 DEF Holding, UseDevice, dev
    <3>2. \A t \in Harts : Starting(t)' => Starting(t)
      BY <2>1 DEF Starting
    <3>3. \A t \in Harts : Booting(t)' /\ dev # "none" => Booting(t)
      BY <2>1 DEF Booting, ColdAlone, StatesFit, Fits, dev, DeviceHeld
    <3>4. dev # "none" => \A i \in Harts : ~Holding(i, h)
      <4>1. Starting(h)
        BY <2>1 DEF Starting, StatesFit, Fits, Running
      <4>2. IF dev = "hotplug" THEN h \in Plugged(scenario) => Booting(h)
                               ELSE inited[h] = 0 => Booting(h)
        BY <2>1 DEF Booting
      <4> QED BY <4>1, <4>2 DEF DeviceHeld, Holding, UseDevice, Plugged, dev
    <3> QED BY <2>1, <3>1, <3>2, <3>3, <3>4 DEF DeviceHeld, dev, Holding
  <2>6. CallerKnown'
    BY <2>1 DEF CallerKnown
  <2> QED BY <2>2, <2>3, <2>4, <2>5, <2>6
<1>9. CASE IpiInit(h)
  <2>1. /\ pc[h] = "init" /\ UNCHANGED <<scenario, lottery, coldboot_done, local, state, ticket, inited>>
        /\ pc' = [pc EXCEPT ![h] = "clear"]
    BY <1>9 DEF IpiInit, StatesFit, Fits, Running
  <2>2. HangFunctions'
    BY <2>1
  <2>3. StatesFit'
    BY <2>1 DEF StatesFit, Fits, InOrder, Running
  <2>4. ColdAlone'
    BY <2>1 DEF ColdAlone, dev
  <2>5. DeviceHeld'
    <3>1. \A i, t \in Harts : Holding(i, t)' = Holding(i, t)
      BY <2>1 DEF Holding, UseDevice, dev
    <3>2. \A t \in Harts : Starting(t)' => Starting(t)
      BY <2>1 DEF Starting
    <3>3. \A t \in Harts : Booting(t)' /\ dev # "none" => Booting(t)
      BY <2>1 DEF Booting, ColdAlone, StatesFit, Fits, dev, DeviceHeld
    <3> QED BY <2>1, <3>1, <3>2, <3>3 DEF DeviceHeld, ColdAlone, dev, Holding
  <2>6. CallerKnown'
    BY <2>1 DEF CallerKnown
  <2> QED BY <2>2, <2>3, <2>4, <2>5, <2>6
<1> QED BY <1>1, <1>2, <1>3, <1>4, <1>5, <1>6, <1>7, <1>8, <1>9

\* The first hart boots: there is no device.
LEMMA ColdFits ==
    ASSUME HangInv, NEW h \in Harts, InitColdboot(h)
    PROVE  HangInv'
<1> USE DEF HangInv, HangFunctions, OnHarts, Set, Goto, bootVars
<1>1. /\ pc[h] = "cold" /\ UNCHANGED <<scenario, lottery, coldboot_done, local, inited>>
      /\ pc' = [pc EXCEPT ![h] = "cold2"] /\ ticket' = [i \in Harts |-> FALSE]
      /\ state' = [i \in Harts |-> IF i = h THEN "START_PENDING" ELSE "STOPPED"]
  BY DEF InitColdboot
<1>2. dev' = "none" /\ \A i \in Harts \ {h} : pc[i] \in {"reset", "warm"}
  BY <1>1 DEF ColdAlone, dev
<1>3. HangFunctions'
  BY <1>1
<1>4. StatesFit'
  BY <1>1, <1>2 DEF StatesFit, Fits, InOrder
<1>5. ColdAlone' /\ CallerKnown'
  BY <1>1, <1>2 DEF ColdAlone, CallerKnown
<1>6. DeviceHeld'
  BY <1>2 DEF DeviceHeld
<1> QED BY <1>3, <1>4, <1>5, <1>6

\* Nobody holds the ticket of a hart that has started.
LEMMA LaunchUnheld ==
    ASSUME HangInv, NEW h \in Harts, pc[h] = "launch", dev # "none"
    PROVE  \A i \in Harts : ~Holding(i, h)
<1>1. Starting(h)
  BY DEF Starting
<1>2. dev = "hotplug" /\ h \in Plugged(scenario) => Booting(h)
  BY DEF Booting
<1>3. dev # "hotplug" => inited[h] # 0
  BY DEF HangInv, DeviceHeld
<1> QED BY <1>1, <1>2, <1>3 DEF HangInv, DeviceHeld, Holding, UseDevice, Plugged, dev

\* A hart is launched, or wakes up in the warm boot path.
LEMMA LaunchFits ==
    ASSUME HangInv, NEW h \in Harts, Launch(h) \/ SuspendWarm(h)
    PROVE  HangInv'
<1> USE DEF HangInv, HangFunctions, OnHarts, Set, Goto, bootVars, hsmVars
<1>1. CASE Launch(h)
  <2>1. /\ pc[h] = "launch" /\ UNCHANGED <<scenario, lottery, coldboot_done, local, state, inited>>
        /\ pc' = [pc EXCEPT ![h] = "S"] /\ ticket' = [ticket EXCEPT ![h] = FALSE]
    BY <1>1 DEF Launch
  <2>2. HangFunctions'
    BY <2>1
  <2>3. StatesFit'
    BY <2>1 DEF StatesFit, Fits, InOrder, Running
  <2>4. ColdAlone' /\ CallerKnown'
    BY <2>1 DEF ColdAlone, CallerKnown, dev
  <2>5. DeviceHeld'
    <3>1. \A i, t \in Harts : Holding(i, t)' = Holding(i, t)
      BY <2>1 DEF Holding, UseDevice, dev
    <3>2. \A t \in Harts : Starting(t)' => t # h /\ Starting(t)
      BY <2>1 DEF Starting, StatesFit, Fits, Running
    <3>3. \A t \in Harts : Booting(t)' /\ dev # "none" => t # h /\ Booting(t)
      BY <2>1 DEF Booting, DeviceHeld, dev
    <3>4. dev # "none" => \A i \in Harts : ~Holding(i, h)
      BY <2>1, LaunchUnheld
    <3> QED BY <2>1, <3>1, <3>2, <3>3, <3>4 DEF DeviceHeld, dev, Holding
  <2> QED BY <2>2, <2>3, <2>4, <2>5
<1>2. CASE SuspendWarm(h)
  <2>1. /\ pc[h] = "asleep" /\ pc' = [pc EXCEPT ![h] = "warm"]
        /\ UNCHANGED <<scenario, lottery, coldboot_done, state, ticket, inited>>
    BY <1>2 DEF SuspendWarm
  <2>2. OnHarts(local') /\ \A i \in Harts : i # h => local'[i] = local[i]
    BY <1>2 DEF SuspendWarm
  <2>3. HangFunctions'
    BY <2>1, <2>2
  <2>4. StatesFit'
    BY <2>1, <2>2 DEF StatesFit, Fits, InOrder, Running
  <2>5. ColdAlone' /\ CallerKnown'
    BY <2>1, <2>2 DEF ColdAlone, CallerKnown, dev
  <2>6. DeviceHeld'
    <3>1. \A i, t \in Harts : Holding(i, t)' => i # h /\ Holding(i, t)
      BY <2>1, <2>2 DEF Holding, UseDevice, dev
    <3>2. \A t \in Harts : Starting(t)' => Starting(t)
      BY <2>1 DEF Starting
    <3>3. \A t \in Harts : Booting(t)' /\ dev # "none" => Booting(t)
      BY <2>1 DEF Booting, DeviceHeld, StatesFit, Fits, Running, dev
    <3> QED BY <2>1, <2>2, <3>1, <3>2, <3>3 DEF DeviceHeld, dev
  <2> QED BY <2>3, <2>4, <2>5, <2>6
<1> QED BY <1>1, <1>2

\* A hart asks for the ticket of hart t.
LEMMA TicketFits ==
    ASSUME HangInv, NEW h \in Harts, NEW t \in Harts, NEW a, HartStart(h, t, a)
    PROVE  HangInv'
<1> USE DEF Set, Goto, bootVars
<1>1. /\ pc[h] = "S" /\ ticket' = [ticket EXCEPT ![t] = TRUE]
      /\ pc' = [pc EXCEPT ![h] = IF ticket[t] THEN "ret" ELSE "st_write"]
      /\ UNCHANGED <<scenario, state, lottery, coldboot_done, inited>>
  BY DEF HartStart, Ecall
<1>2. PICK v : /\ local' = [local EXCEPT ![h] = v]
               /\ v.to = t /\ {"to", "new"} \subseteq DOMAIN v
  <2> DEFINE w == [Local EXCEPT !.to = t, !.addr = a]
  <2>1. local' = [local EXCEPT ![h] = w]
    BY DEF HartStart
  <2>2. w.to = t /\ {"to", "new"} \subseteq DOMAIN w
    BY DEF Local
  <2> HIDE DEF w
  <2> QED BY <2>1, <2>2
<1>3. /\ pc'[h] = (IF ticket[t] THEN "ret" ELSE "st_write") /\ local'[h] = v /\ ticket'[t]
      /\ \A i \in Harts : i # h => pc'[i] = pc[i] /\ local'[i] = local[i]
      /\ \A i \in Harts : i # t => ticket'[i] = ticket[i]
      /\ dev' = dev
  BY <1>1, <1>2 DEF HangInv, HangFunctions, OnHarts, dev
<1>4. HangFunctions'
  BY <1>1, <1>2 DEF HangInv, HangFunctions, OnHarts
<1>5. StatesFit'
  BY <1>1, <1>3 DEF HangInv, StatesFit, Fits, InOrder, Running
<1>6. ColdAlone' /\ CallerKnown'
  BY <1>1, <1>2, <1>3 DEF HangInv, ColdAlone, CallerKnown
<1>7. DeviceHeld'
  <2>1. \A i, u \in Harts : Holding(i, u)' =>
          \/ i # h /\ Holding(i, u)
          \/ i = h /\ u = t /\ ~ticket[t]
    BY <1>1, <1>2, <1>3 DEF Holding, UseDevice
  <2>2. \A u \in Harts : Starting(u)' => Starting(u)
    BY <1>1, <1>3 DEF Starting
  <2>3. \A u \in Harts : Booting(u)' /\ dev # "none" => Booting(u)
    BY <1>1, <1>3 DEF Booting, HangInv, DeviceHeld
  <2>4. dev # "none" /\ ~ticket[t] => /\ \A i \in Harts : ~Holding(i, t)
                                      /\ ~Starting(t) /\ ~Booting(t)
    BY DEF HangInv, DeviceHeld
  <2>5. dev # "none" => \A i, u \in Harts : Holding(i, u)' =>
          /\ ticket'[u] /\ \A j \in Harts : Holding(j, u)' => i = j
          /\ pc'[i] \in {"st_cas", "st_kick"} /\ local'[i].new => inited'[u] = 0
    BY <1>1, <1>3, <2>1, <2>4 DEF HangInv, DeviceHeld
  <2>6. dev # "none" => \A u \in Harts : Starting(u)' =>
          ticket'[u] /\ \A i \in Harts : Holding(i, u)' => pc'[i] = "st_kick"
    BY <1>1, <1>3, <2>1, <2>2, <2>4 DEF HangInv, DeviceHeld
  <2>7. dev # "none" => \A u \in Harts : Booting(u)' =>
          ticket'[u] /\ \A i \in Harts : ~Holding(i, u)'
    BY <1>1, <1>3, <2>1, <2>3, <2>4 DEF HangInv, DeviceHeld
  <2> QED BY <1>1, <1>3, <2>5, <2>6, <2>7 DEF HangInv, DeviceHeld
<1> QED BY <1>4, <1>5, <1>6, <1>7 DEF HangInv

\* It reads the counts of hart t.
LEMMA WriteFits ==
    ASSUME HangInv, NEW h \in Harts, NEW t \in Harts, t = local[h].to, StartWrite(h)
    PROVE  HangInv'
<1> USE DEF Set, Goto, bootVars
<1>1. /\ pc[h] = "st_write" /\ pc' = [pc EXCEPT ![h] = "st_cas"]
      /\ UNCHANGED <<scenario, state, ticket, lottery, coldboot_done, inited>>
  BY DEF StartWrite
<1>2. PICK v : /\ local' = [local EXCEPT ![h] = v]
               /\ v.to = t /\ (v.new => inited[t] = 0) /\ {"to", "new"} \subseteq DOMAIN v
  <2> DEFINE x == entered[t] = inited[t]
             y == inited[t] = 0
             w == [local[h] EXCEPT !.off = x, !.new = y]
  <2>1. local' = [local EXCEPT ![h] = w]
    BY DEF StartWrite
  <2>2. {"to", "new"} \subseteq DOMAIN local[h]
    BY <1>1 DEF HangInv, CallerKnown
  <2> HIDE DEF x, y
  <2>3. w.to = t /\ w.new = y /\ {"to", "new"} \subseteq DOMAIN w
    BY <2>2
  <2> HIDE DEF w
  <2>4. w.new => inited[t] = 0
    BY <2>3, Zenon DEF y
  <2> QED BY <2>1, <2>3, <2>4
<1>3. /\ pc'[h] = "st_cas" /\ local'[h] = v /\ dev' = dev
      /\ \A i \in Harts : i # h => pc'[i] = pc[i] /\ local'[i] = local[i]
  BY <1>1, <1>2 DEF HangInv, HangFunctions, OnHarts, dev
<1>4. HangFunctions'
  BY <1>1, <1>2 DEF HangInv, HangFunctions, OnHarts
<1>5. StatesFit'
  BY <1>1, <1>3 DEF HangInv, StatesFit, Fits, InOrder, Running
<1>6. ColdAlone' /\ CallerKnown'
  BY <1>1, <1>2, <1>3 DEF HangInv, ColdAlone, CallerKnown
<1>7. DeviceHeld'
  <2>1. \A i, u \in Harts : Holding(i, u)' => Holding(i, u) /\ (i = h => u = t)
    BY <1>1, <1>2, <1>3 DEF Holding, UseDevice
  <2>2. \A u \in Harts : Starting(u)' => Starting(u) /\ (dev # "none" => u # t)
    <3>1. Holding(h, t)
      BY <1>1 DEF Holding
    <3> QED BY <1>1, <1>3, <3>1 DEF Starting, HangInv, DeviceHeld
  <2>3. \A u \in Harts : Booting(u)' => Booting(u)
    BY <1>1, <1>3 DEF Booting
  <2>4. dev # "none" => \A i, u \in Harts : Holding(i, u)' =>
          /\ ticket'[u] /\ \A j \in Harts : Holding(j, u)' => i = j
          /\ pc'[i] \in {"st_cas", "st_kick"} /\ local'[i].new => inited'[u] = 0
    BY <1>1, <1>2, <1>3, <2>1 DEF HangInv, DeviceHeld
  <2>5. dev # "none" => \A u \in Harts : Starting(u)' =>
          ticket'[u] /\ \A i \in Harts : Holding(i, u)' => pc'[i] = "st_kick"
    BY <1>1, <1>3, <2>1, <2>2 DEF HangInv, DeviceHeld
  <2>6. dev # "none" => \A u \in Harts : Booting(u)' =>
          ticket'[u] /\ \A i \in Harts : ~Holding(i, u)'
    BY <1>1, <2>1, <2>3 DEF HangInv, DeviceHeld
  <2> QED BY <1>1, <1>3, <2>4, <2>5, <2>6 DEF HangInv, DeviceHeld
<1> QED BY <1>4, <1>5, <1>6, <1>7 DEF HangInv

\* It changes the state of hart t, ...
LEMMA CasFits ==
    ASSUME HangInv, NEW h \in Harts, NEW t \in Harts, t = local[h].to, StartCas(h)
    PROVE  HangInv'
<1> USE DEF HangInv, HangFunctions, OnHarts, Set, Goto, bootVars
<1>1. /\ pc[h] = "st_cas" /\ UNCHANGED <<scenario, local, ticket, lottery, coldboot_done, inited>>
      /\ \/ /\ state[t] = "STOPPED" /\ state' = [state EXCEPT ![t] = "START_PENDING"]
            /\ pc' = [pc EXCEPT ![h] = "st_kick"]
         \/ UNCHANGED state /\ pc' = [pc EXCEPT ![h] = "st_rel"]
  BY DEF StartCas
<1>2. HangFunctions'
  BY <1>1
<1>3. StatesFit'
  BY <1>1 DEF StatesFit, Fits, InOrder, Running
<1>4. ColdAlone' /\ CallerKnown'
  BY <1>1 DEF ColdAlone, CallerKnown, dev
<1>5. DeviceHeld'
  <2> USE DEF dev
  <2>1. Holding(h, t)
    BY <1>1 DEF Holding
  <2>2. \A i, u \in Harts : Holding(i, u)' => Holding(i, u)
    BY <1>1 DEF Holding, UseDevice
  <2>3. dev # "none" => ~Starting(t)
    BY <1>1, <2>1 DEF DeviceHeld
  <2>4. \A u \in Harts : Starting(u)' => Starting(u) \/ (u = t /\ pc'[h] = "st_kick")
    BY <1>1 DEF Starting
  <2>5. \A u \in Harts : Booting(u)' /\ dev # "none" => Booting(u)
    BY <1>1 DEF Booting, DeviceHeld
  <2>6. dev # "none" => \A i, u \in Harts : Holding(i, u)' =>
          /\ ticket'[u] /\ \A j \in Harts : Holding(j, u)' => i = j
          /\ pc'[i] \in {"st_cas", "st_kick"} /\ local'[i].new => inited'[u] = 0
    BY <1>1, <2>2 DEF DeviceHeld
  <2>7. dev # "none" => \A u \in Harts : Starting(u)' =>
          ticket'[u] /\ \A i \in Harts : Holding(i, u)' => pc'[i] = "st_kick"
    BY <1>1, <2>1, <2>2, <2>3, <2>4 DEF DeviceHeld
  <2>8. dev # "none" => \A u \in Harts : Booting(u)' =>
          ticket'[u] /\ \A i \in Harts : ~Holding(i, u)'
    BY <1>1, <2>2, <2>5 DEF DeviceHeld
  <2> QED BY <1>1, <2>6, <2>7, <2>8 DEF DeviceHeld
<1> QED BY <1>2, <1>3, <1>4, <1>5

\* ... then it leaves the ticket to hart t, or gives it back.
LEMMA ReleaseFits ==
    ASSUME HangInv, NEW h \in Harts, NEW t \in Harts, t = local[h].to,
           StartIpi(h) \/ StartRelease(h)
    PROVE  HangInv'
<1> USE DEF HangInv, HangFunctions, OnHarts, Set, Goto, bootVars, hsmVars
<1>1. /\ pc' = [pc EXCEPT ![h] = "ret"]
      /\ UNCHANGED <<scenario, local, state, lottery, coldboot_done, inited>>
      /\ \/ pc[h] = "st_kick" /\ UNCHANGED ticket
         \/ pc[h] = "st_rel" /\ ticket' = [ticket EXCEPT ![t] = FALSE]
  BY DEF StartIpi, StartRelease
<1>2. HangFunctions'
  BY <1>1
<1>3. StatesFit'
  BY <1>1 DEF StatesFit, Fits, InOrder, Running
<1>4. ColdAlone' /\ CallerKnown'
  BY <1>1 DEF ColdAlone, CallerKnown, dev
<1>5. DeviceHeld'
  <2> USE DEF dev
  <2>1. pc[h] = "st_rel" => Holding(h, t)
    BY DEF Holding
  <2>2. \A i, u \in Harts : Holding(i, u)' => i # h /\ Holding(i, u)
    BY <1>1 DEF Holding, UseDevice
  <2>3. dev # "none" /\ pc[h] = "st_rel" => /\ ~Starting(t) /\ ~Booting(t)
                                           /\ \A i \in Harts : Holding(i, t) => i = h
    BY <2>1 DEF DeviceHeld
  <2>4. \A u \in Harts : Starting(u)' => Starting(u)
    BY <1>1 DEF Starting
  <2>5. \A u \in Harts : Booting(u)' /\ dev # "none" => Booting(u)
    BY <1>1 DEF Booting, DeviceHeld
  <2>6. dev # "none" => \A i, u \in Harts : Holding(i, u)' =>
          /\ ticket'[u] /\ \A j \in Harts : Holding(j, u)' => i = j
          /\ pc'[i] \in {"st_cas", "st_kick"} /\ local'[i].new => inited'[u] = 0
    BY <1>1, <2>2, <2>3 DEF DeviceHeld
  <2>7. dev # "none" => \A u \in Harts : Starting(u)' =>
          ticket'[u] /\ \A i \in Harts : Holding(i, u)' => pc'[i] = "st_kick"
    BY <1>1, <2>2, <2>3, <2>4 DEF DeviceHeld
  <2>8. dev # "none" => \A u \in Harts : Booting(u)' =>
          ticket'[u] /\ \A i \in Harts : ~Holding(i, u)'
    BY <1>1, <2>2, <2>3, <2>5 DEF DeviceHeld
  <2> QED BY <1>1, <2>6, <2>7, <2>8 DEF DeviceHeld
<1> QED BY <1>2, <1>3, <1>4, <1>5

\* A hart that the device is asked to start is not on its way up.
LEMMA DeviceSees ==
    ASSUME HangInv, NEW h \in Harts, NEW t \in Harts, t = local[h].to,
           pc[h] = "st_kick", UseDevice(h)
    PROVE  /\ dev # "none" /\ Holding(h, t) /\ ~Booting(t) /\ ticket[t]
           /\ \A i \in Harts : Holding(i, t) => i = h
           /\ pc[t] \notin {"cold2", "init", "clear", "finish", "launch"}
<1>1. dev # "none" /\ Holding(h, t) /\ (dev = "hotplug" => t \in Plugged(scenario))
  BY DEF UseDevice, Holding, Plugged, dev
<1>2. ~Booting(t) /\ ticket[t] /\ \A i \in Harts : Holding(i, t) => i = h
  BY <1>1 DEF HangInv, DeviceHeld
<1>3. dev # "hotplug" => pc[t] = "off"
  BY <1>1, <1>2 DEF HangInv, DeviceHeld, UseDevice, Booting, Plugged, dev
<1>4. pc[t] # "cold2"
  BY <1>1 DEF HangInv, ColdAlone
<1> QED BY <1>1, <1>2, <1>3, <1>4 DEF Booting

\* The device starts it or refuses.
LEMMA DeviceFits ==
    ASSUME HangInv, NEW h \in Harts, NEW t \in Harts, t = local[h].to,
           StartDevice(h) \/ StartRefused(h)
    PROVE  HangInv'
<1> USE DEF HangInv, HangFunctions, OnHarts, Set, Goto, bootVars, hsmVars
<1>1. pc[h] = "st_kick" /\ UseDevice(h)
  BY DEF StartDevice, StartRefused
<1>2. /\ dev # "none" /\ Holding(h, t) /\ ~Booting(t) /\ ticket[t]
      /\ \A i \in Harts : Holding(i, t) => i = h
      /\ pc[t] \notin {"cold2", "init", "clear", "finish", "launch"}
  BY <1>1, DeviceSees
<1>3. CASE StartDevice(h)
  <2>1. /\ pc[t] = "off" /\ pc' = [pc EXCEPT ![t] = "reset", ![h] = "ret"]
        /\ UNCHANGED <<scenario, local, state, ticket, lottery, coldboot_done, inited>>
    BY <1>3 DEF StartDevice
  <2>2. HangFunctions'
    BY <2>1
  <2>3. StatesFit'
    BY <1>1, <2>1 DEF StatesFit, Fits, InOrder, Running
  <2>4. ColdAlone' /\ CallerKnown'
    BY <1>1, <1>2, <2>1 DEF ColdAlone, CallerKnown, dev
  <2>5. DeviceHeld'
    <3> USE DEF dev
    <3>1. \A i, u \in Harts : Holding(i, u)' => i # h /\ u # t /\ Holding(i, u) /\ pc'[i] = pc[i]
      BY <1>1, <1>2, <2>1 DEF Holding, UseDevice
    <3>2. \A u \in Harts : Starting(u)' => Starting(u)
      BY <2>1 DEF Starting
    <3>3. \A u \in Harts : Booting(u)' => u = t \/ Booting(u)
      BY <1>1, <1>2, <2>1 DEF Booting, DeviceHeld
    <3>4. \A i, u \in Harts : Holding(i, u)' =>
            /\ ticket'[u] /\ \A j \in Harts : Holding(j, u)' => i = j
            /\ pc'[i] \in {"st_cas", "st_kick"} /\ local'[i].new => inited'[u] = 0
      BY <1>2, <2>1, <3>1 DEF DeviceHeld
    <3>5. \A u \in Harts : Starting(u)' =>
            ticket'[u] /\ \A i \in Harts : Holding(i, u)' => pc'[i] = "st_kick"
      BY <1>2, <2>1, <3>1, <3>2 DEF DeviceHeld
    <3>6. \A u \in Harts : Booting(u)' => ticket'[u] /\ \A i \in Harts : ~Holding(i, u)'
      BY <1>2, <2>1, <3>1, <3>3 DEF DeviceHeld
    <3>7. dev # "hotplug" => \A u \in Harts : inited'[u] = 0 =>
            pc'[u] \in {"off", "reset", "warm", "wait", "wfi", "init", "clear"} /\ state'[u] # "SUSPENDED"
      BY <1>1, <1>2, <2>1 DEF DeviceHeld
    <3> QED BY <2>1, <3>4, <3>5, <3>6, <3>7 DEF DeviceHeld
  <2> QED BY <2>2, <2>3, <2>4, <2>5
<1>4. CASE StartRefused(h)
  <2>1. /\ pc' = [pc EXCEPT ![h] = "st_rel"]
        /\ UNCHANGED <<scenario, local, ticket, lottery, coldboot_done, inited>>
        /\ state' = [state EXCEPT ![t] = IF state[t] = "START_PENDING" THEN "STOPPED" ELSE state[t]]
    BY <1>4 DEF StartRefused
  <2>2. HangFunctions'
    BY <2>1
  <2>3. StatesFit'
    BY <1>1, <1>2, <2>1 DEF StatesFit, Fits, InOrder, Running
  <2>4. ColdAlone' /\ CallerKnown'
    BY <1>1, <1>2, <2>1 DEF ColdAlone, CallerKnown, dev
  <2>5. DeviceHeld'
    <3> USE DEF dev
    <3>1. \A i, u \in Harts : Holding(i, u)' => Holding(i, u)
      BY <1>1, <1>2, <2>1 DEF Holding, UseDevice
    <3>2. \A u \in Harts : Starting(u)' => u # t /\ Starting(u)
      BY <1>2, <2>1 DEF Starting
    <3>3. \A u \in Harts : Booting(u)' => Booting(u)
      BY <1>1, <1>2, <2>1 DEF Booting, DeviceHeld
    <3>4. \A i, u \in Harts : Holding(i, u)' =>
            /\ ticket'[u] /\ \A j \in Harts : Holding(j, u)' => i = j
            /\ pc'[i] \in {"st_cas", "st_kick"} /\ local'[i].new => inited'[u] = 0
      BY <1>2, <2>1, <3>1 DEF DeviceHeld
    <3>5. \A i, u \in Harts : Holding(i, u)' /\ u # t => i # h
      BY <1>2, <3>1 DEF Holding
    <3>6. \A u \in Harts : Starting(u)' =>
            ticket'[u] /\ \A i \in Harts : Holding(i, u)' => pc'[i] = "st_kick"
      BY <1>2, <2>1, <3>1, <3>2, <3>5 DEF DeviceHeld
    <3>7. \A u \in Harts : Booting(u)' => ticket'[u] /\ \A i \in Harts : ~Holding(i, u)'
      BY <1>2, <2>1, <3>1, <3>3 DEF DeviceHeld
    <3>8. dev # "hotplug" => \A u \in Harts : inited'[u] = 0 =>
            pc'[u] \in {"off", "reset", "warm", "wait", "wfi", "init", "clear"} /\ state'[u] # "SUSPENDED"
      BY <1>1, <1>2, <2>1 DEF DeviceHeld
    <3> QED BY <2>1, <3>4, <3>6, <3>7, <3>8 DEF DeviceHeld
  <2> QED BY <2>2, <2>3, <2>4, <2>5
<1> QED BY <1>3, <1>4

\* No hart changes its state at first.
LEMMA HangInvInit == KnownStart /\ Init => HangInv
<1> SUFFICES ASSUME KnownStart, Init PROVE HangInv
  OBVIOUS
<1>1. PICK s \in Scenarios :
        LET cold == s.up = {}
            off == Plugged(s) \cup IF s.dev = "secondary" THEN Harts ELSE {}
        IN  /\ scenario = s /\ lottery = ~cold /\ coldboot_done = ~cold
            /\ state = [h \in Harts |-> IF h \in s.up THEN "STARTED" ELSE "STOPPED"]
            /\ inited = [h \in Harts |-> IF h \in s.up THEN 1 ELSE 0]
            /\ pc = [h \in Harts |-> IF cold THEN "reset"
                                     ELSE IF h \in s.up THEN "S"
                                     ELSE IF h \in off THEN "off" ELSE "wait"]
  BY DEF Init, HartInit
<1>2. ticket = [h \in Harts |-> FALSE] /\ local = [h \in Harts |-> Local]
  BY DEF Init, HartInit
<1>3. \A h \in Harts : /\ pc[h] \in {"reset", "S", "off", "wait"}
                       /\ pc[h] = "S" => state[h] = "STARTED" /\ inited[h] = 1
                       /\ pc[h] # "S" => state[h] = "STOPPED"
                       /\ ~lottery => pc[h] = "reset"
                       /\ dev = "secondary" => pc[h] \in {"S", "off"}
                       /\ dev = "hotplug" => pc[h] \in {"S", "off"} \/ h \notin Plugged(scenario)
  BY <1>1 DEF KnownStart, dev
<1>4. HangFunctions
  BY <1>1, <1>2 DEF HangFunctions, OnHarts
<1>5. StatesFit /\ CallerKnown
  BY <1>3 DEF StatesFit, CallerKnown, Fits, InOrder, Running
<1>6. ColdAlone
  BY <1>1, <1>3 DEF ColdAlone, KnownStart, dev
<1>7. DeviceHeld
  <2>1. dev \in {"none", "secondary", "hotplug"}
    BY <1>1, HartAssumption DEF dev
  <2> QED BY <1>3, <2>1 DEF DeviceHeld, Holding, Starting, Booting
<1> QED BY <1>4, <1>5, <1>6, <1>7 DEF HangInv

\* Every step preserves the invariant.
LEMMA HangInvNext == HangInv /\ [Next]_vars => HangInv'
<1> SUFFICES ASSUME HangInv, [Next]_vars PROVE HangInv'
  OBVIOUS
<1>1. HangFunctions /\ StatesFit /\ CallerKnown
  BY DEF HangInv
<1>2. scenario.targets \subseteq Harts
  BY <1>1, HartAssumption DEF HangFunctions
<1>3. CASE UNCHANGED <<hartVars>>
  BY <1>3 DEF hartVars, bootVars, hsmVars, HangInv, HangFunctions, OnHarts, StatesFit, ColdAlone,
              CallerKnown, DeviceHeld, Holding, UseDevice, Starting, Booting, dev
<1>4. ASSUME NEW h \in Harts, Machine(h) PROVE HangInv'
  <2>1. CASE \/ SbiInit(h) \/ InitColdboot(h) \/ WakeColdbootHarts(h) \/ InitWarmboot(h)
             \/ IpiInit(h) \/ HartWait(h) \/ Wfi(h) \/ HsmStopped(h) \/ StartFinish(h)
             \/ Launch(h)
    BY <2>1, BootFits, ColdFits, LaunchFits
  <2>2. CASE StartWrite(h)
    <3>1. pc[h] = "st_write"
      BY <2>2 DEF StartWrite
    <3> QED BY <2>2, <3>1, <1>1, WriteFits DEF CallerKnown
  <2>3. CASE StartCas(h)
    <3>1. pc[h] = "st_cas"
      BY <2>3 DEF StartCas
    <3> QED BY <2>3, <3>1, <1>1, CasFits DEF CallerKnown
  <2>4. CASE StartDevice(h) \/ StartRefused(h)
    <3>1. pc[h] = "st_kick"
      BY <2>4 DEF StartDevice, StartRefused
    <3> QED BY <2>4, <3>1, <1>1, DeviceFits DEF CallerKnown
  <2>5. CASE StartIpi(h) \/ StartRelease(h)
    <3>1. pc[h] \in {"st_kick", "st_rel"}
      BY <2>5 DEF StartIpi, StartRelease
    <3> QED BY <2>5, <3>1, <1>1, ReleaseFits DEF CallerKnown
  <2>6. CASE \/ HsmExit(h) \/ SendSelf(h) \/ PostEvent(h) \/ RawSend(h) \/ SendRetry(h)
             \/ SendDone(h) \/ TakeIpi(h) \/ IpiClear(h) \/ IpiXchg(h) \/ ProcessSmode(h)
             \/ ProcessHalt(h) \/ IpiDone(h) \/ ResetStop(h) \/ SuspendCas(h)
             \/ ResumeStart(h) \/ ResumeFinish(h) \/ SystemSuspendCas(h) \/ SystemSuspendNext(h)
    BY <2>6, <1>1, MachineOwn
  <2> QED BY <1>4, <2>1, <2>2, <2>3, <2>4, <2>5, <2>6 DEF Machine
<1>5. ASSUME NEW h \in Harts, Supervisor(h) PROVE HangInv'
  <2>1. CASE \E t \in scenario.targets, a \in Addrs(h) : HartStart(h, t, a)
    BY <2>1, <1>2, TicketFits
  <2>2. CASE \/ \E ret \in BOOLEAN, a \in Addrs(h) : HartSuspend(h, ret, a)
             \/ \E a \in Addrs(h) : SystemSuspend(h, a)
    BY <2>2, <1>1, SuspendOwn
  <2>3. CASE \/ HartStop(h) \/ SendSmode(h, scenario.targets) \/ ClearSmode(h)
             \/ SystemReset(h)
    BY <2>3, <1>1, MachineOwn
  <2> QED BY <1>5, <2>1, <2>2, <2>3 DEF Supervisor
<1>6. ASSUME NEW h \in Harts, Wake(h) PROVE HangInv'
  BY <1>6, <1>1, LaunchFits, MachineOwn DEF Wake
<1>7. ASSUME NEW h \in Harts, InitHart(h) \/ SbiExit(h) \/ TrapReturn(h) PROVE HangInv'
  BY <1>7, <1>1, BootFits, MachineOwn
<1>8. ASSUME NEW h \in Harts,
             \/ TlbMachine(h) \/ TlbSupervisor(h) \/ SseMachine(h) \/ SseSupervisor(h)
      PROVE  HangInv'
  BY <1>8, <1>1, TlbOwn, SseOwn, SseCallsOwn
<1>9. ASSUME NEW h \in Harts, EntryDone(h) PROVE HangInv'
  BY <1>9, <1>3 DEF EntryDone
<1>10. CASE UNCHANGED vars
  BY <1>10, <1>3 DEF vars
<1> QED BY <1>4, <1>5, <1>6, <1>7, <1>8, <1>9, <1>10 DEF Next, Firmware, Calls, Wakes

\* However many harts there are and whichever calls they mix, if a machine with an
\* HSM device has booted before: every change of state that the code expects to
\* succeed does, so no hart ends in sbi_hart_hang but one whose device fails to
\* switch it off.  The device may refuse to start a hart at any time; the ticket keeps
\* the hart that then takes START_PENDING back from a hart that is already on its
\* way up.
THEOREM NeverHangs ==
    ASSUME KnownStart
    PROVE  Spec => []NoHang
<1>1. Init => HangInv
  BY HangInvInit
<1>2. HangInv /\ [Next]_vars => HangInv'
  BY HangInvNext
<1>3. HangInv => NoHang
  BY DEF HangInv, NoHang, StatesFit, Fits, Running
<1> QED BY <1>1, <1>2, <1>3, PTL DEF Spec

-----------------------------
(* A fence that returns is complete.                                         *)

\* The arguments of sbi_tlb_request, and what is stored of them.
Requests == [type : Types, asid : Asids, start : Nat, size : Nat]
Entries == [type : Types \cup {"none"}, asid : Asids, start : Nat, size : Nat,
            smask : SUBSET Harts]

\* A range that starts at a page, is not empty and ends in the address space.
WholePages(r) ==
    /\ \E k \in 0..Word : r.start = k * PageSize
    /\ r.size > 0 /\ r.start + r.size < Word

\* The entries of this part: those that tlb_range_check compares are such ranges.
Sound(r) ==
    r.type \in Types /\ (r.type \in {"sfence_vma", "sfence_vma_asid"} => WholePages(r))

\* The scenarios of this part; sbi_tlb_request has made full flushes of large ranges.
PageRanges ==
    \A s \in Scenarios : \A h \in Harts : \A r \in s.fences[h] : r \in Requests /\ Sound(Limited(r))

\* A buffer: the slots in use have requests, the others are cleared.
Slots == 0..(FifoSize - 1)
Buffers == [queue : [Slots -> Entries], num_entries : {FifoSize},
            avail : 0..FifoSize, tail : Slots]
Live(f) == {Index(f, i) : i \in 0..(f.avail - 1)}
Kept(f) ==
    /\ f \in Buffers
    /\ \A s \in Slots : IF s \in Live(f) THEN Sound(f.queue[s]) ELSE f.queue[s] = NoEntry

\* Hart h has called sbi_tlb_request and not returned.
InFence(h) == request[h] # NoEntry

\* The slots of hart t with an entry that hart h waits for.
From(h, t) == {s \in Slots : h \in fifo[t].queue[s].smask}

\* Hart t will count tlb_sync of hart h down.
Owes(t, h) == h \in hand[t].smask \/ From(h, t) # {}
Owing(h) == {t \in Harts : Owes(t, h)}

\* The harts that hart h has not yet turned to.
Todo(h) ==
    local[h].again \cup (IF pc[h] \in {"add", "post", "raw"}
                         THEN local[h].mask \ {Target(h)} ELSE local[h].mask)

\* The functions, and the entries in them.
FenceFunctions ==
    /\ OnHarts(pc) /\ OnHarts(local) /\ OnHarts(need)
    /\ OnHarts(fifo) /\ \A t \in Harts : Kept(fifo[t])
    /\ tlb_sync \in [Harts -> Int]
    /\ hand \in [Harts -> Entries]
    /\ request \in [Harts -> Entries]
    /\ \A h \in Harts : InFence(h) => Sound(request[h]) /\ request[h].smask = {h}

\* The labels and the locals of a hart that sends a fence.
Place(h) ==
    /\ {"mask", "again", "event"} \subseteq DOMAIN local[h]
    /\ InFence(h) <=> /\ pc[h] \in {"send", "enqueue", "add", "post", "raw", "sync"}
                      /\ local[h].event = "tlb"
    /\ pc[h] \in {"enqueue", "add", "post", "sync"} => local[h].event = "tlb"
    /\ pc[h] = "sse_self" => local[h].event = "sse"
    /\ InFence(h) =>
         /\ local[h].mask \in SUBSET Harts /\ local[h].again \in SUBSET Harts
         /\ local[h].mask \cap local[h].again = {}
         /\ pc[h] \in {"enqueue", "add", "post", "raw"} => local[h].mask # {} /\ Target(h) # h
         /\ pc[h] = "sync" => local[h].mask = {} /\ local[h].again = {}

\* Hart t owes hart h at most one answer, and none for what has yet to be sent.
Once(h, t) ==
    /\ \A s1, s2 \in From(h, t) : s1 = s2
    /\ h \in hand[t].smask => From(h, t) = {}
    /\ InFence(h) /\ t \in Todo(h) => ~Owes(t, h)

\* tlb_sync counts the answers, but for the one that hart h is about to count.
Answers(h) == tlb_sync[h] + (IF pc[h] = "add" THEN 1 ELSE 0)
Counts(h) == IF InFence(h) THEN Answers(h) >= Cardinality(Owing(h))
                           ELSE Owing(h) = {} /\ tlb_sync[h] >= 0

\* What has to be flushed is part of the request, on a hart that is still to be
\* asked or has been and has not looked.
Due(h, t, x) ==
    /\ x \in Flushed(request[h])
    /\ t \in Todo(h) \/ \E s \in From(h, t) : x \in Flushed(fifo[t].queue[s])
Needed(h) ==
    /\ ~InFence(h) => need[h] = {}
    /\ \A n \in need[h] : \E t \in Harts : \E x : n = <<t, x>> /\ Due(h, t, x)

\* It concerns harts that have not left the supervisor.
Reachable(t) == state[t] \in {"STARTED", "SUSPENDED", "RESUME_PENDING"} \/ pc[t] = "exit"
NeedUp == \A h, t \in Harts : \A x : <<t, x>> \in need[h] => Reachable(t)

\* The inductive invariant: the answers that are owed are counted, and what is left
\* to be flushed is on its way.
FenceInv ==
    /\ FenceFunctions /\ NeedUp
    /\ \A h \in Harts : Place(h) /\ Counts(h) /\ Needed(h)
    /\ \A h, t \in Harts : Once(h, t)

-----------------------------
\* Numbers below each other.
Below == {ss \in Nat \X Nat : ss[1] < ss[2]}

\* The loops over a set of numbers begin with a member of it.
LEMMA FirstIn ==
    ASSUME NEW S \in SUBSET Nat, S # {}
    PROVE  First(S) \in S
<1>1. IsWellFoundedOn(Below, Nat) /\ S \subseteq Nat
  BY NatLessThanWellFounded DEF OpToRel, Below
<1>2. PICK x \in S : \A y \in S : ~(<<y, x>> \in Below)
  BY ONLY <1>1, S # {}, WFMin
<1>3. \A y \in S : ~(y < x)
  BY <1>1, <1>2 DEF Below
<1>4. \A y \in S : x <= y
  BY <1>1, <1>3
<1> QED BY <1>2, <1>4 DEF First

\* Entries are put into a cleared slot, ...
LEMMA PutKept ==
    ASSUME NEW f, Kept(f), ~fifo_is_full(f), NEW r \in Entries, Sound(r)
    PROVE  /\ Kept(fifo_put(f, r))
           /\ \E s \in Slots : /\ f.queue[s] = NoEntry
                               /\ fifo_put(f, r).queue = [f.queue EXCEPT ![s] = r]
<1> DEFINE s == Index(f, f.avail)
           g == fifo_put(f, r)
<1>1. f \in Buffers /\ f.avail \in 0..(FifoSize - 1) /\ FifoSize \in Nat /\ f.num_entries = FifoSize
  BY TlbAssumption DEF Kept, Buffers, fifo_is_full
<1>2. s \in Slots /\ s \notin Live(f)
  BY <1>1 DEF Index, Buffers, Slots, Live
<1>3. /\ g.queue = [f.queue EXCEPT ![s] = r] /\ g.avail = f.avail + 1
      /\ g.tail = f.tail /\ g.num_entries = FifoSize /\ g \in Buffers
  <2> DEFINE q == [f.queue EXCEPT ![s] = r]
             a == f.avail + 1
  <2>1. q \in [Slots -> Entries] /\ a \in 0..FifoSize
    BY <1>1, <1>2 DEF Buffers
  <2>2. g = [f EXCEPT !.queue = q, !.avail = a]
    BY Zenon DEF fifo_put
  <2> HIDE DEF q, a, s, g
  <2>3. /\ g.queue = q /\ g.avail = a /\ g.tail = f.tail /\ g.num_entries = FifoSize /\ g \in Buffers
    BY <1>1, <2>1, <2>2 DEF Buffers
  <2> QED BY <2>3 DEF q, a
<1>4. Live(g) = Live(f) \cup {s}
  <2>1. \A i \in 0..f.avail : Index(g, i) = Index(f, i)
    BY <1>1, <1>3 DEF Index
  <2>2. 0..(g.avail - 1) = (0..(f.avail - 1)) \cup {f.avail}
    BY <1>1, <1>3
  <2> HIDE DEF g
  <2> QED BY <2>1, <2>2, <1>1 DEF Live
<1>5. f.queue \in [Slots -> Entries] /\ f.queue[s] = NoEntry
  BY <1>1, <1>2 DEF Kept, Buffers
<1> HIDE DEF g, s
<1>6. Kept(g)
  BY <1>2, <1>3, <1>4, <1>5 DEF Kept
<1> QED BY <1>2, <1>3, <1>5, <1>6 DEF g

\* ... taking one clears the slot of an entry, ...
LEMMA TakenKept ==
    ASSUME NEW f, Kept(f), ~fifo_is_empty(f)
    PROVE  /\ Kept(fifo_taken(f, NoEntry))
           /\ fifo_oldest(f) \in Entries /\ Sound(fifo_oldest(f))
           /\ \E s \in Slots : /\ fifo_oldest(f) = f.queue[s]
                               /\ fifo_taken(f, NoEntry).queue = [f.queue EXCEPT ![s] = NoEntry]
<1> DEFINE s == f.tail
           g == fifo_taken(f, NoEntry)
<1>1. f \in Buffers /\ f.avail \in 1..FifoSize /\ FifoSize \in Nat /\ f.num_entries = FifoSize
  BY TlbAssumption DEF Kept, Buffers, fifo_is_empty
<1>2. s \in Slots /\ s \in Live(f)
  <2>1. Index(f, 0) = s /\ 0 \in 0..(f.avail - 1) /\ s \in Slots
    BY <1>1 DEF Index, Buffers, Slots
  <2> QED BY <2>1 DEF Live
<1>3. NoEntry \in Entries
  BY DEF NoEntry, Entries, Asids
<1>4. /\ g.queue = [f.queue EXCEPT ![s] = NoEntry] /\ g.avail = f.avail - 1
      /\ g.tail = (IF f.tail + 1 >= FifoSize THEN 0 ELSE f.tail + 1)
      /\ g.num_entries = FifoSize /\ g \in Buffers
  <2> DEFINE q == [f.queue EXCEPT ![s] = NoEntry]
             a == f.avail - 1
             b == IF f.tail + 1 >= f.num_entries THEN 0 ELSE f.tail + 1
  <2>1. q \in [Slots -> Entries] /\ a \in 0..FifoSize /\ b \in Slots
    BY <1>1, <1>2, <1>3 DEF Buffers, Slots
  <2>2. g = [f EXCEPT !.queue = q, !.avail = a, !.tail = b]
    BY Zenon DEF fifo_taken
  <2> HIDE DEF q, a, b, g
  <2>3. /\ g.queue = q /\ g.avail = a /\ g.tail = b /\ g.num_entries = FifoSize /\ g \in Buffers
    BY <1>1, <2>1, <2>2 DEF Buffers
  <2> QED BY <1>1, <2>3 DEF q, a, b
<1>5. Live(g) = Live(f) \ {s}
  <2>0. f.tail \in 0..(FifoSize - 1)
    BY <1>1 DEF Buffers, Slots
  <2> HIDE DEF g
  <2>1. \A i \in 0..(f.avail - 2) : Index(g, i) = Index(f, i + 1) /\ Index(f, i + 1) # s
    BY <1>1, <1>4, <2>0 DEF Index
  <2>2. g.avail - 1 = f.avail - 2
    BY <1>1, <1>4
  <2>3. Index(f, 0) = s
    BY <1>1 DEF Index, Buffers, Slots
  <2>4. \A i \in 0..(f.avail - 1) : i = 0 \/ (i - 1 \in 0..(f.avail - 2) /\ (i - 1) + 1 = i)
    BY <1>1
  <2>5. \A i \in 0..(f.avail - 2) : i + 1 \in 0..(f.avail - 1)
    BY <1>1
  <2>6. ASSUME NEW x \in Live(g)
        PROVE  x \in Live(f) /\ x # s
    BY <2>1, <2>2, <2>5 DEF Live
  <2>7. ASSUME NEW x \in Live(f), x # s PROVE x \in Live(g)
    <3>1. PICK i \in 0..(f.avail - 1) : x = Index(f, i)
      BY DEF Live
    <3>2. i - 1 \in 0..(f.avail - 2) /\ (i - 1) + 1 = i
      BY <2>3, <2>4, <2>7, <3>1
    <3>3. x = Index(g, i - 1)
      BY <2>1, <3>1, <3>2
    <3> QED BY <2>2, <3>2, <3>3 DEF Live
  <2> QED BY <2>6, <2>7
<1>6. f.queue \in [Slots -> Entries] /\ f.queue[s] \in Entries /\ Sound(f.queue[s])
  BY <1>1, <1>2 DEF Kept, Buffers
<1>7. fifo_oldest(f) = f.queue[s]
  BY DEF fifo_oldest
<1> HIDE DEF g, s
<1>8. Kept(g)
  BY <1>2, <1>4, <1>5, <1>6 DEF Kept
<1> QED BY <1>2, <1>4, <1>6, <1>7, <1>8 DEF g

\* ... and sbi_fifo_inplace_update changes one.
LEMMA ReplaceKept ==
    ASSUME NEW f, Kept(f), NEW i \in 0..(f.avail - 1), NEW r \in Entries, Sound(r)
    PROVE  /\ Kept(fifo_replace(f, i, r))
           /\ \E s \in Slots : /\ fifo_entry(f, i) = f.queue[s]
                               /\ fifo_replace(f, i, r).queue = [f.queue EXCEPT ![s] = r]
<1> DEFINE s == Index(f, i)
           g == fifo_replace(f, i, r)
<1>1. f \in Buffers /\ f.avail \in 0..FifoSize /\ FifoSize \in Nat /\ f.num_entries = FifoSize
  BY TlbAssumption DEF Kept, Buffers
<1>2. s \in Slots /\ s \in Live(f)
  BY <1>1 DEF Index, Buffers, Slots, Live
<1>3. /\ g.queue = [f.queue EXCEPT ![s] = r] /\ g.avail = f.avail
      /\ g.tail = f.tail /\ g.num_entries = FifoSize /\ g \in Buffers
  BY <1>1, <1>2 DEF fifo_replace, Buffers
<1>4. Live(g) = Live(f)
  BY <1>1, <1>3 DEF Live, Index
<1>5. f.queue \in [Slots -> Entries] /\ fifo_entry(f, i) = f.queue[s]
  BY <1>1 DEF Buffers, fifo_entry
<1> HIDE DEF g, s
<1>6. Kept(g)
  BY <1>2, <1>3, <1>4, <1>5 DEF Kept
<1> QED BY <1>2, <1>3, <1>5, <1>6 DEF g

\* An entry that waits is one of a live slot.
LEMMA EntryKept ==
    ASSUME NEW f, Kept(f), NEW i \in 0..(f.avail - 1)
    PROVE  fifo_entry(f, i) \in Entries /\ Sound(fifo_entry(f, i))
<1>1. f \in Buffers /\ f.avail \in 0..FifoSize /\ FifoSize \in Nat /\ f.num_entries = FifoSize
  BY TlbAssumption DEF Kept, Buffers
<1>2. Index(f, i) \in Slots /\ Index(f, i) \in Live(f)
  BY <1>1 DEF Index, Buffers, Slots, Live
<1> QED BY <1>1, <1>2 DEF Kept, Buffers, fifo_entry

\* A cleared buffer.
LEMMA InitKept ==
    Kept(fifo_init(FifoSize, NoEntry))
    /\ \A s \in Slots : fifo_init(FifoSize, NoEntry).queue[s] = NoEntry
<1> DEFINE g == fifo_init(FifoSize, NoEntry)
<1>1. NoEntry \in Entries /\ FifoSize \in Nat \ {0}
  BY TlbAssumption DEF NoEntry, Entries, Asids
<1>2. g.queue = [s \in Slots |-> NoEntry] /\ g.avail = 0 /\ g \in Buffers
  BY <1>1 DEF fifo_init, Slots, Buffers
<1> HIDE DEF g
<1>3. Live(g) = {}
  BY <1>2 DEF Live
<1>4. Kept(g)
  BY <1>2, <1>3 DEF Kept
<1> QED BY <1>2, <1>4 DEF g

\* A page of the address space.
LEMMA PageIn ==
    ASSUME NEW x \in Nat
    PROVE  (x % Word) \div PageSize \in Pages
<1> DEFINE y == x % Word
           q == y \div PageSize
           m == Word \div PageSize
<1>1. Word \in Nat \ {0} /\ PageSize \in Nat \ {0} /\ Word % PageSize = 0
  BY TlbAssumption
<1>2. y \in Nat /\ y < Word
  BY <1>1
<1> HIDE DEF y
<1>3. q \in Nat /\ q * PageSize <= y
  BY <1>1, <1>2
<1>4. m \in Nat /\ Word = m * PageSize
  BY <1>1
<1> HIDE DEF q, m
<1>5. q * PageSize < m * PageSize
  BY <1>1, <1>2, <1>3, <1>4
<1>6. q < m
  BY <1>1, <1>3, <1>4, <1>5
<1>7. q \in 0..(m - 1)
  BY <1>3, <1>4, <1>6
<1> QED BY <1>7 DEF Pages, q, m, y

\* Of two ranges of whole pages, the one between the ends of the other has no
\* pages besides.
LEMMA Contained ==
    ASSUME NEW a \in Entries, NEW b \in Entries, WholePages(a), WholePages(b),
           a.start <= b.start, End(b) <= End(a)
    PROVE  RangePages(b) \subseteq RangePages(a)
<1>1. Word \in Nat \ {0} /\ PageSize \in Nat \ {0}
  BY TlbAssumption
<1>2. /\ a.start \in Nat /\ a.size \in Nat /\ a.size > 0 /\ a.start + a.size < Word
      /\ b.start \in Nat /\ b.size \in Nat /\ b.size > 0 /\ b.start + b.size < Word
  BY DEF WholePages, Entries
<1>3. End(a) = a.start + a.size /\ End(b) = b.start + b.size
  BY <1>1, <1>2 DEF End
<1>4. b.start + b.size <= a.start + a.size
  BY <1>3
<1>5. PICK k \in 0..Word : a.start = k * PageSize
  BY DEF WholePages
<1>6. PICK l \in 0..Word : b.start = l * PageSize
  BY DEF WholePages
<1>7. k <= l
  BY <1>1, <1>5, <1>6
<1>8. CASE a.size = FLUSH_ALL
  <2>1. RangePages(a) = Pages
    BY <1>8 DEF RangePages
  <2>2. \A i \in 0..Word : b.start + i * PageSize \in Nat
    BY <1>1, <1>2
  <2>3. \A i \in 0..Word : ((b.start + i * PageSize) % Word) \div PageSize \in Pages
    BY <2>2, PageIn
  <2> QED BY <2>1, <2>3 DEF RangePages
<1>9. CASE a.size # FLUSH_ALL
  <2>1. b.size # FLUSH_ALL
    BY <1>1, <1>2, <1>4, <1>9 DEF FLUSH_ALL
  <2>2. /\ RangePages(a) = {((a.start + i * PageSize) % Word) \div PageSize :
                              i \in {j \in 0..Word : j * PageSize < a.size}}
        /\ RangePages(b) = {((b.start + i * PageSize) % Word) \div PageSize :
                              i \in {j \in 0..Word : j * PageSize < b.size}}
    BY <1>2, <1>9, <2>1 DEF RangePages
  <2> SUFFICES ASSUME NEW i \in 0..Word, i * PageSize < b.size
               PROVE  \E j \in 0..Word : /\ j * PageSize < a.size
                                         /\ a.start + j * PageSize = b.start + i * PageSize
    BY <2>2
  <2> DEFINE j == i + l - k
  <2>3. j \in Nat /\ j * PageSize = i * PageSize + l * PageSize - k * PageSize
    BY <1>1, <1>7
  <2> HIDE DEF j
  <2> DEFINE u == j * PageSize
             v == i * PageSize
  <2>4. u \in Nat /\ v \in Nat /\ u = v + b.start - a.start /\ v < b.size
    BY <1>1, <1>5, <1>6, <2>3
  <2>5. j <= u
    BY <1>1, <2>3
  <2> HIDE DEF u, v
  <2>6. u < a.size /\ a.start + u = b.start + v /\ j \in 0..Word
    BY <1>1, <1>2, <1>4, <2>3, <2>4, <2>5
  <2> QED BY <2>6 DEF u, v
<1> QED BY <1>8, <1>9

\* tlb_update_cb: the entry that waits covers both requests afterwards.
LEMMA MergeSound ==
    ASSUME NEW c \in Entries, NEW r \in Entries, Sound(c), Sound(r),
           SameSpace(c, r), Updates(c, r) \/ Skips(c, r)
    PROVE  /\ Merged(c, r) \in Entries /\ Sound(Merged(c, r))
           /\ Merged(c, r).smask = c.smask \cup r.smask
           /\ Flushed(c) \subseteq Flushed(Merged(c, r))
           /\ Flushed(r) \subseteq Flushed(Merged(c, r))
<1> DEFINE w == IF Updates(c, r) THEN r ELSE c
           a == w.start
           b == w.size
           z == c.smask \cup r.smask
           m == Merged(c, r)
<1>1. WholePages(c) /\ WholePages(r) /\ c.type \in {"sfence_vma", "sfence_vma_asid"} /\ r.type = c.type
  BY DEF Sound, SameSpace
<1>2. w \in Entries /\ a \in Nat /\ b \in Nat /\ z \in SUBSET Harts
  BY DEF Entries
<1>3. m = [c EXCEPT !.start = a, !.size = b, !.smask = z]
  BY DEF Merged
<1> HIDE DEF a, b, z, m
<1>4. /\ m \in Entries /\ m.smask = z /\ m.start = a /\ m.size = b
      /\ m.type = c.type /\ m.asid = c.asid
  BY <1>2, <1>3 DEF Entries
<1>5. m.start = w.start /\ m.size = w.size
  BY <1>4 DEF a, b
<1>6. RangePages(m) = RangePages(w) /\ WholePages(m) = WholePages(w)
  BY <1>5 DEF RangePages, WholePages
<1>7. RangePages(c) \subseteq RangePages(w) /\ RangePages(r) \subseteq RangePages(w) /\ WholePages(w)
  <2>1. c.start \in Nat /\ r.start \in Nat /\ End(c) \in Int /\ End(r) \in Int
    BY TlbAssumption DEF Entries, End
  <2>2. CASE Updates(c, r)
    <3>1. r.start <= c.start /\ End(c) <= End(r)
      BY <2>1, <2>2 DEF Updates
    <3> QED BY <1>1, <2>2, <3>1, Contained
  <2>3. CASE ~Updates(c, r)
    <3>1. c.start <= r.start /\ End(r) <= End(c)
      BY <2>1, <2>3 DEF Skips
    <3> QED BY <1>1, <2>3, <3>1, Contained
  <2> QED BY <2>2, <2>3
<1> HIDE DEF w
<1>8. Sound(m)
  BY <1>1, <1>4, <1>6, <1>7 DEF Sound, Types
<1>9. CASE c.type = "sfence_vma"
  <2>1. /\ Flushed(c) = {"vma"} \X Asids \X RangePages(c)
        /\ Flushed(r) = {"vma"} \X Asids \X RangePages(r)
        /\ Flushed(m) = {"vma"} \X Asids \X RangePages(m)
    BY <1>1, <1>4, <1>9 DEF Flushed
  <2> QED BY <1>4, <1>6, <1>7, <1>8, <2>1 DEF m, z
<1>10. CASE c.type = "sfence_vma_asid"
  <2>1. r.asid = c.asid
    BY <1>1, <1>10 DEF SameSpace
  <2>2. /\ Flushed(c) = {"vma"} \X {c.asid} \X RangePages(c)
        /\ Flushed(r) = {"vma"} \X {c.asid} \X RangePages(r)
        /\ Flushed(m) = {"vma"} \X {c.asid} \X RangePages(m)
    BY <1>1, <1>4, <1>10, <2>1 DEF Flushed
  <2> QED BY <1>4, <1>6, <1>7, <1>8, <2>2 DEF m, z
<1> QED BY <1>1, <1>9, <1>10

-----------------------------
\* Every hart stands in its fence as before.
Still == \A i \in Harts :
    Place(i)' /\ (InFence(i) => Todo(i)' = Todo(i) /\ (pc'[i] = "add" <=> pc[i] = "add"))

\* A step that is not about fences.
LEMMA OutsideInv ==
    ASSUME FenceInv, Still, OnHarts(pc'), OnHarts(local'), UNCHANGED tlbVars, NeedUp'
    PROVE  FenceInv'
<1>1. UNCHANGED <<fifo, tlb_sync, hand, request, need>>
  BY DEF tlbVars
<1>2. FenceFunctions'
  BY <1>1 DEF FenceInv, FenceFunctions, InFence, OnHarts
<1>3. \A h, t \in Harts : Once(h, t)'
  BY <1>1 DEF FenceInv, Still, Once, From, Owes, InFence
<1>4. \A h \in Harts : Counts(h)'
  <2> TAKE h \in Harts
  <2>1. Owing(h)' = Owing(h) /\ InFence(h)' = InFence(h) /\ tlb_sync'[h] = tlb_sync[h]
    BY <1>1 DEF Owing, Owes, From, InFence
  <2>2. InFence(h) => Answers(h)' = Answers(h)
    BY <1>1 DEF Answers, Still
  <2>3. Counts(h)
    BY DEF FenceInv
  <2> QED BY <2>1, <2>2, <2>3 DEF Counts
<1>5. \A h \in Harts : Needed(h)'
  BY <1>1 DEF FenceInv, Still, Needed, Due, From, InFence
<1> QED BY <1>2, <1>3, <1>4, <1>5 DEF FenceInv, Still

\* tlb_process_once: the hart answers what it has flushed.
LEMMA TakeInv ==
    ASSUME FenceInv, NEW h \in Harts, hand[h] = NoEntry, Take(h), Still,
           OnHarts(pc'), OnHarts(local'), UNCHANGED <<tlb_sync, request>>,
           \A t \in Harts : Reachable(t) => Reachable(t)'
    PROVE  FenceInv'
<1> DEFINE f == fifo[h]
           e == fifo_oldest(f)
           g == fifo_taken(f, NoEntry)
<1>1. Kept(f) /\ ~fifo_is_empty(f)
  BY DEF FenceInv, FenceFunctions, Take
<1>2. /\ hand' = [hand EXCEPT ![h] = e] /\ fifo' = [fifo EXCEPT ![h] = g]
      /\ need' = [i \in Harts |-> need[i] \ ({h} \X Flushed(e))]
  BY Zenon DEF Take, Set, NeedAfter
<1>3. PICK s \in Slots : e = f.queue[s] /\ g.queue = [f.queue EXCEPT ![s] = NoEntry]
  BY <1>1, TakenKept
<1>4. Kept(g) /\ e \in Entries /\ Sound(e)
  BY <1>1, TakenKept
<1> HIDE DEF e, g, f
<1>5. /\ fifo'[h] = g /\ hand'[h] = e /\ f.queue \in [Slots -> Entries]
      /\ \A t \in Harts \ {h} : fifo'[t] = fifo[t] /\ hand'[t] = hand[t]
      /\ \A t \in Slots : t # s => g.queue[t] = f.queue[t]
      /\ g.queue[s] = NoEntry
  BY <1>1, <1>2, <1>3 DEF FenceInv, FenceFunctions, OnHarts, Kept, Buffers
<1>6. \A i, t \in Harts : From(i, t)' = IF t = h THEN From(i, t) \ {s} ELSE From(i, t)
  BY <1>5 DEF From, f, NoEntry
<1>7. \A i \in Harts : i \in e.smask <=> s \in From(i, h)
  BY <1>3 DEF From, f
<1>8. \A i, t \in Harts : Owes(t, i)' = Owes(t, i)
  <2> TAKE i, t \in Harts
  <2>1. CASE t = h
    BY <1>5, <1>6, <1>7, <2>1 DEF Owes, NoEntry
  <2>2. CASE t # h
    BY <1>5, <1>6, <2>2 DEF Owes
  <2> QED BY <2>1, <2>2
<1>9. FenceFunctions'
  BY <1>2, <1>4, <1>5 DEF FenceInv, FenceFunctions, OnHarts, InFence
<1>10. NeedUp'
  BY <1>2 DEF FenceInv, NeedUp
<1>11. \A i, t \in Harts : Once(i, t)'
  BY <1>5, <1>6, <1>7, <1>8 DEF FenceInv, Still, Once, InFence
<1>12. \A i \in Harts : Counts(i)'
  <2> TAKE i \in Harts
  <2>1. Owing(i)' = Owing(i) /\ InFence(i)' = InFence(i) /\ tlb_sync'[i] = tlb_sync[i]
    BY <1>8 DEF Owing, InFence
  <2>2. InFence(i) => Answers(i)' = Answers(i)
    BY DEF Answers, Still
  <2>3. Counts(i)
    BY DEF FenceInv
  <2> QED BY <2>1, <2>2, <2>3 DEF Counts
<1>13. \A i \in Harts : Needed(i)'
  <2> TAKE i \in Harts
  <2>1. Needed(i) /\ InFence(i)' = InFence(i) /\ need'[i] = need[i] \ ({h} \X Flushed(e))
    BY <1>2 DEF FenceInv, InFence
  <2>2. ASSUME NEW n \in need'[i]
        PROVE  \E t \in Harts : \E x : n = <<t, x>> /\ Due(i, t, x)'
    <3>1. PICK t \in Harts : \E x : n = <<t, x>> /\ Due(i, t, x)
      BY <2>1, <2>2 DEF Needed
    <3>2. PICK x : n = <<t, x>> /\ Due(i, t, x)
      BY <3>1
    <3>3. ~(t = h /\ x \in Flushed(e))
      BY <2>1, <2>2, <3>2
    <3>4. InFence(i)
      BY <2>1, <2>2 DEF Needed
    <3>5. ASSUME NEW r \in From(i, t), x \in Flushed(fifo[t].queue[r])
          PROVE  r \in From(i, t)' /\ fifo'[t].queue[r] = fifo[t].queue[r]
      BY <1>3, <1>5, <1>6, <3>3, <3>5 DEF f, From
    <3>6. Due(i, t, x)'
      BY <3>2, <3>4, <3>5 DEF Due, Still
    <3> QED BY <3>2, <3>6
  <2> QED BY <2>1, <2>2 DEF Needed
<1> QED BY <1>9, <1>10, <1>11, <1>12, <1>13 DEF FenceInv, Still

\* A request is put into the buffer of hart t, alone or with another one.
Puts(h, t, g, s, e) ==
    /\ InFence(h) /\ t = Target(h) /\ t # h /\ t \in local[h].mask
    /\ pc[h] \in {"send", "enqueue"} /\ pc' = [pc EXCEPT ![h] = "add"]
    /\ UNCHANGED <<local, state, tlb_sync, hand, request, need>>
    /\ Kept(g) /\ fifo' = [fifo EXCEPT ![t] = g]
    /\ g.queue = [fifo[t].queue EXCEPT ![s] = e]
    /\ e.smask = fifo[t].queue[s].smask \cup {h}
    /\ Flushed(request[h]) \subseteq Flushed(e)
    /\ fifo[t].queue[s].smask # {} => Flushed(fifo[t].queue[s]) \subseteq Flushed(e)

\* The request is then owed an answer, and what it needs is in that slot.
LEMMA SentInv ==
    ASSUME FenceInv, NEW h \in Harts, NEW t \in Harts, NEW g, NEW s \in Slots,
           NEW e \in Entries, Puts(h, t, g, s, e)
    PROVE  FenceInv'
<1>0. /\ InFence(h) /\ t = Target(h) /\ t # h /\ t \in local[h].mask
      /\ pc[h] \in {"send", "enqueue"} /\ pc' = [pc EXCEPT ![h] = "add"]
      /\ UNCHANGED <<local, state, tlb_sync, hand, request, need>>
      /\ Kept(g) /\ fifo' = [fifo EXCEPT ![t] = g]
      /\ g.queue = [fifo[t].queue EXCEPT ![s] = e]
      /\ e.smask = fifo[t].queue[s].smask \cup {h}
      /\ Flushed(request[h]) \subseteq Flushed(e)
      /\ fifo[t].queue[s].smask # {} => Flushed(fifo[t].queue[s]) \subseteq Flushed(e)
  BY DEF Puts
<1> USE <1>0
<1>1. /\ fifo'[t] = g /\ fifo[t].queue \in [Slots -> Entries]
      /\ \A u \in Harts \ {t} : fifo'[u] = fifo[u]
      /\ pc'[h] = "add" /\ \A i \in Harts \ {h} : pc'[i] = pc[i]
      /\ \A r \in Slots : g.queue[r] = IF r = s THEN e ELSE fifo[t].queue[r]
  BY DEF FenceInv, FenceFunctions, OnHarts, Kept, Buffers
<1>2. \A i \in Harts : InFence(i)' = InFence(i)
  BY DEF InFence
<1>3. /\ Place(h) /\ t \in Todo(h)
      /\ local[h].mask \cap local[h].again = {}
  BY DEF FenceInv, Place, Todo
<1>4. ~Owes(t, h)
  BY <1>3 DEF FenceInv, Once
<1>5. \A i, u \in Harts : From(i, u)' = IF i = h /\ u = t THEN {s} ELSE From(i, u)
  BY <1>1, <1>4 DEF From, Owes
<1>6. \A i, u \in Harts : Owes(u, i)' <=> Owes(u, i) \/ (i = h /\ u = t)
  BY <1>5 DEF Owes
<1>7. /\ Todo(h)' = Todo(h) \ {t}
      /\ \A i \in Harts : i # h => Todo(i)' = Todo(i)
  <2>1. Target(h)' = Target(h) /\ \A i \in Harts : Target(i)' = Target(i)
    BY DEF Target
  <2>2. Todo(h)' = local[h].again \cup (local[h].mask \ {t})
    BY <1>1, <2>1 DEF Todo
  <2>3. Todo(h) = local[h].again \cup local[h].mask
    BY DEF Todo
  <2>4. \A i \in Harts : i # h => Todo(i)' = Todo(i)
    BY <1>1, <2>1 DEF Todo
  <2> QED BY <1>3, <2>2, <2>3, <2>4
<1>8. FenceFunctions'
  BY <1>1, <1>2 DEF FenceInv, FenceFunctions, OnHarts
<1>9. NeedUp'
  BY <1>1 DEF FenceInv, NeedUp, Reachable
<1>10. \A i \in Harts : Place(i)'
  BY <1>1, <1>2, <1>3 DEF FenceInv, Place, Target
<1>11. \A i, u \in Harts : Once(i, u)'
  <2> TAKE i, u \in Harts
  <2>1. Once(i, u)
    BY DEF FenceInv
  <2>2. CASE i = h /\ u = t
    BY <1>2, <1>4, <1>5, <1>7, <2>2 DEF Once, Owes
  <2>3. CASE ~(i = h /\ u = t)
    <3>1. From(i, u)' = From(i, u) /\ (Owes(u, i)' <=> Owes(u, i))
      BY <1>5, <1>6, <2>3
    <3>2. u \in Todo(i)' => u \in Todo(i)
      BY <1>7
    <3> QED BY <1>2, <2>1, <3>1, <3>2 DEF Once
  <2> QED BY <2>2, <2>3
<1>12. \A i \in Harts : Counts(i)'
  <2> TAKE i \in Harts
  <2>1. Counts(i)
    BY DEF FenceInv
  <2>2. CASE i # h
    <3>1. Owing(i)' = Owing(i) /\ Answers(i)' = Answers(i)
      BY <1>1, <1>6, <2>2 DEF Owing, Answers
    <3> QED BY <1>2, <2>1, <3>1 DEF Counts
  <2>3. CASE i = h
    <3>1. Owing(h)' = Owing(h) \cup {t} /\ t \notin Owing(h)
      BY <1>4, <1>6 DEF Owing
    <3>2. IsFiniteSet(Owing(h))
      <4>1. IsFiniteSet(Harts)
        BY HartAssumption, FS_Interval DEF Harts
      <4> QED BY <4>1, FS_Subset DEF Owing
    <3>3. /\ Cardinality(Owing(h)') = Cardinality(Owing(h)) + 1
          /\ Cardinality(Owing(h)) \in Nat
      BY <3>1, <3>2, FS_AddElement, FS_CardinalityType
    <3>4. Answers(h)' = Answers(h) + 1 /\ Answers(h) \in Int
      BY <1>1 DEF Answers, FenceInv, FenceFunctions
    <3>5. Answers(h)' >= Cardinality(Owing(h)')
      BY <2>1, <2>3, <3>3, <3>4 DEF Counts
    <3> QED BY <1>2, <2>3, <3>5 DEF Counts
  <2> QED BY <2>2, <2>3
<1>13. \A i \in Harts : Needed(i)'
  <2> TAKE i \in Harts
  <2>1. Needed(i) /\ InFence(i)' = InFence(i) /\ need'[i] = need[i]
    BY <1>2 DEF FenceInv
  <2>2. ASSUME NEW n \in need[i]
        PROVE  \E u \in Harts : \E x : n = <<u, x>> /\ Due(i, u, x)'
    <3>1. PICK u \in Harts : \E x : n = <<u, x>> /\ Due(i, u, x)
      BY <2>1, <2>2 DEF Needed
    <3>2. PICK x : n = <<u, x>> /\ Due(i, u, x)
      BY <3>1
    <3>3. CASE i = h /\ u = t
      <4>1. s \in From(i, u)' /\ fifo'[u].queue[s] = e /\ x \in Flushed(e)
        BY <1>1, <1>5, <3>2, <3>3 DEF Due
      <4> QED BY <3>2, <4>1 DEF Due
    <3>4. CASE ~(i = h /\ u = t)
      <4>1. From(i, u)' = From(i, u)
        BY <1>5, <3>4
      <4>2. u \in Todo(i) => u \in Todo(i)'
        BY <1>7, <3>4
      <4>3. ASSUME NEW r \in From(i, u), x \in Flushed(fifo[u].queue[r])
            PROVE  x \in Flushed(fifo'[u].queue[r])
        BY <1>1, <4>3 DEF From
      <4> QED BY <3>2, <4>1, <4>2, <4>3 DEF Due
    <3> QED BY <3>3, <3>4
  <2> QED BY <2>1, <2>2 DEF Needed
<1> QED BY <1>8, <1>9, <1>10, <1>11, <1>12, <1>13 DEF FenceInv

\* The end of tlb_entry_process: an answer is counted.
LEMMA DoneInv ==
    ASSUME FenceInv, NEW h \in Harts, EntryDone(h)
    PROVE  FenceInv'
<1> DEFINE m == hand[h].smask
<1>1. /\ tlb_sync' = [i \in Harts |-> IF i \in m THEN tlb_sync[i] - 1 ELSE tlb_sync[i]]
      /\ hand' = [hand EXCEPT ![h] = NoEntry]
      /\ UNCHANGED <<pc, local, state, fifo, request, need>>
  BY DEF EntryDone, Set, hartVars, hsmVars
<1>2. hand'[h].smask = {} /\ \A t \in Harts \ {h} : hand'[t] = hand[t]
  BY <1>1 DEF FenceInv, FenceFunctions, NoEntry
<1>3. NoEntry \in Entries
  BY DEF NoEntry, Entries, Asids
<1>4. FenceFunctions'
  BY <1>1, <1>3 DEF FenceInv, FenceFunctions, OnHarts, InFence
<1>5. NeedUp' /\ \A i \in Harts : Place(i)' /\ Needed(i)'
  BY <1>1 DEF FenceInv, NeedUp, Reachable, Place, Needed, Due, Todo, Target, From, InFence
<1>6. \A i, t \in Harts : From(i, t)' = From(i, t)
  BY <1>1 DEF From
<1>7. \A i, t \in Harts : Owes(t, i)' <=> Owes(t, i) /\ ~(t = h /\ i \in m)
  <2> TAKE i, t \in Harts
  <2>1. Once(i, t)
    BY DEF FenceInv
  <2> QED BY <1>2, <1>6, <2>1 DEF Owes, Once
<1>8. \A i, t \in Harts : Once(i, t)'
  <2> TAKE i, t \in Harts
  <2>1. Once(i, t) /\ Todo(i)' = Todo(i) /\ InFence(i)' = InFence(i)
    BY <1>1 DEF FenceInv, Todo, Target, InFence
  <2> QED BY <1>2, <1>6, <1>7, <2>1 DEF Once
<1>9. \A i \in Harts : Counts(i)'
  <2> TAKE i \in Harts
  <2>1. Counts(i) /\ InFence(i)' = InFence(i)
    BY <1>1 DEF FenceInv, InFence
  <2>2. CASE i \notin m
    <3>1. Owing(i)' = Owing(i) /\ Answers(i)' = Answers(i) /\ tlb_sync'[i] = tlb_sync[i]
      BY <1>1, <1>7, <2>2 DEF Owing, Answers
    <3> QED BY <2>1, <3>1 DEF Counts
  <2>3. CASE i \in m
    <3>1. Owing(i)' = Owing(i) \ {h} /\ h \in Owing(i)
      BY <1>7, <2>3 DEF Owing, Owes
    <3>2. IsFiniteSet(Owing(i))
      <4>1. IsFiniteSet(Harts)
        BY HartAssumption, FS_Interval DEF Harts
      <4> QED BY <4>1, FS_Subset DEF Owing
    <3>3. /\ Cardinality(Owing(i)') = Cardinality(Owing(i)) - 1
          /\ Cardinality(Owing(i)) \in Nat
      BY <3>1, <3>2, FS_RemoveElement, FS_CardinalityType
    <3>4. Answers(i)' = Answers(i) - 1 /\ Answers(i) \in Int
      BY <1>1, <2>3 DEF Answers, FenceInv, FenceFunctions
    <3>5. InFence(i) /\ Answers(i)' >= Cardinality(Owing(i)')
      BY <2>1, <3>1, <3>3, <3>4 DEF Counts
    <3> QED BY <2>1, <3>5 DEF Counts
  <2> QED BY <2>2, <2>3
<1> QED BY <1>4, <1>5, <1>8, <1>9 DEF FenceInv

\* sbi_tlb_init: what waits in the buffer of a hart that boots is lost, but
\* nothing has to be flushed there.
LEMMA BootInv ==
    ASSUME FenceInv, NEW h \in Harts, ~InFence(h), ~Reachable(h), InitTlb(h), Still,
           OnHarts(pc'), OnHarts(local'), \A t \in Harts : Reachable(t) => Reachable(t)'
    PROVE  FenceInv'
<1> DEFINE g == fifo_init(FifoSize, NoEntry)
<1>1. /\ tlb_sync' = [tlb_sync EXCEPT ![h] = 0] /\ fifo' = [fifo EXCEPT ![h] = g]
      /\ UNCHANGED <<hand, request, need>>
  BY DEF InitTlb, Set
<1>2. Kept(g) /\ \A s \in Slots : g.queue[s] = NoEntry
  BY InitKept
<1> HIDE DEF g
<1>3. fifo'[h] = g /\ \A t \in Harts \ {h} : fifo'[t] = fifo[t] /\ tlb_sync'[t] = tlb_sync[t]
  BY <1>1 DEF FenceInv, FenceFunctions, OnHarts
<1>4. \A i, t \in Harts : From(i, t)' = IF t = h THEN {} ELSE From(i, t)
  BY <1>2, <1>3 DEF From, NoEntry
<1>5. \A i, t \in Harts : Owes(t, i)' => Owes(t, i)
  BY <1>1, <1>4 DEF Owes
<1>6. FenceFunctions'
  BY <1>1, <1>2, <1>3 DEF FenceInv, FenceFunctions, OnHarts, InFence
<1>7. NeedUp'
  BY <1>1 DEF FenceInv, NeedUp
<1>8. \A i, t \in Harts : Once(i, t)'
  <2> TAKE i, t \in Harts
  <2>1. Once(i, t) /\ InFence(i)' = InFence(i) /\ (InFence(i) => Todo(i)' = Todo(i))
    BY <1>1 DEF FenceInv, InFence, Still
  <2> QED BY <1>1, <1>4, <1>5, <2>1 DEF Once
<1>9. \A i \in Harts : Counts(i)'
  <2> TAKE i \in Harts
  <2>1. Counts(i) /\ InFence(i)' = InFence(i)
    BY <1>1 DEF FenceInv, InFence
  <2>2. Owing(i)' \subseteq Owing(i)
    BY <1>5 DEF Owing
  <2>3. CASE ~InFence(i)
    <3>1. tlb_sync'[i] = tlb_sync[i] \/ tlb_sync'[i] = 0
      BY <1>1 DEF FenceInv, FenceFunctions
    <3> QED BY <2>1, <2>2, <2>3, <3>1 DEF Counts
  <2>4. CASE InFence(i)
    <3>1. IsFiniteSet(Owing(i))
      <4>1. IsFiniteSet(Harts)
        BY HartAssumption, FS_Interval DEF Harts
      <4> QED BY <4>1, FS_Subset DEF Owing
    <3>2. /\ Cardinality(Owing(i)') \in Nat /\ Cardinality(Owing(i)) \in Nat
          /\ Cardinality(Owing(i)') <= Cardinality(Owing(i))
      BY <2>2, <3>1, FS_Subset, FS_CardinalityType
    <3>3. Answers(i)' = Answers(i) /\ Answers(i) \in Int
      BY <1>3, <2>4 DEF Answers, Still, FenceInv, FenceFunctions
    <3>4. Answers(i)' >= Cardinality(Owing(i)')
      BY <2>1, <2>4, <3>2, <3>3 DEF Counts
    <3> QED BY <2>1, <2>4, <3>4 DEF Counts
  <2> QED BY <2>3, <2>4
<1>10. \A i \in Harts : Needed(i)'
  <2> TAKE i \in Harts
  <2>1. Needed(i) /\ InFence(i)' = InFence(i) /\ need'[i] = need[i] /\ NeedUp
    BY <1>1 DEF FenceInv, InFence
  <2>2. ASSUME NEW n \in need[i]
        PROVE  \E t \in Harts : \E x : n = <<t, x>> /\ Due(i, t, x)'
    <3>1. PICK t \in Harts : \E x : n = <<t, x>> /\ Due(i, t, x)
      BY <2>1, <2>2 DEF Needed
    <3>2. PICK x : n = <<t, x>> /\ Due(i, t, x)
      BY <3>1
    <3>3. t # h
      BY <2>1, <2>2, <3>2 DEF NeedUp
    <3>4. InFence(i)
      BY <2>1, <2>2 DEF Needed
    <3>5. From(i, t)' = From(i, t) /\ fifo'[t] = fifo[t] /\ Todo(i)' = Todo(i)
      BY <1>3, <1>4, <3>3, <3>4 DEF Still
    <3>6. Due(i, t, x)'
      BY <1>1, <3>2, <3>5 DEF Due
    <3> QED BY <3>2, <3>6
  <2> QED BY <2>1, <2>2 DEF Needed
<1> QED BY <1>6, <1>7, <1>8, <1>9, <1>10 DEF FenceInv, Still

\* Less has to be flushed: a hart has left the supervisor.
LEMMA ExitInv ==
    ASSUME FenceInv, NEW h \in Harts, ExitTlb(h), Still, OnHarts(pc'), OnHarts(local'),
           \A t \in Harts : t # h /\ Reachable(t) => Reachable(t)'
    PROVE  FenceInv'
<1>1. /\ need' = [i \in Harts |-> {n \in need[i] : n[1] # h}]
      /\ UNCHANGED <<fifo, tlb_sync, hand, request>>
  BY DEF ExitTlb
<1>2. \A i \in Harts : need'[i] \subseteq need[i] /\ \A x : <<h, x>> \notin need'[i]
  BY <1>1
<1>3. FenceFunctions'
  BY <1>1 DEF FenceInv, FenceFunctions, OnHarts, InFence
<1>4. NeedUp'
  BY <1>2 DEF FenceInv, NeedUp
<1>5. \A i, t \in Harts : Once(i, t)'
  BY <1>1 DEF FenceInv, Still, Once, From, Owes, InFence
<1>6. \A i \in Harts : Counts(i)'
  <2> TAKE i \in Harts
  <2>1. Owing(i)' = Owing(i) /\ InFence(i)' = InFence(i) /\ tlb_sync'[i] = tlb_sync[i]
    BY <1>1 DEF Owing, Owes, From, InFence
  <2>2. InFence(i) => Answers(i)' = Answers(i)
    BY <1>1 DEF Answers, Still
  <2>3. Counts(i)
    BY DEF FenceInv
  <2> QED BY <2>1, <2>2, <2>3 DEF Counts
<1>7. \A i \in Harts : Needed(i)'
  <2> TAKE i \in Harts
  <2>1. Needed(i) /\ InFence(i)' = InFence(i)
    BY <1>1 DEF FenceInv, InFence
  <2>2. ASSUME NEW t \in Harts, NEW x, Due(i, t, x), InFence(i) PROVE Due(i, t, x)'
    BY <1>1, <2>2 DEF Due, From, Still
  <2> QED BY <1>2, <2>1, <2>2 DEF Needed
<1> QED BY <1>3, <1>4, <1>5, <1>6, <1>7 DEF FenceInv, Still

-----------------------------
\* A step of hart h that leaves it where it is in its fence.
LEMMA StillBut ==
    ASSUME FenceInv, NEW h \in Harts, OnlyMoves(h), UNCHANGED request, Place(h)',
           InFence(h) => Todo(h)' = Todo(h) /\ (pc'[h] = "add" <=> pc[h] = "add")
    PROVE  Still /\ OnHarts(pc') /\ OnHarts(local')
<1>1. \A i \in Harts \ {h} : /\ Place(i)'
                             /\ Todo(i)' = Todo(i) /\ pc'[i] = pc[i]
  BY DEF FenceInv, OnlyMoves, Place, Todo, Target, InFence
<1> QED BY <1>1 DEF Still, OnlyMoves

\* The locals of sbi_ipi_send_many.
LEMMA MaskSet ==
    ASSUME NEW r, NEW m, {"mask", "again", "event"} \subseteq DOMAIN r
    PROVE  LET v == [r EXCEPT !.mask = m]
           IN  /\ {"mask", "again", "event"} \subseteq DOMAIN v
               /\ v.mask = m /\ v.again = r.again /\ v.event = r.event
OBVIOUS

\* The same for the targets of the next round.
LEMMA AgainSet ==
    ASSUME NEW r, NEW m, {"mask", "again", "event"} \subseteq DOMAIN r
    PROVE  LET v == [r EXCEPT !.again = m]
           IN  /\ {"mask", "again", "event"} \subseteq DOMAIN v
               /\ v.again = m /\ v.mask = r.mask /\ v.event = r.event
OBVIOUS

\* sbi_hartmask_for_each_hartindex: the next target is one of those left.
LEMMA TargetIn ==
    ASSUME FenceInv, NEW h \in Harts, InFence(h), local[h].mask # {}
    PROVE  Target(h) \in local[h].mask /\ Target(h) \in Harts
<1>1. local[h].mask \in SUBSET Harts
  BY DEF FenceInv, Place
<1>2. local[h].mask \in SUBSET Nat
  BY <1>1, HartAssumption DEF Harts
<1> QED BY <1>1, <1>2, FirstIn DEF Target

\* tlb_update for the hart itself.
LEMMA SelfInv ==
    ASSUME FenceInv, NEW h \in Harts, UpdateSelf(h)
    PROVE  FenceInv'
<1> DEFINE l == local[h]
           v == [l EXCEPT !.mask = l.mask \ {h}]
           x == Flushed(request[h])
<1>1. /\ pc[h] = "send" /\ l.event = "tlb" /\ l.mask # {} /\ Target(h) = h
      /\ UNCHANGED <<pc, state, fifo, tlb_sync, hand, request>>
  BY DEF UpdateSelf, hsmVars
<1>2. local' = [local EXCEPT ![h] = v] /\ need' = [i \in Harts |-> need[i] \ ({h} \X x)]
  BY <1>1 DEF UpdateSelf, Set, Sent, NeedAfter
<1>3. Place(h) /\ InFence(h) /\ \A i \in Harts : InFence(i)' = InFence(i)
  BY <1>1 DEF FenceInv, Place, InFence
<1>4. h \in l.mask
  BY <1>1, <1>3, TargetIn
<1>5. /\ {"mask", "again", "event"} \subseteq DOMAIN v
      /\ v.mask = l.mask \ {h} /\ v.again = l.again /\ v.event = l.event
  BY <1>3, MaskSet DEF Place
<1> HIDE DEF v, x
<1>6. local'[h] = v /\ \A i \in Harts \ {h} : local'[i] = local[i]
  BY <1>2 DEF FenceInv, FenceFunctions, OnHarts
<1>7. \A i \in Harts : Place(i)'
  <2> TAKE i \in Harts
  <2>1. Place(i)
    BY DEF FenceInv
  <2>2. CASE i # h
    BY <1>1, <1>6, <2>1, <2>2 DEF Place, InFence, Target
  <2>3. CASE i = h
    BY <1>1, <1>3, <1>5, <1>6, <2>3 DEF Place, InFence
  <2> QED BY <2>2, <2>3
<1>8. Todo(h)' = Todo(h) \ {h} /\ \A i \in Harts \ {h} : Todo(i)' = Todo(i)
  <2>1. l.mask \cap l.again = {} /\ h \notin l.again
    BY <1>3, <1>4 DEF Place
  <2> QED BY <1>1, <1>5, <1>6, <2>1 DEF Todo, Target
<1>9. \A i, t \in Harts : From(i, t)' = From(i, t) /\ (Owes(t, i)' <=> Owes(t, i))
  BY <1>1 DEF From, Owes
<1>10. FenceFunctions'
  BY <1>1, <1>2 DEF FenceInv, FenceFunctions, OnHarts, InFence
<1>11. NeedUp'
  BY <1>1, <1>2 DEF FenceInv, NeedUp, Reachable
<1>12. \A i, t \in Harts : Once(i, t)'
  <2> TAKE i, t \in Harts
  <2>1. Once(i, t) /\ (t \in Todo(i)' => t \in Todo(i))
    BY <1>8 DEF FenceInv
  <2> QED BY <1>1, <1>3, <1>9, <2>1 DEF Once
<1>13. \A i \in Harts : Counts(i)'
  <2> TAKE i \in Harts
  <2>1. Counts(i) /\ Owing(i)' = Owing(i) /\ Answers(i)' = Answers(i)
    BY <1>1, <1>9 DEF FenceInv, Owing, Answers
  <2> QED BY <1>1, <1>3, <2>1 DEF Counts
<1>14. \A i \in Harts : Needed(i)'
  <2> TAKE i \in Harts
  <2>1. Needed(i) /\ need'[i] = need[i] \ ({h} \X x)
    BY <1>2 DEF FenceInv
  <2>2. ASSUME NEW n \in need'[i]
        PROVE  \E t \in Harts : \E y : n = <<t, y>> /\ Due(i, t, y)'
    <3>1. PICK t \in Harts : \E y : n = <<t, y>> /\ Due(i, t, y)
      BY <2>1, <2>2 DEF Needed
    <3>2. PICK y : n = <<t, y>> /\ Due(i, t, y)
      BY <3>1
    <3>3. ~(t = h /\ y \in x)
      BY <2>1, <2>2, <3>2
    <3>4. t \in Todo(i) => t \in Todo(i)'
      BY <1>8, <3>2, <3>3 DEF Due, x
    <3>5. Due(i, t, y)'
      BY <1>1, <1>9, <3>2, <3>4 DEF Due
    <3> QED BY <3>2, <3>5
  <2> QED BY <1>3, <2>1, <2>2 DEF Needed
<1> QED BY <1>7, <1>10, <1>11, <1>12, <1>13, <1>14 DEF FenceInv

\* The answer is expected.
LEMMA AddInv ==
    ASSUME FenceInv, NEW h \in Harts, UpdateAdd(h)
    PROVE  FenceInv'
<1>1. /\ pc[h] = "add" /\ pc' = [pc EXCEPT ![h] = "post"]
      /\ tlb_sync' = [tlb_sync EXCEPT ![h] = tlb_sync[h] + 1]
      /\ UNCHANGED <<local, state, fifo, hand, request, need>>
  BY DEF UpdateAdd, Set, Goto, hsmVars
<1>2. /\ pc'[h] = "post" /\ \A i \in Harts \ {h} : pc'[i] = pc[i]
      /\ tlb_sync'[h] = tlb_sync[h] + 1 /\ \A i \in Harts \ {h} : tlb_sync'[i] = tlb_sync[i]
  BY <1>1 DEF FenceInv, FenceFunctions, OnHarts
<1>3. /\ InFence(h) /\ \A i \in Harts : InFence(i)' = InFence(i)
      /\ \A i \in Harts : Todo(i)' = Todo(i)
  BY <1>1, <1>2 DEF FenceInv, Place, InFence, Todo, Target
<1>4. \A i, t \in Harts : From(i, t)' = From(i, t) /\ (Owes(t, i)' <=> Owes(t, i))
  BY <1>1 DEF From, Owes
<1>5. FenceFunctions'
  <2>1. tlb_sync' \in [Harts -> Int]
    BY <1>1 DEF FenceInv, FenceFunctions
  <2>2. OnHarts(pc')
    BY <1>1 DEF FenceInv, FenceFunctions, OnHarts
  <2> QED BY <1>1, <1>3, <2>1, <2>2 DEF FenceInv, FenceFunctions
<1>6. NeedUp'
  BY <1>1, <1>2 DEF FenceInv, NeedUp, Reachable
<1>7. \A i \in Harts : Place(i)'
  BY <1>1, <1>2, <1>3 DEF FenceInv, Place, Target
<1>8. \A i, t \in Harts : Once(i, t)'
  BY <1>1, <1>3, <1>4 DEF FenceInv, Once
<1>9. \A i \in Harts : Counts(i)'
  <2> TAKE i \in Harts
  <2>1. Counts(i) /\ Owing(i)' = Owing(i) /\ tlb_sync[i] \in Int
    BY <1>4 DEF FenceInv, FenceFunctions, Owing
  <2>2. Answers(i)' = Answers(i)
    BY <1>1, <1>2, <2>1 DEF Answers
  <2> QED BY <1>2, <1>3, <2>1, <2>2 DEF Counts
<1>10. \A i \in Harts : Needed(i)'
  BY <1>1, <1>3, <1>4 DEF FenceInv, Needed, Due
<1> QED BY <1>5, <1>6, <1>7, <1>8, <1>9, <1>10 DEF FenceInv

\* The loop of tlb_sync ends: nobody owes an answer.
LEMMA SyncDoneInv ==
    ASSUME FenceInv, NEW h \in Harts, SyncDone(h)
    PROVE  FenceInv'
<1>1. /\ pc[h] = "sync" /\ tlb_sync[h] <= 0 /\ pc' = [pc EXCEPT ![h] = "ret"]
      /\ request' = [request EXCEPT ![h] = NoEntry] /\ need' = [need EXCEPT ![h] = {}]
      /\ UNCHANGED <<local, state, fifo, tlb_sync, hand>>
  BY DEF SyncDone, Set, Goto, hsmVars
<1>2. /\ pc'[h] = "ret" /\ \A i \in Harts \ {h} : pc'[i] = pc[i]
      /\ request'[h] = NoEntry /\ \A i \in Harts \ {h} : request'[i] = request[i]
      /\ need'[h] = {} /\ \A i \in Harts \ {h} : need'[i] = need[i]
  BY <1>1 DEF FenceInv, FenceFunctions, OnHarts
<1>3. InFence(h) /\ ~InFence(h)' /\ \A i \in Harts \ {h} : InFence(i)' = InFence(i)
  BY <1>1, <1>2 DEF FenceInv, Place, InFence
<1>4. \A i, t \in Harts : From(i, t)' = From(i, t) /\ (Owes(t, i)' <=> Owes(t, i))
  BY <1>1 DEF From, Owes
<1>5. \A i \in Harts : Owing(i)' = Owing(i)
  BY <1>4 DEF Owing
<1>6. Owing(h) = {} /\ tlb_sync[h] >= 0
  <2>1. IsFiniteSet(Owing(h))
    <3>1. IsFiniteSet(Harts)
      BY HartAssumption, FS_Interval DEF Harts
    <3> QED BY <3>1, FS_Subset DEF Owing
  <2>2. Counts(h) /\ tlb_sync[h] \in Int
    BY DEF FenceInv, FenceFunctions
  <2>3. Answers(h) = tlb_sync[h]
    BY <1>1, <2>2 DEF Answers
  <2>4. Cardinality(Owing(h)) \in Nat /\ tlb_sync[h] >= Cardinality(Owing(h))
    BY <1>3, <2>1, <2>2, <2>3, FS_CardinalityType DEF Counts
  <2>5. Cardinality(Owing(h)) = 0 /\ tlb_sync[h] >= 0
    BY <1>1, <2>2, <2>4
  <2> QED BY <2>1, <2>5, FS_EmptySet
<1>7. NoEntry \in Entries
  BY DEF NoEntry, Entries, Asids
<1>8. FenceFunctions'
  BY <1>1, <1>2, <1>3, <1>7 DEF FenceInv, FenceFunctions, OnHarts
<1>9. NeedUp'
  BY <1>1, <1>2 DEF FenceInv, NeedUp, Reachable
<1>10. \A i \in Harts : Place(i)'
  BY <1>1, <1>2, <1>3 DEF FenceInv, Place, Target
<1>11. \A i \in Harts \ {h} : Todo(i)' = Todo(i)
  BY <1>1, <1>2 DEF Todo, Target
<1>12. \A i, t \in Harts : Once(i, t)'
  BY <1>1, <1>3, <1>4, <1>11 DEF FenceInv, Once
<1>13. \A i \in Harts : Counts(i)'
  <2> TAKE i \in Harts
  <2>1. CASE i = h
    BY <1>1, <1>3, <1>5, <1>6, <2>1 DEF Counts
  <2>2. CASE i # h
    <3>1. Counts(i) /\ Answers(i)' = Answers(i)
      BY <1>1, <1>2, <2>2 DEF FenceInv, Answers
    <3> QED BY <1>1, <1>3, <1>5, <2>2, <3>1 DEF Counts
  <2> QED BY <2>1, <2>2
<1>14. \A i \in Harts : Needed(i)'
  <2> TAKE i \in Harts
  <2>1. CASE i = h
    BY <1>2, <2>1 DEF Needed
  <2>2. CASE i # h
    <3>1. \A t \in Harts : \A x : Due(i, t, x) => Due(i, t, x)'
      BY <1>1, <1>2, <1>4, <1>11, <2>2 DEF Due
    <3>2. Needed(i)
      BY DEF FenceInv
    <3> QED BY <1>2, <1>3, <2>2, <3>1, <3>2 DEF Needed
  <2> QED BY <2>1, <2>2
<1> QED BY <1>8, <1>9, <1>10, <1>12, <1>13, <1>14 DEF FenceInv

\* sbi_tlb_request.
LEMMA RequestInv ==
    ASSUME FenceInv, PageRanges, scenario \in Scenarios, NEW h \in Harts, TlbSupervisor(h)
    PROVE  FenceInv'
<1>1. PICK r \in scenario.fences[h] : RemoteFence(h, r, scenario.targets)
  BY DEF TlbSupervisor
<1>2. r \in Requests /\ Sound(Limited(r))
  BY DEF PageRanges
<1> DEFINE e == [type |-> r.type, asid |-> r.asid, start |-> Limited(r).start,
                 size |-> Limited(r).size, smask |-> {h}]
           m == scenario.targets \cap Interruptible
           v == Sending("tlb", scenario.targets)
           y == Flushed(e)
<1>3. /\ pc[h] = "S" /\ pc' = [pc EXCEPT ![h] = "send"] /\ local' = [local EXCEPT ![h] = v]
      /\ request' = [request EXCEPT ![h] = e] /\ need' = [need EXCEPT ![h] = m \X y]
      /\ UNCHANGED <<state, fifo, tlb_sync, hand>>
  BY <1>1 DEF RemoteFence, Ecall, Set, Goto, hsmVars
<1>4. /\ {"mask", "again", "event"} \subseteq DOMAIN v
      /\ v.mask = m /\ v.again = {} /\ v.event = "tlb" /\ m \in SUBSET Harts
  BY DEF Sending, Local, Interruptible
<1>5. e \in Entries /\ Sound(e) /\ e # NoEntry /\ e.smask = {h}
  <2> DEFINE a == Limited(r).start
             b == Limited(r).size
  <2>1. /\ r.type \in Types /\ r.asid \in Asids /\ a \in Nat /\ b \in Nat /\ Limited(r).type = r.type
    BY <1>2, TlbAssumption DEF Requests, Limited, FLUSH_ALL
  <2>2. e = [type |-> r.type, asid |-> r.asid, start |-> a, size |-> b, smask |-> {h}]
    OBVIOUS
  <2> HIDE DEF e
  <2>3. e.type = r.type /\ e.start = Limited(r).start /\ e.size = Limited(r).size /\ e.smask = {h}
    BY <2>2
  <2> HIDE DEF a, b
  <2>4. e \in Entries
    BY <2>1, <2>2 DEF Entries
  <2>5. Sound(e)
    BY <1>2, <2>1, <2>3 DEF Sound, WholePages
  <2>6. e # NoEntry
    BY <2>1, <2>3 DEF NoEntry, Types
  <2> QED BY <2>3, <2>4, <2>5, <2>6
<1>6. m = {i \in scenario.targets : i \in Harts /\ state[i] \in {"STARTED", "SUSPENDED", "RESUME_PENDING"}}
  BY DEF Interruptible
<1> HIDE DEF e, m, v
<1>7. /\ pc'[h] = "send" /\ local'[h] = v /\ request'[h] = e /\ need'[h] = m \X y
      /\ \A i \in Harts \ {h} : /\ pc'[i] = pc[i] /\ local'[i] = local[i]
                                /\ request'[i] = request[i] /\ need'[i] = need[i]
  BY <1>3 DEF FenceInv, FenceFunctions, OnHarts
<1>8. /\ ~InFence(h) /\ InFence(h)' /\ \A i \in Harts \ {h} : InFence(i)' = InFence(i)
  BY <1>3, <1>5, <1>7 DEF FenceInv, Place, InFence
<1>9. \A i, t \in Harts : From(i, t)' = From(i, t) /\ (Owes(t, i)' <=> Owes(t, i))
  BY <1>3 DEF From, Owes
<1>10. \A i \in Harts : Owing(i)' = Owing(i)
  BY <1>9 DEF Owing
<1>11. Owing(h) = {} /\ tlb_sync[h] >= 0 /\ tlb_sync[h] \in Int
  BY <1>8 DEF FenceInv, FenceFunctions, Counts
<1>12. Todo(h)' = m /\ \A i \in Harts \ {h} : Todo(i)' = Todo(i)
  BY <1>4, <1>7 DEF Todo, Target
<1>13. FenceFunctions'
  BY <1>3, <1>5, <1>7, <1>8 DEF FenceInv, FenceFunctions, OnHarts
<1>14. NeedUp'
  <2>1. \A t \in Harts : Reachable(t) => Reachable(t)'
    BY <1>3, <1>7 DEF Reachable
  <2>2. \A t \in Harts : \A x : <<t, x>> \in need'[h] => Reachable(t)'
    BY <1>3, <1>6, <1>7 DEF Reachable
  <2> QED BY <1>7, <2>1, <2>2 DEF FenceInv, NeedUp
<1>15. \A i \in Harts : Place(i)'
  <2> TAKE i \in Harts
  <2>1. CASE i = h
    BY <1>4, <1>7, <1>8, <2>1 DEF Place
  <2>2. CASE i # h
    BY <1>7, <1>8, <2>2 DEF FenceInv, Place, Target
  <2> QED BY <2>1, <2>2
<1>16. \A i, t \in Harts : Once(i, t)'
  <2> TAKE i, t \in Harts
  <2>1. Once(i, t)
    BY DEF FenceInv
  <2>2. CASE i = h
    <3>1. ~Owes(t, i)
      BY <1>11, <2>2 DEF Owing
    <3> QED BY <1>9, <3>1 DEF Once, Owes
  <2>3. CASE i # h
    BY <1>3, <1>8, <1>9, <1>12, <2>1, <2>3 DEF Once
  <2> QED BY <2>2, <2>3
<1>17. \A i \in Harts : Counts(i)'
  <2> TAKE i \in Harts
  <2>1. CASE i = h
    <3>1. Cardinality(Owing(h)') = 0
      BY <1>10, <1>11, FS_EmptySet
    <3>2. Answers(h)' = tlb_sync[h]
      BY <1>3, <1>7, <1>11 DEF Answers
    <3> QED BY <1>8, <1>11, <2>1, <3>1, <3>2 DEF Counts
  <2>2. CASE i # h
    <3>1. Counts(i) /\ Answers(i)' = Answers(i)
      BY <1>3, <1>7, <2>2 DEF FenceInv, Answers
    <3> QED BY <1>3, <1>8, <1>10, <2>2, <3>1 DEF Counts
  <2> QED BY <2>1, <2>2
<1>18. \A i \in Harts : Needed(i)'
  <2> TAKE i \in Harts
  <2>1. CASE i = h
    <3>1. ASSUME NEW n \in need'[h]
          PROVE  \E t \in Harts : \E x : n = <<t, x>> /\ Due(h, t, x)'
      <4>1. PICK t \in m, x \in y : n = <<t, x>>
        BY <1>7, <3>1
      <4>2. t \in Harts /\ Due(h, t, x)'
        BY <1>4, <1>7, <1>12, <4>1 DEF Due
      <4> QED BY <4>1, <4>2
    <3> QED BY <1>8, <2>1, <3>1 DEF Needed
  <2>2. CASE i # h
    <3>1. \A t \in Harts : \A x : Due(i, t, x) => Due(i, t, x)'
      BY <1>3, <1>7, <1>9, <1>12, <2>2 DEF Due
    <3>2. Needed(i)
      BY DEF FenceInv
    <3> QED BY <1>7, <1>8, <2>2, <3>1, <3>2 DEF Needed
  <2> QED BY <2>1, <2>2
<1> QED BY <1>13, <1>14, <1>15, <1>16, <1>17, <1>18 DEF FenceInv

\* tlb_update: the request is merged with one that waits, or is to be enqueued.
LEMMA InplaceInv ==
    ASSUME FenceInv, NEW h \in Harts, UpdateInplace(h)
    PROVE  FenceInv'
<1> DEFINE t == Target(h)
           f == fifo[t]
           hit == Mergeable(f, request[h])
           i == First(hit)
           c == fifo_entry(f, i)
           e == Merged(c, request[h])
           g == fifo_replace(f, i, e)
<1>1. /\ pc[h] = "send" /\ local[h].event = "tlb" /\ local[h].mask # {} /\ t # h
      /\ UNCHANGED <<local, state, tlb_sync, hand, request, need>>
      /\ \/ hit = {} /\ pc' = [pc EXCEPT ![h] = "enqueue"] /\ UNCHANGED fifo
         \/ /\ hit # {} /\ pc' = [pc EXCEPT ![h] = "add"]
            /\ fifo' = [fifo EXCEPT ![t] = g]
  BY Zenon DEF UpdateInplace, Set, Goto, hsmVars
<1>2. Place(h) /\ InFence(h)
  BY <1>1 DEF FenceInv, Place
<1>3. t \in local[h].mask /\ t \in Harts
  BY <1>1, <1>2, TargetIn
<1>4. CASE hit = {}
  <2>1. pc' = [pc EXCEPT ![h] = "enqueue"] /\ UNCHANGED tlbVars
    BY <1>1, <1>4 DEF tlbVars
  <2>2. pc'[h] = "enqueue" /\ \A j \in Harts \ {h} : pc'[j] = pc[j]
    BY <2>1 DEF FenceInv, FenceFunctions, OnHarts
  <2>3. OnlyMoves(h)
    BY <1>1, <2>1 DEF FenceInv, FenceFunctions, OnHarts, OnlyMoves
  <2>4. Place(h)' /\ Todo(h)' = Todo(h)
    BY <1>1, <1>2, <2>2 DEF Place, Todo, Target, InFence
  <2>5. Still /\ OnHarts(pc') /\ OnHarts(local')
    BY <1>1, <2>2, <2>3, <2>4, StillBut
  <2>6. NeedUp'
    BY <1>1, <2>2 DEF FenceInv, NeedUp, Reachable
  <2> QED BY <2>1, <2>5, <2>6, OutsideInv
<1>5. CASE hit # {}
  <2>1. Kept(f) /\ request[h] \in Entries /\ Sound(request[h]) /\ request[h].smask = {h}
    BY <1>2, <1>3 DEF FenceInv, FenceFunctions
  <2>2. hit \in SUBSET Nat /\ hit \in SUBSET (0..(f.avail - 1))
    BY <2>1 DEF Mergeable, Kept, Buffers
  <2>3. i \in hit
    BY <1>5, <2>2, FirstIn
  <2>4. i \in 0..(f.avail - 1) /\ SameSpace(c, request[h]) /\ (Updates(c, request[h]) \/ Skips(c, request[h]))
    BY <2>3 DEF Mergeable
  <2> HIDE DEF hit, i
  <2>5. c \in Entries /\ Sound(c)
    BY <2>1, <2>4, EntryKept
  <2> HIDE DEF c
  <2>6. /\ e \in Entries /\ Sound(e) /\ e.smask = c.smask \cup {h}
        /\ Flushed(c) \subseteq Flushed(e) /\ Flushed(request[h]) \subseteq Flushed(e)
    BY <2>1, <2>4, <2>5, MergeSound
  <2> HIDE DEF e
  <2>7. Kept(g) /\ \E s \in Slots : c = f.queue[s] /\ g.queue = [f.queue EXCEPT ![s] = e]
    BY <2>1, <2>4, <2>6, ReplaceKept DEF c
  <2>8. PICK s \in Slots : c = f.queue[s] /\ g.queue = [f.queue EXCEPT ![s] = e]
    BY <2>7
  <2> HIDE DEF g
  <2>9. pc' = [pc EXCEPT ![h] = "add"] /\ fifo' = [fifo EXCEPT ![t] = g]
    BY <1>1, <1>5
  <2>10. /\ e.smask = fifo[t].queue[s].smask \cup {h}
         /\ fifo[t].queue[s].smask # {} => Flushed(fifo[t].queue[s]) \subseteq Flushed(e)
    BY <2>6, <2>8
  <2>11. t = Target(h) /\ g.queue = [fifo[t].queue EXCEPT ![s] = e]
    BY <2>8
  <2>12. pc[h] \in {"send", "enqueue"}
    BY <1>1
  <2> HIDE DEF t, f
  <2>13. Puts(h, t, g, s, e)
    BY <1>1, <1>2, <1>3, <2>6, <2>7, <2>9, <2>10, <2>11, <2>12 DEF Puts
  <2> QED BY <1>3, <2>6, <2>13, SentInv
<1> QED BY <1>4, <1>5

\* sbi_fifo_enqueue.
LEMMA EnqueueInv ==
    ASSUME FenceInv, NEW h \in Harts, UpdateEnqueue(h)
    PROVE  FenceInv'
<1> DEFINE t == Target(h)
           f == fifo[t]
           e == request[h]
           g == fifo_put(f, e)
<1>1. /\ pc[h] = "enqueue" /\ ~fifo_is_full(f) /\ pc' = [pc EXCEPT ![h] = "add"]
      /\ fifo' = [fifo EXCEPT ![t] = g]
      /\ UNCHANGED <<local, state, tlb_sync, hand, request, need>>
  BY DEF UpdateEnqueue, Set, Goto, hsmVars
<1>2. InFence(h) /\ local[h].mask # {} /\ t # h
  BY <1>1 DEF FenceInv, Place
<1>3. t \in local[h].mask /\ t \in Harts
  BY <1>2, TargetIn
<1>4. Kept(f) /\ e \in Entries /\ Sound(e) /\ e.smask = {h}
  BY <1>2, <1>3 DEF FenceInv, FenceFunctions
<1>5. Kept(g) /\ \E s \in Slots : f.queue[s] = NoEntry /\ g.queue = [f.queue EXCEPT ![s] = e]
  BY <1>1, <1>4, PutKept
<1>6. PICK s \in Slots : f.queue[s] = NoEntry /\ g.queue = [f.queue EXCEPT ![s] = e]
  BY <1>5
<1> HIDE DEF g
<1>7. /\ e.smask = fifo[t].queue[s].smask \cup {h}
      /\ fifo[t].queue[s].smask # {} => Flushed(fifo[t].queue[s]) \subseteq Flushed(e)
      /\ Flushed(request[h]) \subseteq Flushed(e)
  BY <1>4, <1>6 DEF NoEntry
<1>8. t = Target(h) /\ g.queue = [fifo[t].queue EXCEPT ![s] = e]
  BY <1>6
<1>9. pc[h] \in {"send", "enqueue"}
  BY <1>1
<1> HIDE DEF t, f, e
<1>10. Puts(h, t, g, s, e)
  BY <1>1, <1>2, <1>3, <1>5, <1>7, <1>8, <1>9 DEF Puts
<1> QED BY <1>3, <1>4, <1>10, SentInv

\* The buffer was full.
LEMMA RetryInv ==
    ASSUME FenceInv, NEW h \in Harts, hand[h] = NoEntry, UpdateRetry(h)
    PROVE  FenceInv'
<1> DEFINE l == local[h]
           t == Target(h)
           m == l.mask \ {t}
           a == l.again \cup {t}
           w == [l EXCEPT !.mask = m]
           v == [w EXCEPT !.again = a]
<1>1. /\ pc[h] = "enqueue" /\ pc' = [pc EXCEPT ![h] = "send"] /\ local' = [local EXCEPT ![h] = v]
      /\ UNCHANGED <<state, tlb_sync, request>>
      /\ Take(h) \/ UNCHANGED <<hand, fifo, need>>
  BY DEF UpdateRetry, Set, Goto, hsmVars, Sent
<1>2. Place(h) /\ InFence(h) /\ l.mask # {} /\ t # h /\ InFence(h)' = InFence(h)
  BY <1>1 DEF FenceInv, Place, InFence
<1>3. t \in l.mask /\ t \in Harts
  BY <1>2, TargetIn
<1>4. {"mask", "again", "event"} \subseteq DOMAIN w /\ w.mask = m /\ w.again = l.again /\ w.event = l.event
  BY <1>2, MaskSet DEF Place
<1> HIDE DEF w
<1>5. {"mask", "again", "event"} \subseteq DOMAIN v /\ v.mask = m /\ v.again = a /\ v.event = l.event
  BY <1>4, AgainSet
<1> HIDE DEF v
<1>6. pc'[h] = "send" /\ local'[h] = v /\ OnlyMoves(h)
  BY <1>1 DEF FenceInv, FenceFunctions, OnHarts, OnlyMoves
<1>7. /\ l.mask \in SUBSET Harts /\ l.again \in SUBSET Harts /\ l.mask \cap l.again = {}
      /\ l.event = "tlb"
  BY <1>2, <1>1 DEF Place
<1>8. m \in SUBSET Harts /\ a \in SUBSET Harts /\ m \cap a = {} /\ a \cup m = l.again \cup l.mask
  BY <1>3, <1>7
<1> HIDE DEF m, a
<1>9. Place(h)'
  BY <1>2, <1>5, <1>6, <1>7, <1>8 DEF Place
<1>10. Todo(h)' = Todo(h)
  BY <1>1, <1>5, <1>6, <1>8 DEF Todo
<1>11. Still /\ OnHarts(pc') /\ OnHarts(local')
  BY <1>1, <1>6, <1>9, <1>10, StillBut
<1>12. \A u \in Harts : Reachable(u) => Reachable(u)'
  BY <1>1 DEF Reachable, FenceInv, FenceFunctions, OnHarts
<1>13. CASE Take(h)
  BY <1>1, <1>11, <1>12, <1>13, TakeInv
<1>14. CASE UNCHANGED <<hand, fifo, need>>
  <2>1. UNCHANGED tlbVars
    BY <1>1, <1>14 DEF tlbVars
  <2>2. NeedUp'
    BY <1>12, <1>14 DEF NeedUp, FenceInv
  <2> QED BY <1>11, <2>1, <2>2, OutsideInv
<1> QED BY <1>1, <1>13, <1>14

\* The other rounds.
LEMMA RoundInv ==
    ASSUME FenceInv, NEW h \in Harts, hand[h] = NoEntry, SyncTake(h) \/ ProcessTake(h)
    PROVE  FenceInv'
<1>1. Take(h) /\ UNCHANGED <<pc, local, state, tlb_sync, request>>
  BY DEF SyncTake, ProcessTake, hartVars, hsmVars
<1>2. \A i \in Harts : Place(i)' /\ Todo(i)' = Todo(i) /\ (Reachable(i) => Reachable(i)')
  BY <1>1 DEF FenceInv, Place, Todo, Target, InFence, Reachable
<1>3. OnHarts(pc') /\ OnHarts(local')
  BY <1>1 DEF FenceInv, FenceFunctions, OnHarts
<1>4. Still
  BY <1>1, <1>2 DEF Still
<1> QED BY <1>1, <1>2, <1>3, <1>4, TakeInv

-----------------------------
\* A hart at label l with the locals r is not in a fence.
Aside(l, r) ==
    /\ {"mask", "again", "event"} \subseteq DOMAIN r
    /\ l \notin {"enqueue", "add", "post", "sync"}
    /\ l \in {"send", "raw"} => r.event # "tlb"
    /\ l = "sse_self" => r.event = "sse"

\* A step of a hart that is in no fence.
LEMMA AwayInv ==
    ASSUME FenceInv, NEW h \in Harts, Aside(pc[h], local[h]), OnlyMoves(h), UNCHANGED tlbVars,
           Aside(pc'[h], local'[h]), \A t \in Harts : Reachable(t) => Reachable(t)'
    PROVE  FenceInv'
<1>1. UNCHANGED <<request, need>> /\ ~InFence(h) /\ InFence(h)' = InFence(h)
  BY DEF tlbVars, InFence, FenceInv, Place, Aside
<1>2. Place(h)'
  BY <1>1 DEF Place, Aside
<1>3. Still /\ OnHarts(pc') /\ OnHarts(local')
  BY <1>1, <1>2, StillBut
<1>4. NeedUp'
  BY <1>1 DEF FenceInv, NeedUp
<1> QED BY <1>3, <1>4, OutsideInv

\* The steps of the harts that are of this kind and keep their locals.
LEMMA MachineAway ==
    ASSUME FenceInv, HangFunctions, NEW h \in Harts, UNCHANGED tlbVars,
           \/ SbiInit(h) \/ WakeColdbootHarts(h) \/ InitWarmboot(h) \/ HartWait(h) \/ Wfi(h)
           \/ StartFinish(h) \/ Launch(h) \/ StartCas(h) \/ StartRefused(h) \/ StartIpi(h)
           \/ StartRelease(h) \/ HsmExit(h) \/ HsmStopped(h) \/ HartStop(h)
           \/ SuspendCas(h) \/ SuspendReturn(h) \/ ResumeStart(h) \/ ResumeFinish(h)
           \/ TakeIpi(h) \/ IpiClear(h) \/ IpiDone(h) \/ ClearSmode(h)
           \/ ResetStop(h) \/ SystemSuspendCas(h) \/ SystemSuspendNext(h)
           \/ IpiInit(h)
    PROVE  FenceInv'
<1>1. /\ {"mask", "again", "event"} \subseteq DOMAIN local[h]
      /\ OnHarts(pc) /\ OnHarts(local) /\ OnHarts(state)
  BY DEF FenceInv, FenceFunctions, Place, HangFunctions
<1> USE <1>1 DEF OnHarts, OnlyMoves, Set, Goto, hsmVars, Aside, Reachable, ChangeState
<1>2. CASE SbiInit(h)
  BY <1>2, AwayInv DEF SbiInit
<1>3. CASE WakeColdbootHarts(h)
  BY <1>3, AwayInv DEF WakeColdbootHarts
<1>4. CASE InitWarmboot(h)
  BY <1>4, AwayInv DEF InitWarmboot
<1>5. CASE HartWait(h)
  BY <1>5, AwayInv DEF HartWait
<1>6. CASE Wfi(h)
  BY <1>6, AwayInv DEF Wfi
<1>7. CASE StartFinish(h)
  BY <1>7, AwayInv DEF StartFinish
<1>8. CASE Launch(h)
  BY <1>8, AwayInv DEF Launch
<1>9. CASE StartCas(h)
  <2>1. /\ pc[h] = "st_cas" /\ UNCHANGED local
        /\ \E l \in {"st_kick", "st_rel"} : pc' = [pc EXCEPT ![h] = l]
        /\ \A t \in Harts : state'[t] = state[t] \/ state[t] = "STOPPED"
    BY <1>9 DEF StartCas
  <2>2. QED BY <2>1, AwayInv
<1>10. CASE StartRefused(h)
  <2>1. /\ pc[h] = "st_kick" /\ UNCHANGED local /\ pc' = [pc EXCEPT ![h] = "st_rel"]
        /\ \A t \in Harts : state'[t] = state[t] \/ state[t] = "START_PENDING"
    BY <1>10 DEF StartRefused
  <2>2. QED BY <2>1, AwayInv
<1>11. CASE StartIpi(h)
  BY <1>11, AwayInv DEF StartIpi
<1>12. CASE StartRelease(h)
  BY <1>12, AwayInv DEF StartRelease
<1>13. CASE HsmExit(h)
  BY <1>13, AwayInv DEF HsmExit
<1>14. CASE HsmStopped(h)
  BY <1>14, AwayInv DEF HsmStopped
<1>15. CASE HartStop(h)
  BY <1>15, AwayInv DEF HartStop, Ecall
<1>16. CASE SuspendCas(h)
  BY <1>16, AwayInv DEF SuspendCas
<1>17. CASE SuspendReturn(h)
  BY <1>17, AwayInv DEF SuspendReturn
<1>18. CASE ResumeStart(h)
  BY <1>18, AwayInv DEF ResumeStart
<1>19. CASE ResumeFinish(h)
  BY <1>19, AwayInv DEF ResumeFinish
<1>20. CASE TakeIpi(h)
  BY <1>20, AwayInv DEF TakeIpi
<1>21. CASE IpiClear(h)
  BY <1>21, AwayInv DEF IpiClear
<1>22. CASE IpiDone(h)
  BY <1>22, AwayInv DEF IpiDone
<1>23. CASE ClearSmode(h)
  BY <1>23, AwayInv DEF ClearSmode
<1>24. CASE ResetStop(h)
  BY <1>24, AwayInv DEF ResetStop
<1>25. CASE SystemSuspendCas(h)
  BY <1>25, AwayInv DEF SystemSuspendCas
<1>26. CASE SystemSuspendNext(h)
  BY <1>26, AwayInv DEF SystemSuspendNext
<1>27. CASE IpiInit(h)
  BY <1>27, AwayInv DEF IpiInit
<1> QED BY <1>2, <1>3, <1>4, <1>5, <1>6, <1>7, <1>8, <1>9, <1>10, <1>11, <1>12, <1>13, <1>14,
           <1>15, <1>16, <1>17, <1>18, <1>19, <1>20, <1>21, <1>22, <1>23, <1>24, <1>25, <1>26,
           <1>27

\* Those that write them.
Common(r) == {"mask", "again", "event"} \subseteq DOMAIN r

\* They keep the locals of sbi_ipi_send_many.
LEMMA LocalsCommon ==
    ASSUME NEW r, Common(r), NEW x, NEW y
    PROVE  /\ Common(Local)
           /\ Common([r EXCEPT !.todo = x]) /\ [r EXCEPT !.todo = x].event = r.event
           /\ Common([r EXCEPT !.off = x, !.new = y])
           /\ Common([r EXCEPT !.sse = x, !.was = y]) /\ [r EXCEPT !.sse = x, !.was = y].event = r.event
           /\ Common([Local EXCEPT !.to = x, !.addr = y])
           /\ Common([Local EXCEPT !.to = x, !.sse = y])
           /\ Common([Local EXCEPT !.ret = x]) /\ Common([Local EXCEPT !.addr = x])
           /\ Common([Local EXCEPT !.sse = x]) /\ Common([Local EXCEPT !.todo = x])
           /\ Common([Local EXCEPT !.event = x, !.mask = y])
           /\ [Local EXCEPT !.event = x, !.mask = y].event = x
BY DEF Common, Local

\* Hart h goes on at l with the locals v.
LEMMA WriteAway ==
    ASSUME FenceInv, NEW h \in Harts, Aside(pc[h], local[h]), UNCHANGED tlbVars, NEW l, NEW v,
           pc' = [pc EXCEPT ![h] = l], local' = [local EXCEPT ![h] = v], Aside(l, v),
           pc[h] # "exit", UNCHANGED state
    PROVE  FenceInv'
<1>1. OnHarts(pc) /\ OnHarts(local)
  BY DEF FenceInv, FenceFunctions
<1>2. pc'[h] = l /\ local'[h] = v /\ OnlyMoves(h)
  BY <1>1 DEF OnHarts, OnlyMoves
<1>3. \A t \in Harts : Reachable(t) => Reachable(t)'
  BY <1>1, <1>2 DEF Reachable, OnHarts
<1> QED BY <1>2, <1>3, AwayInv

\* The calls of the supervisor.
LEMMA CallsAway ==
    ASSUME FenceInv, HangFunctions, NEW h \in Harts, UNCHANGED tlbVars,
           \/ \E t \in scenario.targets, a \in Addrs(h) : HartStart(h, t, a)
           \/ \E ret \in BOOLEAN, a \in Addrs(h) : HartSuspend(h, ret, a)
           \/ \E a \in Addrs(h) : SystemSuspend(h, a)
           \/ SendSmode(h, scenario.targets) \/ SystemReset(h)
    PROVE  FenceInv'
<1>1. OnHarts(state) /\ OnHarts(pc) /\ OnHarts(local) /\ Common(local[h])
  BY DEF HangFunctions, FenceInv, FenceFunctions, Place, Common
<1>2. pc[h] = "S" /\ UNCHANGED state
  BY Zenon DEF HartStart, HartSuspend, SystemSuspend, SendSmode, SystemReset, Ecall, hsmVars
<1>3. \E l \in {"ret", "st_write", "su_cas", "ss_cas", "send"} : \E v :
         /\ pc' = [pc EXCEPT ![h] = l] /\ local' = [local EXCEPT ![h] = v]
         /\ Common(v) /\ (l = "send" => v.event # "tlb")
  <2>1. CASE \E t \in scenario.targets, a \in Addrs(h) : HartStart(h, t, a)
    <3>1. PICK t \in scenario.targets, a \in Addrs(h) : HartStart(h, t, a)
      BY <2>1
    <3> DEFINE v == [Local EXCEPT !.to = t, !.addr = a]
    <3>2. Common(v)
      BY Zenon, <1>1, LocalsCommon
    <3>3. local' = [local EXCEPT ![h] = v] /\ pc' = [pc EXCEPT ![h] = IF ticket[t] THEN "ret" ELSE "st_write"]
      BY Zenon, <3>1 DEF HartStart, Set, Goto
    <3> HIDE DEF v
    <3> QED BY Zenon, <3>2, <3>3
  <2>2. CASE \E ret \in BOOLEAN, a \in Addrs(h) : HartSuspend(h, ret, a)
    <3>1. PICK ret \in BOOLEAN, a \in Addrs(h) : HartSuspend(h, ret, a)
      BY <2>2
    <3> DEFINE v == [Local EXCEPT !.ret = ret]
    <3>2. Common(v)
      BY Zenon, <1>1, LocalsCommon
    <3>3. local' = [local EXCEPT ![h] = v] /\ pc' = [pc EXCEPT ![h] = "su_cas"]
      BY <3>1 DEF HartSuspend, Set, Goto
    <3> HIDE DEF v
    <3> QED BY Zenon, <3>2, <3>3
  <2>3. CASE \E a \in Addrs(h) : SystemSuspend(h, a)
    <3>1. PICK a \in Addrs(h) : SystemSuspend(h, a)
      BY <2>3
    <3> DEFINE v == [Local EXCEPT !.addr = a]
               b == \A i \in Harts \ {h} : state[i] = "STOPPED"
    <3>2. Common(v)
      BY Zenon, <1>1, LocalsCommon
    <3>3. local' = [local EXCEPT ![h] = v] /\ pc' = [pc EXCEPT ![h] = IF b THEN "ss_cas" ELSE "ret"]
      BY <3>1 DEF SystemSuspend, Set, Goto
    <3> HIDE DEF v, b
    <3> QED BY Zenon, <3>2, <3>3
  <2>4. CASE SendSmode(h, scenario.targets) \/ SystemReset(h)
    <3>0. PICK e \in {"smode", "halt"} :
             \E m : local' = [local EXCEPT ![h] = [Local EXCEPT !.event = e, !.mask = m]]
      BY Zenon, <2>4 DEF SendSmode, SystemReset, Sending, Set
    <3>1. PICK m : local' = [local EXCEPT ![h] = [Local EXCEPT !.event = e, !.mask = m]]
      BY Zenon, <3>0
    <3> DEFINE v == [Local EXCEPT !.event = e, !.mask = m]
    <3>2. Common(v) /\ v.event = e
      BY Zenon, <1>1, LocalsCommon
    <3>3. local' = [local EXCEPT ![h] = v] /\ pc' = [pc EXCEPT ![h] = "send"]
      BY <2>4, <3>1 DEF SendSmode, SystemReset, Goto, Set
    <3> HIDE DEF v
    <3> QED BY <3>2, <3>3
  <2> QED BY <2>1, <2>2, <2>3, <2>4
<1>4. PICK l \in {"ret", "st_write", "su_cas", "ss_cas", "send"} :
         \E v : /\ pc' = [pc EXCEPT ![h] = l] /\ local' = [local EXCEPT ![h] = v]
                /\ Common(v) /\ (l = "send" => v.event # "tlb")
  BY <1>3
<1>5. PICK v : /\ pc' = [pc EXCEPT ![h] = l] /\ local' = [local EXCEPT ![h] = v]
               /\ Common(v) /\ (l = "send" => v.event # "tlb")
  BY <1>4
<1>6. Aside(pc[h], local[h]) /\ Aside(l, v)
  BY <1>1, <1>2, <1>5 DEF Aside, Common
<1> QED BY <1>1, <1>2, <1>5, <1>6, WriteAway

\* The other steps that write the locals.
LEMMA LocalAway ==
    ASSUME FenceInv, HangFunctions, NEW h \in Harts, UNCHANGED tlbVars,
           \/ StartWrite(h) \/ SuspendWarm(h) \/ TrapReturn(h) \/ IpiXchg(h)
           \/ ProcessSmode(h) \/ ProcessHalt(h) \/ ProcessTlbDone(h) \/ SendSelf(h)
    PROVE  FenceInv'
<1>1. OnHarts(state) /\ OnHarts(pc) /\ OnHarts(local) /\ Common(local[h])
  BY DEF HangFunctions, FenceInv, FenceFunctions, Place, Common
<1>2. Common(Local)
  BY Zenon, <1>1, LocalsCommon
<1>3. CASE StartWrite(h)
  <2> DEFINE t == local[h].to
             x == entered[t] = inited[t]
             y == inited[t] = 0
             v == [local[h] EXCEPT !.off = x, !.new = y]
  <2>1. /\ pc[h] = "st_write" /\ pc' = [pc EXCEPT ![h] = "st_cas"] /\ UNCHANGED state
        /\ local' = [local EXCEPT ![h] = v]
    BY <1>3 DEF StartWrite, Set, Goto
  <2> HIDE DEF x, y
  <2>2. Common(v)
    BY Zenon, <1>1, LocalsCommon
  <2> HIDE DEF v
  <2>3. Aside(pc[h], local[h]) /\ Aside("st_cas", v)
    BY <1>1, <2>1, <2>2 DEF Aside, Common
  <2> QED BY Zenon, <1>1, <2>1, <2>3, WriteAway
<1>4. CASE SuspendWarm(h) \/ TrapReturn(h)
  <2>1. PICK l \in {"warm", "S"} :
          /\ pc[h] \in {"asleep", "ret"} /\ pc' = [pc EXCEPT ![h] = l] /\ UNCHANGED state
          /\ local' = [local EXCEPT ![h] = Local]
    BY <1>4 DEF SuspendWarm, TrapReturn, Set, Goto, hsmVars
  <2>2. Aside(pc[h], local[h]) /\ Aside(l, Local)
    BY <1>1, <1>2, <2>1 DEF Aside, Common
  <2> QED BY <1>1, <2>1, <2>2, WriteAway
<1>5. CASE IpiXchg(h)
  <2> DEFINE v == [Local EXCEPT !.todo = ipi_type[h]]
  <2>1. /\ pc[h] = "xchg" /\ pc' = [pc EXCEPT ![h] = "process"] /\ UNCHANGED state
        /\ local' = [local EXCEPT ![h] = v]
    BY <1>5 DEF IpiXchg, Set, Goto, hsmVars
  <2>2. Common(v)
    BY Zenon, <1>1, LocalsCommon
  <2> HIDE DEF v
  <2>3. Aside(pc[h], local[h]) /\ Aside("process", v)
    BY <1>1, <2>1, <2>2 DEF Aside, Common
  <2> QED BY Zenon, <1>1, <2>1, <2>3, WriteAway
<1>6. CASE ProcessSmode(h) \/ ProcessTlbDone(h)
  <2>1. PICK e : local' = [local EXCEPT ![h] = Processed(h, e)]
    BY <1>6 DEF ProcessSmode, ProcessTlbDone, Set
  <2> DEFINE v == Processed(h, e)
  <2>2. pc[h] = "process" /\ pc' = [pc EXCEPT ![h] = "process"] /\ UNCHANGED state
    BY Zenon, <1>1, <1>6 DEF ProcessSmode, ProcessTlbDone, Processing, OnHarts, hsmVars
  <2>3. Common(v)
    BY Zenon, <1>1, LocalsCommon DEF Processed
  <2> HIDE DEF v
  <2>4. local' = [local EXCEPT ![h] = v]
    BY <2>1 DEF v
  <2>5. Aside(pc[h], local[h]) /\ Aside("process", v)
    BY <1>1, <2>2, <2>3 DEF Aside, Common
  <2> QED BY <1>1, <2>2, <2>4, <2>5, WriteAway
<1>7. CASE ProcessHalt(h)
  <2> DEFINE v == IF state[h] = "STARTED" THEN Local ELSE Processed(h, "halt")
  <2>1. /\ pc[h] = "process" /\ local' = [local EXCEPT ![h] = v]
        /\ \/ /\ state' = [state EXCEPT ![h] = "STOP_PENDING"] /\ pc' = [pc EXCEPT ![h] = "exit"]
           \/ UNCHANGED state /\ pc' = [pc EXCEPT ![h] = "process"]
    BY <1>7 DEF ProcessHalt, Processing, ChangeState, Set, Goto
  <2>2. Common(v)
    BY Zenon, <1>1, LocalsCommon DEF Processed
  <2> HIDE DEF v
  <2>3. Aside(pc[h], local[h]) /\ Aside("process", v) /\ Aside("exit", v)
    BY <1>1, <2>1, <2>2 DEF Aside, Common
  <2>4. CASE state' = [state EXCEPT ![h] = "STOP_PENDING"] /\ pc' = [pc EXCEPT ![h] = "exit"]
    <3>1. pc'[h] = "exit" /\ local'[h] = v /\ OnlyMoves(h)
      BY <1>1, <2>1, <2>4 DEF OnHarts, OnlyMoves
    <3>2. \A t \in Harts : Reachable(t) => Reachable(t)'
      BY <1>1, <2>4, <3>1 DEF Reachable, OnHarts
    <3> QED BY <2>3, <3>1, <3>2, AwayInv
  <2>5. CASE UNCHANGED state /\ pc' = [pc EXCEPT ![h] = "process"]
    BY <1>1, <2>1, <2>3, <2>5, WriteAway
  <2> QED BY <2>1, <2>4, <2>5
<1>8. CASE SendSelf(h)
  <2> DEFINE v == Sent(h)
  <2>1. /\ pc[h] = "send" /\ pc' = [pc EXCEPT ![h] = "send"] /\ UNCHANGED state
        /\ local' = [local EXCEPT ![h] = v] /\ local[h].event # "tlb"
    BY <1>1, <1>8 DEF SendSelf, Set, OnHarts, hsmVars
  <2>2. Common(v) /\ v.event = local[h].event
    BY <1>1, MaskSet DEF Sent, Common
  <2> HIDE DEF v
  <2>3. Aside(pc[h], local[h]) /\ Aside("send", v)
    BY <1>1, <2>1, <2>2 DEF Aside, Common
  <2> QED BY <1>1, <2>1, <2>3, WriteAway
<1> QED BY <1>3, <1>4, <1>5, <1>6, <1>7, <1>8

\* sbi_ipi_send_many, for a fence and for the other events.
LEMMA SendInv ==
    ASSUME FenceInv, HangFunctions, NEW h \in Harts, UNCHANGED tlbVars,
           PostEvent(h) \/ RawSend(h) \/ SendRetry(h) \/ SendDone(h)
    PROVE  FenceInv'
<1> DEFINE l == local[h]
           v == local'[h]
           k == pc'[h]
<1>1. OnHarts(state) /\ OnHarts(pc) /\ OnHarts(local) /\ Common(l) /\ Place(h)
  BY DEF HangFunctions, FenceInv, FenceFunctions, Place, Common
<1>2. /\ UNCHANGED state /\ pc' = [pc EXCEPT ![h] = k] /\ local' = [local EXCEPT ![h] = v]
      /\ Common(v) /\ v.event = l.event /\ pc[h] \in {"send", "post", "raw"}
      /\ \/ /\ v.mask = l.mask \ {Target(h)} /\ v.again = l.again /\ k = "send"
            /\ pc[h] \in {"post", "raw"} \/ l.event # "tlb"
         \/ v = l /\ k = "raw" /\ (pc[h] = "post" \/ l.event # "tlb")
         \/ v.mask = l.again /\ v.again = {} /\ l.mask = {} /\ k = "send" /\ pc[h] = "send"
         \/ /\ v = l /\ l.mask = {} /\ l.again = {} /\ pc[h] = "send"
            /\ IF l.event = "tlb" THEN k = "sync" ELSE k \in {"rs_stop", "sse_sent", "ret"}
  <2>1. CASE RawSend(h) \/ (PostEvent(h) /\ ipi_type[Target(h)] # {})
    <3> DEFINE w == Sent(h)
    <3>1. /\ pc[h] \in {"post", "raw"} \/ (pc[h] = "send" /\ l.event # "tlb")
          /\ UNCHANGED state /\ pc' = [pc EXCEPT ![h] = "send"] /\ local' = [local EXCEPT ![h] = w]
      BY <2>1 DEF RawSend, PostEvent, Set, Goto, hsmVars
    <3>2. Common(w) /\ w.event = l.event /\ w.mask = l.mask \ {Target(h)} /\ w.again = l.again
      BY <1>1, MaskSet DEF Sent, Common
    <3> HIDE DEF w
    <3>3. v = w /\ k = "send"
      BY <1>1, <3>1 DEF OnHarts
    <3> HIDE DEF v, k
    <3> QED BY <3>1, <3>2, <3>3
  <2>2. CASE PostEvent(h) /\ ipi_type[Target(h)] = {}
    <3>1. /\ pc[h] = "post" \/ (pc[h] = "send" /\ l.event # "tlb")
          /\ UNCHANGED state /\ pc' = [pc EXCEPT ![h] = "raw"] /\ UNCHANGED local
      BY <2>2 DEF PostEvent, Set, Goto, hsmVars
    <3>2. v = l /\ k = "raw" /\ local' = [local EXCEPT ![h] = v]
      BY <1>1, <3>1 DEF OnHarts
    <3> HIDE DEF v, k
    <3> QED BY <1>1, <3>1, <3>2
  <2>3. CASE SendRetry(h)
    <3> DEFINE x == [l EXCEPT !.mask = l.again]
               w == [x EXCEPT !.again = {}]
    <3>1. /\ pc[h] = "send" /\ l.mask = {} /\ UNCHANGED <<state, pc>>
          /\ local' = [local EXCEPT ![h] = w]
      BY <2>3 DEF SendRetry, Set, hsmVars
    <3>2. Common(x) /\ x.event = l.event /\ x.mask = l.again
      BY <1>1, MaskSet DEF Common
    <3> HIDE DEF x
    <3>3. Common(w) /\ w.event = l.event /\ w.mask = l.again /\ w.again = {}
      BY <3>2, AgainSet DEF Common
    <3> HIDE DEF w
    <3>4. v = w /\ k = "send" /\ pc' = [pc EXCEPT ![h] = k]
      BY <1>1, <3>1 DEF OnHarts
    <3> HIDE DEF v, k
    <3> QED BY <3>1, <3>3, <3>4
  <2>4. CASE SendDone(h)
    <3> DEFINE m == CASE l.event = "halt" -> "rs_stop"
                      [] l.event = "tlb"  -> "sync"
                      [] l.event = "sse"  -> "sse_sent"
                      [] OTHER            -> "ret"
    <3>1. /\ pc[h] = "send" /\ l.mask = {} /\ l.again = {} /\ UNCHANGED <<state, local>>
          /\ pc' = [pc EXCEPT ![h] = m]
      BY <2>4 DEF SendDone, Set, Goto, hsmVars
    <3>2. IF l.event = "tlb" THEN m = "sync" ELSE m \in {"rs_stop", "sse_sent", "ret"}
      OBVIOUS
    <3> HIDE DEF m
    <3>3. v = l /\ k = m /\ local' = [local EXCEPT ![h] = v]
      BY <1>1, <3>1 DEF OnHarts
    <3> HIDE DEF v, k
    <3> QED BY <1>1, <3>1, <3>2, <3>3
  <2> QED BY <2>1, <2>2, <2>3, <2>4
<1>3. CASE l.event # "tlb"
  <2>1. Aside(pc[h], l) /\ Aside(k, v)
    BY <1>1, <1>2, <1>3 DEF Aside, Common, Place
  <2> HIDE DEF v, k
  <2> QED BY <1>1, <1>2, <2>1, WriteAway
<1>4. CASE l.event = "tlb"
  <2>1. InFence(h) /\ UNCHANGED <<request, need>> /\ InFence(h)' = InFence(h)
    BY <1>1, <1>2, <1>4 DEF Place, tlbVars, InFence
  <2>2. /\ l.mask \in SUBSET Harts /\ l.again \in SUBSET Harts /\ l.mask \cap l.again = {}
        /\ pc[h] \in {"post", "raw"} => l.mask # {} /\ Target(h) # h
    BY <1>1, <2>1 DEF Place
  <2>3. v = l => Target(h)' = Target(h)
    BY DEF Target
  <2>4. Place(h)'
    BY <1>2, <1>4, <2>1, <2>2, <2>3 DEF Place, Common
  <2>5. Todo(h)' = Todo(h)
    BY <1>2, <1>4, <2>3 DEF Todo
  <2>6. OnlyMoves(h)
    BY <1>1, <1>2 DEF OnHarts, OnlyMoves
  <2>7. pc'[h] # "add" /\ pc[h] # "add"
    BY <1>2, <1>4
  <2>8. Still /\ OnHarts(pc') /\ OnHarts(local')
    BY <2>1, <2>4, <2>5, <2>6, <2>7, StillBut
  <2>9. NeedUp'
    BY <1>1, <1>2, <2>1 DEF FenceInv, NeedUp, Reachable, OnHarts
  <2> QED BY <2>8, <2>9, OutsideInv
<1> QED BY <1>3, <1>4

\* The software events.
LEMMA SseAway ==
    ASSUME FenceInv, HangFunctions, NEW h \in Harts, UNCHANGED tlbVars, SseMachine(h)
    PROVE  FenceInv'
<1>1. OnHarts(state) /\ OnHarts(pc) /\ OnHarts(local) /\ Common(local[h]) /\ Place(h)
  BY DEF HangFunctions, FenceInv, FenceFunctions, Place, Common
<1>2. ASSUME UNCHANGED <<state, local>>, NEW l, pc' = [pc EXCEPT ![h] = l],
             Aside(pc[h], local[h]), pc[h] # "exit", Aside(l, local[h])
      PROVE  FenceInv'
  <2>1. local' = [local EXCEPT ![h] = local[h]]
    BY <1>1, <1>2 DEF OnHarts
  <2> QED BY <1>2, <2>1, WriteAway
<1>3. CASE SseSent(h)
  <2>1. pc[h] = "sse_sent" /\ pc' = [pc EXCEPT ![h] = "ret"] /\ UNCHANGED <<state, local>>
    BY <1>3 DEF SseSent, Set, Goto, hsmVars
  <2>2. Aside(pc[h], local[h]) /\ Aside("ret", local[h])
    BY <1>1, <2>1 DEF Aside, Common
  <2> QED BY <1>2, <2>1, <2>2
<1>4. CASE SseResume(h)
  <2>1. pc[h] = "sse_resume" /\ pc' = [pc EXCEPT ![h] = "ret"] /\ UNCHANGED <<state, local>>
    BY <1>4 DEF SseResume, Set, Goto, hsmVars
  <2>2. Aside(pc[h], local[h]) /\ Aside("ret", local[h])
    BY <1>1, <2>1 DEF Aside, Common
  <2> QED BY <1>2, <2>1, <2>2
<1>5. CASE InjectSend(h)
  <2> DEFINE t == local[h].to
             m == {t} \cap Interruptible
             v == [Local EXCEPT !.event = "sse", !.mask = m]
  <2>1. /\ pc[h] = "sse_put" /\ UNCHANGED state
        /\ \/ pc' = [pc EXCEPT ![h] = "ret"] /\ UNCHANGED local
           \/ pc' = [pc EXCEPT ![h] = "send"] /\ local' = [local EXCEPT ![h] = v]
    BY <1>5, Zenon DEF InjectSend, Set, Goto, hsmVars, Sending
  <2> HIDE DEF m
  <2>2. Common(v) /\ v.event = "sse"
    BY Zenon, <1>1, LocalsCommon
  <2> HIDE DEF v
  <2>3. Aside(pc[h], local[h]) /\ Aside("ret", local[h]) /\ Aside("send", v)
    BY <1>1, <2>1, <2>2 DEF Aside, Common
  <2>4. CASE pc' = [pc EXCEPT ![h] = "ret"] /\ UNCHANGED local
    BY <1>2, <2>1, <2>3, <2>4
  <2>5. CASE pc' = [pc EXCEPT ![h] = "send"] /\ local' = [local EXCEPT ![h] = v]
    BY <2>1, <2>3, <2>5, WriteAway
  <2> QED BY <2>1, <2>4, <2>5
<1>6. CASE InjectSelf(h)
  <2>1. /\ pc[h] = "send" /\ local[h].event = "sse" /\ UNCHANGED <<state, local>>
        /\ pc' = [pc EXCEPT ![h] = "sse_self"]
    BY <1>6 DEF InjectSelf, Set, Goto, hsmVars
  <2>2. Aside(pc[h], local[h]) /\ Aside("sse_self", local[h])
    BY <1>1, <2>1 DEF Aside, Common
  <2> QED BY <1>2, <2>1, <2>2
<1>7. CASE InjectTake(h)
  <2> DEFINE e == sse_event_get(fifo_oldest(inject_fifo[h]), h)
             s == event[e].state
             v == [local[h] EXCEPT !.sse = e, !.was = s]
  <2>1. /\ pc[h] \in {"process", "sse_self"} /\ UNCHANGED state
        /\ \/ UNCHANGED <<pc, local>>
           \/ pc' = [pc EXCEPT ![h] = "sse_pend"] /\ local' = [local EXCEPT ![h] = v]
    <3>1. pc[h] \in {"process", "sse_self"} /\ UNCHANGED state
      BY <1>7 DEF InjectTake, Injecting, Processing, hsmVars
    <3>2. \/ UNCHANGED <<pc, local>>
          \/ pc' = [pc EXCEPT ![h] = "sse_pend"] /\ local' = [local EXCEPT ![h] = v]
      BY <1>7, Zenon DEF InjectTake, Set, Goto
    <3> QED BY <3>1, <3>2
  <2> HIDE DEF e, s
  <2>2. Common(v)
    BY Zenon, <1>1, LocalsCommon
  <2> HIDE DEF v
  <2>3. Aside(pc[h], local[h]) /\ Aside("sse_pend", v)
    BY <1>1, <2>1, <2>2 DEF Aside, Common, Place
  <2>4. CASE UNCHANGED <<pc, local>>
    <3>1. pc' = [pc EXCEPT ![h] = pc[h]] /\ UNCHANGED local
      BY <1>1, <2>4 DEF OnHarts
    <3> QED BY <1>2, <2>1, <2>3, <3>1
  <2>5. CASE pc' = [pc EXCEPT ![h] = "sse_pend"] /\ local' = [local EXCEPT ![h] = v]
    BY <2>1, <2>3, <2>5, WriteAway
  <2> QED BY <2>1, <2>4, <2>5
<1>8. CASE InjectPend(h)
  <2> DEFINE l == IF local[h].event = "sse" THEN "sse_self" ELSE "process"
  <2>1. pc[h] = "sse_pend" /\ pc' = [pc EXCEPT ![h] = l] /\ UNCHANGED <<state, local>>
    BY <1>8 DEF InjectPend, Set, Goto, hsmVars
  <2>2. Aside(pc[h], local[h]) /\ Aside(l, local[h])
    BY <1>1, <2>1 DEF Aside, Common
  <2> HIDE DEF l
  <2> QED BY <1>2, <2>1, <2>2
<1>9. CASE InjectDone(h)
  <2>1. CASE pc[h] = "sse_self"
    <3> DEFINE v == Sent(h)
    <3>1. /\ pc' = [pc EXCEPT ![h] = "send"] /\ UNCHANGED state
          /\ local' = [local EXCEPT ![h] = v] /\ local[h].event = "sse"
      BY <1>1, <1>9, <2>1 DEF InjectDone, Set, Goto, hsmVars, Place
    <3>2. Common(v) /\ v.event = local[h].event
      BY <1>1, MaskSet DEF Sent, Common
    <3> HIDE DEF v
    <3>3. Aside(pc[h], local[h]) /\ Aside("send", v)
      BY <1>1, <2>1, <3>1, <3>2 DEF Aside, Common
    <3> QED BY <2>1, <3>1, <3>3, WriteAway
  <2>2. CASE pc[h] # "sse_self"
    <3> DEFINE v == Processed(h, "sse")
    <3>1. /\ pc[h] = "process" /\ pc' = [pc EXCEPT ![h] = "process"] /\ UNCHANGED state
          /\ local' = [local EXCEPT ![h] = v]
      BY <1>1, <1>9, <2>2 DEF InjectDone, Injecting, Processing, Set, hsmVars, OnHarts
    <3>2. Common(v)
      BY Zenon, <1>1, LocalsCommon DEF Processed
    <3> HIDE DEF v
    <3>3. Aside(pc[h], local[h]) /\ Aside("process", v)
      BY <1>1, <3>1, <3>2 DEF Aside, Common
    <3> QED BY <3>1, <3>3, WriteAway
  <2> QED BY <2>1, <2>2
<1> QED BY <1>3, <1>4, <1>5, <1>6, <1>7, <1>8, <1>9 DEF SseMachine

\* The calls about them.
LEMMA SseCallsAway ==
    ASSUME FenceInv, HangFunctions, NEW h \in Harts, UNCHANGED tlbVars, SseSupervisor(h)
    PROVE  FenceInv'
<1>1. OnHarts(state) /\ OnHarts(pc) /\ OnHarts(local) /\ Common(local[h])
  BY DEF HangFunctions, FenceInv, FenceFunctions, Place, Common
<1>2. pc[h] = "S" /\ UNCHANGED state
  BY ZenonT(40) DEF SseSupervisor, SseRegister, SseUnregister, SseEnable, SseDisable, SetPrio, SetOneshot,
         SetPreferredHart, SseInject, SseComplete, SseMask, SseCall, Ecall, Writes, hsmVars
<1>3. ASSUME pc' = [pc EXCEPT ![h] = "ret"], UNCHANGED local PROVE FenceInv'
  <2>1. local' = [local EXCEPT ![h] = local[h]]
    BY <1>1, <1>3 DEF OnHarts
  <2>2. Aside(pc[h], local[h]) /\ Aside("ret", local[h])
    BY <1>1, <1>2 DEF Aside, Common
  <2> QED BY <1>2, <1>3, <2>1, <2>2, WriteAway
<1>4. CASE \E id \in EventIds :
             \/ SseRegister(h, id) \/ SseUnregister(h, id) \/ SseDisable(h, id)
             \/ \E prio \in Prios : SetPrio(h, id, prio)
             \/ \E oneshot \in BOOLEAN : SetOneshot(h, id, oneshot)
             \/ \E t \in scenario.targets : SetPreferredHart(h, id, t)
  <2>1. pc' = [pc EXCEPT ![h] = "ret"] /\ UNCHANGED local
    BY <1>4 DEF SseRegister, SseUnregister, SseDisable, SetPrio, SetOneshot,
                SetPreferredHart, Writes, Set, Goto
  <2> QED BY <1>3, <2>1
<1>5. CASE \E on \in BOOLEAN : SseMask(h, on)
  <2>1. pc' = [pc EXCEPT ![h] = "ret"] /\ UNCHANGED local
    BY <1>5 DEF SseMask, Set, Goto
  <2> QED BY <1>3, <2>1
<1>6. CASE \E id \in EventIds : SseEnable(h, id)
  <2>1. PICK id \in EventIds : SseEnable(h, id)
    BY <1>6
  <2> DEFINE hart == event[sse_event_get(id, h)].hartid
             m == {hart} \cap Interruptible
             v == [Local EXCEPT !.event = "sse", !.mask = m]
  <2>2. \/ pc' = [pc EXCEPT ![h] = "ret"] /\ UNCHANGED local
        \/ pc' = [pc EXCEPT ![h] = "send"] /\ local' = [local EXCEPT ![h] = v]
    BY <2>1, Zenon DEF SseEnable, Set, Goto, Sending
  <2> HIDE DEF m
  <2>3. Common(v) /\ v.event = "sse"
    BY Zenon, <1>1, LocalsCommon
  <2> HIDE DEF v
  <2>4. Aside(pc[h], local[h]) /\ Aside("send", v)
    BY <1>1, <1>2, <2>3 DEF Aside, Common
  <2>5. CASE pc' = [pc EXCEPT ![h] = "send"] /\ local' = [local EXCEPT ![h] = v]
    BY <1>2, <2>4, <2>5, WriteAway
  <2> QED BY <1>3, <2>2, <2>5
<1>7. CASE \E id \in EventIds : \E t \in scenario.targets : SseInject(h, id, t)
  <2>1. PICK id \in EventIds, t \in scenario.targets : SseInject(h, id, t)
    BY <1>7
  <2> DEFINE hart == IF EVENT_IS_GLOBAL(id) THEN event[sse_event_get(id, h)].hartid ELSE t
             e == <<id, hart>>
             v == [Local EXCEPT !.to = hart, !.sse = e]
             l == IF hart = h THEN "ret" ELSE "sse_put"
  <2>2. pc' = [pc EXCEPT ![h] = l] /\ local' = [local EXCEPT ![h] = v]
    BY <2>1, Zenon DEF SseInject, Set, Goto
  <2> HIDE DEF hart, e
  <2>3. Common(v) /\ l \in {"ret", "sse_put"}
    BY Zenon, <1>1, LocalsCommon
  <2> HIDE DEF v, l
  <2>4. Aside(pc[h], local[h]) /\ Aside(l, v)
    BY <1>1, <1>2, <2>3 DEF Aside, Common
  <2> QED BY <1>2, <2>2, <2>4, WriteAway
<1>8. CASE SseComplete(h)
  <2> DEFINE runs == {i \in DOMAIN enabled_events[h] :
                        event[enabled_events[h][i]].state = "RUNNING"}
             e == enabled_events[h][First(runs)]
             v == [Local EXCEPT !.sse = e]
  <2>1. \/ pc' = [pc EXCEPT ![h] = "ret"] /\ UNCHANGED local
        \/ pc' = [pc EXCEPT ![h] = "sse_resume"] /\ local' = [local EXCEPT ![h] = v]
    BY <1>8, Zenon DEF SseComplete, Set, Goto
  <2> HIDE DEF e
  <2>2. Common(v)
    BY Zenon, <1>1, LocalsCommon
  <2> HIDE DEF v
  <2>3. Aside(pc[h], local[h]) /\ Aside("sse_resume", v)
    BY <1>1, <1>2, <2>2 DEF Aside, Common
  <2>4. CASE pc' = [pc EXCEPT ![h] = "sse_resume"] /\ local' = [local EXCEPT ![h] = v]
    BY <1>2, <2>3, <2>4, WriteAway
  <2> QED BY <1>3, <2>1, <2>4
<1> QED BY <1>4, <1>5, <1>6, <1>7, <1>8 DEF SseSupervisor

\* The first hart boots, or a device powers a hart on.
LEMMA PowerAway ==
    ASSUME FenceInv, HangInv, NEW h \in Harts, UNCHANGED tlbVars,
           InitColdboot(h) \/ StartDevice(h)
    PROVE  FenceInv'
<1>1. OnHarts(state) /\ OnHarts(pc) /\ OnHarts(local) /\ UNCHANGED <<request, need, local>>
  BY DEF HangInv, HangFunctions, tlbVars, InitColdboot, StartDevice
<1>2. OnHarts(pc') /\ \A i \in Harts :
         pc'[i] = pc[i] \/ (pc[i] \in {"cold", "off", "st_kick"} /\ pc'[i] \in {"cold2", "reset", "ret"})
  <2>1. CASE InitColdboot(h)
    BY <1>1, <2>1 DEF InitColdboot, Goto, Set, OnHarts
  <2>2. CASE StartDevice(h)
    <3>1. PICK t : pc' = [pc EXCEPT ![t] = "reset", ![h] = "ret"] /\ pc[t] = "off" /\ pc[h] = "st_kick"
      BY <2>2 DEF StartDevice
    <3> QED BY <1>1, <3>1 DEF OnHarts
  <2> QED BY <2>1, <2>2
<1>3. Still
  <2> SUFFICES ASSUME NEW i \in Harts
               PROVE  Place(i)' /\ (InFence(i) => Todo(i)' = Todo(i) /\ (pc'[i] = "add" <=> pc[i] = "add"))
    BY DEF Still
  <2>1. Place(i) /\ InFence(i)' = InFence(i) /\ Target(i)' = Target(i)
    BY <1>1 DEF FenceInv, InFence, Target
  <2>2. CASE pc'[i] = pc[i]
    BY <1>1, <2>1, <2>2 DEF Place, Todo
  <2>3. CASE pc[i] \in {"cold", "off", "st_kick"} /\ pc'[i] \in {"cold2", "reset", "ret"}
    BY <1>1, <2>1, <2>3 DEF Place
  <2> QED BY <1>2, <2>2, <2>3
<1>4. NeedUp'
  <2>1. CASE InitColdboot(h)
    <3>1. pc[h] = "cold" /\ \A i \in Harts \ {h} : pc[i] \in {"reset", "warm"}
      BY <2>1 DEF InitColdboot, HangInv, ColdAlone
    <3>2. \A i \in Harts : need[i] = {}
      BY <3>1 DEF FenceInv, Place, Needed
    <3> QED BY <1>1, <3>2 DEF NeedUp
  <2>2. CASE StartDevice(h)
    <3>1. UNCHANGED state
      BY <2>2 DEF StartDevice, hsmVars
    <3> QED BY <1>1, <1>2, <3>1 DEF FenceInv, NeedUp, Reachable
  <2> QED BY <2>1, <2>2
<1>5. OnHarts(local')
  BY <1>1 DEF OnHarts
<1> QED BY <1>2, <1>3, <1>4, <1>5, OutsideInv

-----------------------------
\* A hart that boots, and one that stops.
LEMMA EndsInv ==
    ASSUME FenceInv, HangInv, NEW h \in Harts,
           \/ InitHart(h) /\ InitTlb(h)
           \/ SbiExit(h) /\ ExitTlb(h)
    PROVE  FenceInv'
<1>1. OnHarts(pc) /\ OnHarts(local) /\ Place(h) /\ Fits(pc[h], state[h])
  BY DEF FenceInv, FenceFunctions, HangInv, StatesFit
<1>2. /\ UNCHANGED <<local, state, request>>
      /\ \/ pc[h] = "clear" /\ pc' = [pc EXCEPT ![h] = "finish"]
         \/ pc[h] = "exit" /\ pc' = [pc EXCEPT ![h] = "ipi"]
  BY DEF InitHart, SbiExit, InitTlb, ExitTlb, Goto, Set, hsmVars
<1>3. OnlyMoves(h) /\ pc'[h] \in {"finish", "ipi"}
  BY <1>1, <1>2 DEF OnlyMoves, OnHarts
<1>4. ~InFence(h) /\ Place(h)'
  BY <1>1, <1>2, <1>3 DEF Place, InFence
<1>5. Still /\ OnHarts(pc') /\ OnHarts(local')
  BY <1>2, <1>3, <1>4, StillBut
<1>6. \A t \in Harts : t # h /\ Reachable(t) => Reachable(t)'
  BY <1>2, <1>3 DEF Reachable, OnlyMoves
<1>7. CASE InitHart(h) /\ InitTlb(h)
  <2>1. pc[h] = "clear"
    BY <1>7 DEF InitHart
  <2>2. ~Reachable(h)
    BY <1>1, <2>1 DEF Fits, Running, Reachable
  <2> QED BY <1>4, <1>5, <1>6, <1>7, <2>2, BootInv
<1>8. CASE SbiExit(h) /\ ExitTlb(h)
  BY <1>5, <1>6, <1>8, ExitInv
<1> QED BY <1>7, <1>8

\* Nothing has been sent when the harts are reset, nor in a machine that is up.
LEMMA FenceInvInit == Init => FenceInv
<1> SUFFICES ASSUME Init PROVE FenceInv
  OBVIOUS
<1>1. /\ fifo = [h \in Harts |-> fifo_init(FifoSize, NoEntry)]
      /\ tlb_sync = [h \in Harts |-> 0]
      /\ hand = [h \in Harts |-> NoEntry]
      /\ request = [h \in Harts |-> NoEntry]
      /\ need = [h \in Harts |-> {}]
  BY DEF Init, TlbInit
<1>2. /\ OnHarts(pc) /\ local = [h \in Harts |-> Local]
      /\ \A h \in Harts : pc[h] \in {"reset", "S", "off", "wait"}
  BY DEF Init, HartInit, OnHarts
<1>3. NoEntry \in Entries /\ NoEntry.smask = {}
  BY DEF NoEntry, Entries, Asids
<1>4. \A h \in Harts : ~InFence(h) /\ need[h] = {} /\ tlb_sync[h] = 0
  BY <1>1 DEF InFence
<1>5. FenceFunctions
  BY <1>1, <1>2, <1>3, <1>4, InitKept DEF FenceFunctions, OnHarts
<1>6. \A h, t \in Harts : From(h, t) = {} /\ ~Owes(t, h)
  BY <1>1, <1>3, InitKept DEF From, Owes
<1>7. \A h \in Harts : Place(h)
  BY <1>2, <1>4 DEF Place, Local
<1>8. \A h \in Harts : Counts(h) /\ Needed(h)
  BY <1>4, <1>6 DEF Counts, Owing, Needed
<1>9. \A h, t \in Harts : Once(h, t)
  BY <1>4, <1>6 DEF Once, Owes
<1>10. NeedUp
  BY <1>4 DEF NeedUp
<1> QED BY <1>5, <1>7, <1>8, <1>9, <1>10 DEF FenceInv

\* Every step preserves the invariant.
LEMMA FenceInvNext ==
    ASSUME PageRanges
    PROVE  HangInv /\ FenceInv /\ [Next]_vars => FenceInv'
<1> SUFFICES ASSUME HangInv, FenceInv, [Next]_vars PROVE FenceInv'
  OBVIOUS
<1>1. HangFunctions /\ scenario \in Scenarios
  BY DEF HangInv, HangFunctions
<1>2. CASE UNCHANGED vars
  <2>1. UNCHANGED <<pc, local, state, request, need>> /\ UNCHANGED tlbVars
    BY <1>2 DEF vars, hartVars, hsmVars, tlbVars
  <2>2. Still /\ OnHarts(pc') /\ OnHarts(local') /\ NeedUp'
    BY <2>1 DEF FenceInv, FenceFunctions, OnHarts, Still, Place, Todo, Target, InFence, NeedUp,
                Reachable
  <2> QED BY <2>1, <2>2, OutsideInv
<1>3. ASSUME NEW h \in Harts, Machine(h), UNCHANGED tlbVars PROVE FenceInv'
  <2>1. CASE \/ SbiInit(h) \/ WakeColdbootHarts(h) \/ InitWarmboot(h) \/ HartWait(h) \/ Wfi(h)
             \/ StartFinish(h) \/ Launch(h) \/ StartCas(h) \/ StartRefused(h) \/ StartIpi(h)
             \/ StartRelease(h) \/ HsmExit(h) \/ HsmStopped(h) \/ SuspendCas(h)
             \/ ResumeStart(h) \/ ResumeFinish(h) \/ TakeIpi(h) \/ IpiClear(h) \/ IpiDone(h)
             \/ ResetStop(h) \/ SystemSuspendCas(h) \/ SystemSuspendNext(h)
             \/ IpiInit(h)
    BY <1>1, <1>3, <2>1, MachineAway
  <2>2. CASE StartWrite(h) \/ SendSelf(h) \/ IpiXchg(h) \/ ProcessSmode(h) \/ ProcessHalt(h)
    BY <1>1, <1>3, <2>2, LocalAway
  <2>3. CASE InitColdboot(h) \/ StartDevice(h)
    BY <1>3, <2>3, PowerAway
  <2>4. CASE PostEvent(h) \/ RawSend(h) \/ SendRetry(h) \/ SendDone(h)
    BY <1>1, <1>3, <2>4, SendInv
  <2> QED BY <1>3, <2>1, <2>2, <2>3, <2>4 DEF Machine
<1>4. ASSUME NEW h \in Harts, hand[h] = NoEntry, TlbMachine(h) PROVE FenceInv'
  <2>1. CASE UpdateSelf(h) \/ UpdateInplace(h) \/ UpdateEnqueue(h) \/ UpdateAdd(h) \/ SyncDone(h)
    BY <2>1, SelfInv, InplaceInv, EnqueueInv, AddInv, SyncDoneInv
  <2>2. CASE UpdateRetry(h) \/ SyncTake(h) \/ ProcessTake(h)
    BY <1>4, <2>2, RetryInv, RoundInv
  <2>3. CASE ProcessTlbDone(h)
    <3>1. UNCHANGED tlbVars
      BY <2>3 DEF ProcessTlbDone
    <3> QED BY <1>1, <2>3, <3>1, LocalAway
  <2> QED BY <1>4, <2>1, <2>2, <2>3 DEF TlbMachine
<1>5. ASSUME NEW h \in Harts, UNCHANGED tlbVars, SseMachine(h) \/ SseSupervisor(h) \/ TrapReturn(h)
      PROVE  FenceInv'
  BY <1>1, <1>5, SseAway, SseCallsAway, LocalAway
<1>6. ASSUME NEW h \in Harts, Supervisor(h), UNCHANGED tlbVars PROVE FenceInv'
  <2>1. CASE HartStop(h) \/ ClearSmode(h)
    BY <1>1, <1>6, <2>1, MachineAway
  <2>2. CASE \/ \E t \in scenario.targets, a \in Addrs(h) : HartStart(h, t, a)
             \/ \E ret \in BOOLEAN, a \in Addrs(h) : HartSuspend(h, ret, a)
             \/ \E a \in Addrs(h) : SystemSuspend(h, a)
             \/ SendSmode(h, scenario.targets) \/ SystemReset(h)
    BY <1>1, <1>6, <2>2, CallsAway
  <2> QED BY <1>6, <2>1, <2>2 DEF Supervisor
<1>7. ASSUME NEW h \in Harts, Wake(h), UNCHANGED tlbVars PROVE FenceInv'
  BY <1>1, <1>7, MachineAway, LocalAway DEF Wake
<1>8. ASSUME NEW h \in Harts, TlbSupervisor(h) PROVE FenceInv'
  BY <1>1, <1>8, RequestInv
<1>9. ASSUME NEW h \in Harts, Firmware(h) PROVE FenceInv'
  BY <1>3, <1>4, <1>5, <1>9, DoneInv, EndsInv DEF Firmware
<1>10. ASSUME NEW h \in Harts, Calls(h) \/ Wakes(h) PROVE FenceInv'
  BY <1>5, <1>6, <1>7, <1>8, <1>10 DEF Calls, Wakes
<1> QED BY <1>2, <1>9, <1>10 DEF Next

\* A remote fence returns only when everything it was to flush is flushed, on every
\* hart that it had to interrupt and that is still in the supervisor, however many
\* harts send fences at once, however small their buffers are and whichever requests
\* are merged.  The ranges tlb_range_check compares start at a page, are not empty and
\* end in the address space: it takes a full flush (start and size 0) for an empty
\* range, and a range that ends at 0 for one that ends below every other.
THEOREM FencesComplete ==
    ASSUME KnownStart, PageRanges
    PROVE  Spec => []FenceComplete
<1>1. Init => HangInv /\ FenceInv
  BY HangInvInit, FenceInvInit
<1>2. HangInv /\ FenceInv /\ [Next]_vars => HangInv' /\ FenceInv'
  BY HangInvNext, FenceInvNext
<1>3. FenceInv => FenceComplete
  <2> SUFFICES ASSUME FenceInv, NEW h \in Harts, pc[h] = "sync", tlb_sync[h] <= 0
               PROVE  need[h] = {}
    BY DEF FenceComplete
  <2>1. Place(h) /\ Counts(h) /\ Needed(h) /\ tlb_sync[h] \in Int
    BY DEF FenceInv, FenceFunctions
  <2>2. InFence(h) /\ Todo(h) = {}
    BY <2>1 DEF Place, Todo
  <2>3. IsFiniteSet(Owing(h))
    <3>1. IsFiniteSet(Harts)
      BY HartAssumption, FS_Interval DEF Harts
    <3> QED BY <3>1, FS_Subset DEF Owing
  <2>4. Cardinality(Owing(h)) \in Nat /\ Cardinality(Owing(h)) <= 0
    BY <2>1, <2>2, <2>3, FS_CardinalityType DEF Counts, Answers
  <2>5. Owing(h) = {}
    BY <2>3, <2>4, FS_EmptySet
  <2>6. \A t \in Harts : From(h, t) = {}
    BY <2>5 DEF Owing, Owes
  <2> QED BY <2>1, <2>2, <2>6 DEF Needed, Due
<1> QED BY <1>1, <1>2, <1>3, PTL DEF Spec

-----------------------------
(* The software events.                                                      *)

\* The scenarios of this part.  Where the preferred hart of an event is changed
\* nothing is injected and no event disables itself: an event that was sent to the
\* former hart is written back there without the lock of its list, and sbi_sse_complete
\* disables one without the lock of the event.  Where events are enabled no hart stops:
\* a hart that boots empties its list.  At first hart 0, which has the global events, is
\* up if any hart is, and nothing waits that the supervisor could have handled.
SseScenarios ==
    \A s \in Scenarios :
       /\ "prefer" \in s.calls => s.calls \cap {"inject", "oneshot"} = {}
       /\ "enable" \in s.calls => s.calls \cap {"stop", "reset"} = {}
       /\ s.up \in SUBSET Harts /\ (s.up = {} \/ 0 \in s.up)
       /\ s.sse \in [state : {"UNUSED", "REGISTERED", "ENABLED"}, pending : BOOLEAN,
                     masked : BOOLEAN]
       /\ s.sse.state = "ENABLED" /\ s.sse.pending => s.sse.masked

\* The attributes of an event, and the types of the variables.
SseRecords == [state : {"UNUSED", "REGISTERED", "ENABLED", "RUNNING"}, pending : BOOLEAN,
               prio : Nat, oneshot : BOOLEAN, hartid : Harts,
               interrupted : {<<>>} \cup (Harts \X Seq(SseEvents))]

SseFunctions ==
    /\ event \in [SseEvents -> SseRecords]
    /\ enabled_events \in [Harts -> Seq(SseEvents)]
    /\ running \in [Harts -> Seq(SseEvents)]
    /\ masked \in [Harts -> BOOLEAN]
    /\ OnHarts(inject_fifo) /\ OnHarts(list_lock) /\ OnHarts(ipi_type)
    /\ ge_lock = [id \in GlobalIds |-> ge_lock[id]]

\* The locals r of a hart at l: nothing stops one where events are enabled, and a
\* software event is sent to one hart, once.
Tidy(l, r) ==
    /\ DOMAIN r = DOMAIN Local
    /\ "enable" \in calls => l \notin {"exit", "rs_stop"} /\ r.event # "halt" /\ "halt" \notin r.todo
    /\ r.event = "sse" => /\ \A x, y \in r.mask : x = y
                          /\ r.again = {} /\ l \notin {"enqueue", "add", "post"}
Orderly(h) == Tidy(pc[h], local[h]) /\ ("enable" \in calls => "halt" \notin ipi_type[h])

\* A hart that has been initialised and has not left.
Alive(h) == Reachable(h) \/ pc[h] = "finish"

\* Local events stay where they are, ...
OwnHart == \A e \in SseEvents : e[2] # Nobody => event[e].hartid = e[2]

\* ... and global events are of a hart that can handle them, if they can be enabled.
AtReset == \A i \in Harts : inited[i] = 0
ColdReset == ~lottery \/ (\E c \in Harts : pc[c] \in {"cold", "cold2"}) => AtReset
\* The harts that are up have been initialised; before the first is, no event is in use.
Placed ==
    /\ \A h \in Harts : Alive(h) => inited[h] > 0
    /\ AtReset => /\ \A e \in SseEvents : event[e].state = "UNUSED"
                  /\ \A h \in Harts : fifo_is_empty(inject_fifo[h])
    /\ "enable" \in calls =>
          /\ ~AtReset => \A e \in SseEvents : e[2] = Nobody => Alive(event[e].hartid)
          /\ \A h \in Harts : ~Reachable(h) => masked[h]

\* No event is in list l twice.
Distinct(l) == \A i, j \in DOMAIN l : l[i] = l[j] => i = j

\* A list has the enabled events of its hart, once each.
Listed(h) ==
    /\ Distinct(enabled_events[h])
    /\ ~Alive(h) => \A e \in SseEvents : event[e].hartid = h => ~Enabled(e)
    /\ Alive(h) \/ "enable" \in calls =>
          \A e \in SseEvents : Contains(enabled_events[h], e) => Enabled(e) /\ event[e].hartid = h

\* What is sent to a hart is handled there.
Handles(h, id) == id \in EventIds /\ (EVENT_IS_GLOBAL(id) => event[<<id, Nobody>>].hartid = h)
IdSlots == 0..(Cardinality(EventIds) - 1)
IdBuffers == [queue : [IdSlots -> EventIds \cup {-1}], num_entries : {Cardinality(EventIds)},
              avail : 0..Cardinality(EventIds), tail : IdSlots]
\* The ring buffer of a hart.
Injected(h) ==
    IF "inject" \in calls /\ EventIds # {}
    THEN /\ inject_fifo[h] \in IdBuffers
         /\ \A s \in Live(inject_fifo[h]) : Handles(h, inject_fifo[h].queue[s])
    ELSE fifo_is_empty(inject_fifo[h])

\* The steps of a hart between two accesses.
Midway(h) ==
    /\ pc[h] = "sse_put" => /\ "inject" \in calls /\ local[h].to \in Harts
                            /\ Handles(local[h].to, local[h].sse[1])
    /\ pc[h] = "sse_pend" => LET e == local[h].sse
                             IN  /\ e \in SseEvents /\ event[e].hartid = h /\ Enabled(e)
                                 /\ local[h].was = event[e].state
                                 /\ EVENT_IS_GLOBAL(e[1]) => ge_lock[e[1]] = h
\* No event disables itself unless the supervisor asks for it.
NoOneshot == "oneshot" \notin calls => \A e \in SseEvents : ~event[e].oneshot

\* What holds of the events and the lists.
SseInv ==
    /\ SseFunctions /\ OwnHart /\ Placed /\ ColdReset /\ NoOneshot
    /\ \A h \in Harts : Orderly(h) /\ Listed(h) /\ Injected(h) /\ Midway(h)
    /\ EnabledIsListed

\* The handlers a hart is in, and the place of an event in the list.
Stack(h) == IF pc[h] = "sse_resume" THEN Front(running[h]) ELSE running[h]
Before(l, x, y) == \E i, j \in DOMAIN l : i < j /\ l[i] = x /\ l[j] = y

\* r are the handlers hart h is in: each has saved those it interrupted, and comes
\* before them in the list.
Nested(h, r) ==
    /\ \A k \in DOMAIN r : /\ event[r[k]].state = "RUNNING" /\ event[r[k]].hartid = h
                           /\ event[r[k]].interrupted = <<h, SubSeq(r, 1, k - 1)>>
    /\ \A e \in SseEvents : event[e].state = "RUNNING" /\ event[e].hartid = h =>
          \E k \in DOMAIN r : r[k] = e
    /\ \A j, k \in DOMAIN r : j < k => Before(enabled_events[h], r[k], r[j])
\* A hart between the two halves of sbi_sse_complete.
Resuming(h) == pc[h] = "sse_resume" =>
    LET e == local[h].sse
    IN  /\ running[h] # <<>> /\ Last(running[h]) = e
        /\ event[e].interrupted = <<h, Front(running[h])>>
        /\ event[e].hartid = h /\ list_lock[h] = h
        /\ event[e].state # "RUNNING"
        /\ "prefer" \in calls => Enabled(e)
StackInv == \A h \in Harts : Nested(h, Stack(h)) /\ Resuming(h)

\* An event waits that hart h could handle.
Waits(h) == \E x \in SseEvents :
               /\ Contains(enabled_events[h], x) /\ Ready(x, h)
               /\ \A y \in SseEvents : Before(enabled_events[h], y, x) => event[y].state # "RUNNING"
\* Its interrupt is on its way.
Signalled(h) == \/ "sse" \in ipi_type[h]
                \/ \E i \in Harts : pc[i] = "send" /\ local[i].event = "sse" /\ h \in local[i].mask
\* Where a hart goes back to the supervisor without a look at the list.
Unlooked == {"launch", "S", "su_cas", "ss_cas", "ss_next", "asleep", "warm", "resume", "resumed"}
\* An event that waits where nobody looks for it is on its way.
SignalInv ==
    /\ \A h \in Harts : pc[h] \in Unlooked /\ ~masked[h] /\ Waits(h) => Signalled(h)
    /\ "enable" \notin calls =>
         \A h \in Harts : pc[h] = "finish" => \A e \in SseEvents : event[e].hartid = h => ~Enabled(e)

\* The inductive invariant.
EventInv == SseInv /\ StackInv /\ SignalInv

\* What a step means for the events that leaves them alone.
Calm ==
    /\ UNCHANGED <<scenario, inited>> /\ ColdReset' /\ OnHarts(ipi_type')
    /\ \A i \in Harts :
         /\ Orderly(i)' /\ (Alive(i)' <=> Alive(i)) /\ (Reachable(i) => Reachable(i)')
         /\ pc'[i] \in {"sse_put", "sse_pend", "sse_resume"} \/ pc[i] = "sse_resume" =>
               pc'[i] = pc[i] /\ local'[i] = local[i]
         /\ pc'[i] = "finish" => pc[i] = "finish"
         /\ pc'[i] \in Unlooked => /\ pc[i] \in Unlooked \/ ~Alive(i) \/ pc[i] = "finish"
                                   /\ Signalled(i) => Signalled(i)'

\* A step of hart h alone that does so.
Own(h) ==
    /\ UNCHANGED <<scenario, inited, ipi_type>>
    /\ \A i \in Harts \ {h} : \/ state'[i] = state[i]
                              \/ {state[i], state'[i]} \subseteq {"STOPPED", "START_PENDING"}
    /\ Tidy(pc'[h], local'[h]) /\ (Alive(h)' <=> Alive(h)) /\ (Reachable(h) => Reachable(h)')
    /\ pc[h] # "sse_resume" /\ pc'[h] \notin {"sse_put", "sse_pend", "sse_resume", "finish"}
    /\ pc'[h] \in Unlooked => pc[h] \in Unlooked \/ ~Alive(h) \/ pc[h] = "finish"
    /\ ~(pc[h] = "send" /\ local[h].event = "sse" /\ local[h].mask # {})
    /\ lottery => lottery'
    /\ pc'[h] \in {"cold", "cold2"} => pc[h] \in {"cold", "cold2"} \/ ~lottery

-----------------------------
\* The loops over a set of numbers begin with its least member.
LEMMA FirstLeast ==
    ASSUME NEW S \in SUBSET Nat, S # {}
    PROVE  First(S) \in S /\ \A j \in S : First(S) <= j
<1>1. IsWellFoundedOn(Below, Nat) /\ S \subseteq Nat
  BY NatLessThanWellFounded DEF OpToRel, Below
<1>2. PICK x \in S : \A y \in S : ~(<<y, x>> \in Below)
  BY ONLY <1>1, S # {}, WFMin
<1>3. \A y \in S : ~(y < x)
  BY <1>1, <1>2 DEF Below
<1>4. \A y \in S : x <= y
  BY <1>1, <1>3
<1> QED BY <1>2, <1>4 DEF First

\* List m is list l with e at position p.
Inserted(m, l, p, e) ==
    /\ p \in 1..(Len(l) + 1) /\ Len(m) = Len(l) + 1
    /\ \A i \in 1..Len(m) : m[i] = IF i < p THEN l[i] ELSE IF i = p THEN e ELSE l[i - 1]

\* sse_event_add_to_list.
LEMMA AddedList ==
    ASSUME NEW T, NEW l \in Seq(T), NEW e \in T
    PROVE  Added(l, e) \in Seq(T) /\ \E p : Inserted(Added(l, e), l, p, e)
<1> DEFINE A == {i \in DOMAIN l : Precedes(e, l[i])}
           m == Added(l, e)
<1>1. CASE A = {}
  <2>1. m = Append(l, e)
    BY <1>1 DEF Added
  <2>2. Inserted(m, l, Len(l) + 1, e)
    BY <2>1 DEF Inserted
  <2> QED BY <2>1, <2>2
<1>2. CASE A # {}
  <2> DEFINE p == First(A)
  <2>1. m = SubSeq(l, 1, p - 1) \o <<e>> \o SubSeq(l, p, Len(l))
    BY <1>2 DEF Added, InsertAt
  <2>2. p \in 1..Len(l)
    <3>1. A \in SUBSET Nat
      OBVIOUS
    <3> HIDE DEF A
    <3>2. p \in A
      BY <1>2, <3>1, FirstLeast
    <3> QED BY <3>2 DEF A
  <2> HIDE DEF p, A, m
  <2>3. /\ SubSeq(l, 1, p - 1) \in Seq(T) /\ Len(SubSeq(l, 1, p - 1)) = p - 1
        /\ \A i \in 1..(p - 1) : SubSeq(l, 1, p - 1)[i] = l[i]
    BY <2>2, SubSeqProperties
  <2>4. /\ SubSeq(l, p, Len(l)) \in Seq(T) /\ Len(SubSeq(l, p, Len(l))) = Len(l) - p + 1
        /\ \A i \in 1..(Len(l) - p + 1) : SubSeq(l, p, Len(l))[i] = l[p + i - 1]
    BY <2>2, SubSeqProperties
  <2> DEFINE a == SubSeq(l, 1, p - 1)
             b == SubSeq(l, p, Len(l))
             c == a \o <<e>>
  <2> HIDE DEF a, b
  <2>5. /\ a \in Seq(T) /\ Len(a) = p - 1 /\ \A i \in 1..(p - 1) : a[i] = l[i]
        /\ b \in Seq(T) /\ Len(b) = Len(l) - p + 1
        /\ \A i \in 1..(Len(l) - p + 1) : b[i] = l[p + i - 1]
        /\ m = c \o b /\ <<e>> \in Seq(T) /\ Len(<<e>>) = 1 /\ <<e>>[1] = e
    BY <2>1, <2>3, <2>4 DEF a, b
  <2>6. /\ c \in Seq(T) /\ Len(c) = p /\ c[p] = e /\ \A i \in 1..(p - 1) : c[i] = l[i]
    <3> DEFINE z == <<e>>
    <3> HIDE DEF z
    <3>1. z \in Seq(T) /\ Len(z) = 1 /\ z[1] = e
      BY <2>5 DEF z
    <3>2. a \o z \in Seq(T) /\ Len(a \o z) = Len(a) + Len(z)
          /\ \A i \in 1..(Len(a) + Len(z)) : (a \o z)[i] = IF i <= Len(a) THEN a[i] ELSE z[i - Len(a)]
      <4>1. a \in Seq(T) /\ z \in Seq(T)
        BY <2>5, <3>1
      <4> QED BY ONLY <4>1, ConcatProperties
    <3>3. Len(a) + Len(z) = p /\ Len(a) = p - 1 /\ c = a \o z
      BY <2>2, <2>5, <3>1 DEF z
    <3> HIDE DEF c
    <3>4. c \in Seq(T) /\ Len(c) = p
          /\ \A i \in 1..p : c[i] = IF i <= p - 1 THEN a[i] ELSE z[i - (p - 1)]
      BY <3>2, <3>3
    <3>5. c[p] = e
      BY <2>2, <3>1, <3>4
    <3>6. ASSUME NEW i \in 1..(p - 1) PROVE c[i] = l[i]
      <4>1. i \in 1..p /\ i <= p - 1
        BY <2>2
      <4>2. c[i] = a[i]
        BY <3>4, <4>1
      <4> QED BY <2>5, <4>2
    <3> QED BY <3>4, <3>5, <3>6
  <2> HIDE DEF c
  <2>7. m \in Seq(T) /\ Len(m) = Len(l) + 1
        /\ \A i \in 1..(Len(l) + 1) : m[i] = IF i <= p THEN c[i] ELSE b[i - p]
    <3>1. c \in Seq(T) /\ b \in Seq(T)
      BY <2>5, <2>6
    <3>2. c \o b \in Seq(T) /\ Len(c \o b) = Len(c) + Len(b)
          /\ \A i \in 1..(Len(c) + Len(b)) : (c \o b)[i] = IF i <= Len(c) THEN c[i] ELSE b[i - Len(c)]
      BY ONLY <3>1, ConcatProperties
    <3>3. Len(c) = p /\ Len(b) = Len(l) - p + 1 /\ m = c \o b
      BY <2>5, <2>6
    <3>4. p \in Nat /\ Len(l) \in Nat
      BY <2>2
    <3>5. Len(c) + Len(b) = Len(l) + 1
      BY ONLY <3>3, <3>4
    <3> QED BY <3>2, <3>3, <3>5
  <2>8. Inserted(m, l, p, e)
    BY <2>2, <2>5, <2>6, <2>7 DEF Inserted
  <2> QED BY <2>7, <2>8 DEF m
<1> QED BY <1>1, <1>2

\* sse_event_remove_from_list.
LEMMA RemovedList ==
    ASSUME NEW T, NEW l \in Seq(T), NEW e, Contains(l, e)
    PROVE  RemoveFirst(l, e) \in Seq(T) /\ \E p : Inserted(l, RemoveFirst(l, e), p, e)
<1> DEFINE A == {i \in 1..Len(l) : l[i] = e}
           m == RemoveFirst(l, e)
           p == First(A)
<1>1. A # {} /\ A \in SUBSET Nat
  BY DEF Contains
<1>2. p \in 1..Len(l) /\ l[p] = e
  <2> HIDE DEF A
  <2>1. p \in A
    BY <1>1, FirstLeast
  <2> QED BY <2>1 DEF A
<1>3. m = SubSeq(l, 1, p - 1) \o SubSeq(l, p + 1, Len(l))
  BY <1>1 DEF RemoveFirst, RemoveAt, SelectInSeq, Min, First, Contains
<1> HIDE DEF p, A, m
<1> DEFINE a == SubSeq(l, 1, p - 1)
           b == SubSeq(l, p + 1, Len(l))
<1>4. a \in Seq(T) /\ Len(a) = p - 1 /\ \A i \in 1..(p - 1) : a[i] = l[i]
  BY <1>2, SubSeqProperties
<1>5. /\ b \in Seq(T) /\ Len(b) = Len(l) - p
      /\ \A i \in 1..(Len(l) - p) : b[i] = l[p + i]
  BY <1>2, SubSeqProperties
<1>6. m = a \o b
  BY <1>3
<1> HIDE DEF a, b
<1>7. m \in Seq(T) /\ Len(m) = Len(l) - 1
      /\ \A i \in 1..(Len(l) - 1) : m[i] = IF i <= p - 1 THEN a[i] ELSE b[i - p + 1]
  <2>1. a \o b \in Seq(T) /\ Len(a \o b) = Len(a) + Len(b)
        /\ \A i \in 1..(Len(a) + Len(b)) : (a \o b)[i] = IF i <= Len(a) THEN a[i] ELSE b[i - Len(a)]
    BY <1>4, <1>5, ConcatProperties
  <2>2. Len(a) + Len(b) = Len(l) - 1
    BY <1>2, <1>4, <1>5
  <2> QED BY <1>2, <1>4, <1>6, <2>1, <2>2
<1>8. Inserted(l, m, p, e)
  <2> SUFFICES ASSUME NEW i \in 1..Len(l)
               PROVE  l[i] = IF i < p THEN m[i] ELSE IF i = p THEN e ELSE m[i - 1]
    BY <1>2, <1>7 DEF Inserted
  <2>1. CASE i < p
    <3>1. i \in 1..(Len(l) - 1) /\ i <= p - 1 /\ i \in 1..(p - 1)
      BY <1>2, <2>1
    <3>2. m[i] = a[i]
      BY <1>7, <3>1
    <3>3. a[i] = l[i]
      BY <1>4, <3>1
    <3> QED BY <2>1, <3>2, <3>3
  <2>2. CASE i > p
    <3>1. i - 1 \in 1..(Len(l) - 1) /\ ~(i - 1 <= p - 1) /\ i - p \in 1..(Len(l) - p)
          /\ i - 1 - p + 1 = i - p /\ p + (i - p) = i
      BY <1>2, <2>2
    <3>2. m[i - 1] = b[i - p]
      BY <1>7, <3>1
    <3>3. b[i - p] = l[i]
      BY <1>5, <3>1
    <3> QED BY <1>2, <2>2, <3>2, <3>3
  <2> QED BY <1>2, <2>1, <2>2
<1> QED BY <1>7, <1>8 DEF m

\* What an insertion does to membership and order.
LEMMA InsertedOrder ==
    ASSUME NEW T, NEW l \in Seq(T), NEW m \in Seq(T), NEW p, NEW e, Inserted(m, l, p, e)
    PROVE  /\ \A x : Contains(m, x) <=> Contains(l, x) \/ x = e
           /\ Distinct(m) <=> Distinct(l) /\ ~Contains(l, e)
           /\ \A x, y : Before(l, x, y) => Before(m, x, y)
           /\ \A x, y : x # e /\ y # e /\ Before(m, x, y) => Before(l, x, y)
<1> DEFINE up(i) == IF i < p THEN i ELSE i + 1
           down(i) == IF i < p THEN i ELSE i - 1
<1>1. /\ p \in 1..Len(m) /\ Len(m) = Len(l) + 1 /\ Len(l) \in Nat
      /\ DOMAIN l = 1..Len(l) /\ DOMAIN m = 1..Len(m)
      /\ m[p] = e
  BY DEF Inserted
<1>2. \A i \in 1..Len(l) : up(i) \in 1..Len(m) /\ up(i) # p /\ m[up(i)] = l[i]
  BY <1>1 DEF Inserted
<1>3. \A i \in 1..Len(m) : i # p => down(i) \in 1..Len(l) /\ l[down(i)] = m[i]
  BY <1>1 DEF Inserted
<1>4. \A i, j \in 1..Len(l) : (i < j <=> up(i) < up(j)) /\ (up(i) = up(j) => i = j)
  BY <1>1
<1>5. \A i, j \in 1..Len(m) : i # p /\ j # p =>
         (i < j <=> down(i) < down(j)) /\ (down(i) = down(j) => i = j)
  BY <1>1
<1> HIDE DEF up, down
<1>6. \A x : Contains(m, x) <=> Contains(l, x) \/ x = e
  BY <1>1, <1>2, <1>3 DEF Contains
<1>7. \A x, y : Before(l, x, y) => Before(m, x, y)
  BY <1>1, <1>2, <1>4 DEF Before
<1>8. \A x, y : x # e /\ y # e /\ Before(m, x, y) => Before(l, x, y)
  BY <1>1, <1>3, <1>5 DEF Before
<1>9. Distinct(m) => Distinct(l) /\ ~Contains(l, e)
  BY <1>1, <1>2, <1>4 DEF Distinct, Contains
<1>10. Distinct(l) /\ ~Contains(l, e) => Distinct(m)
  <2> SUFFICES ASSUME Distinct(l), ~Contains(l, e), NEW i \in DOMAIN m, NEW j \in DOMAIN m, m[i] = m[j]
               PROVE  i = j
    BY DEF Distinct
  <2>1. CASE i # p /\ j # p
    BY <1>1, <1>3, <1>5, <2>1 DEF Distinct
  <2>2. CASE i = p \/ j = p
    BY <1>1, <1>3, <2>2 DEF Contains
  <2> QED BY <2>1, <2>2
<1> QED BY <1>6, <1>7, <1>8, <1>9, <1>10

-----------------------------
\* The list the supervisor has left: the events S of a hart, by their ids.
LEMMA SortedList ==
    ASSUME NEW S \in SUBSET SseEvents, \A e, f \in S : e[1] = f[1] => e = f
    PROVE  LET l == CHOOSE list \in SetToSeqs(S) : IsSorted(list, LAMBDA e, f : e[1] < f[1])
           IN  /\ l \in Seq(SseEvents) /\ Distinct(l)
               /\ \A e : Contains(l, e) <=> e \in S
<1> DEFINE n == Cardinality(S)
           D == 1..n
           low(e) == {f \in S : f[1] <= e[1]}
           pos == [e \in S |-> Cardinality(low(e))]
<1>1. IsFiniteSet(EventIds) /\ EventIds \subseteq Nat /\ \A e \in S : e[1] \in EventIds /\ e[1] \in Nat
  <2>1. IsFiniteSet(EventIds) /\ EventIds \subseteq Nat
    BY SseAssumption DEF EventIds
  <2>2. \A e \in S : e[1] \in EventIds
    BY DEF SseEvents, sse_event_get
  <2> QED BY <2>1, <2>2
<1>2. IsFiniteSet(S) /\ n \in Nat
  <2> DEFINE g == [e \in S |-> e[1]]
  <2>1. g \in Injection(S, EventIds)
    BY <1>1 DEF Injection, IsInjective
  <2> QED BY <1>1, <2>1, FS_Injection, FS_CardinalityType
<1>3. IsFiniteSet(D) /\ Cardinality(D) = n
  BY <1>2, FS_Interval
<1>4. \A e \in S : IsFiniteSet(low(e)) /\ Cardinality(low(e)) \in D
  <2> SUFFICES ASSUME NEW e \in S
               PROVE  IsFiniteSet(low(e)) /\ Cardinality(low(e)) \in D
    OBVIOUS
  <2>1. e \in low(e) /\ low(e) \in SUBSET S
    <3>1. e[1] <= e[1]
      BY <1>1
    <3> QED BY <3>1
  <2> DEFINE L == low(e)
  <2> HIDE DEF L, n
  <2>2. e \in L /\ L \in SUBSET S
    BY <2>1 DEF L
  <2>3. IsFiniteSet(L) /\ Cardinality(L) <= Cardinality(S)
    BY <1>2, <2>2, FS_Subset
  <2>4. Cardinality(L) \in Nat /\ Cardinality(L) # 0
    BY <2>2, <2>3, FS_CardinalityType, FS_EmptySet
  <2>5. Cardinality(L) \in D
    BY <1>2, <2>3, <2>4 DEF n
  <2> QED BY <2>3, <2>5 DEF L
<1>5. \A e, f \in S : e[1] < f[1] => Cardinality(low(e)) < Cardinality(low(f))
  <2> SUFFICES ASSUME NEW e \in S, NEW f \in S, e[1] < f[1]
               PROVE  Cardinality(low(e)) < Cardinality(low(f))
    OBVIOUS
  <2> DEFINE L == low(e)
             M == low(f)
  <2>1. L \in SUBSET M /\ f \in M /\ f \notin L /\ IsFiniteSet(M)
    <3>1. e[1] \in Nat /\ f[1] \in Nat /\ \A g \in S : g[1] \in Nat
      BY <1>1
    <3>2. ~(f[1] <= e[1]) /\ f[1] <= f[1] /\ \A g \in S : g[1] <= e[1] => g[1] <= f[1]
      BY <3>1
    <3>3. L \in SUBSET M /\ f \in M /\ f \notin L
      BY <3>2
    <3> QED BY <1>4, <3>3
  <2>2. Cardinality(L) \in Nat /\ Cardinality(M) \in Nat
    <3>1. Cardinality(L) \in D /\ Cardinality(M) \in D
      BY <1>4
    <3> HIDE DEF L, M, n
    <3> QED BY <3>1, <1>2
  <2> HIDE DEF L, M
  <2>3. Cardinality(L) <= Cardinality(M) /\ Cardinality(M) # Cardinality(L)
    BY <2>1, FS_Subset
  <2>4. Cardinality(L) < Cardinality(M)
    BY <2>2, <2>3
  <2> QED BY <2>4 DEF L, M
<1> HIDE DEF low
<1>6. /\ pos \in [S -> D] /\ \A e, f \in S : e[1] < f[1] => pos[e] < pos[f]
  BY <1>4, <1>5
<1> HIDE DEF pos, n
<1>7. \A e, f \in S : pos[e] = pos[f] => e = f
  <2> SUFFICES ASSUME NEW e \in S, NEW f \in S, pos[e] = pos[f] PROVE e = f
    OBVIOUS
  <2>1. e[1] \in Nat /\ f[1] \in Nat /\ pos[e] \in Nat /\ pos[f] \in Nat
    <3>1. pos[e] \in D /\ pos[f] \in D
      BY <1>6
    <3> QED BY <1>1, <3>1
  <2>2. ~(e[1] < f[1]) /\ ~(f[1] < e[1])
    BY <1>6, <2>1
  <2> QED BY <2>1, <2>2
<1>8. \A i \in D : \E e \in S : pos[e] = i
  <2>1. pos \in Injection(S, D)
    BY <1>6, <1>7 DEF Injection, IsInjective
  <2>2. pos \in Surjection(S, D)
    BY <1>3, <2>1, FS_Injection DEF n
  <2> QED BY <2>2 DEF Surjection
<1> DEFINE p == [i \in D |-> CHOOSE e \in S : pos[e] = i]
<1>9. p \in [D -> S] /\ \A i \in D : p[i] \in S /\ pos[p[i]] = i
  BY <1>8
<1> HIDE DEF p
<1>10. p \in SetToSeqs(S)
  BY <1>9 DEF SetToSeqs, n
<1>11. \A i, j \in D : i < j => p[i][1] < p[j][1]
  <2> SUFFICES ASSUME NEW i \in D, NEW j \in D, i < j PROVE p[i][1] < p[j][1]
    OBVIOUS
  <2>1. p[i] \in S /\ p[j] \in S /\ pos[p[i]] = i /\ pos[p[j]] = j
    BY <1>9
  <2>2. p[i][1] \in Nat /\ p[j][1] \in Nat
    BY <1>1, <2>1
  <2>3. p[i][1] # p[j][1] /\ ~(p[j][1] < p[i][1])
    BY <1>2, <1>6, <2>1
  <2> QED BY <2>2, <2>3
<1>12. Len(p) = n
  BY <1>2, <1>9
<1>13. IsSorted(p, LAMBDA e, f : e[1] < f[1])
  BY <1>11, <1>12 DEF IsSorted
<1> DEFINE l == CHOOSE list \in SetToSeqs(S) : IsSorted(list, LAMBDA e, f : e[1] < f[1])
<1>14. l \in SetToSeqs(S)
  BY Zenon, <1>10, <1>13
<1> HIDE DEF l
<1>15. l \in [D -> S] /\ \A i, j \in D : i # j => l[i] # l[j]
  BY <1>14 DEF SetToSeqs, n
<1>16. l \in Seq(SseEvents) /\ Len(l) = n /\ DOMAIN l = D
  BY <1>2, <1>15
<1>17. Distinct(l)
  BY <1>15, <1>16 DEF Distinct
<1>18. l \in Surjection(D, S)
  <2>1. l \in Injection(D, S)
    BY <1>15 DEF Injection, IsInjective
  <2> QED BY <1>2, <1>3, <2>1, FS_Injection DEF n
<1>19. \A e : Contains(l, e) <=> e \in S
  BY <1>15, <1>16, <1>18 DEF Contains, Surjection
<1> QED BY Zenon, <1>16, <1>17, <1>19 DEF l

-----------------------------
\* A hart that cannot be reached, and one that has not left yet, has no event that
\* could wait.
LEMMA NothingWaits ==
    ASSUME NEW h \in Harts, \A e \in SseEvents : event[e].hartid = h => ~Enabled(e)
    PROVE  ~Waits(h)
BY DEF Waits, Ready, Enabled

\* A step that leaves the events alone preserves the invariant.
LEMMA CalmInv ==
    ASSUME EventInv, StatesFit, UNCHANGED sseVars, Calm
    PROVE  EventInv'
<1>1. /\ UNCHANGED <<event, enabled_events, masked, inject_fifo, ge_lock, list_lock, running>>
      /\ UNCHANGED <<scenario, inited>> /\ UNCHANGED calls
  BY DEF sseVars, Calm, calls
<1>2. SseInv'
  <2>1. SseFunctions' /\ OwnHart' /\ NoOneshot' /\ EnabledIsListed'
    BY <1>1 DEF EventInv, SseInv, SseFunctions, OwnHart, NoOneshot, EnabledIsListed, Enabled, OnHarts, Calm
  <2>2. Placed'
    <3>1. \A e \in SseEvents : event[e].hartid \in Harts
      BY DEF EventInv, SseInv, SseFunctions, SseRecords
    <3>2. \A e \in SseEvents : Alive(event[e].hartid) => Alive(event[e].hartid)'
      BY <1>1, <3>1 DEF Calm
    <3>3. AtReset' <=> AtReset
      BY <1>1 DEF AtReset
    <3>4. Placed /\ \A h \in Harts : (Alive(h)' <=> Alive(h)) /\ (Reachable(h) => Reachable(h)')
      BY DEF EventInv, SseInv, Calm
    <3> QED BY <1>1, <3>2, <3>3, <3>4 DEF Placed
  <2>3. \A h \in Harts : Listed(h)'
    BY <1>1 DEF EventInv, SseInv, Listed, Enabled, Calm
  <2>4. \A h \in Harts : Injected(h)'
    BY <1>1 DEF EventInv, SseInv, Injected, Handles
  <2>5. \A h \in Harts : Midway(h)'
    BY <1>1 DEF EventInv, SseInv, Midway, Handles, Enabled, Calm
  <2>6. ColdReset' /\ \A h \in Harts : Orderly(h)'
    BY DEF Calm
  <2> QED BY <2>1, <2>2, <2>3, <2>4, <2>5, <2>6 DEF SseInv
<1>3. StackInv'
  <2> SUFFICES ASSUME NEW h \in Harts
               PROVE  Nested(h, Stack(h))' /\ Resuming(h)'
    BY DEF StackInv
  <2>1. Nested(h, Stack(h)) /\ Resuming(h)
    BY DEF EventInv, StackInv
  <2>2. Stack(h)' = Stack(h) /\ (pc'[h] = "sse_resume" => pc[h] = "sse_resume" /\ local'[h] = local[h])
    BY <1>1 DEF Stack, Calm
  <2>3. Nested(h, Stack(h))'
    <3> DEFINE r == Stack(h)
    <3> HIDE DEF r
    <3>1. Nested(h, r) /\ r' = r
      BY <2>1, <2>2 DEF r
    <3>2. Nested(h, r)'
      BY <1>1, <3>1 DEF Nested
    <3> QED BY <3>2 DEF r
  <2>4. Resuming(h)'
    BY <1>1, <2>1, <2>2 DEF Resuming, Enabled
  <2> QED BY <2>3, <2>4
<1>4. SignalInv'
  <2>1. ASSUME NEW h \in Harts, pc'[h] \in Unlooked, ~masked[h], Waits(h) PROVE Signalled(h)'
    <3>1. CASE pc[h] \in Unlooked
      BY <2>1, <3>1 DEF EventInv, SignalInv, Calm
    <3>2. CASE ~Alive(h)
      BY <2>1, <3>2, NothingWaits DEF EventInv, SseInv, Listed
    <3>3. CASE pc[h] = "finish"
      <4>1. ~Reachable(h)
        BY <3>3 DEF StatesFit, Fits, Running, Reachable
      <4>2. "enable" \notin calls
        BY <2>1, <4>1 DEF EventInv, SseInv, Placed
      <4> QED BY <2>1, <3>3, <4>2, NothingWaits DEF EventInv, SignalInv
    <3> QED BY <2>1, <3>1, <3>2, <3>3 DEF Calm
  <2>2. \A h \in Harts : Waits(h)' <=> Waits(h)
    BY <1>1 DEF Waits, Ready
  <2>3. "enable" \notin calls' => \A h \in Harts : pc'[h] = "finish" =>
           \A e \in SseEvents : event'[e].hartid = h => ~Enabled(e)'
    BY <1>1 DEF EventInv, SignalInv, Enabled, Calm
  <2> QED BY <1>1, <2>1, <2>2, <2>3 DEF SignalInv
<1> QED BY <1>2, <1>3, <1>4 DEF EventInv

\* A step of one hart that leaves the events alone.
LEMMA OwnCalm ==
    ASSUME SseInv, NEW h \in Harts, OnlyMoves(h), Own(h)
    PROVE  Calm
<1>1. \A i \in Harts \ {h} : pc'[i] = pc[i] /\ local'[i] = local[i]
  BY DEF OnlyMoves
<1>2. UNCHANGED <<scenario, inited, ipi_type>> /\ UNCHANGED calls
  BY DEF Own, calls
<1>3. ASSUME NEW i \in Harts
      PROVE  Orderly(i)' /\ (Alive(i)' <=> Alive(i)) /\ (Reachable(i) => Reachable(i)')
  <2>1. CASE i = h
    <3>1. Orderly(i) /\ Tidy(pc'[i], local'[i])
      BY <2>1 DEF Own, SseInv
    <3>2. Orderly(i)'
      BY <1>2, <3>1 DEF Orderly, Tidy
    <3> QED BY <2>1, <3>2 DEF Own
  <2>2. CASE i # h
    <3>1. Orderly(i)'
      BY <1>1, <1>2, <2>2 DEF Orderly, Tidy, SseInv
    <3>2. \/ state'[i] = state[i]
          \/ {state[i], state'[i]} \subseteq {"STOPPED", "START_PENDING"}
      BY <2>2 DEF Own
    <3>3. (Alive(i)' <=> Alive(i)) /\ (Reachable(i) => Reachable(i)')
      BY <1>1, <2>2, <3>2 DEF Alive, Reachable
    <3> QED BY <3>1, <3>3
  <2> QED BY <2>1, <2>2
<1>4. ASSUME NEW i \in Harts, Signalled(i) PROVE Signalled(i)'
  <2>1. CASE "sse" \in ipi_type[i]
    BY <1>2, <2>1 DEF Signalled
  <2>2. CASE \E j \in Harts : pc[j] = "send" /\ local[j].event = "sse" /\ i \in local[j].mask
    <3>1. PICK j \in Harts : pc[j] = "send" /\ local[j].event = "sse" /\ i \in local[j].mask
      BY <2>2
    <3>2. j # h
      BY <3>1 DEF Own
    <3> QED BY <1>1, <3>1, <3>2 DEF Signalled
  <2> QED BY <1>4, <2>1, <2>2 DEF Signalled
<1>5. ColdReset'
  <2>1. ColdReset
    BY DEF SseInv
  <2>2. AtReset' <=> AtReset
    BY <1>2 DEF AtReset
  <2> QED BY <1>1, <2>1, <2>2 DEF ColdReset, Own
<1>6. OnHarts(ipi_type')
  BY <1>2 DEF SseInv, SseFunctions, OnHarts
<1>7. ASSUME NEW i \in Harts
      PROVE  /\ pc'[i] \in {"sse_put", "sse_pend", "sse_resume"} \/ pc[i] = "sse_resume" =>
                  pc'[i] = pc[i] /\ local'[i] = local[i]
             /\ pc'[i] = "finish" => pc[i] = "finish"
             /\ pc'[i] \in Unlooked => pc[i] \in Unlooked \/ ~Alive(i) \/ pc[i] = "finish"
  BY <1>1 DEF Own
<1> QED BY <1>2, <1>3, <1>4, <1>5, <1>6, <1>7 DEF Calm

\* The locals of a hart: those of sbi_ipi_send_many and sbi_ipi_process.
Fields(v, e, m, a, t) ==
    DOMAIN v = DOMAIN Local /\ v.event = e /\ v.mask = m /\ v.again = a /\ v.todo = t

\* What an assignment to one of them leaves of the others.
LEMMA LocalFields ==
    ASSUME NEW r, DOMAIN r = DOMAIN Local, NEW x, NEW y
    PROVE  /\ Fields(Local, "none", {}, {}, {})
           /\ Fields([r EXCEPT !.todo = x], r.event, r.mask, r.again, x)
           /\ Fields([r EXCEPT !.mask = x], r.event, x, r.again, r.todo)
           /\ Fields([r EXCEPT !.again = x], r.event, r.mask, x, r.todo)
           /\ Fields([r EXCEPT !.mask = x, !.again = y], r.event, x, y, r.todo)
           /\ Fields([r EXCEPT !.off = x, !.new = y], r.event, r.mask, r.again, r.todo)
           /\ Fields([r EXCEPT !.sse = x, !.was = y], r.event, r.mask, r.again, r.todo)
           /\ Fields([Local EXCEPT !.to = x, !.addr = y], "none", {}, {}, {})
           /\ Fields([Local EXCEPT !.to = x, !.sse = y], "none", {}, {}, {})
           /\ Fields([Local EXCEPT !.ret = x], "none", {}, {}, {})
           /\ Fields([Local EXCEPT !.addr = x], "none", {}, {}, {})
           /\ Fields([Local EXCEPT !.sse = x], "none", {}, {}, {})
           /\ Fields([Local EXCEPT !.todo = x], "none", {}, {}, x)
           /\ Fields([Local EXCEPT !.event = x, !.mask = y], x, y, {}, {})
<1>1. DOMAIN Local = {"to", "addr", "off", "new", "ret", "mask", "again", "event", "todo", "sse", "was"}
  BY DEF Local
<1>2. Local.event = "none" /\ Local.mask = {} /\ Local.again = {} /\ Local.todo = {}
  BY DEF Local
<1> HIDE DEF Local
<1> QED BY <1>1, <1>2 DEF Fields

-----------------------------
\* What the hypotheses say of a scenario that is played.
LEMMA ScenarioKnown ==
    ASSUME SseScenarios, HangInv
    PROVE  /\ "prefer" \in calls => "inject" \notin calls /\ "oneshot" \notin calls
           /\ "enable" \in calls => "stop" \notin calls /\ "reset" \notin calls
           /\ scenario.targets \subseteq Harts
<1>1. scenario \in Scenarios
  BY DEF HangInv, HangFunctions
<1> QED BY <1>1, HartAssumption DEF SseScenarios, calls

\* The steps of the harts that keep their locals.
LEMMA MachineCalm ==
    ASSUME SseScenarios, SseInv, HangInv, NEW h \in Harts,
           \/ SbiInit(h) \/ WakeColdbootHarts(h) \/ InitWarmboot(h) \/ HartWait(h) \/ Wfi(h)
           \/ StartFinish(h) \/ Launch(h) \/ StartIpi(h) \/ StartRelease(h) \/ HsmExit(h)
           \/ HsmStopped(h) \/ HartStop(h) \/ SuspendCas(h) \/ SuspendReturn(h)
           \/ ResumeStart(h) \/ ResumeFinish(h) \/ TakeIpi(h) \/ IpiClear(h) \/ IpiDone(h)
           \/ ClearSmode(h) \/ ResetStop(h) \/ SystemSuspendCas(h) \/ SystemSuspendNext(h)
    PROVE  Calm
<1>1. /\ OnHarts(pc) /\ OnHarts(local) /\ OnHarts(state)
      /\ Fits(pc[h], state[h]) /\ Tidy(pc[h], local[h])
  BY DEF HangInv, HangFunctions, StatesFit, SseInv, Orderly
<1>2. "enable" \in calls => "stop" \notin calls /\ "reset" \notin calls
  BY ScenarioKnown
<1> USE <1>1, <1>2 DEF OnHarts, OnlyMoves, Own, Set, Goto, bootVars, hsmVars, ipiVars, ChangeState,
                       Alive, Reachable, Unlooked, Fits, Running
<1>3. CASE SbiInit(h)
  <2>1. Tidy(pc'[h], local'[h])
    BY <1>3 DEF SbiInit, Tidy
  <2>2. OnlyMoves(h) /\ Own(h)
    BY <1>3, <2>1 DEF SbiInit
  <2> QED BY <2>2, OwnCalm
<1>4. CASE WakeColdbootHarts(h)
  <2>1. Tidy(pc'[h], local'[h])
    BY <1>4 DEF WakeColdbootHarts, Tidy
  <2>2. OnlyMoves(h) /\ Own(h)
    BY <1>4, <2>1 DEF WakeColdbootHarts
  <2> QED BY <2>2, OwnCalm
<1>5. CASE InitWarmboot(h)
  <2>1. Tidy(pc'[h], local'[h])
    BY <1>5 DEF InitWarmboot, Tidy
  <2>2. OnlyMoves(h) /\ Own(h)
    BY <1>5, <2>1 DEF InitWarmboot
  <2> QED BY <2>2, OwnCalm
<1>6. CASE HartWait(h)
  <2>1. Tidy(pc'[h], local'[h])
    BY <1>6 DEF HartWait, Tidy
  <2>2. OnlyMoves(h) /\ Own(h)
    BY <1>6, <2>1 DEF HartWait
  <2> QED BY <2>2, OwnCalm
<1>7. CASE Wfi(h)
  <2>1. Tidy(pc'[h], local'[h])
    BY <1>7 DEF Wfi, Tidy
  <2>2. OnlyMoves(h) /\ Own(h)
    BY <1>7, <2>1 DEF Wfi
  <2> QED BY <2>2, OwnCalm
<1>8. CASE StartFinish(h)
  <2>1. Tidy(pc'[h], local'[h])
    BY <1>8 DEF StartFinish, Tidy
  <2>2. OnlyMoves(h) /\ Own(h)
    BY <1>8, <2>1 DEF StartFinish
  <2> QED BY <2>2, OwnCalm
<1>9. CASE Launch(h)
  <2>1. Tidy(pc'[h], local'[h])
    BY <1>9 DEF Launch, Tidy
  <2>2. OnlyMoves(h) /\ Own(h)
    BY <1>9, <2>1 DEF Launch
  <2> QED BY <2>2, OwnCalm
<1>10. CASE StartIpi(h)
  <2>1. Tidy(pc'[h], local'[h])
    BY <1>10 DEF StartIpi, Tidy
  <2>2. OnlyMoves(h) /\ Own(h)
    BY <1>10, <2>1 DEF StartIpi
  <2> QED BY <2>2, OwnCalm
<1>11. CASE StartRelease(h)
  <2>1. Tidy(pc'[h], local'[h])
    BY <1>11 DEF StartRelease, Tidy
  <2>2. OnlyMoves(h) /\ Own(h)
    BY <1>11, <2>1 DEF StartRelease
  <2> QED BY <2>2, OwnCalm
<1>12. CASE HsmExit(h)
  <2>1. Tidy(pc'[h], local'[h])
    BY <1>12 DEF HsmExit, Tidy
  <2>2. OnlyMoves(h) /\ Own(h)
    BY <1>12, <2>1 DEF HsmExit
  <2> QED BY <2>2, OwnCalm
<1>13. CASE HsmStopped(h)
  <2>1. Tidy(pc'[h], local'[h])
    BY <1>13 DEF HsmStopped, Tidy
  <2>2. OnlyMoves(h) /\ Own(h)
    BY <1>13, <2>1 DEF HsmStopped
  <2> QED BY <2>2, OwnCalm
<1>14. CASE HartStop(h)
  <2>1. Tidy(pc'[h], local'[h])
    BY <1>14 DEF HartStop, Ecall, Tidy
  <2>2. OnlyMoves(h) /\ Own(h)
    BY <1>14, <2>1 DEF HartStop, Ecall
  <2> QED BY <2>2, OwnCalm
<1>15. CASE SuspendCas(h)
  <2>1. Tidy(pc'[h], local'[h])
    BY <1>15 DEF SuspendCas, Tidy
  <2>2. OnlyMoves(h) /\ Own(h)
    BY <1>15, <2>1 DEF SuspendCas
  <2> QED BY <2>2, OwnCalm
<1>16. CASE SuspendReturn(h)
  <2>1. Tidy(pc'[h], local'[h])
    BY <1>16 DEF SuspendReturn, Tidy
  <2>2. OnlyMoves(h) /\ Own(h)
    BY <1>16, <2>1 DEF SuspendReturn
  <2> QED BY <2>2, OwnCalm
<1>17. CASE ResumeStart(h)
  <2>1. Tidy(pc'[h], local'[h])
    BY <1>17 DEF ResumeStart, Tidy
  <2>2. OnlyMoves(h) /\ Own(h)
    BY <1>17, <2>1 DEF ResumeStart
  <2> QED BY <2>2, OwnCalm
<1>18. CASE ResumeFinish(h)
  <2>1. Tidy(pc'[h], local'[h])
    BY <1>18 DEF ResumeFinish, Tidy
  <2>2. OnlyMoves(h) /\ Own(h)
    BY <1>18, <2>1 DEF ResumeFinish
  <2> QED BY <2>2, OwnCalm
<1>19. CASE TakeIpi(h)
  <2>1. Tidy(pc'[h], local'[h])
    BY <1>19 DEF TakeIpi, Tidy
  <2>2. OnlyMoves(h) /\ Own(h)
    BY <1>19, <2>1 DEF TakeIpi
  <2> QED BY <2>2, OwnCalm
<1>20. CASE IpiClear(h)
  <2>1. Tidy(pc'[h], local'[h])
    BY <1>20 DEF IpiClear, Tidy
  <2>2. OnlyMoves(h) /\ Own(h)
    BY <1>20, <2>1 DEF IpiClear
  <2> QED BY <2>2, OwnCalm
<1>21. CASE IpiDone(h)
  <2>1. Tidy(pc'[h], local'[h])
    BY <1>21 DEF IpiDone, Tidy
  <2>2. OnlyMoves(h) /\ Own(h)
    BY <1>21, <2>1 DEF IpiDone
  <2> QED BY <2>2, OwnCalm
<1>22. CASE ClearSmode(h)
  <2>1. Tidy(pc'[h], local'[h])
    BY <1>22 DEF ClearSmode, Tidy
  <2>2. OnlyMoves(h) /\ Own(h)
    BY <1>22, <2>1 DEF ClearSmode
  <2> QED BY <2>2, OwnCalm
<1>23. CASE ResetStop(h)
  <2>1. Tidy(pc'[h], local'[h])
    BY <1>23 DEF ResetStop, Tidy
  <2>2. OnlyMoves(h) /\ Own(h)
    BY <1>23, <2>1 DEF ResetStop
  <2> QED BY <2>2, OwnCalm
<1>24. CASE SystemSuspendCas(h)
  <2>1. Tidy(pc'[h], local'[h])
    BY <1>24 DEF SystemSuspendCas, Tidy
  <2>2. OnlyMoves(h) /\ Own(h)
    BY <1>24, <2>1 DEF SystemSuspendCas
  <2> QED BY <2>2, OwnCalm
<1>25. CASE SystemSuspendNext(h)
  <2>1. Tidy(pc'[h], local'[h])
    BY <1>25 DEF SystemSuspendNext, Tidy
  <2>2. OnlyMoves(h) /\ Own(h)
    BY <1>25, <2>1 DEF SystemSuspendNext
  <2> QED BY <2>2, OwnCalm
<1> QED BY <1>3, <1>4, <1>5, <1>6, <1>7, <1>8, <1>9, <1>10, <1>11, <1>12, <1>13, <1>14,
           <1>15, <1>16, <1>17, <1>18, <1>19, <1>20, <1>21, <1>22, <1>23, <1>24, <1>25

\* Where a hart is whose state does not depend on it.
Plain == {"S", "ret", "send", "raw", "post", "enqueue", "add", "sync", "process", "st_write", "st_cas",
          "st_kick", "st_rel", "su_cas", "ss_cas", "asleep", "warm", "rs_stop", "xchg",
          "sse_sent", "sse_self"}

\* Hart h goes on at l with the locals v.
LEMMA WriteCalm ==
    ASSUME SseInv, HangInv, NEW h \in Harts, NEW l \in Plain, NEW v, pc[h] \in Plain,
           pc' = [pc EXCEPT ![h] = l], local' = [local EXCEPT ![h] = v], Tidy(l, v),
           UNCHANGED <<scenario, inited, ipi_type, state, lottery>>,
           l \in Unlooked => pc[h] \in Unlooked,
           ~(pc[h] = "send" /\ local[h].event = "sse" /\ local[h].mask # {})
    PROVE  Calm
<1>1. OnHarts(pc) /\ OnHarts(local) /\ OnHarts(state)
  BY DEF HangInv, HangFunctions
<1>2. OnlyMoves(h) /\ pc'[h] = l /\ local'[h] = v
  BY <1>1 DEF OnlyMoves, OnHarts
<1>3. (Alive(h)' <=> Alive(h)) /\ (Reachable(h) => Reachable(h)')
  BY <1>2 DEF Alive, Reachable, Plain
<1>4. Own(h)
  BY <1>2, <1>3 DEF Own, Plain
<1> QED BY <1>2, <1>4, OwnCalm

\* The locals that are written.
LEMMA FieldsTidy ==
    ASSUME NEW l \in Plain, NEW v, NEW r, Tidy(l, r), Fields(v, r.event, r.mask, r.again, r.todo)
    PROVE  Tidy(l, v)
BY DEF Tidy, Fields

\* A call starts with locals of its own.
LEMMA FreshTidy ==
    ASSUME NEW l \in Plain \ {"rs_stop"}, NEW v, Fields(v, "none", {}, {}, {})
    PROVE  Tidy(l, v)
BY DEF Tidy, Fields, Plain

\* Starting and suspending harts.
LEMMA StartCalm ==
    ASSUME SseInv, HangInv, NEW h \in Harts,
           \/ StartWrite(h) \/ SuspendWarm(h)
           \/ \E t \in scenario.targets, a \in Addrs(h) : HartStart(h, t, a)
           \/ \E ret \in BOOLEAN, a \in Addrs(h) : HartSuspend(h, ret, a)
           \/ \E a \in Addrs(h) : SystemSuspend(h, a)
    PROVE  Calm
<1>1. Tidy(pc[h], local[h]) /\ DOMAIN local[h] = DOMAIN Local
  BY DEF SseInv, Orderly, Tidy
<1>2. CASE StartWrite(h)
  <2> DEFINE x == entered[local[h].to] = inited[local[h].to]
             y == inited[local[h].to] = 0
             v == [local[h] EXCEPT !.off = x, !.new = y]
  <2>1. /\ pc[h] = "st_write" /\ pc' = [pc EXCEPT ![h] = "st_cas"]
        /\ UNCHANGED <<scenario, inited, ipi_type, state, lottery>>
    BY <1>2 DEF StartWrite, Goto, Set, bootVars, ipiVars
  <2>2. local' = [local EXCEPT ![h] = v]
    BY <1>2, Zenon DEF StartWrite, Set
  <2> HIDE DEF x, y
  <2>3. Fields(v, local[h].event, local[h].mask, local[h].again, local[h].todo)
    BY Zenon, <1>1, LocalFields
  <2> HIDE DEF v
  <2>4. Tidy("st_cas", local[h]) /\ "st_cas" \in Plain /\ "st_write" \in Plain
    BY <1>1, <2>1 DEF Tidy, Plain
  <2>5. Tidy("st_cas", v)
    BY <2>3, <2>4, FieldsTidy
  <2> QED BY <2>1, <2>2, <2>4, <2>5, WriteCalm DEF Unlooked
<1>3. ASSUME NEW l \in Plain \ {"rs_stop"}, NEW v, Fields(v, "none", {}, {}, {}),
             pc[h] \in {"S", "asleep"}, pc' = [pc EXCEPT ![h] = l], local' = [local EXCEPT ![h] = v],
             UNCHANGED <<scenario, inited, ipi_type, state, lottery>>
      PROVE  Calm
  <2>1. Tidy(l, v)
    BY <1>3, FreshTidy
  <2>2. pc[h] \in Plain /\ pc[h] \in Unlooked /\ pc[h] # "send"
    BY <1>3 DEF Plain, Unlooked
  <2> QED BY <1>3, <2>1, <2>2, WriteCalm
<1>4. CASE SuspendWarm(h)
  <2>1. /\ pc[h] = "asleep" /\ pc' = [pc EXCEPT ![h] = "warm"] /\ local' = [local EXCEPT ![h] = Local]
        /\ UNCHANGED <<scenario, inited, ipi_type, state, lottery>>
    BY <1>4 DEF SuspendWarm, Goto, Set, bootVars, hsmVars, ipiVars
  <2>2. Fields(Local, "none", {}, {}, {})
    BY Zenon, <1>1, LocalFields
  <2>3. "warm" \in Plain \ {"rs_stop"}
    BY DEF Plain
  <2> DEFINE v == Local
  <2> HIDE DEF v
  <2>4. local' = [local EXCEPT ![h] = v] /\ Fields(v, "none", {}, {}, {})
    BY <2>1, <2>2 DEF v
  <2> QED BY Zenon, <1>3, <2>1, <2>3, <2>4
<1>5. CASE \E t \in scenario.targets, a \in Addrs(h) : HartStart(h, t, a)
  <2>1. PICK t \in scenario.targets, a \in Addrs(h) : HartStart(h, t, a)
    BY <1>5
  <2> DEFINE v == [Local EXCEPT !.to = t, !.addr = a]
             l == IF ticket[t] THEN "ret" ELSE "st_write"
  <2>2. /\ pc[h] = "S" /\ pc' = [pc EXCEPT ![h] = l] /\ local' = [local EXCEPT ![h] = v]
        /\ UNCHANGED <<scenario, inited, ipi_type, state, lottery>>
    BY Zenon, <2>1 DEF HartStart, Ecall, Goto, Set, bootVars, ipiVars
  <2>3. Fields(v, "none", {}, {}, {})
    BY Zenon, <1>1, LocalFields
  <2>4. l \in Plain \ {"rs_stop"}
    BY DEF Plain
  <2> HIDE DEF v, l
  <2> QED BY <1>3, <2>2, <2>3, <2>4
<1>6. CASE \E ret \in BOOLEAN, a \in Addrs(h) : HartSuspend(h, ret, a)
  <2>1. PICK ret \in BOOLEAN, a \in Addrs(h) : HartSuspend(h, ret, a)
    BY <1>6
  <2> DEFINE v == [Local EXCEPT !.ret = ret]
  <2>2. /\ pc[h] = "S" /\ pc' = [pc EXCEPT ![h] = "su_cas"] /\ local' = [local EXCEPT ![h] = v]
        /\ UNCHANGED <<scenario, inited, ipi_type, state, lottery>>
    BY <2>1 DEF HartSuspend, Ecall, Goto, Set, bootVars, ipiVars
  <2>3. Fields(v, "none", {}, {}, {})
    BY Zenon, <1>1, LocalFields
  <2>4. "su_cas" \in Plain \ {"rs_stop"}
    BY DEF Plain
  <2> HIDE DEF v
  <2> QED BY <1>3, <2>2, <2>3, <2>4
<1>7. CASE \E a \in Addrs(h) : SystemSuspend(h, a)
  <2>1. PICK a \in Addrs(h) : SystemSuspend(h, a)
    BY <1>7
  <2> DEFINE v == [Local EXCEPT !.addr = a]
             l == IF \A i \in Harts \ {h} : state[i] = "STOPPED" THEN "ss_cas" ELSE "ret"
  <2>2. /\ pc[h] = "S" /\ pc' = [pc EXCEPT ![h] = l] /\ local' = [local EXCEPT ![h] = v]
        /\ UNCHANGED <<scenario, inited, ipi_type, state, lottery>>
    BY <2>1 DEF SystemSuspend, Ecall, Goto, Set, bootVars, hsmVars, ipiVars
  <2>3. Fields(v, "none", {}, {}, {})
    BY Zenon, <1>1, LocalFields
  <2>4. l \in Plain \ {"rs_stop"}
    BY DEF Plain
  <2> HIDE DEF v, l
  <2> QED BY <1>3, <2>2, <2>3, <2>4
<1> QED BY <1>2, <1>4, <1>5, <1>6, <1>7

\* The first target is done with.
LEMMA SentTidy ==
    ASSUME NEW h \in Harts, Tidy("send", local[h])
    PROVE  Tidy("send", Sent(h))
<1> DEFINE x == local[h].mask \ {Target(h)}
           v == [local[h] EXCEPT !.mask = x]
<1>1. x \subseteq local[h].mask /\ Sent(h) = v
  BY Zenon DEF Sent
<1> HIDE DEF x
<1>2. Fields(v, local[h].event, x, local[h].again, local[h].todo)
  BY Zenon, LocalFields DEF Tidy
<1> HIDE DEF v
<1> QED BY <1>1, <1>2 DEF Tidy, Fields

\* Interrupts of harts that do not concern the events.
LEMMA SendCalm ==
    ASSUME SseScenarios, SseInv, HangInv, NEW h \in Harts,
           \/ SendSelf(h) \/ RawSend(h) \/ SendRetry(h) \/ SendDone(h) \/ ProcessSmode(h)
           \/ SendSmode(h, scenario.targets) \/ SystemReset(h)
           \/ UpdateSelf(h) \/ UpdateRetry(h) \/ ProcessTlbDone(h)
           \/ \E r \in scenario.fences[h] : RemoteFence(h, r, scenario.targets)
    PROVE  Calm
<1>1. /\ Tidy(pc[h], local[h]) /\ DOMAIN local[h] = DOMAIN Local
      /\ OnHarts(pc) /\ OnHarts(local)
  BY DEF SseInv, Orderly, Tidy, HangInv, HangFunctions
<1>2. "enable" \in calls => "stop" \notin calls /\ "reset" \notin calls
  BY ScenarioKnown
<1>3. CASE SendSelf(h) \/ RawSend(h) \/ UpdateSelf(h)
  <2> DEFINE v == Sent(h)
  <2>1. /\ pc[h] \in {"send", "raw"} /\ pc' = [pc EXCEPT ![h] = "send"]
        /\ local' = [local EXCEPT ![h] = v] /\ (pc[h] = "send" => local[h].event # "sse")
        /\ UNCHANGED <<scenario, inited, ipi_type, state, lottery>>
    BY <1>1, <1>3 DEF SendSelf, RawSend, UpdateSelf, Goto, Set, bootVars, hsmVars, ipiVars, OnHarts
  <2>2. Tidy("send", local[h]) /\ "send" \in Plain /\ "raw" \in Plain
    BY <1>1, <2>1 DEF Tidy, Plain
  <2>3. Tidy("send", v)
    BY <2>2, SentTidy
  <2> HIDE DEF v
  <2> QED BY <2>1, <2>2, <2>3, WriteCalm DEF Unlooked
<1>4. CASE SendRetry(h)
  <2> DEFINE x == local[h].again
             v == [local[h] EXCEPT !.mask = x, !.again = {}]
  <2>1. /\ pc[h] = "send" /\ local[h].mask = {} /\ local[h].again # {} /\ pc' = [pc EXCEPT ![h] = "send"]
        /\ UNCHANGED <<scenario, inited, ipi_type, state, lottery>>
    BY <1>1, <1>4 DEF SendRetry, bootVars, hsmVars, ipiVars, OnHarts
  <2>2. local' = [local EXCEPT ![h] = v]
    BY <1>4, Zenon DEF SendRetry, Set
  <2>3. Fields(v, local[h].event, x, {}, local[h].todo)
    BY Zenon, <1>1, LocalFields
  <2> HIDE DEF v
  <2>4. Tidy("send", v) /\ "send" \in Plain
    BY <1>1, <2>1, <2>3 DEF Tidy, Fields, Plain
  <2> QED BY <2>1, <2>2, <2>4, WriteCalm DEF Unlooked
<1>5. CASE SendDone(h)
  <2> DEFINE l == CASE local[h].event = "halt" -> "rs_stop"
                    [] local[h].event = "tlb"  -> "sync"
                    [] local[h].event = "sse"  -> "sse_sent"
                    [] OTHER                   -> "ret"
             v == local[h]
  <2>1. /\ pc[h] = "send" /\ local[h].mask = {} /\ local' = [local EXCEPT ![h] = v]
        /\ UNCHANGED <<scenario, inited, ipi_type, state, lottery>>
    BY <1>1, <1>5 DEF SendDone, bootVars, hsmVars, ipiVars, OnHarts
  <2>2. pc' = [pc EXCEPT ![h] = l]
    BY <1>5, Zenon DEF SendDone, Goto, Set
  <2>3. /\ l \in {"rs_stop", "sync", "sse_sent", "ret"}
        /\ l = "rs_stop" => local[h].event = "halt"
    OBVIOUS
  <2> HIDE DEF l
  <2>4. Tidy(l, v) /\ l \in Plain /\ "send" \in Plain
    BY <1>1, <2>1, <2>3 DEF Tidy, Plain
  <2> HIDE DEF v
  <2> QED BY <2>1, <2>2, <2>3, <2>4, WriteCalm DEF Unlooked
<1>6. ASSUME NEW e, Processing(h, e), local' = [local EXCEPT ![h] = Processed(h, e)],
             UNCHANGED <<pc, scenario, inited, ipi_type, state, lottery>>
      PROVE  Calm
  <2> DEFINE x == local[h].todo \ {e}
             v == [local[h] EXCEPT !.todo = x]
  <2>1. /\ pc[h] = "process" /\ pc' = [pc EXCEPT ![h] = "process"] /\ local' = [local EXCEPT ![h] = v]
    BY <1>1, <1>6 DEF Processing, Processed, OnHarts
  <2>2. x \subseteq local[h].todo
    OBVIOUS
  <2> HIDE DEF x
  <2>3. Fields(v, local[h].event, local[h].mask, local[h].again, x)
    BY Zenon, <1>1, LocalFields
  <2> HIDE DEF v
  <2>4. Tidy("process", v) /\ "process" \in Plain
    BY <1>1, <2>1, <2>2, <2>3 DEF Tidy, Fields, Plain
  <2> QED BY <1>6, <2>1, <2>4, WriteCalm DEF Unlooked
<1>7. CASE ProcessSmode(h) \/ ProcessTlbDone(h)
  <2>1. PICK e : /\ Processing(h, e) /\ local' = [local EXCEPT ![h] = Processed(h, e)]
                 /\ UNCHANGED <<pc, scenario, inited, ipi_type, state, lottery>>
    BY <1>7 DEF ProcessSmode, ProcessTlbDone, Set, bootVars, hsmVars, ipiVars
  <2> QED BY <1>6, <2>1
<1>8. ASSUME NEW e, e # "sse", e = "halt" => "reset" \in calls, NEW m,
             pc[h] = "S", pc' = [pc EXCEPT ![h] = "send"],
             local' = [local EXCEPT ![h] = [Local EXCEPT !.event = e, !.mask = m]],
             UNCHANGED <<scenario, inited, ipi_type, state, lottery>>
      PROVE  Calm
  <2> DEFINE v == [Local EXCEPT !.event = e, !.mask = m]
  <2>1. Fields(v, e, m, {}, {}) /\ local' = [local EXCEPT ![h] = v]
    BY Zenon, <1>1, <1>8, LocalFields
  <2> HIDE DEF v
  <2>2. Tidy("send", v) /\ "send" \in Plain /\ "S" \in Plain
    BY <1>2, <1>8, <2>1 DEF Tidy, Fields, Plain
  <2> QED BY Zenon, <1>8, <2>1, <2>2, WriteCalm DEF Unlooked
<1>9. CASE SendSmode(h, scenario.targets)
  <2> DEFINE m == scenario.targets \cap Interruptible
  <2>1. /\ pc[h] = "S" /\ pc' = [pc EXCEPT ![h] = "send"]
        /\ UNCHANGED <<scenario, inited, ipi_type, state, lottery>>
    BY <1>9 DEF SendSmode, Ecall, Goto, Set, bootVars, hsmVars, ipiVars
  <2>2. local' = [local EXCEPT ![h] = [Local EXCEPT !.event = "smode", !.mask = m]]
    BY <1>9, Zenon DEF SendSmode, Sending, Set
  <2> HIDE DEF m
  <2> QED BY Zenon, <1>8, <2>1, <2>2
<1>10. CASE SystemReset(h)
  <2> DEFINE m == Harts \cap Interruptible
  <2>1. /\ pc[h] = "S" /\ pc' = [pc EXCEPT ![h] = "send"] /\ "reset" \in calls
        /\ UNCHANGED <<scenario, inited, ipi_type, state, lottery>>
    BY <1>10 DEF SystemReset, Ecall, Goto, Set, bootVars, hsmVars, ipiVars
  <2>2. local' = [local EXCEPT ![h] = [Local EXCEPT !.event = "halt", !.mask = m]]
    BY <1>10, Zenon DEF SystemReset, Sending, Set
  <2> HIDE DEF m
  <2> QED BY Zenon, <1>8, <2>1, <2>2
<1>11. CASE \E r \in scenario.fences[h] : RemoteFence(h, r, scenario.targets)
  <2>1. PICK r \in scenario.fences[h] : RemoteFence(h, r, scenario.targets)
    BY <1>11
  <2> DEFINE m == scenario.targets \cap Interruptible
  <2>2. /\ pc[h] = "S" /\ pc' = [pc EXCEPT ![h] = "send"]
        /\ UNCHANGED <<scenario, inited, ipi_type, state, lottery>>
    BY <2>1 DEF RemoteFence, Ecall, Goto, Set, bootVars, hsmVars, ipiVars
  <2>3. local' = [local EXCEPT ![h] = [Local EXCEPT !.event = "tlb", !.mask = m]]
    BY <2>1, Zenon DEF RemoteFence, Sending, Set
  <2> HIDE DEF m
  <2> QED BY Zenon, <1>8, <2>2, <2>3
<1>12. CASE UpdateRetry(h)
  <2> DEFINE x == local[h].again \cup {Target(h)}
             r == Sent(h)
             v == [r EXCEPT !.again = x]
  <2>1. /\ pc[h] = "enqueue" /\ pc' = [pc EXCEPT ![h] = "send"]
        /\ UNCHANGED <<scenario, inited, ipi_type, state, lottery>>
    BY <1>12 DEF UpdateRetry, Goto, Set, bootVars, hsmVars, ipiVars
  <2>2. local' = [local EXCEPT ![h] = v]
    BY <1>12, Zenon DEF UpdateRetry, Set
  <2>3. Tidy("send", local[h]) /\ local[h].event # "sse"
    BY <1>1, <2>1 DEF Tidy
  <2>4. Tidy("send", r) /\ r.event = local[h].event
    <3> DEFINE y == local[h].mask \ {Target(h)}
    <3>1. r = [local[h] EXCEPT !.mask = y]
      BY Zenon DEF Sent
    <3> HIDE DEF r, y
    <3>2. r.event = local[h].event
      BY <1>1, <3>1, LocalFields DEF Fields
    <3> QED BY <2>3, <3>2, SentTidy DEF r
  <2> HIDE DEF x, r
  <2>5. Fields(v, r.event, r.mask, x, r.todo)
    BY Zenon, <2>4, LocalFields DEF Tidy
  <2> HIDE DEF v
  <2>6. Tidy("send", v) /\ "send" \in Plain /\ "enqueue" \in Plain
    BY <2>3, <2>4, <2>5 DEF Tidy, Fields, Plain
  <2> QED BY <2>1, <2>2, <2>6, WriteCalm DEF Unlooked
<1> QED BY <1>3, <1>4, <1>5, <1>7, <1>9, <1>10, <1>11, <1>12

\* The other steps of the remote fences.
LEMMA FenceCalm ==
    ASSUME SseInv, HangInv, NEW h \in Harts,
           UpdateInplace(h) \/ UpdateEnqueue(h) \/ UpdateAdd(h) \/ SyncDone(h)
    PROVE  Calm
<1> DEFINE v == local[h]
           l == pc'[h]
<1>1. Tidy(pc[h], v) /\ OnHarts(pc) /\ OnHarts(local)
  BY DEF SseInv, Orderly, HangInv, HangFunctions
<1>2. /\ pc' = [pc EXCEPT ![h] = l] /\ local' = [local EXCEPT ![h] = v]
      /\ UNCHANGED <<scenario, inited, ipi_type, state, lottery>>
      /\ pc[h] \in {"send", "enqueue", "add", "sync"} /\ (pc[h] = "send" => local[h].event = "tlb")
      /\ l \in {"enqueue", "add", "post", "ret"}
      /\ l \in {"enqueue", "add", "post"} => pc[h] \in {"send", "enqueue", "add"}
  <2> USE <1>1 DEF Goto, Set, bootVars, hsmVars, ipiVars, OnHarts
  <2>1. CASE UpdateInplace(h)
    BY <2>1 DEF UpdateInplace
  <2>2. CASE UpdateEnqueue(h)
    BY <2>2 DEF UpdateEnqueue
  <2>3. CASE UpdateAdd(h)
    BY <2>3 DEF UpdateAdd
  <2>4. CASE SyncDone(h)
    BY <2>4 DEF SyncDone
  <2> QED BY <2>1, <2>2, <2>3, <2>4
<1>3. Tidy(l, v) /\ l \in Plain /\ pc[h] \in Plain /\ l \notin Unlooked
  BY <1>1, <1>2 DEF Tidy, Plain, Unlooked
<1> HIDE DEF v, l
<1> QED BY <1>2, <1>3, WriteCalm DEF v

\* A step that changes nothing of the harts.
LEMMA StillCalm ==
    ASSUME SseInv, UNCHANGED hartVars
    PROVE  Calm
<1>1. UNCHANGED <<scenario, inited, pc, local, state, ipi_type, lottery>> /\ UNCHANGED calls
  BY DEF hartVars, bootVars, hsmVars, ipiVars, calls
<1>2. ColdReset' /\ OnHarts(ipi_type')
  BY <1>1 DEF SseInv, ColdReset, AtReset, SseFunctions, OnHarts
<1>3. \A i \in Harts : Orderly(i)' /\ (Alive(i)' <=> Alive(i)) /\ (Reachable(i)' <=> Reachable(i))
                       /\ (Signalled(i)' <=> Signalled(i))
  BY <1>1 DEF SseInv, Orderly, Tidy, Alive, Reachable, Signalled
<1> QED BY <1>1, <1>2, <1>3 DEF Calm

\* The only target of a hart that sends a software event.
LEMMA OnlyTarget ==
    ASSUME NEW h \in Harts, Tidy(pc[h], local[h]), local[h].event = "sse",
           NEW i \in Harts, i \in local[h].mask
    PROVE  Target(h) = i
<1>1. \A j \in local[h].mask : j = i
  BY DEF Tidy
<1>2. i <= i
  BY HartAssumption DEF Harts
<1> QED BY <1>1, <1>2 DEF Target, First

\* sbi_ipi_send posts an event.
LEMMA PostCalm ==
    ASSUME SseInv, HangInv, NEW h \in Harts, PostEvent(h)
    PROVE  Calm
<1> DEFINE t == Target(h)
           v == local'[h]
           l == pc'[h]
<1>1. /\ Tidy(pc[h], local[h]) /\ OnHarts(pc) /\ OnHarts(local) /\ OnHarts(ipi_type)
      /\ DOMAIN local[h] = DOMAIN Local
  BY DEF SseInv, Orderly, HangInv, HangFunctions, SseFunctions, Tidy
<1>2. /\ pc[h] \in {"post", "send"} /\ (pc[h] = "send" => local[h].event # "tlb")
      /\ UNCHANGED <<scenario, inited, state, lottery>>
      /\ ipi_type' = [ipi_type EXCEPT ![t] = ipi_type[t] \cup {local[h].event}]
      /\ \/ pc' = [pc EXCEPT ![h] = "raw"] /\ UNCHANGED local
         \/ pc' = [pc EXCEPT ![h] = "send"] /\ local' = [local EXCEPT ![h] = Sent(h)]
  BY DEF PostEvent, Goto, Set, bootVars, hsmVars
<1>3. Tidy("send", local[h]) /\ Tidy("raw", local[h])
  BY <1>1, <1>2 DEF Tidy
<1>4. OnlyMoves(h) /\ l \in {"raw", "send"} /\ Tidy(l, v) /\ OnHarts(ipi_type')
  <2>1. Tidy("send", Sent(h))
    BY <1>3, SentTidy
  <2>2. OnHarts(ipi_type')
    BY <1>1, <1>2 DEF OnHarts
  <2>3. CASE pc' = [pc EXCEPT ![h] = "raw"] /\ UNCHANGED local
    BY <1>1, <1>3, <2>2, <2>3 DEF OnlyMoves, OnHarts
  <2>4. CASE pc' = [pc EXCEPT ![h] = "send"] /\ local' = [local EXCEPT ![h] = Sent(h)]
    <3> DEFINE s == Sent(h)
    <3> HIDE DEF s
    <3>1. local' = [local EXCEPT ![h] = s] /\ Tidy("send", s)
      BY <2>1, <2>4 DEF s
    <3> QED BY <1>1, <2>2, <2>4, <3>1 DEF OnlyMoves, OnHarts
  <2> QED BY <1>2, <2>3, <2>4
<1> HIDE DEF l, v, t
<1>5. \A i \in Harts \ {h} : pc'[i] = pc[i] /\ local'[i] = local[i]
  BY <1>4 DEF OnlyMoves
<1>6. UNCHANGED calls
  BY <1>2 DEF calls
<1>7. ASSUME NEW i \in Harts
      PROVE  Orderly(i)' /\ (Alive(i)' <=> Alive(i)) /\ (Reachable(i) => Reachable(i)')
  <2>1. ("enable" \in calls => "halt" \notin ipi_type'[i])
    <3>1. "enable" \in calls => "halt" \notin ipi_type[i] /\ local[h].event # "halt"
      BY <1>1 DEF SseInv, Orderly, Tidy
    <3> QED BY <1>1, <1>2, <3>1 DEF OnHarts
  <2>2. Tidy(pc'[i], local'[i])
    BY <1>4, <1>5 DEF SseInv, Orderly, l, v
  <2>3. Orderly(i)'
    BY <1>6, <2>1, <2>2 DEF Orderly, Tidy
  <2>4. (Alive(i)' <=> Alive(i)) /\ (Reachable(i) => Reachable(i)')
    BY <1>2, <1>4, <1>5 DEF Alive, Reachable, l
  <2> QED BY <2>3, <2>4
<1>8. ASSUME NEW i \in Harts, Signalled(i) PROVE Signalled(i)'
  <2>1. CASE "sse" \in ipi_type[i]
    BY <1>1, <1>2, <2>1 DEF Signalled, OnHarts
  <2>2. CASE \E j \in Harts : pc[j] = "send" /\ local[j].event = "sse" /\ i \in local[j].mask
    <3>1. PICK j \in Harts : pc[j] = "send" /\ local[j].event = "sse" /\ i \in local[j].mask
      BY <2>2
    <3>2. CASE j # h
      BY <1>5, <3>1, <3>2 DEF Signalled
    <3>3. CASE j = h
      <4>1. t = i
        BY <1>1, <3>1, <3>3, OnlyTarget DEF t
      <4>2. "sse" \in ipi_type'[i]
        BY <1>1, <1>2, <3>1, <3>3, <4>1 DEF OnHarts
      <4> QED BY <4>2 DEF Signalled
    <3> QED BY <3>2, <3>3
  <2> QED BY <1>8, <2>1, <2>2 DEF Signalled
<1>9. ColdReset'
  BY <1>2, <1>4, <1>5 DEF SseInv, ColdReset, AtReset, l
<1> QED BY <1>2, <1>4, <1>5, <1>7, <1>8, <1>9 DEF Calm, l, Unlooked

\* The events are taken.
LEMMA XchgCalm ==
    ASSUME SseInv, HangInv, NEW h \in Harts, IpiXchg(h)
    PROVE  Calm
<1> DEFINE x == ipi_type[h]
           v == [Local EXCEPT !.todo = x]
<1>1. OnHarts(pc) /\ OnHarts(local) /\ OnHarts(ipi_type) /\ DOMAIN local[h] = DOMAIN Local
  BY DEF SseInv, Orderly, HangInv, HangFunctions, SseFunctions, Tidy
<1>2. /\ pc[h] = "xchg" /\ pc' = [pc EXCEPT ![h] = "process"]
      /\ UNCHANGED <<scenario, inited, state, lottery>>
      /\ ipi_type' = [ipi_type EXCEPT ![h] = {}]
  BY DEF IpiXchg, Goto, Set, bootVars, hsmVars
<1>3. local' = [local EXCEPT ![h] = v]
  BY Zenon DEF IpiXchg, Set
<1>4. "enable" \in calls => "halt" \notin x
  BY DEF SseInv, Orderly
<1> HIDE DEF x
<1>5. Fields(v, "none", {}, {}, x)
  BY Zenon, <1>1, LocalFields
<1> HIDE DEF v
<1>6. Tidy("process", v) /\ UNCHANGED calls
  BY <1>2, <1>4, <1>5 DEF Tidy, Fields, calls
<1>7. /\ \A i \in Harts \ {h} : pc'[i] = pc[i] /\ local'[i] = local[i] /\ ipi_type'[i] = ipi_type[i]
      /\ pc'[h] = "process" /\ local'[h] = v /\ ipi_type'[h] = {} /\ OnHarts(ipi_type')
  BY <1>1, <1>2, <1>3 DEF OnHarts
<1>8. ASSUME NEW i \in Harts
      PROVE  Orderly(i)' /\ (Alive(i)' <=> Alive(i)) /\ (Reachable(i) => Reachable(i)')
  <2>1. Tidy(pc'[i], local'[i])
    BY <1>6, <1>7 DEF SseInv, Orderly
  <2>2. "enable" \in calls => "halt" \notin ipi_type'[i]
    BY <1>7 DEF SseInv, Orderly
  <2>3. Orderly(i)'
    BY <1>6, <2>1, <2>2 DEF Orderly, Tidy
  <2>4. (Alive(i)' <=> Alive(i)) /\ (Reachable(i) => Reachable(i)')
    BY <1>2, <1>7 DEF Alive, Reachable
  <2> QED BY <2>3, <2>4
<1>9. \A i \in Harts \ {h} : Signalled(i) => Signalled(i)'
  BY <1>2, <1>7 DEF Signalled
<1>10. ColdReset'
  BY <1>2, <1>7 DEF SseInv, ColdReset, AtReset
<1> QED BY <1>2, <1>7, <1>8, <1>9, <1>10 DEF Calm, Unlooked

\* They are cleared in the boot of a hart, which is not up yet.
LEMMA IpiInitCalm ==
    ASSUME SseInv, HangInv, NEW h \in Harts, IpiInit(h)
    PROVE  Calm
<1>1. /\ OnHarts(pc) /\ OnHarts(local) /\ OnHarts(ipi_type) /\ OnHarts(state)
      /\ Tidy(pc[h], local[h]) /\ Fits(pc[h], state[h])
  BY DEF SseInv, Orderly, HangInv, HangFunctions, SseFunctions, StatesFit
<1>2. /\ pc[h] = "init" /\ pc' = [pc EXCEPT ![h] = "clear"]
      /\ UNCHANGED <<scenario, inited, state, lottery, local>>
      /\ ipi_type' = [ipi_type EXCEPT ![h] = {}]
  BY DEF IpiInit, Goto, Set, hsmVars
<1>3. /\ \A i \in Harts \ {h} : pc'[i] = pc[i] /\ ipi_type'[i] = ipi_type[i]
      /\ pc'[h] = "clear" /\ ipi_type'[h] = {} /\ OnHarts(ipi_type')
  BY <1>1, <1>2 DEF OnHarts
<1>4. Tidy("clear", local[h]) /\ UNCHANGED calls
  BY <1>1, <1>2 DEF Tidy, calls
<1>5. state[h] = "START_PENDING"
  BY <1>1, <1>2 DEF Fits, Running
<1>6. ASSUME NEW i \in Harts
      PROVE  Orderly(i)' /\ (Alive(i)' <=> Alive(i)) /\ (Reachable(i) => Reachable(i)')
  <2>1. Tidy(pc'[i], local'[i])
    BY <1>2, <1>3, <1>4 DEF SseInv, Orderly
  <2>2. "enable" \in calls => "halt" \notin ipi_type'[i]
    BY <1>3 DEF SseInv, Orderly
  <2>3. Orderly(i)'
    BY <1>4, <2>1, <2>2 DEF Orderly, Tidy
  <2>4. (Alive(i)' <=> Alive(i)) /\ (Reachable(i) => Reachable(i)')
    BY <1>2, <1>3, <1>5 DEF Alive, Reachable
  <2> QED BY <2>3, <2>4
<1>7. \A i \in Harts \ {h} : Signalled(i) => Signalled(i)'
  BY <1>2, <1>3 DEF Signalled
<1>8. ColdReset'
  BY <1>2, <1>3 DEF SseInv, ColdReset, AtReset
<1> QED BY <1>2, <1>3, <1>6, <1>7, <1>8 DEF Calm, Unlooked

\* sbi_ipi_process_halt.
LEMMA HaltCalm ==
    ASSUME SseInv, HangInv, NEW h \in Harts, ProcessHalt(h)
    PROVE  Calm
<1> DEFINE v == local'[h]
           x == local[h].todo \ {"halt"}
           w == [local[h] EXCEPT !.todo = x]
<1>1. /\ Tidy(pc[h], local[h]) /\ OnHarts(pc) /\ OnHarts(local) /\ OnHarts(state)
      /\ DOMAIN local[h] = DOMAIN Local /\ Fits(pc[h], state[h])
  BY DEF SseInv, Orderly, HangInv, HangFunctions, StatesFit, Tidy
<1>2. /\ pc[h] = "process" /\ "halt" \in local[h].todo
      /\ UNCHANGED <<scenario, inited, ipi_type, lottery>>
      /\ IF state[h] = "STARTED"
         THEN state' = [state EXCEPT ![h] = "STOP_PENDING"] /\ pc' = [pc EXCEPT ![h] = "exit"]
         ELSE UNCHANGED state /\ pc' = [pc EXCEPT ![h] = "process"]
  BY DEF ProcessHalt, Processing, ChangeState, Goto, Set, bootVars, ipiVars
<1>3. local' = [local EXCEPT ![h] = IF state[h] = "STARTED" THEN Local ELSE w]
  BY Zenon DEF ProcessHalt, Processed, Set
<1>4. "enable" \notin calls
  BY <1>1, <1>2 DEF Tidy
<1> HIDE DEF x
<1>5. Fields(Local, "none", {}, {}, {}) /\ Fields(w, local[h].event, local[h].mask, local[h].again, x)
  BY Zenon, <1>1, LocalFields
<1> DEFINE z == Local
<1> HIDE DEF w, z
<1>6. OnlyMoves(h) /\ (v = z \/ v = w)
  <2>1. local' = [local EXCEPT ![h] = IF state[h] = "STARTED" THEN z ELSE w]
    BY <1>3 DEF z
  <2> QED BY <1>1, <1>2, <2>1 DEF OnlyMoves, OnHarts
<1> HIDE DEF v
<1>7. pc'[h] \in {"exit", "process"}
  BY <1>1, <1>2 DEF OnHarts
<1>8. Tidy(pc'[h], v)
  <2>1. Fields(z, "none", {}, {}, {})
    BY <1>5 DEF z
  <2>2. CASE v = z
    BY <1>4, <1>7, <2>1, <2>2 DEF Tidy, Fields
  <2>3. CASE v = w
    BY <1>1, <1>4, <1>5, <1>7, <2>3 DEF Tidy, Fields
  <2> QED BY <1>6, <2>2, <2>3
<1>9. Own(h)
  BY <1>1, <1>2, <1>7, <1>8 DEF Own, OnHarts, Alive, Reachable, Fits, Running, Unlooked, v
<1> QED BY <1>6, <1>9, OwnCalm

\* The state of a hart that does not run.
LEMMA CasCalm ==
    ASSUME SseInv, HangInv, NEW h \in Harts, StartCas(h) \/ StartRefused(h)
    PROVE  Calm
<1> DEFINE t == local[h].to
           v == local[h]
           l == pc'[h]
<1>1. /\ Tidy(pc[h], local[h]) /\ OnHarts(pc) /\ OnHarts(local) /\ OnHarts(state)
      /\ Fits(pc[h], state[h])
  BY DEF SseInv, Orderly, HangInv, HangFunctions, StatesFit
<1>2. /\ pc[h] \in {"st_cas", "st_kick"} /\ \E k \in {"st_kick", "st_rel"} : pc' = [pc EXCEPT ![h] = k]
      /\ UNCHANGED <<scenario, inited, ipi_type, lottery, local>>
  BY DEF StartCas, StartRefused, Goto, Set, bootVars, ipiVars
<1>3. \A i \in Harts : \/ state'[i] = state[i]
                       \/ {state[i], state'[i]} \subseteq {"STOPPED", "START_PENDING"}
  <2>1. CASE StartCas(h)
    BY <1>1, <2>1 DEF StartCas, OnHarts, Set
  <2>2. CASE StartRefused(h)
    BY <1>1, <2>2 DEF StartRefused, OnHarts, Set
  <2> QED BY <2>1, <2>2
<1>4. OnlyMoves(h) /\ l \in {"st_kick", "st_rel"}
  BY <1>1, <1>2 DEF OnlyMoves, OnHarts
<1>5. state[h] = "STARTED" /\ state'[h] = "STARTED"
  BY <1>1, <1>2, <1>3 DEF Fits
<1>6. Tidy(l, local[h])
  BY <1>1, <1>4 DEF Tidy
<1> HIDE DEF l
<1>7. Own(h)
  BY <1>2, <1>3, <1>4, <1>5, <1>6 DEF Own, Alive, Reachable, Unlooked, l
<1> QED BY <1>4, <1>7, OwnCalm

\* A device powers a hart on.
LEMMA DeviceCalm ==
    ASSUME SseInv, HangInv, NEW h \in Harts, StartDevice(h)
    PROVE  Calm
<1> DEFINE t == local[h].to
<1>1. /\ OnHarts(pc) /\ OnHarts(local) /\ pc[h] = "st_kick" /\ pc[t] = "off" /\ t \in Harts
      /\ pc' = [pc EXCEPT ![t] = "reset", ![h] = "ret"]
      /\ UNCHANGED <<scenario, inited, ipi_type, state, lottery, local>>
  BY DEF HangInv, HangFunctions, CallerKnown, StartDevice, bootVars, hsmVars, ipiVars
<1> HIDE DEF t
<1>2. /\ pc'[h] = "ret" /\ pc'[t] = "reset" /\ t # h
      /\ \A i \in Harts : i # t /\ i # h => pc'[i] = pc[i]
  BY <1>1 DEF OnHarts
<1>3. UNCHANGED calls
  BY <1>1 DEF calls
<1>4. ASSUME NEW i \in Harts
      PROVE  Orderly(i)' /\ (Alive(i)' <=> Alive(i)) /\ (Reachable(i) => Reachable(i)')
  <2>1. Tidy(pc[i], local[i])
    BY DEF SseInv, Orderly
  <2>2. Tidy(pc'[i], local[i])
    BY <1>1, <1>2, <2>1 DEF Tidy
  <2>3. Orderly(i)'
    BY <1>1, <1>3, <2>2 DEF SseInv, Orderly, Tidy
  <2>4. (Alive(i)' <=> Alive(i)) /\ (Reachable(i) => Reachable(i)')
    BY <1>1, <1>2 DEF Alive, Reachable
  <2> QED BY <2>3, <2>4
<1>5. ASSUME NEW i \in Harts, Signalled(i) PROVE Signalled(i)'
  <2>1. CASE "sse" \in ipi_type[i]
    BY <1>1, <2>1 DEF Signalled
  <2>2. CASE \E j \in Harts : pc[j] = "send" /\ local[j].event = "sse" /\ i \in local[j].mask
    <3>1. PICK j \in Harts : pc[j] = "send" /\ local[j].event = "sse" /\ i \in local[j].mask
      BY <2>2
    <3>2. j # h /\ j # t
      BY <1>1, <3>1
    <3> QED BY <1>1, <1>2, <3>1, <3>2 DEF Signalled
  <2> QED BY <1>5, <2>1, <2>2 DEF Signalled
<1>6. ColdReset' /\ OnHarts(ipi_type')
  BY <1>1, <1>2 DEF SseInv, SseFunctions, OnHarts, ColdReset, AtReset
<1>7. ASSUME NEW i \in Harts
      PROVE  /\ pc'[i] \in {"sse_put", "sse_pend", "sse_resume"} \/ pc[i] = "sse_resume" =>
                  pc'[i] = pc[i] /\ local'[i] = local[i]
             /\ pc'[i] = "finish" => pc[i] = "finish"
             /\ pc'[i] \in Unlooked => pc[i] \in Unlooked
  BY <1>1, <1>2 DEF Unlooked
<1> QED BY <1>1, <1>4, <1>5, <1>6, <1>7 DEF Calm

\* The first hart sets up the states; nobody has been initialised yet.
LEMMA ColdCalm ==
    ASSUME SseInv, HangInv, NEW h \in Harts, InitColdboot(h)
    PROVE  Calm
<1>1. /\ OnHarts(pc) /\ OnHarts(local) /\ OnHarts(state)
      /\ pc[h] = "cold" /\ pc' = [pc EXCEPT ![h] = "cold2"]
      /\ state' = [i \in Harts |-> IF i = h THEN "START_PENDING" ELSE "STOPPED"]
      /\ UNCHANGED <<scenario, inited, ipi_type, lottery, local>> /\ inited \in [Harts -> Nat]
  BY DEF HangInv, HangFunctions, InitColdboot, Goto, Set, bootVars, ipiVars
<1>2. AtReset
  BY <1>1 DEF SseInv, ColdReset
<1>3. \A i \in Harts : ~Alive(i) /\ ~Reachable(i)
  BY <1>2 DEF SseInv, Placed, AtReset, Alive
<1>4. /\ pc'[h] = "cold2" /\ \A i \in Harts : i # h => pc'[i] = pc[i]
      /\ \A i \in Harts : ~Alive(i)' /\ ~Reachable(i)'
  BY <1>1, <1>3 DEF Alive, Reachable, OnHarts
<1>5. UNCHANGED calls
  BY <1>1 DEF calls
<1>6. ASSUME NEW i \in Harts PROVE Orderly(i)'
  <2>1. Tidy(pc[i], local[i])
    BY DEF SseInv, Orderly
  <2>2. Tidy(pc'[i], local[i])
    BY <1>1, <1>4, <2>1 DEF Tidy
  <2> QED BY <1>1, <1>5, <2>2 DEF SseInv, Orderly, Tidy
<1>7. ASSUME NEW i \in Harts, Signalled(i) PROVE Signalled(i)'
  <2>1. CASE "sse" \in ipi_type[i]
    BY <1>1, <2>1 DEF Signalled
  <2>2. CASE \E j \in Harts : pc[j] = "send" /\ local[j].event = "sse" /\ i \in local[j].mask
    <3>1. PICK j \in Harts : pc[j] = "send" /\ local[j].event = "sse" /\ i \in local[j].mask
      BY <2>2
    <3>2. j # h
      BY <1>1, <3>1
    <3> QED BY <1>1, <1>4, <3>1, <3>2 DEF Signalled
  <2> QED BY <1>7, <2>1, <2>2 DEF Signalled
<1>8. ColdReset' /\ OnHarts(ipi_type')
  BY <1>1, <1>2 DEF SseInv, SseFunctions, OnHarts, ColdReset, AtReset
<1>9. ASSUME NEW i \in Harts
      PROVE  /\ pc'[i] \in {"sse_put", "sse_pend", "sse_resume"} \/ pc[i] = "sse_resume" =>
                  pc'[i] = pc[i] /\ local'[i] = local[i]
             /\ pc'[i] = "finish" => pc[i] = "finish"
  BY <1>1, <1>4
<1> QED BY <1>1, <1>3, <1>4, <1>6, <1>7, <1>8, <1>9 DEF Calm

\* Together: the harts and the remote fences leave the events alone.
LEMMA HartsCalm ==
    ASSUME SseScenarios, SseInv, HangInv, NEW h \in Harts,
           Machine(h) \/ Supervisor(h) \/ Wake(h) \/ TlbMachine(h) \/ TlbSupervisor(h) \/ EntryDone(h)
    PROVE  Calm
<1>1. CASE Machine(h)
  <2>1. CASE \/ SbiInit(h) \/ WakeColdbootHarts(h) \/ InitWarmboot(h) \/ HartWait(h) \/ Wfi(h)
             \/ StartFinish(h) \/ Launch(h) \/ StartIpi(h)
             \/ StartRelease(h) \/ HsmExit(h) \/ HsmStopped(h) \/ SuspendCas(h)
             \/ ResumeStart(h) \/ ResumeFinish(h) \/ TakeIpi(h) \/ IpiClear(h) \/ IpiDone(h)
             \/ ResetStop(h) \/ SystemSuspendCas(h) \/ SystemSuspendNext(h)
    BY <2>1, MachineCalm
  <2>2. CASE InitColdboot(h) \/ StartCas(h) \/ StartRefused(h) \/ StartDevice(h) \/ StartWrite(h)
    BY <2>2, ColdCalm, CasCalm, DeviceCalm, StartCalm
  <2>3. CASE SendSelf(h) \/ RawSend(h) \/ SendRetry(h) \/ SendDone(h) \/ ProcessSmode(h)
    BY <2>3, SendCalm
  <2>4. CASE PostEvent(h) \/ IpiXchg(h) \/ IpiInit(h) \/ ProcessHalt(h)
    BY <2>4, PostCalm, XchgCalm, IpiInitCalm, HaltCalm
  <2> QED BY <1>1, <2>1, <2>2, <2>3, <2>4 DEF Machine
<1>2. CASE Supervisor(h)
  <2>1. CASE HartStop(h) \/ ClearSmode(h)
    BY <2>1, MachineCalm
  <2>2. CASE SendSmode(h, scenario.targets) \/ SystemReset(h)
    BY <2>2, SendCalm
  <2>3. CASE \/ \E t \in scenario.targets, a \in Addrs(h) : HartStart(h, t, a)
             \/ \E ret \in BOOLEAN, a \in Addrs(h) : HartSuspend(h, ret, a)
             \/ \E a \in Addrs(h) : SystemSuspend(h, a)
    BY <2>3, StartCalm
  <2> QED BY <1>2, <2>1, <2>2, <2>3 DEF Supervisor
<1>3. CASE Wake(h)
  BY <1>3, MachineCalm, StartCalm DEF Wake
<1>4. CASE TlbMachine(h)
  <2>1. CASE UpdateSelf(h) \/ UpdateRetry(h) \/ ProcessTlbDone(h)
    BY <2>1, SendCalm
  <2>2. CASE UpdateInplace(h) \/ UpdateEnqueue(h) \/ UpdateAdd(h) \/ SyncDone(h)
    BY <2>2, FenceCalm
  <2>3. CASE SyncTake(h) \/ ProcessTake(h)
    BY <2>3, StillCalm DEF SyncTake, ProcessTake
  <2> QED BY <1>4, <2>1, <2>2, <2>3 DEF TlbMachine
<1>5. CASE TlbSupervisor(h)
  BY <1>5, SendCalm DEF TlbSupervisor
<1>6. CASE EntryDone(h)
  BY <1>6, StillCalm DEF EntryDone
<1> QED BY <1>1, <1>2, <1>3, <1>4, <1>5, <1>6

-----------------------------
\* The attributes w of an event.
Becomes(w, s, p, o, t, c) ==
    /\ w \in SseRecords /\ w.state = s /\ w.pending = p /\ w.oneshot = o /\ w.hartid = t
    /\ w.interrupted = c

\* One of them is written.
LEMMA RecordSet ==
    ASSUME NEW r \in SseRecords
    PROVE  /\ \A s \in {"UNUSED", "REGISTERED", "ENABLED", "RUNNING"} :
                 Becomes([r EXCEPT !.state = s], s, r.pending, r.oneshot, r.hartid, r.interrupted)
           /\ \A p \in BOOLEAN :
                 Becomes([r EXCEPT !.pending = p], r.state, p, r.oneshot, r.hartid, r.interrupted)
           /\ \A p \in Nat :
                 Becomes([r EXCEPT !.prio = p], r.state, r.pending, r.oneshot, r.hartid, r.interrupted)
           /\ \A o \in BOOLEAN :
                 Becomes([r EXCEPT !.oneshot = o], r.state, r.pending, o, r.hartid, r.interrupted)
           /\ \A t \in Harts :
                 Becomes([r EXCEPT !.hartid = t], r.state, r.pending, r.oneshot, t, r.interrupted)
           /\ \A c \in Harts \X Seq(SseEvents) :
                 Becomes([r EXCEPT !.interrupted = c], r.state, r.pending, r.oneshot, r.hartid, c)
<1> DEFINE S == {"UNUSED", "REGISTERED", "ENABLED", "RUNNING"}
           I == {<<>>} \cup (Harts \X Seq(SseEvents))
<1>1. \A c \in Harts \X Seq(SseEvents) : c \in I
  OBVIOUS
<1>2. SseRecords = [state : S, pending : BOOLEAN, prio : Nat, oneshot : BOOLEAN, hartid : Harts,
                    interrupted : I]
  BY Zenon DEF SseRecords
<1> HIDE DEF S, I
<1>3. \A s \in S : Becomes([r EXCEPT !.state = s], s, r.pending, r.oneshot, r.hartid, r.interrupted)
  BY <1>2 DEF Becomes
<1>4. \A p \in BOOLEAN :
         Becomes([r EXCEPT !.pending = p], r.state, p, r.oneshot, r.hartid, r.interrupted)
  BY <1>2 DEF Becomes
<1>5. \A p \in Nat :
         Becomes([r EXCEPT !.prio = p], r.state, r.pending, r.oneshot, r.hartid, r.interrupted)
  BY <1>2 DEF Becomes
<1>6. \A o \in BOOLEAN :
         Becomes([r EXCEPT !.oneshot = o], r.state, r.pending, o, r.hartid, r.interrupted)
  BY <1>2 DEF Becomes
<1>7. \A t \in Harts :
         Becomes([r EXCEPT !.hartid = t], r.state, r.pending, r.oneshot, t, r.interrupted)
  BY <1>2 DEF Becomes
<1>8. \A c \in Harts \X Seq(SseEvents) :
         Becomes([r EXCEPT !.interrupted = c], r.state, r.pending, r.oneshot, r.hartid, c)
  BY <1>1, <1>2 DEF Becomes
<1> QED BY <1>3, <1>4, <1>5, <1>6, <1>7, <1>8 DEF S

\* The other events keep theirs.
Others(e) == event' \in [SseEvents -> SseRecords] /\ \A x \in SseEvents \ {e} : event'[x] = event[x]

\* An assignment to one event.
LEMMA EventSet ==
    ASSUME SseFunctions, NEW e \in SseEvents, NEW w \in SseRecords, event' = [event EXCEPT ![e] = w]
    PROVE  Others(e) /\ event'[e] = w /\ event[e] \in SseRecords
BY DEF Others, SseFunctions

-----------------------------
\* A step of hart h in a call about software events.
SseStep(h) ==
    /\ OnlyMoves(h) /\ UNCHANGED <<scenario, inited, ipi_type, state, lottery>>
    /\ pc[h] \notin {"exit", "finish", "cold", "cold2"}
    /\ pc'[h] \notin {"exit", "finish", "cold", "cold2"}
    /\ Tidy(pc'[h], local'[h])

\* What it means for the harts.
HartsKept ==
    /\ UNCHANGED calls /\ ColdReset' /\ (AtReset' <=> AtReset)
    /\ \A i \in Harts : Orderly(i)' /\ (Alive(i)' <=> Alive(i)) /\ (Reachable(i)' <=> Reachable(i))
                        /\ (Alive(i)' => inited'[i] > 0)

\* Such a step keeps the harts as they are.
LEMMA StepKept ==
    ASSUME SseInv, NEW h \in Harts, SseStep(h)
    PROVE  HartsKept
<1>1. /\ UNCHANGED <<scenario, inited, ipi_type, state, lottery>> /\ UNCHANGED calls
      /\ \A i \in Harts \ {h} : pc'[i] = pc[i] /\ local'[i] = local[i]
  BY DEF SseStep, OnlyMoves, calls
<1>2. ASSUME NEW i \in Harts
      PROVE  Orderly(i)' /\ (Alive(i)' <=> Alive(i)) /\ (Reachable(i)' <=> Reachable(i))
  <2>1. Orderly(i) /\ Tidy(pc'[i], local'[i])
    BY <1>1 DEF SseInv, Orderly, SseStep
  <2>2. Orderly(i)'
    BY <1>1, <2>1 DEF Orderly, Tidy
  <2>3. (Alive(i)' <=> Alive(i)) /\ (Reachable(i)' <=> Reachable(i))
    BY <1>1 DEF Alive, Reachable, SseStep
  <2> QED BY <2>2, <2>3
<1>3. AtReset' <=> AtReset
  BY <1>1 DEF AtReset
<1>4. ColdReset'
  BY <1>1, <1>3 DEF SseInv, ColdReset, SseStep
<1> QED BY <1>1, <1>2, <1>3, <1>4 DEF HartsKept, SseInv, Placed

\* Event x runs on hart i.
Runs(x, i) == event[x].state = "RUNNING" /\ event[x].hartid = i

\* The handlers hart i is in stay as they are.
RunningKept(i) ==
    /\ Stack(i)' = Stack(i)
    /\ \A x \in SseEvents : /\ Runs(x, i)' <=> Runs(x, i)
                            /\ Runs(x, i) => event'[x].interrupted = event[x].interrupted
    /\ \A x, y \in SseEvents : Runs(x, i) /\ Runs(y, i) /\ Before(enabled_events[i], x, y)
                               => Before(enabled_events'[i], x, y)

\* The handlers are events.
LEMMA StackType ==
    ASSUME SseFunctions, StackInv, NEW i \in Harts
    PROVE  Stack(i) \in Seq(SseEvents)
<1>1. running[i] \in Seq(SseEvents)
  BY DEF SseFunctions
<1>2. CASE pc[i] = "sse_resume"
  <2>1. running[i] # <<>>
    BY <1>2 DEF StackInv, Resuming
  <2>2. Front(running[i]) \in Seq(SseEvents)
    BY <1>1, <2>1, SubSeqProperties DEF Front
  <2> QED BY <1>2, <2>2 DEF Stack
<1> QED BY <1>1, <1>2 DEF Stack

\* The handlers of hart i are nested as before.
LEMMA NestedKept ==
    ASSUME SseFunctions, StackInv, NEW i \in Harts, RunningKept(i)
    PROVE  Nested(i, Stack(i))'
<1> DEFINE r == Stack(i)
<1>1. Nested(i, r) /\ r' = r /\ r \in Seq(SseEvents)
  BY StackType DEF StackInv, RunningKept
<1> HIDE DEF r
<1>2. \A k \in DOMAIN r : r[k] \in SseEvents
  BY <1>1
<1>3. \A k \in DOMAIN r : Runs(r[k], i)
  BY <1>1 DEF Nested, Runs
<1>4. \A k \in DOMAIN r : /\ event'[r[k]].state = "RUNNING" /\ event'[r[k]].hartid = i
                          /\ event'[r[k]].interrupted = <<i, SubSeq(r, 1, k - 1)>>
  BY <1>1, <1>2, <1>3 DEF Nested, Runs, RunningKept
<1>5. \A e \in SseEvents : event'[e].state = "RUNNING" /\ event'[e].hartid = i =>
          \E k \in DOMAIN r : r[k] = e
  BY <1>1 DEF Nested, Runs, RunningKept
<1>6. \A j, k \in DOMAIN r : j < k => Before(enabled_events'[i], r[k], r[j])
  BY <1>1, <1>2, <1>3 DEF Nested, RunningKept
<1>7. Nested(i, r)'
  BY <1>1, <1>4, <1>5, <1>6 DEF Nested
<1> QED BY <1>7 DEF r

\* No event waits on hart i that did not wait before.
WaitsKept(i) ==
    /\ \A x \in SseEvents : Contains(enabled_events'[i], x) /\ Ready(x, i)' =>
          Contains(enabled_events[i], x) /\ Ready(x, i)
    /\ \A x, y \in SseEvents : Before(enabled_events[i], y, x) /\ event[y].state = "RUNNING" /\ Ready(x, i)' =>
          Before(enabled_events'[i], y, x) /\ event'[y].state = "RUNNING"

\* What waits after such a step did so before it.
LEMMA WaitsBefore ==
    ASSUME NEW i \in Harts, WaitsKept(i), Waits(i)'
    PROVE  Waits(i)
<1>1. PICK x \in SseEvents : /\ Contains(enabled_events'[i], x) /\ Ready(x, i)'
               /\ \A y \in SseEvents : Before(enabled_events'[i], y, x) => event'[y].state # "RUNNING"
  BY DEF Waits
<1>2. Contains(enabled_events[i], x) /\ Ready(x, i)
  BY <1>1 DEF WaitsKept
<1>3. \A y \in SseEvents : Before(enabled_events[i], y, x) => event[y].state # "RUNNING"
  BY <1>1 DEF WaitsKept
<1> QED BY <1>2, <1>3 DEF Waits

\* The events a step leaves waiting on hart i are signalled as before.
SignalsKept(i) ==
    /\ pc'[i] \in Unlooked => /\ pc[i] \in Unlooked /\ masked'[i] = masked[i] /\ WaitsKept(i)
                              /\ Signalled(i) => Signalled(i)'
    /\ pc'[i] = "finish" => pc[i] = "finish"
    /\ "enable" \notin calls => \A x \in SseEvents : event'[x].hartid = i /\ Enabled(x)' =>
                                                       event[x].hartid = i /\ Enabled(x)

\* Steps that leave nothing new waiting preserve the last part.
LEMMA SignalKept ==
    ASSUME SignalInv, UNCHANGED calls, \A i \in Harts : SignalsKept(i)
    PROVE  SignalInv'
<1>1. ASSUME NEW i \in Harts, pc'[i] \in Unlooked, ~masked'[i], Waits(i)' PROVE Signalled(i)'
  <2>1. pc[i] \in Unlooked /\ ~masked[i] /\ Waits(i) /\ (Signalled(i) => Signalled(i)')
    BY <1>1, WaitsBefore DEF SignalsKept
  <2> QED BY <2>1 DEF SignalInv
<1>2. "enable" \notin calls' => \A i \in Harts : pc'[i] = "finish" =>
           \A e \in SseEvents : event'[e].hartid = i => ~Enabled(e)'
  BY DEF SignalInv, SignalsKept
<1> QED BY <1>1, <1>2 DEF SignalInv

-----------------------------
\* A hart that runs has been initialised.
LEMMA RunsAlive ==
    ASSUME SseInv, HangInv, NEW h \in Harts, pc[h] \in Running \cup {"process", "sse_pend"}
    PROVE  /\ state[h] = "STARTED" => Alive(h) /\ ~AtReset
           /\ pc[h] \in Running => state[h] = "STARTED"
<1>1. Fits(pc[h], state[h])
  BY DEF HangInv, StatesFit
<1>2. pc[h] \in Running => state[h] = "STARTED"
  BY <1>1 DEF Fits, Running
<1>3. state[h] = "STARTED" => Alive(h)
  BY DEF Alive, Reachable
<1>4. Alive(h) => ~AtReset
  BY DEF SseInv, Placed, AtReset
<1> QED BY <1>2, <1>3, <1>4

\* An event that is not enabled is written, and none becomes enabled.
IdleWrite(h, e) ==
    /\ SseStep(h) /\ pc[h] = "S" /\ pc'[h] = "ret" /\ UNCHANGED local
    /\ Others(e) /\ ~Enabled(e) /\ ~Enabled(e)'
    /\ event'[e].interrupted = event[e].interrupted
    /\ \/ event'[e].hartid = event[e].hartid
       \/ "prefer" \in calls /\ e[2] = Nobody /\ state[event'[e].hartid] = "STARTED"
    /\ "oneshot" \notin calls => event'[e].oneshot = event[e].oneshot
    /\ UNCHANGED <<enabled_events, masked, inject_fifo, lockVars, running>>

\* Such a write preserves the invariant: no list has the event.
LEMMA IdleInv ==
    ASSUME SseScenarios, HangInv, EventInv, NEW h \in Harts, NEW e \in SseEvents, IdleWrite(h, e)
    PROVE  EventInv'
<1>1. /\ SseInv /\ StackInv /\ SignalInv /\ SseFunctions
  BY DEF EventInv, SseInv
<1>2. HartsKept /\ UNCHANGED calls
  BY <1>1, StepKept DEF IdleWrite, HartsKept
<1>3. /\ UNCHANGED <<scenario, inited, ipi_type, state, lottery>>
      /\ \A i \in Harts : i # h => pc'[i] = pc[i]
      /\ pc'[h] = "ret" /\ pc[h] = "S" /\ UNCHANGED local
      /\ UNCHANGED <<enabled_events, masked, inject_fifo, ge_lock, list_lock, running>>
  BY DEF IdleWrite, SseStep, OnlyMoves, lockVars
<1>4. /\ event \in [SseEvents -> SseRecords] /\ event' \in [SseEvents -> SseRecords]
      /\ \A x \in SseEvents : x # e => event'[x] = event[x]
      /\ \A x \in SseEvents : event[x].hartid \in Harts /\ event'[x].hartid \in Harts
  BY <1>1 DEF IdleWrite, Others, SseFunctions, SseRecords
<1>5. ~AtReset
  BY <1>1, <1>3, RunsAlive DEF Running
<1>6. /\ "prefer" \in calls => "inject" \notin calls /\ "oneshot" \notin calls
  BY ScenarioKnown
<1>7. \A x \in SseEvents : Enabled(x)' <=> Enabled(x)
  BY <1>4 DEF IdleWrite, Enabled
<1>8. \A x \in SseEvents : Enabled(x) => x # e /\ event'[x] = event[x]
  BY <1>4 DEF IdleWrite
<1>9. "prefer" \notin calls => \A x \in SseEvents : event'[x].hartid = event[x].hartid
  BY <1>4 DEF IdleWrite
<1>10. SseInv'
  <2>1. SseFunctions'
    BY <1>1, <1>3, <1>4 DEF SseFunctions, OnHarts
  <2>2. OwnHart'
    BY <1>1, <1>4 DEF IdleWrite, SseInv, OwnHart
  <2>3. Placed'
    <3>1. "enable" \in calls => \A x \in SseEvents : x[2] = Nobody => Alive(event'[x].hartid)
      <4>1. "enable" \in calls => \A x \in SseEvents : x[2] = Nobody => Alive(event[x].hartid)
        BY <1>1, <1>5 DEF SseInv, Placed
      <4>2. CASE event'[e].hartid = event[e].hartid
        BY <1>4, <4>1, <4>2
      <4>3. CASE state[event'[e].hartid] = "STARTED"
        BY <1>4, <4>1, <4>3 DEF Alive, Reachable
      <4> QED BY <4>2, <4>3 DEF IdleWrite
    <3>2. \A x \in SseEvents : Alive(event'[x].hartid) => Alive(event[x].hartid)'
      BY <1>2, <1>4 DEF HartsKept
    <3>3. ~AtReset' /\ \A i \in Harts : (Alive(i)' => inited'[i] > 0) /\ (Reachable(i)' <=> Reachable(i))
      BY <1>2, <1>5 DEF HartsKept
    <3>4. "enable" \in calls => \A i \in Harts : ~Reachable(i) => masked[i]
      BY <1>1 DEF SseInv, Placed
    <3> QED BY <1>2, <1>3, <3>1, <3>2, <3>3, <3>4 DEF Placed
  <2>4. NoOneshot'
    BY <1>1, <1>2, <1>4 DEF IdleWrite, SseInv, NoOneshot
  <2>5. \A i \in Harts : Listed(i)'
    BY <1>1, <1>2, <1>3, <1>7, <1>8 DEF SseInv, Listed, HartsKept
  <2>6. \A i \in Harts : Injected(i)'
    <3>1. "inject" \in calls => \A i \in Harts, id \in EventIds : Handles(i, id) => Handles(i, id)'
      <4>1. \A id \in EventIds : EVENT_IS_GLOBAL(id) => <<id, Nobody>> \in SseEvents
        BY DEF SseEvents, sse_event_get
      <4> QED BY <1>6, <1>9, <4>1 DEF Handles
    <3> QED BY <1>1, <1>2, <1>3, <3>1 DEF SseInv, Injected, Handles
  <2>7. \A i \in Harts : Midway(i)'
    <3> SUFFICES ASSUME NEW i \in Harts PROVE Midway(i)'
      OBVIOUS
    <3>1. Midway(i) /\ (pc'[i] \in {"sse_put", "sse_pend"} => pc[i] = pc'[i])
      BY <1>1, <1>3 DEF SseInv
    <3>2. pc'[i] = "sse_put" => Handles(local[i].to, local[i].sse[1])'
      <4>1. \A id \in EventIds : EVENT_IS_GLOBAL(id) => <<id, Nobody>> \in SseEvents
        BY DEF SseEvents, sse_event_get
      <4> QED BY <1>3, <1>6, <1>9, <3>1, <4>1 DEF Midway, Handles
    <3>3. ASSUME pc'[i] = "sse_pend"
          PROVE  LET x == local[i].sse
                 IN  /\ x \in SseEvents /\ event'[x].hartid = i /\ Enabled(x)'
                     /\ local[i].was = event'[x].state
                     /\ EVENT_IS_GLOBAL(x[1]) => ge_lock[x[1]] = i
      <4> DEFINE x == local[i].sse
      <4>1. /\ x \in SseEvents /\ event[x].hartid = i /\ Enabled(x)
            /\ local[i].was = event[x].state
            /\ EVENT_IS_GLOBAL(x[1]) => ge_lock[x[1]] = i
            /\ x' = x
        BY <1>3, <3>1, <3>3 DEF Midway
      <4> HIDE DEF x
      <4>2. /\ x \in SseEvents /\ event'[x].hartid = i /\ Enabled(x)'
            /\ local[i].was = event'[x].state
            /\ EVENT_IS_GLOBAL(x[1]) => ge_lock[x[1]] = i
        BY <1>7, <1>8, <4>1
      <4> QED BY <4>2 DEF x
    <3> QED BY <1>2, <1>3, <3>1, <3>2, <3>3 DEF Midway
  <2>8. EnabledIsListed'
    BY <1>1, <1>3, <1>7, <1>8 DEF SseInv, EnabledIsListed
  <2>9. ColdReset' /\ \A i \in Harts : Orderly(i)'
    BY <1>2 DEF HartsKept
  <2> QED BY <2>1, <2>2, <2>3, <2>4, <2>5, <2>6, <2>7, <2>8, <2>9 DEF SseInv
<1>11. StackInv'
  <2> SUFFICES ASSUME NEW i \in Harts
               PROVE  Nested(i, Stack(i))' /\ Resuming(i)'
    BY DEF StackInv
  <2>1. Stack(i)' = Stack(i) /\ (pc'[i] = "sse_resume" <=> pc[i] = "sse_resume")
    BY <1>3 DEF Stack
  <2>2. \A x \in SseEvents : Runs(x, i)' <=> Runs(x, i)
    BY <1>4, <1>7, <1>8 DEF Runs, Enabled
  <2>3. RunningKept(i)
    BY <1>3, <1>8, <2>1, <2>2 DEF RunningKept, Runs, Enabled
  <2>4. Resuming(i)'
    <3> SUFFICES ASSUME pc[i] = "sse_resume" PROVE Resuming(i)'
      BY <2>1 DEF Resuming
    <3> DEFINE x == local[i].sse
    <3>1. Resuming(i) /\ x \in SseEvents
      <4>1. Resuming(i) /\ running[i] \in Seq(SseEvents) /\ running[i] # <<>> /\ x = Last(running[i])
        BY <1>1 DEF StackInv, Resuming, SseFunctions
      <4> HIDE DEF x
      <4>2. x \in SseEvents
        BY <4>1 DEF Last
      <4> QED BY <4>1, <4>2
    <3>2. CASE x # e
      BY <1>2, <1>3, <1>4, <3>1, <3>2 DEF Resuming, Enabled
    <3>3. CASE x = e
      <4>1. "prefer" \notin calls /\ event'[x].state # "RUNNING"
        BY <3>1, <3>3 DEF Resuming, IdleWrite, Enabled
      <4> QED BY <1>2, <1>3, <1>9, <3>1, <3>3, <4>1 DEF Resuming, IdleWrite
    <3> QED BY <3>2, <3>3
  <2> QED BY <1>1, <2>3, <2>4, NestedKept
<1>12. SignalInv'
  <2>1. ASSUME NEW i \in Harts PROVE SignalsKept(i)
    <3>1. Signalled(i) => Signalled(i)'
      BY <1>3 DEF Signalled
    <3>2. \A x \in SseEvents : Ready(x, i)' => Ready(x, i)
      BY <1>7, <1>8 DEF Ready, Enabled
    <3>3. \A y \in SseEvents : event[y].state = "RUNNING" => event'[y].state = "RUNNING"
      BY <1>8 DEF Enabled
    <3>4. WaitsKept(i)
      BY <1>3, <3>2, <3>3 DEF WaitsKept
    <3> QED BY <1>3, <1>7, <1>8, <3>1, <3>4 DEF SignalsKept, Unlooked
  <2> QED BY <1>1, <1>2, <2>1, SignalKept
<1> QED BY <1>10, <1>11, <1>12 DEF EventInv

\* The events a hart may mean.
LEMMA EventGot ==
    ASSUME NEW id \in EventIds, NEW h \in Harts
    PROVE  /\ sse_event_get(id, h) \in SseEvents /\ sse_event_get(id, h)[1] = id
           /\ sse_event_get(id, h)[2] \in {Nobody, h}
           /\ EVENT_IS_GLOBAL(id) => sse_event_get(id, h)[2] = Nobody
BY DEF SseEvents, sse_event_get

\* The step of a call that returns at once.
LEMMA ReturnStep ==
    ASSUME HangInv, SseInv, NEW h \in Harts, pc[h] = "S", Goto(h, "ret"),
           UNCHANGED <<bootVars, hsmVars, ipiVars, local>>
    PROVE  SseStep(h) /\ pc'[h] = "ret" /\ Calm
<1>1. OnHarts(pc) /\ OnHarts(local) /\ Tidy(pc[h], local[h])
  BY DEF HangInv, HangFunctions, SseInv, Orderly
<1>2. OnlyMoves(h) /\ pc'[h] = "ret" /\ pc' = [pc EXCEPT ![h] = "ret"]
      /\ local' = [local EXCEPT ![h] = local[h]]
  BY <1>1 DEF OnHarts, OnlyMoves, Goto, Set
<1>3. UNCHANGED <<scenario, inited, ipi_type, state, lottery>>
  BY DEF bootVars, hsmVars, ipiVars
<1>4. Tidy("ret", local[h]) /\ Tidy(pc'[h], local'[h])
  BY <1>1, <1>2 DEF Tidy
<1>5. Calm
  <2> DEFINE v == local[h]
             l == "ret"
  <2>1. l \in Plain /\ pc[h] \in Plain /\ l \notin Unlooked /\ pc[h] # "send"
    BY DEF Plain, Unlooked
  <2>2. Tidy(l, v) /\ pc' = [pc EXCEPT ![h] = l] /\ local' = [local EXCEPT ![h] = v]
    BY <1>2, <1>4
  <2> HIDE DEF v, l
  <2> QED BY <1>3, <2>1, <2>2, WriteCalm
<1> QED BY <1>2, <1>3, <1>4, <1>5 DEF SseStep

\* The calls that write an event which is not enabled.
LEMMA WritesInv ==
    ASSUME SseScenarios, HangInv, EventInv, NEW h \in Harts, NEW id \in EventIds,
           \/ SseRegister(h, id) \/ SseUnregister(h, id)
           \/ \E prio \in Prios : SetPrio(h, id, prio)
           \/ \E oneshot \in BOOLEAN : SetOneshot(h, id, oneshot)
           \/ \E t \in scenario.targets : SetPreferredHart(h, id, t)
    PROVE  EventInv'
<1> DEFINE e == sse_event_get(id, h)
<1>1. e \in SseEvents /\ (EVENT_IS_GLOBAL(id) => e[2] = Nobody)
  BY EventGot
<1>2. SseInv /\ SseFunctions /\ StatesFit /\ scenario.targets \subseteq Harts
  BY ScenarioKnown DEF EventInv, SseInv, HangInv
<1>3. event[e] \in SseRecords
  BY <1>1, <1>2 DEF SseFunctions
<1>4. Writes(h) /\ pc[h] = "S"
  BY DEF SseRegister, SseUnregister, SetPrio, SetOneshot, SetPreferredHart, SseCall, Ecall
<1>5. SseStep(h) /\ pc'[h] = "ret" /\ Calm
      /\ UNCHANGED <<local, enabled_events, masked, inject_fifo, lockVars, running>>
  BY <1>2, <1>4, ReturnStep DEF Writes
<1>6. CASE event' = event
  BY <1>2, <1>5, <1>6, CalmInv DEF sseVars, lockVars
<1> HIDE DEF e
<1>7. ASSUME NEW w \in SseRecords, event' = [event EXCEPT ![e] = w], ~Enabled(e),
             w.state \in {"UNUSED", "REGISTERED"}, w.interrupted = event[e].interrupted,
             \/ w.hartid = event[e].hartid
             \/ "prefer" \in calls /\ e[2] = Nobody /\ state[w.hartid] = "STARTED",
             "oneshot" \notin calls => w.oneshot = event[e].oneshot
      PROVE  EventInv'
  <2>1. Others(e) /\ event'[e] = w
    BY <1>1, <1>2, <1>7, EventSet
  <2>2. ~(event'[e].state \in {"ENABLED", "RUNNING"}) /\ event'[e].interrupted = event[e].interrupted
        /\ event'[e].hartid = w.hartid /\ event'[e].oneshot = w.oneshot
    BY <1>7, <2>1
  <2>3. e' = e
    BY DEF e, sse_event_get, EVENT_IS_GLOBAL
  <2>4. ~Enabled(e)'
    BY <2>2, <2>3 DEF Enabled
  <2>5. IdleWrite(h, e)
    BY <1>4, <1>5, <1>7, <2>1, <2>2, <2>4 DEF IdleWrite
  <2> QED BY <1>1, <2>5, IdleInv
<1>8. ~Enabled(e) <=> event[e].state \in {"UNUSED", "REGISTERED"}
  BY <1>3 DEF Enabled, SseRecords
<1>9. ASSUME NEW s \in {"UNUSED", "REGISTERED"}, ~Enabled(e),
             event' = [event EXCEPT ![e] = [event[e] EXCEPT !.state = s]]
      PROVE  EventInv'
  <2> DEFINE w == [event[e] EXCEPT !.state = s]
  <2>1. Becomes(w, s, event[e].pending, event[e].oneshot, event[e].hartid, event[e].interrupted)
    BY <1>3, RecordSet
  <2>2. event' = [event EXCEPT ![e] = w]
    BY <1>9
  <2> HIDE DEF w
  <2> QED BY <1>7, <1>9, <2>1, <2>2 DEF Becomes
<1>10. CASE SseRegister(h, id)
  <2>1. CASE event[e].state = "UNUSED"
    <3>1. event' = [event EXCEPT ![e] = [event[e] EXCEPT !.state = "REGISTERED"]] /\ ~Enabled(e)
      BY <1>10, <2>1 DEF SseRegister, e, Enabled
    <3> QED BY <1>9, <3>1
  <2>2. CASE event[e].state # "UNUSED"
    BY <1>6, <1>10, <2>2 DEF SseRegister, e
  <2> QED BY <2>1, <2>2
<1>11. CASE SseUnregister(h, id)
  <2>1. CASE event[e].state = "REGISTERED"
    <3>1. event' = [event EXCEPT ![e] = [event[e] EXCEPT !.state = "UNUSED"]] /\ ~Enabled(e)
      BY <1>11, <2>1 DEF SseUnregister, e, Enabled
    <3> QED BY <1>9, <3>1
  <2>2. CASE event[e].state # "REGISTERED"
    BY <1>6, <1>11, <2>2 DEF SseUnregister, e
  <2> QED BY <2>1, <2>2
<1>12. ASSUME NEW prio \in Prios, SetPrio(h, id, prio) PROVE EventInv'
  <2>1. CASE Enabled(e)
    BY <1>6, <1>12, <2>1 DEF SetPrio, e
  <2>2. CASE ~Enabled(e)
    <3> DEFINE w == [event[e] EXCEPT !.prio = prio]
    <3>1. Becomes(w, event[e].state, event[e].pending, event[e].oneshot, event[e].hartid, event[e].interrupted)
      BY <1>3, RecordSet, SseAssumption
    <3>2. event' = [event EXCEPT ![e] = w]
      BY <1>12, <2>2 DEF SetPrio, e
    <3> HIDE DEF w
    <3> QED BY <1>7, <1>8, <2>2, <3>1, <3>2 DEF Becomes
  <2> QED BY <2>1, <2>2
<1>13. ASSUME NEW oneshot \in BOOLEAN, SetOneshot(h, id, oneshot) PROVE EventInv'
  <2>1. CASE Enabled(e)
    BY <1>6, <1>13, <2>1 DEF SetOneshot, e
  <2>2. CASE ~Enabled(e)
    <3> DEFINE w == [event[e] EXCEPT !.oneshot = oneshot]
    <3>1. Becomes(w, event[e].state, event[e].pending, oneshot, event[e].hartid, event[e].interrupted)
      BY <1>3, RecordSet
    <3>2. event' = [event EXCEPT ![e] = w] /\ "oneshot" \in calls
      BY <1>13, <2>2 DEF SetOneshot, e, SseCall, Ecall
    <3> HIDE DEF w
    <3> QED BY <1>7, <1>8, <2>2, <3>1, <3>2 DEF Becomes
  <2> QED BY <2>1, <2>2
<1>14. ASSUME NEW t \in scenario.targets, SetPreferredHart(h, id, t) PROVE EventInv'
  <2>1. CASE Enabled(e) \/ ~EVENT_IS_GLOBAL(id) \/ state[t] # "STARTED"
    BY <1>6, <1>14, <2>1 DEF SetPreferredHart, e
  <2>2. CASE ~(Enabled(e) \/ ~EVENT_IS_GLOBAL(id) \/ state[t] # "STARTED")
    <3> DEFINE w == [event[e] EXCEPT !.hartid = t]
    <3>1. Becomes(w, event[e].state, event[e].pending, event[e].oneshot, t, event[e].interrupted)
      BY <1>2, <1>3, RecordSet
    <3>2. event' = [event EXCEPT ![e] = w] /\ "prefer" \in calls
      BY <1>14, <2>2 DEF SetPreferredHart, e, SseCall, Ecall
    <3> HIDE DEF w
    <3> QED BY <1>1, <1>7, <1>8, <2>2, <3>1, <3>2 DEF Becomes
  <2> QED BY <2>1, <2>2
<1> QED BY <1>10, <1>11, <1>12, <1>13, <1>14

-----------------------------
\* Every event keeps its hart and its configuration.
HartidKept ==
    /\ event' \in [SseEvents -> SseRecords]
    /\ \A x \in SseEvents : event'[x].hartid = event[x].hartid /\ event'[x].oneshot = event[x].oneshot

\* A hart that cannot be interrupted is masked, or nothing is enabled.
StillMasked == "enable" \in calls => \A i \in Harts : ~Reachable(i) => masked'[i]

\* What a step has to preserve that keeps them.
LEMMA SseKept ==
    ASSUME SseInv, HartsKept, ~AtReset, HartidKept, SseFunctions', StillMasked,
           \A i \in Harts : Listed(i)' /\ Injected(i)' /\ Midway(i)', EnabledIsListed'
    PROVE  SseInv'
<1>1. UNCHANGED calls /\ ColdReset' /\ ~AtReset' /\ \A i \in Harts : Orderly(i)'
  BY DEF HartsKept
<1>2. OwnHart'
  BY DEF HartidKept, SseInv, OwnHart
<1>3. NoOneshot'
  BY <1>1 DEF HartidKept, SseInv, NoOneshot
<1>4. Placed'
  <2>1. \A x \in SseEvents : event[x].hartid \in Harts /\ event'[x].hartid = event[x].hartid
    BY DEF SseInv, SseFunctions, SseRecords, HartidKept
  <2>2. "enable" \in calls => \A x \in SseEvents : x[2] = Nobody => Alive(event[x].hartid)
    BY DEF SseInv, Placed
  <2>3. ASSUME NEW x \in SseEvents, Alive(event[x].hartid) PROVE Alive(event[x].hartid)'
    <3> DEFINE t == event[x].hartid
    <3>1. t \in Harts /\ t' = t /\ Alive(t)
      BY <2>1, <2>3
    <3> HIDE DEF t
    <3>2. \A i \in Harts : Alive(i) => Alive(i)'
      BY DEF HartsKept
    <3>3. Alive(t)'
      BY <3>1, <3>2
    <3> QED BY <3>3 DEF t
  <2>4. \A i \in Harts : (Alive(i)' => inited'[i] > 0) /\ (Reachable(i)' <=> Reachable(i))
    BY DEF HartsKept
  <2> QED BY <1>1, <2>2, <2>3, <2>4 DEF Placed, StillMasked
<1> QED BY <1>1, <1>2, <1>3, <1>4 DEF SseInv

\* What is sent to a hart is not touched.
LEMMA InjectedKept ==
    ASSUME SseInv, NEW i \in Harts, HartidKept, UNCHANGED calls, inject_fifo'[i] = inject_fifo[i]
    PROVE  Injected(i)' /\ \A j \in Harts, id \in EventIds : Handles(j, id)' <=> Handles(j, id)
<1>1. \A id \in EventIds : EVENT_IS_GLOBAL(id) => <<id, Nobody>> \in SseEvents
  BY DEF SseEvents, sse_event_get
<1>2. \A j \in Harts, id \in EventIds : Handles(j, id)' <=> Handles(j, id)
  BY <1>1 DEF Handles, HartidKept
<1>3. Injected(i)
  BY DEF SseInv
<1> QED BY <1>2, <1>3 DEF Injected, Handles

\* A hart between two accesses to an event.
LEMMA MidwayKept ==
    ASSUME SseInv, NEW i \in Harts, HartidKept, UNCHANGED calls,
           pc'[i] \in {"sse_put", "sse_pend"} => pc'[i] = pc[i] /\ local'[i] = local[i],
           \A x \in SseEvents :
              /\ pc[i] = "sse_pend" /\ pc'[i] = pc[i] /\ event[x].hartid = i /\ Enabled(x)
              /\ EVENT_IS_GLOBAL(x[1]) => ge_lock[x[1]] = i
              => /\ event'[x].state = event[x].state
                 /\ EVENT_IS_GLOBAL(x[1]) => ge_lock'[x[1]] = i
    PROVE  Midway(i)'
<1>1. Midway(i)
  BY DEF SseInv
<1>2. ASSUME pc'[i] = "sse_put"
      PROVE  /\ "inject" \in calls' /\ local'[i].to \in Harts
             /\ Handles(local[i].to, local[i].sse[1])'
  <2> DEFINE t == local[i].to
             id == local[i].sse[1]
  <2>1. /\ "inject" \in calls /\ t \in Harts /\ Handles(t, id) /\ t' = t /\ id' = id
    BY <1>1, <1>2 DEF Midway
  <2> HIDE DEF t, id
  <2>2. Handles(t, id)'
    <3>1. id \in EventIds /\ \A x \in EventIds : EVENT_IS_GLOBAL(x) => <<x, Nobody>> \in SseEvents
      BY <2>1 DEF SseEvents, sse_event_get, Handles
    <3> QED BY <2>1, <3>1 DEF Handles, HartidKept
  <2> QED BY <2>1, <2>2 DEF t, id
<1>3. ASSUME pc'[i] = "sse_pend"
      PROVE  LET x == local'[i].sse
             IN  /\ x \in SseEvents /\ event'[x].hartid = i /\ event'[x].state \in {"ENABLED", "RUNNING"}
                 /\ local'[i].was = event'[x].state
                 /\ EVENT_IS_GLOBAL(x[1]) => ge_lock'[x[1]] = i
  <2> DEFINE x == local[i].sse
  <2>1. /\ x \in SseEvents /\ event[x].hartid = i /\ Enabled(x)
        /\ local[i].was = event[x].state
        /\ EVENT_IS_GLOBAL(x[1]) => ge_lock[x[1]] = i
        /\ pc[i] = "sse_pend" /\ pc'[i] = pc[i]
        /\ local'[i].sse = x /\ local'[i].was = local[i].was
    BY <1>1, <1>3 DEF Midway
  <2> HIDE DEF x
  <2>2. event'[x].hartid = i /\ event'[x].state = event[x].state
        /\ (EVENT_IS_GLOBAL(x[1]) => ge_lock'[x[1]] = i)
    BY <2>1 DEF HartidKept
  <2> QED BY <2>1, <2>2 DEF Enabled
<1> QED BY <1>2, <1>3 DEF Midway, Enabled

\* A hart between complete and the return to what was interrupted.
LEMMA ResumingKept ==
    ASSUME SseInv, StackInv, NEW i \in Harts, HartidKept, UNCHANGED calls,
           pc'[i] = "sse_resume" =>
              /\ pc'[i] = pc[i] /\ local'[i] = local[i] /\ running'[i] = running[i]
              /\ list_lock'[i] = list_lock[i],
           \A x \in SseEvents :
              pc[i] = "sse_resume" /\ pc'[i] = pc[i] /\ list_lock[i] = i /\ event[x].hartid = i
              /\ event[x].state # "RUNNING"
              => /\ event'[x].state # "RUNNING" /\ event'[x].interrupted = event[x].interrupted
                 /\ "prefer" \in calls /\ Enabled(x) => Enabled(x)'
    PROVE  Resuming(i)'
<1> SUFFICES ASSUME pc'[i] = "sse_resume" PROVE Resuming(i)'
  BY DEF Resuming
<1> DEFINE x == local[i].sse
<1>1. /\ pc[i] = "sse_resume" /\ pc'[i] = pc[i] /\ running[i] # <<>> /\ x = Last(running[i])
      /\ event[x].interrupted = <<i, Front(running[i])>> /\ event[x].hartid = i /\ list_lock[i] = i
      /\ event[x].state # "RUNNING" /\ ("prefer" \in calls => Enabled(x))
      /\ x' = x /\ running'[i] = running[i] /\ list_lock'[i] = i /\ running[i] \in Seq(SseEvents)
  BY DEF StackInv, Resuming, SseInv, SseFunctions
<1> HIDE DEF x
<1>2. x \in SseEvents
  BY <1>1 DEF Last
<1>3. /\ event'[x].interrupted = <<i, Front(running[i])>> /\ event'[x].hartid = i
      /\ event'[x].state # "RUNNING" /\ ("prefer" \in calls => Enabled(x)')
  BY <1>1, <1>2 DEF HartidKept
<1>4. event'[x].interrupted = <<i, Front(running'[i])>> /\ Last(running'[i]) = x
  BY <1>1, <1>3
<1> QED BY <1>1, <1>3, <1>4 DEF Resuming, x

\* The lists stay as they are, and what they list.
LEMMA ListsKept ==
    ASSUME SseInv, HartsKept, ~AtReset, HartidKept, SseFunctions', StillMasked,
           UNCHANGED enabled_events, \A x \in SseEvents : Enabled(x)' <=> Enabled(x),
           \A i \in Harts : Injected(i)' /\ Midway(i)'
    PROVE  SseInv'
<1>1. EnabledIsListed'
  BY DEF SseInv, EnabledIsListed, HartidKept
<1>2. \A i \in Harts : Listed(i)'
  <2> SUFFICES ASSUME NEW i \in Harts PROVE Listed(i)'
    OBVIOUS
  <2>1. Listed(i) /\ (Alive(i)' <=> Alive(i)) /\ UNCHANGED calls
    BY DEF SseInv, HartsKept
  <2> QED BY <2>1 DEF Listed, HartidKept
<1> QED BY <1>1, <1>2, SseKept

\* A step of hart h in a call that makes no more than an event of its own pending, and
\* leaves the harts alone that are between two accesses.
QuietStates(h) ==
    /\ HartidKept
    /\ \A x \in SseEvents : /\ event'[x].state = event[x].state
                            /\ event'[x].interrupted = event[x].interrupted
                            /\ event[x].hartid # h => event'[x].pending = event[x].pending
\* The other harts keep their locks and their interrupts.
OthersKept(h) ==
    \A i \in Harts \ {h} : /\ masked'[i] = masked[i] /\ (Signalled(i) => Signalled(i)')
                           /\ list_lock[i] = i => list_lock'[i] = i
                           /\ \A id \in GlobalIds : ge_lock[id] = i => ge_lock'[id] = i
\* Both, in a step that leaves lists and handlers alone.
QuietSse(h) ==
    /\ SseStep(h) /\ QuietStates(h) /\ OthersKept(h) /\ UNCHANGED <<enabled_events, running>>
    /\ pc[h] # "sse_resume" /\ pc'[h] \notin Unlooked \cup {"sse_resume"}

\* Such a step preserves the invariant.
LEMMA QuietInv ==
    ASSUME EventInv, ~AtReset, SseFunctions', StillMasked, \A i \in Harts : Injected(i)',
           NEW h \in Harts, Midway(h)', QuietSse(h)
    PROVE  EventInv'
<1>1. SseInv /\ StackInv /\ SignalInv /\ SseFunctions
  BY DEF EventInv, SseInv
<1>2. HartsKept /\ UNCHANGED calls
  BY <1>1, StepKept DEF QuietSse, HartsKept
<1>3. /\ HartidKept /\ OthersKept(h) /\ UNCHANGED <<enabled_events, running>>
      /\ \A i \in Harts \ {h} : pc'[i] = pc[i] /\ local'[i] = local[i]
      /\ pc[h] # "sse_resume" /\ pc'[h] \notin Unlooked \cup {"sse_resume"}
      /\ pc'[h] # "finish"
  BY DEF QuietSse, SseStep, OnlyMoves, QuietStates
<1>4. \A x \in SseEvents : /\ event'[x].state = event[x].state
                           /\ event'[x].interrupted = event[x].interrupted
                           /\ event'[x].hartid = event[x].hartid
                           /\ event[x].hartid # h => event'[x].pending = event[x].pending
  BY DEF QuietSse, QuietStates, HartidKept
<1>5. \A x \in SseEvents : Enabled(x)' <=> Enabled(x)
  BY <1>4 DEF Enabled
<1>6. \A i \in Harts : Midway(i)'
  <2> SUFFICES ASSUME NEW i \in Harts \ {h} PROVE Midway(i)'
    OBVIOUS
  <2>1. \A x \in SseEvents : EVENT_IS_GLOBAL(x[1]) /\ ge_lock[x[1]] = i => ge_lock'[x[1]] = i
    BY <1>3 DEF OthersKept, EVENT_IS_GLOBAL
  <2> QED BY <1>1, <1>2, <1>3, <1>4, <2>1, MidwayKept
<1>7. SseInv'
  BY <1>1, <1>2, <1>3, <1>5, <1>6, ListsKept
<1>8. StackInv'
  <2> SUFFICES ASSUME NEW i \in Harts
               PROVE  Nested(i, Stack(i))' /\ Resuming(i)'
    BY DEF StackInv
  <2>1. Stack(i)' = Stack(i)
    BY <1>3 DEF Stack
  <2>2. RunningKept(i)
    BY <1>3, <1>4, <2>1 DEF RunningKept, Runs
  <2>3. pc'[i] = "sse_resume" =>
              /\ pc'[i] = pc[i] /\ local'[i] = local[i] /\ running'[i] = running[i]
    BY <1>3
  <2>4. pc'[i] = "sse_resume" => list_lock'[i] = list_lock[i]
    BY <1>1, <1>3 DEF OthersKept, StackInv, Resuming
  <2>5. Resuming(i)'
    BY <1>1, <1>2, <1>3, <1>4, <1>5, <2>3, <2>4, ResumingKept
  <2> QED BY <1>1, <2>2, <2>5, NestedKept
<1>9. SignalInv'
  <2>1. ASSUME NEW i \in Harts PROVE SignalsKept(i)
    <3>1. CASE i = h
      BY <1>3, <1>4, <1>5, <3>1 DEF SignalsKept
    <3>2. CASE i # h
      <4>1. pc'[i] = pc[i] /\ masked'[i] = masked[i] /\ (Signalled(i) => Signalled(i)')
        BY <1>3, <3>2 DEF OthersKept
      <4>2. \A x \in SseEvents : Ready(x, i)' => Ready(x, i)
        BY <1>4, <3>2 DEF Ready
      <4>3. WaitsKept(i)
        BY <1>3, <1>4, <4>2 DEF WaitsKept
      <4> QED BY <1>4, <1>5, <4>1, <4>3 DEF SignalsKept
    <3> QED BY <3>1, <3>2
  <2> QED BY <1>1, <1>2, <2>1, SignalKept
<1> QED BY <1>7, <1>8, <1>9 DEF EventInv

\* A step of hart h to l with the locals v.
LEMMA StepMade ==
    ASSUME HangInv, NEW h \in Harts, NEW l, NEW v, pc' = [pc EXCEPT ![h] = l],
           local' = [local EXCEPT ![h] = v], Tidy(l, v),
           pc[h] \notin {"exit", "finish", "cold", "cold2"}, l \notin {"exit", "finish", "cold", "cold2"},
           UNCHANGED <<scenario, inited, ipi_type, state, lottery>>
    PROVE  SseStep(h) /\ pc'[h] = l /\ local'[h] = v
<1>1. OnHarts(pc) /\ OnHarts(local)
  BY DEF HangInv, HangFunctions
<1>2. OnlyMoves(h) /\ pc'[h] = l /\ local'[h] = v
  BY <1>1 DEF OnHarts, OnlyMoves
<1> QED BY <1>2 DEF SseStep

\* The signals to the others stay when the hart is not sending.
LEMMA SignalsStay ==
    ASSUME NEW h \in Harts, SseStep(h), pc[h] # "send"
    PROVE  \A i \in Harts : Signalled(i) => Signalled(i)'
<1>1. UNCHANGED ipi_type /\ \A i \in Harts \ {h} : pc'[i] = pc[i] /\ local'[i] = local[i]
  BY DEF SseStep, OnlyMoves
<1> QED BY <1>1 DEF Signalled

-----------------------------
\* sbi_sse_hart_mask and sbi_sse_hart_unmask.
LEMMA SseMaskInv ==
    ASSUME HangInv, EventInv, NEW h \in Harts, NEW on \in BOOLEAN, SseMask(h, on)
    PROVE  EventInv'
<1>1. SseInv /\ SseFunctions /\ pc[h] = "S"
  BY DEF EventInv, SseInv, SseMask, Ecall
<1>2. SseStep(h) /\ pc'[h] = "ret"
  BY <1>1, ReturnStep DEF SseMask
<1>3. /\ UNCHANGED <<event, enabled_events, inject_fifo, ge_lock, list_lock, running, ipi_type, calls>>
      /\ masked' = [masked EXCEPT ![h] = on]
  BY <1>2 DEF SseMask, SseStep, Set, lockVars, calls
<1>4. state[h] = "STARTED" /\ Reachable(h) /\ ~AtReset
  BY <1>1, RunsAlive DEF Running, Reachable
<1>5. HartidKept /\ QuietStates(h)
  BY <1>1, <1>3 DEF HartidKept, QuietStates, SseFunctions
<1>6. SseFunctions'
  BY <1>1, <1>3 DEF SseFunctions, OnHarts
<1>7. masked'[h] = on /\ \A i \in Harts \ {h} : masked'[i] = masked[i]
  BY <1>1, <1>3 DEF SseFunctions
<1>8. StillMasked
  BY <1>1, <1>4, <1>7 DEF StillMasked, SseInv, Placed
<1>9. OthersKept(h)
  BY <1>1, <1>2, <1>3, <1>7, SignalsStay DEF OthersKept
<1>10. QuietSse(h)
  BY <1>1, <1>2, <1>3, <1>5, <1>9 DEF QuietSse, Unlooked
<1>11. \A i \in Harts : Injected(i)'
  BY <1>1, <1>3, <1>5, InjectedKept
<1>12. Midway(h)'
  BY <1>2 DEF Midway
<1> QED BY <1>4, <1>6, <1>8, <1>10, <1>11, <1>12, QuietInv

\* The locks are released.
LEMMA SseSentInv ==
    ASSUME HangInv, EventInv, NEW h \in Harts, SseSent(h)
    PROVE  EventInv'
<1>1. SseInv /\ SseFunctions /\ pc[h] = "sse_sent" /\ Tidy(pc[h], local[h]) /\ OnHarts(local)
  BY DEF EventInv, SseInv, SseSent, Orderly, HangInv, HangFunctions
<1>2. SseStep(h) /\ pc'[h] = "ret"
  <2>1. pc' = [pc EXCEPT ![h] = "ret"] /\ local' = [local EXCEPT ![h] = local[h]]
        /\ UNCHANGED <<scenario, inited, ipi_type, state, lottery>>
    BY <1>1 DEF SseSent, Goto, Set, OnHarts, bootVars, hsmVars, ipiVars
  <2>2. Tidy("ret", local[h])
    BY <1>1 DEF Tidy
  <2> QED BY <1>1, <2>1, <2>2, StepMade
<1>3. /\ UNCHANGED <<event, enabled_events, inject_fifo, masked, running, ipi_type, calls>>
      /\ ge_lock' = [id \in GlobalIds |-> IF ge_lock[id] = h THEN Nobody ELSE ge_lock[id]]
      /\ list_lock' = [i \in Harts |-> IF list_lock[i] = h THEN Nobody ELSE list_lock[i]]
  BY <1>2 DEF SseSent, SseStep, calls
<1>4. ~AtReset
  BY <1>1, RunsAlive DEF Running
<1>5. HartidKept /\ QuietStates(h)
  BY <1>1, <1>3 DEF HartidKept, QuietStates, SseFunctions
<1>6. SseFunctions'
  BY <1>1, <1>3 DEF SseFunctions, OnHarts
<1>7. StillMasked
  BY <1>1, <1>3 DEF StillMasked, SseInv, Placed
<1>8. OthersKept(h)
  <2>1. \A i \in Harts \ {h} : Signalled(i) => Signalled(i)'
    BY <1>1, <1>2, SignalsStay
  <2>2. \A i \in Harts \ {h} : /\ list_lock[i] = i => list_lock'[i] = i
                               /\ \A id \in GlobalIds : ge_lock[id] = i => ge_lock'[id] = i
    BY <1>3
  <2> QED BY <1>3, <2>1, <2>2 DEF OthersKept
<1>9. QuietSse(h)
  BY <1>1, <1>2, <1>3, <1>5, <1>8 DEF QuietSse, Unlooked
<1>10. \A i \in Harts : Injected(i)'
  BY <1>1, <1>3, <1>5, InjectedKept
<1>11. Midway(h)'
  BY <1>2 DEF Midway
<1> QED BY <1>4, <1>6, <1>7, <1>9, <1>10, <1>11, QuietInv

\* The events a hart has sent to itself, and the end of the buffer.
LEMMA InjectSelfInv ==
    ASSUME HangInv, EventInv, NEW h \in Harts, InjectSelf(h)
    PROVE  EventInv'
<1>1. SseInv /\ SseFunctions /\ pc[h] = "send" /\ Tidy(pc[h], local[h]) /\ OnHarts(local)
      /\ local[h].event = "sse" /\ local[h].mask # {} /\ First(local[h].mask) = h
  BY DEF EventInv, SseInv, InjectSelf, Orderly, HangInv, HangFunctions, Target
<1>2. SseStep(h) /\ pc'[h] = "sse_self"
  <2>1. pc' = [pc EXCEPT ![h] = "sse_self"] /\ local' = [local EXCEPT ![h] = local[h]]
        /\ UNCHANGED <<scenario, inited, ipi_type, state, lottery>>
    BY <1>1 DEF InjectSelf, Goto, Set, OnHarts, bootVars, hsmVars, ipiVars
  <2>2. Tidy("sse_self", local[h])
    BY <1>1 DEF Tidy
  <2> QED BY <1>1, <2>1, <2>2, StepMade
<1>3. UNCHANGED <<event, enabled_events, inject_fifo, masked, running, ge_lock, list_lock, ipi_type, calls>>
  BY <1>2 DEF InjectSelf, SseStep, calls, sseVars
<1>4. ~AtReset
  BY <1>1, RunsAlive DEF Running
<1>5. HartidKept /\ QuietStates(h)
  BY <1>1, <1>3 DEF HartidKept, QuietStates, SseFunctions
<1>6. SseFunctions'
  BY <1>1, <1>3 DEF SseFunctions, OnHarts
<1>7. StillMasked
  BY <1>1, <1>3 DEF StillMasked, SseInv, Placed
<1>8. OthersKept(h)
  <2>1. \A i \in Harts : i \in local[h].mask => i = h
    BY <1>1, OnlyTarget DEF Target
  <2>2. ASSUME NEW i \in Harts \ {h}, Signalled(i) PROVE Signalled(i)'
    <3>1. \A j \in Harts \ {h} : pc'[j] = pc[j] /\ local'[j] = local[j]
      BY <1>2 DEF SseStep, OnlyMoves
    <3> QED BY <1>3, <2>1, <2>2, <3>1 DEF Signalled
  <2> QED BY <1>3, <2>2 DEF OthersKept
<1>9. QuietSse(h)
  BY <1>1, <1>2, <1>3, <1>5, <1>8 DEF QuietSse, Unlooked
<1>10. \A i \in Harts : Injected(i)'
  BY <1>1, <1>3, <1>5, InjectedKept
<1>11. Midway(h)'
  BY <1>2 DEF Midway
<1> QED BY <1>4, <1>6, <1>7, <1>9, <1>10, <1>11, QuietInv

-----------------------------
\* The ring buffer of the events sent to a hart: as many entries as there are events.
LEMMA IdCount ==
    ASSUME EventIds # {}
    PROVE  Cardinality(EventIds) \in Nat \ {0}
BY SseAssumption, FS_CardinalityType, FS_EmptySet DEF EventIds

\* An event is put into the buffer, ...
LEMMA PutId ==
    ASSUME EventIds # {}, NEW f \in IdBuffers, ~fifo_is_full(f), NEW id \in EventIds
    PROVE  /\ fifo_put(f, id) \in IdBuffers
           /\ \A s \in Live(fifo_put(f, id)) :
                 fifo_put(f, id).queue[s] = id \/ (s \in Live(f) /\ fifo_put(f, id).queue[s] = f.queue[s])
<1> DEFINE n == Cardinality(EventIds)
           T == EventIds \cup {-1}
           s == Index(f, f.avail)
           g == fifo_put(f, id)
<1>1. n \in Nat \ {0} /\ id \in T
  BY IdCount
<1> HIDE DEF n, T
<1>2. /\ f \in [queue : [IdSlots -> T], num_entries : {n}, avail : 0..n, tail : IdSlots]
      /\ IdSlots = 0..(n - 1)
  BY DEF IdBuffers, IdSlots, n, T
<1>3. f.avail \in 0..(n - 1) /\ f.num_entries = n /\ f.tail \in IdSlots
  BY <1>1, <1>2 DEF fifo_is_full
<1>4. s \in IdSlots
  BY <1>1, <1>2, <1>3 DEF Index
<1>5. /\ g.queue = [f.queue EXCEPT ![s] = id] /\ g.avail = f.avail + 1
      /\ g.tail = f.tail /\ g.num_entries = n
      /\ g \in [queue : [IdSlots -> T], num_entries : {n}, avail : 0..n, tail : IdSlots]
  <2> DEFINE q == [f.queue EXCEPT ![s] = id]
             a == f.avail + 1
  <2>1. q \in [IdSlots -> T] /\ a \in 0..n
    BY <1>1, <1>2, <1>3, <1>4
  <2>2. g = [f EXCEPT !.queue = q, !.avail = a]
    BY Zenon DEF fifo_put
  <2> HIDE DEF q, a, s, g
  <2>3. /\ g.queue = q /\ g.avail = a /\ g.tail = f.tail /\ g.num_entries = n
        /\ g \in [queue : [IdSlots -> T], num_entries : {n}, avail : 0..n, tail : IdSlots]
    BY <1>2, <1>3, <2>1, <2>2
  <2> QED BY <2>3 DEF q, a
<1>6. Live(g) = Live(f) \cup {s}
  <2>1. \A i \in 0..f.avail : Index(g, i) = Index(f, i)
    BY <1>1, <1>3, <1>5 DEF Index
  <2>2. 0..(g.avail - 1) = (0..(f.avail - 1)) \cup {f.avail}
    BY <1>1, <1>3, <1>5
  <2> HIDE DEF g
  <2> QED BY <2>1, <2>2, <1>3 DEF Live
<1> HIDE DEF g, s
<1>7. g \in IdBuffers /\ \A x \in Live(g) : g.queue[x] = id \/ (x \in Live(f) /\ g.queue[x] = f.queue[x])
  <2>1. f.queue \in [IdSlots -> T]
    BY <1>2
  <2>2. \A x \in Live(g) : g.queue[x] = id \/ (x \in Live(f) /\ g.queue[x] = f.queue[x])
    <3> QED BY <1>4, <1>5, <1>6, <2>1
  <2> QED BY <1>5, <2>2 DEF IdBuffers, n, T
<1> QED BY <1>7 DEF g

\* ... the oldest is taken out, ...
LEMMA TakenId ==
    ASSUME EventIds # {}, NEW f \in IdBuffers, ~fifo_is_empty(f)
    PROVE  /\ fifo_taken(f, -1) \in IdBuffers
           /\ \E s \in Live(f) : fifo_oldest(f) = f.queue[s]
           /\ \A s \in Live(fifo_taken(f, -1)) :
                 s \in Live(f) /\ fifo_taken(f, -1).queue[s] = f.queue[s]
<1> DEFINE n == Cardinality(EventIds)
           T == EventIds \cup {-1}
           s == f.tail
           g == fifo_taken(f, -1)
<1>1. n \in Nat \ {0} /\ -1 \in T
  BY IdCount
<1> HIDE DEF n, T
<1>2. /\ f \in [queue : [IdSlots -> T], num_entries : {n}, avail : 0..n, tail : IdSlots]
      /\ IdSlots = 0..(n - 1)
  BY DEF IdBuffers, IdSlots, n, T
<1>3. f.avail \in 1..n /\ f.num_entries = n /\ s \in IdSlots
  BY <1>1, <1>2 DEF fifo_is_empty
<1>4. s \in Live(f)
  <2>1. Index(f, 0) = s /\ 0 \in 0..(f.avail - 1)
    BY <1>1, <1>2, <1>3 DEF Index
  <2> QED BY <2>1 DEF Live
<1>5. /\ g.queue = [f.queue EXCEPT ![s] = -1] /\ g.avail = f.avail - 1
      /\ g.tail = (IF f.tail + 1 >= n THEN 0 ELSE f.tail + 1)
      /\ g.num_entries = n
      /\ g \in [queue : [IdSlots -> T], num_entries : {n}, avail : 0..n, tail : IdSlots]
  <2> DEFINE q == [f.queue EXCEPT ![s] = -1]
             a == f.avail - 1
             b == IF f.tail + 1 >= f.num_entries THEN 0 ELSE f.tail + 1
  <2>1. q \in [IdSlots -> T] /\ a \in 0..n /\ b \in IdSlots
    BY <1>1, <1>2, <1>3
  <2>2. g = [f EXCEPT !.queue = q, !.avail = a, !.tail = b]
    BY Zenon DEF fifo_taken
  <2> HIDE DEF q, a, b, g
  <2>3. /\ g.queue = q /\ g.avail = a /\ g.tail = b /\ g.num_entries = n
        /\ g \in [queue : [IdSlots -> T], num_entries : {n}, avail : 0..n, tail : IdSlots]
    BY <1>2, <1>3, <2>1, <2>2
  <2> QED BY <1>3, <2>3 DEF q, a, b
<1>6. ASSUME NEW x \in Live(g)
      PROVE  x \in Live(f) /\ x # s
  <2> HIDE DEF g
  <2>0. /\ f.tail \in 0..(n - 1) /\ g.tail = (IF f.tail + 1 >= n THEN 0 ELSE f.tail + 1)
        /\ g.num_entries = n
    BY <1>2, <1>3, <1>5
  <2>1. \A i \in 0..(f.avail - 2) : Index(g, i) = Index(f, i + 1) /\ Index(f, i + 1) # s
    BY <1>1, <1>3, <2>0 DEF Index
  <2>2. g.avail - 1 = f.avail - 2
    BY <1>2, <1>3, <1>5
  <2>3. \A i \in 0..(f.avail - 2) : i + 1 \in 0..(f.avail - 1)
    BY <1>3
  <2> QED BY <2>1, <2>2, <2>3 DEF Live
<1>7. fifo_oldest(f) = f.queue[s]
  BY DEF fifo_oldest
<1> HIDE DEF g, s
<1>8. g \in IdBuffers
  BY <1>5 DEF IdBuffers, n, T
<1>9. \A x \in Live(g) : x \in Live(f) /\ g.queue[x] = f.queue[x]
  <2>1. f.queue \in [IdSlots -> T]
    BY <1>2
  <2>2. \A x : x = s \/ [f.queue EXCEPT ![s] = -1][x] = f.queue[x]
    BY <2>1
  <2> QED BY <1>5, <1>6, <2>2
<1> QED BY <1>4, <1>7, <1>8, <1>9 DEF g

\* ... and a hart starts with an empty one.
LEMMA InitId ==
    /\ fifo_is_empty(fifo_init(Cardinality(EventIds), -1))
    /\ EventIds # {} => fifo_init(Cardinality(EventIds), -1) \in IdBuffers
    /\ Live(fifo_init(Cardinality(EventIds), -1)) = {}
<1> DEFINE n == Cardinality(EventIds)
           g == fifo_init(n, -1)
<1>1. g.avail = 0
  BY DEF fifo_init
<1>2. EventIds # {} => g \in IdBuffers
  <2> SUFFICES ASSUME EventIds # {} PROVE g \in IdBuffers
    OBVIOUS
  <2>1. n \in Nat \ {0}
    BY IdCount
  <2> QED BY <2>1 DEF fifo_init, IdBuffers, IdSlots
<1> HIDE DEF g
<1>3. fifo_is_empty(g) /\ Live(g) = {}
  BY <1>1 DEF fifo_is_empty, Live
<1> QED BY <1>2, <1>3 DEF g

-----------------------------
\* sse_inject_event.
LEMMA SseInjectInv ==
    ASSUME SseScenarios, HangInv, EventInv, NEW h \in Harts, NEW id \in EventIds,
           NEW t \in scenario.targets, SseInject(h, id, t)
    PROVE  EventInv'
<1> DEFINE e == sse_event_get(id, h)
           hart == IF EVENT_IS_GLOBAL(id) THEN event[e].hartid ELSE t
           l == IF hart = h THEN "ret" ELSE "sse_put"
           v == [Local EXCEPT !.to = hart, !.sse = <<id, hart>>]
<1>1. /\ SseInv /\ SseFunctions /\ pc[h] = "S" /\ "inject" \in calls
      /\ pc' = [pc EXCEPT ![h] = l] /\ local' = [local EXCEPT ![h] = v]
      /\ event' = IF hart = h /\ Enabled(e) THEN [event EXCEPT ![e].pending = TRUE] ELSE event
      /\ UNCHANGED <<enabled_events, inject_fifo, masked, running, ge_lock, list_lock>>
      /\ UNCHANGED <<scenario, inited, ipi_type, state, lottery>>
  BY Zenon DEF EventInv, SseInv, SseInject, SseCall, Ecall, Goto, Set, lockVars, bootVars, hsmVars, ipiVars
<1>2. e \in SseEvents /\ e' = e
  BY EventGot DEF sse_event_get, EVENT_IS_GLOBAL
<1>3. event[e] \in SseRecords /\ event[e].hartid \in Harts /\ t \in Harts /\ hart \in Harts
  BY <1>1, <1>2, ScenarioKnown DEF SseFunctions, SseRecords
<1>4. hart = h => event[e].hartid = h
  <2>1. ~EVENT_IS_GLOBAL(id) => e[2] = h /\ h # Nobody
    BY HartAssumption DEF sse_event_get, Nobody, Harts
  <2> QED BY <1>1, <1>2, <2>1 DEF SseInv, OwnHart
<1>5. Fields(v, "none", {}, {}, {}) /\ v.to = hart /\ v.sse = <<id, hart>>
  <2>1. DOMAIN Local = {"to", "addr", "off", "new", "ret", "mask", "again", "event", "todo", "sse", "was"}
    BY DEF Local
  <2>2. v.to = hart /\ v.sse = <<id, hart>>
    BY <2>1
  <2>3. DOMAIN Local = DOMAIN Local
    OBVIOUS
  <2> DEFINE p == <<id, hart>>
             q == hart
  <2>4. v = [Local EXCEPT !.to = q, !.sse = p]
    OBVIOUS
  <2> HIDE DEF p, q, v
  <2>5. Fields(v, "none", {}, {}, {})
    BY Zenon, <2>3, <2>4, LocalFields
  <2> QED BY <2>2, <2>5
<1>6. l \in {"ret", "sse_put"} /\ (l = "sse_put" => hart # h)
  OBVIOUS
<1> HIDE DEF v, l, hart
<1>7. Tidy(l, v)
  BY <1>5, <1>6 DEF Tidy, Fields
<1>8. SseStep(h) /\ pc'[h] = l /\ local'[h] = v
  BY <1>1, <1>6, <1>7, StepMade
<1>9. ~AtReset /\ UNCHANGED calls
  BY <1>1, RunsAlive DEF Running, calls
<1> HIDE DEF e
<1>10. HartidKept /\ QuietStates(h)
  <2>1. CASE hart = h /\ Enabled(e)
    <3> DEFINE w == [event[e] EXCEPT !.pending = TRUE]
    <3>1. Becomes(w, event[e].state, TRUE, event[e].oneshot, event[e].hartid, event[e].interrupted)
      BY <1>3, RecordSet
    <3>2. event' = [event EXCEPT ![e] = w]
      BY <1>1, <2>1
    <3> HIDE DEF w
    <3>3. Others(e) /\ event'[e] = w
      BY <1>1, <1>2, <3>1, <3>2, EventSet DEF Becomes
    <3>4. \A x \in SseEvents : x # e => event'[x] = event[x]
      BY <3>3 DEF Others
    <3> QED BY <1>4, <2>1, <3>1, <3>3, <3>4 DEF HartidKept, QuietStates, Becomes, Others
  <2>2. CASE ~(hart = h /\ Enabled(e))
    BY <1>1, <2>2 DEF HartidKept, QuietStates, SseFunctions
  <2> QED BY <2>1, <2>2
<1>11. SseFunctions'
  BY <1>1, <1>10 DEF SseFunctions, OnHarts, HartidKept
<1>12. StillMasked
  BY <1>1, <1>9 DEF StillMasked, SseInv, Placed
<1>13. OthersKept(h)
  BY <1>1, <1>8, SignalsStay DEF OthersKept
<1>14. QuietSse(h)
  BY <1>1, <1>6, <1>8, <1>10, <1>13 DEF QuietSse, Unlooked
<1>15. \A i \in Harts : Injected(i)'
  BY <1>1, <1>9, <1>10, InjectedKept
<1>16. Midway(h)'
  <2>1. CASE l = "ret"
    BY <1>8, <2>1 DEF Midway
  <2>2. CASE l = "sse_put"
    <3>1. EVENT_IS_GLOBAL(id) => e = <<id, Nobody>> /\ event'[e].hartid = hart
      BY <1>2, <1>10 DEF HartidKept, e, sse_event_get, hart
    <3>2. /\ "inject" \in calls' /\ local'[h].to \in Harts /\ local'[h].sse[1] = id
          /\ local'[h].to = hart
      BY <1>1, <1>3, <1>5, <1>8, <1>9
    <3>3. Handles(local[h].to, local[h].sse[1])'
      BY <3>1, <3>2 DEF Handles
    <3> QED BY <1>8, <2>2, <3>2, <3>3 DEF Midway
  <2> QED BY <1>6, <2>1, <2>2
<1> QED BY <1>9, <1>11, <1>12, <1>14, <1>15, <1>16, QuietInv

\* The locals of a hart that sends a software event to t.
LEMMA SendingTidy ==
    ASSUME NEW t
    PROVE  Fields(Sending("sse", {t}), "sse", {t} \cap Interruptible, {}, {})
           /\ Tidy("send", Sending("sse", {t}))
<1> DEFINE v == Sending("sse", {t})
           m == {t} \cap Interruptible
<1>1. v = [Local EXCEPT !.event = "sse", !.mask = m]
  BY DEF Sending
<1>2. \A x, y \in m : x = y
  OBVIOUS
<1>3. DOMAIN Local = DOMAIN Local
  OBVIOUS
<1> HIDE DEF v, m
<1>4. Fields(v, "sse", m, {}, {})
  BY Zenon, <1>1, <1>3, LocalFields
<1>5. Tidy("send", v)
  BY <1>2, <1>4 DEF Tidy, Fields
<1> QED BY <1>4, <1>5 DEF v, m

\* sse_ipi_inject_send.
LEMMA InjectSendInv ==
    ASSUME HangInv, EventInv, NEW h \in Harts, InjectSend(h)
    PROVE  EventInv'
<1> DEFINE t == local[h].to
           id == local[h].sse[1]
           full == fifo_is_full(inject_fifo[t])
           f == fifo_put(inject_fifo[t], id)
           l == IF full THEN "ret" ELSE "send"
           v == IF full THEN local[h] ELSE Sending("sse", {t})
<1>1. /\ SseInv /\ SseFunctions /\ pc[h] = "sse_put" /\ OnHarts(local) /\ Tidy(pc[h], local[h])
      /\ Midway(h) /\ \A i \in Harts : Injected(i)
      /\ UNCHANGED <<event, enabled_events, masked, running, ge_lock, list_lock>>
      /\ UNCHANGED <<scenario, inited, ipi_type, state, lottery>>
  BY DEF EventInv, SseInv, InjectSend, lockVars, bootVars, hsmVars, ipiVars, Orderly,
         HangInv, HangFunctions
<1>2. /\ t \in Harts /\ "inject" \in calls /\ Handles(t, id) /\ id \in EventIds /\ EventIds # {}
  BY <1>1 DEF Midway, Handles
<1>3. /\ pc' = [pc EXCEPT ![h] = l]
      /\ full => inject_fifo' = inject_fifo
      /\ ~full => inject_fifo' = [inject_fifo EXCEPT ![t] = f]
  BY DEF InjectSend, Goto, Set
<1>4. local' = [local EXCEPT ![h] = v]
  <2>1. CASE full
    BY <1>1, <2>1 DEF InjectSend, OnHarts
  <2>2. CASE ~full
    BY Zenon, <2>2 DEF InjectSend, Set
  <2> QED BY <2>1, <2>2
<1>5. Tidy(l, v)
  <2>1. CASE full
    <3>1. Tidy("ret", local[h])
      BY <1>1 DEF Tidy
    <3> QED BY <2>1, <3>1
  <2>2. CASE ~full
    BY <2>2, SendingTidy
  <2> QED BY <2>1, <2>2
<1>6. l \in {"ret", "send"}
  OBVIOUS
<1> HIDE DEF l, v
<1>7. SseStep(h) /\ pc'[h] = l
  BY <1>1, <1>3, <1>4, <1>5, <1>6, StepMade
<1>8. ~AtReset /\ UNCHANGED calls
  BY <1>1, RunsAlive DEF Running, calls
<1>9. HartidKept /\ QuietStates(h)
  BY <1>1 DEF HartidKept, QuietStates, SseFunctions
<1> HIDE DEF t, id, f, full
<1>10. OnHarts(inject_fifo') /\ \A i \in Harts : i # t \/ full => inject_fifo'[i] = inject_fifo[i]
  BY <1>1, <1>2, <1>3 DEF OnHarts, SseFunctions
<1>11. SseFunctions'
  BY <1>1, <1>10 DEF SseFunctions, OnHarts
<1>12. StillMasked
  BY <1>1, <1>8 DEF StillMasked, SseInv, Placed
<1>13. OthersKept(h)
  BY <1>1, <1>7, SignalsStay DEF OthersKept
<1>14. QuietSse(h)
  BY <1>1, <1>6, <1>7, <1>9, <1>13 DEF QuietSse, Unlooked
<1>15. \A i \in Harts : Injected(i)'
  <2>1. ASSUME NEW i \in Harts, inject_fifo'[i] = inject_fifo[i] PROVE Injected(i)'
    BY <1>1, <1>8, <1>9, <2>1, InjectedKept
  <2>2. ASSUME NEW i \in Harts, i = t, ~full PROVE Injected(i)'
    <3> DEFINE g == inject_fifo[i]
    <3>1. g \in IdBuffers /\ \A s \in Live(g) : Handles(i, g.queue[s])
      BY <1>1, <1>2, <2>2 DEF Injected
    <3>2. f \in IdBuffers /\ \A s \in Live(f) : f.queue[s] = id \/ (s \in Live(g) /\ f.queue[s] = g.queue[s])
      BY <1>2, <2>2, <3>1, PutId DEF full, f
    <3>3. inject_fifo'[i] = f
      BY <1>1, <1>2, <1>3, <2>2 DEF SseFunctions, OnHarts
    <3> HIDE DEF g
    <3>4. \A s \in Live(f) : Handles(i, f.queue[s])
      BY <1>2, <2>2, <3>1, <3>2
    <3>5. \A j \in Harts, x \in EventIds : Handles(j, x) =>
             x \in EventIds /\ (EVENT_IS_GLOBAL(x) => event'[<<x, Nobody>>].hartid = j)
      BY <1>1 DEF Handles
    <3>6. \A s \in Live(f) : f.queue[s] \in EventIds /\ Handles(i, f.queue[s])
      BY <3>4 DEF Handles
    <3> QED BY <1>2, <1>8, <3>2, <3>3, <3>5, <3>6 DEF Injected, Handles
  <2> QED BY <1>10, <2>1, <2>2
<1>16. Midway(h)'
  BY <1>6, <1>7 DEF Midway
<1> QED BY <1>8, <1>11, <1>12, <1>14, <1>15, <1>16, QuietInv

\* sse_ipi_inject_process takes an event, ...
LEMMA InjectTakeInv ==
    ASSUME HangInv, EventInv, NEW h \in Harts, InjectTake(h)
    PROVE  EventInv'
<1> DEFINE g == inject_fifo[h]
           id == fifo_oldest(g)
           e == sse_event_get(id, h)
           f == fifo_taken(g, -1)
           l == IF Enabled(e) THEN "sse_pend" ELSE pc[h]
           v == IF Enabled(e) THEN [local[h] EXCEPT !.sse = e, !.was = event[e].state] ELSE local[h]
<1>1. /\ SseInv /\ SseFunctions /\ pc[h] \in {"process", "sse_self"} /\ OnHarts(local) /\ OnHarts(pc)
      /\ Tidy(pc[h], local[h]) /\ \A i \in Harts : Injected(i)
      /\ ~fifo_is_empty(g) /\ inject_fifo' = [inject_fifo EXCEPT ![h] = f] /\ Unlocked(e)
      /\ UNCHANGED <<event, enabled_events, masked, running, list_lock>>
      /\ UNCHANGED <<scenario, inited, ipi_type, state, lottery>>
  BY DEF EventInv, SseInv, InjectTake, Injecting, Processing, bootVars, hsmVars, ipiVars, Orderly,
         HangInv, HangFunctions, Set
<1>2. ge_lock' = IF Enabled(e) /\ EVENT_IS_GLOBAL(id) THEN [ge_lock EXCEPT ![id] = h] ELSE ge_lock
  BY DEF InjectTake, Set
<1>3. pc' = [pc EXCEPT ![h] = l]
  BY <1>1 DEF InjectTake, Goto, Set, OnHarts
<1>4. local' = [local EXCEPT ![h] = v]
  <2>1. CASE Enabled(e)
    BY Zenon, <2>1 DEF InjectTake, Set
  <2>2. CASE ~Enabled(e)
    BY <1>1, <2>2 DEF InjectTake, OnHarts
  <2> QED BY <2>1, <2>2
<1>5. /\ "inject" \in calls /\ EventIds # {} /\ g \in IdBuffers
      /\ \A s \in Live(g) : Handles(h, g.queue[s])
  <2>1. Injected(h)
    BY <1>1
  <2> QED BY <1>1, <2>1 DEF Injected
<1>6. /\ Handles(h, id) /\ id \in EventIds /\ f \in IdBuffers
      /\ \A s \in Live(f) : s \in Live(g) /\ f.queue[s] = g.queue[s]
  <2>1. /\ f \in IdBuffers /\ \E s \in Live(g) : id = g.queue[s]
        /\ \A s \in Live(f) : s \in Live(g) /\ f.queue[s] = g.queue[s]
    BY <1>1, <1>5, TakenId
  <2> QED BY <1>5, <2>1 DEF Handles
<1>7. e \in SseEvents /\ e[1] = id /\ event[e].hartid = h
  <2>1. e \in SseEvents /\ e[1] = id
    BY <1>6, EventGot
  <2>2. CASE EVENT_IS_GLOBAL(id)
    BY <1>6, <2>1, <2>2 DEF sse_event_get, Handles
  <2>3. CASE ~EVENT_IS_GLOBAL(id)
    <3>1. e[2] = h /\ h # Nobody
      BY <2>3, HartAssumption DEF sse_event_get, Nobody, Harts
    <3> QED BY <1>1, <2>1, <3>1 DEF SseInv, OwnHart
  <2> QED BY <2>1, <2>2, <2>3
<1>8. l \in {"process", "sse_self", "sse_pend"} /\ (l = "sse_pend" <=> Enabled(e))
  BY <1>1
<1>9. /\ Fields(v, local[h].event, local[h].mask, local[h].again, local[h].todo)
      /\ Enabled(e) => v.sse = e /\ v.was = event[e].state
  <2>1. DOMAIN local[h] = DOMAIN Local
    BY <1>1 DEF Tidy
  <2>2. CASE Enabled(e)
    <3> DEFINE p == e
               q == event[e].state
    <3>1. v = [local[h] EXCEPT !.sse = p, !.was = q]
      BY <2>2
    <3> HIDE DEF p, q, v
    <3>2. Fields(v, local[h].event, local[h].mask, local[h].again, local[h].todo)
      BY Zenon, <2>1, <3>1, LocalFields
    <3>3. {"sse", "was"} \subseteq DOMAIN Local
      BY DEF Local
    <3>4. v.sse = p /\ v.was = q
      BY <2>1, <3>1, <3>3
    <3> QED BY <3>2, <3>4 DEF p, q
  <2>3. CASE ~Enabled(e)
    BY <2>1, <2>3 DEF Fields
  <2> QED BY <2>2, <2>3
<1> HIDE DEF l, v
<1>10. Tidy(l, v)
  BY <1>1, <1>8, <1>9 DEF Tidy, Fields
<1>11. SseStep(h) /\ pc'[h] = l /\ local'[h] = v
  BY <1>1, <1>3, <1>4, <1>8, <1>10, StepMade
<1>12. ~AtReset /\ UNCHANGED calls
  BY <1>1 DEF SseInv, Placed, calls
<1>13. HartidKept /\ QuietStates(h)
  BY <1>1 DEF HartidKept, QuietStates, SseFunctions
<1>14. inject_fifo'[h] = f /\ OnHarts(inject_fifo')
       /\ \A i \in Harts : i # h => inject_fifo'[i] = inject_fifo[i]
  BY <1>1 DEF OnHarts, SseFunctions
<1>15. Unlocked(e) /\ (EVENT_IS_GLOBAL(id) => ge_lock[id] = Nobody)
  BY <1>1, <1>7 DEF Unlocked
<1> HIDE DEF f, e, id, g
<1>16. /\ ge_lock' = [x \in GlobalIds |-> ge_lock'[x]]
       /\ \A i \in Harts, x \in GlobalIds : ge_lock[x] = i => ge_lock'[x] = i
       /\ Enabled(e) /\ EVENT_IS_GLOBAL(id) => ge_lock'[id] = h
  <2>1. ge_lock = [x \in GlobalIds |-> ge_lock[x]] /\ \A i \in Harts : i # Nobody
    BY <1>1, HartAssumption DEF SseFunctions, Nobody, Harts
  <2> QED BY <1>2, <1>15, <2>1 DEF EVENT_IS_GLOBAL
<1>17. SseFunctions'
  BY <1>1, <1>14, <1>16 DEF SseFunctions, OnHarts
<1>18. StillMasked
  BY <1>1, <1>12 DEF StillMasked, SseInv, Placed
<1>19. OthersKept(h)
  BY <1>1, <1>11, <1>16, SignalsStay DEF OthersKept
<1>20. QuietSse(h)
  BY <1>1, <1>8, <1>11, <1>13, <1>19 DEF QuietSse, Unlooked
<1>21. \A i \in Harts : Injected(i)'
  <2>1. ASSUME NEW i \in Harts, i # h PROVE Injected(i)'
    BY <1>1, <1>12, <1>13, <1>14, <2>1, InjectedKept
  <2>2. Injected(h)'
    <3>2. \A s \in Live(f) : Handles(h, f.queue[s])
      BY <1>5, <1>6
    <3>3. \A s \in Live(f) : f.queue[s] \in EventIds
              /\ (EVENT_IS_GLOBAL(f.queue[s]) => event'[<<f.queue[s], Nobody>>].hartid = h)
      BY <1>1, <3>2 DEF Handles
    <3> QED BY <1>5, <1>6, <1>12, <1>14, <3>3 DEF Injected, Handles
  <2> QED BY <2>1, <2>2
<1>22. Midway(h)'
  <2>1. CASE Enabled(e)
    <3>1. pc'[h] = "sse_pend" /\ local'[h].sse = e /\ local'[h].was = event[e].state
      BY <1>8, <1>9, <1>11, <2>1
    <3>2. /\ e \in SseEvents /\ event'[e].hartid = h /\ event'[e].state \in {"ENABLED", "RUNNING"}
          /\ local'[h].was = event'[e].state /\ (EVENT_IS_GLOBAL(e[1]) => ge_lock'[e[1]] = h)
      BY <1>1, <1>7, <1>16, <2>1, <3>1 DEF Enabled
    <3> QED BY <3>1, <3>2 DEF Midway, Enabled
  <2>2. CASE ~Enabled(e)
    BY <1>8, <1>11, <2>2 DEF Midway
  <2> QED BY <2>1, <2>2
<1> QED BY <1>12, <1>17, <1>18, <1>20, <1>21, <1>22, QuietInv

\* ... makes it pending, ...
LEMMA InjectPendInv ==
    ASSUME HangInv, EventInv, NEW h \in Harts, InjectPend(h)
    PROVE  EventInv'
<1> DEFINE e == local[h].sse
           l == IF local[h].event = "sse" THEN "sse_self" ELSE "process"
           u == [event[e] EXCEPT !.pending = TRUE]
           w == [u EXCEPT !.state = event[e].state]
<1>1. /\ SseInv /\ SseFunctions /\ pc[h] = "sse_pend" /\ OnHarts(local)
      /\ Tidy(pc[h], local[h]) /\ Midway(h)
      /\ pc' = [pc EXCEPT ![h] = l] /\ UNCHANGED local
      /\ UNCHANGED <<enabled_events, masked, running, list_lock, inject_fifo>>
      /\ UNCHANGED <<scenario, inited, ipi_type, state, lottery>>
  BY DEF EventInv, SseInv, InjectPend, bootVars, hsmVars, ipiVars, Orderly,
         HangInv, HangFunctions, Set, Goto
<1>2. ge_lock' = IF EVENT_IS_GLOBAL(e[1]) THEN [ge_lock EXCEPT ![e[1]] = Nobody] ELSE ge_lock
  BY DEF InjectPend, Set
<1>3. /\ e \in SseEvents /\ event[e].hartid = h /\ Enabled(e) /\ local[h].was = event[e].state
      /\ EVENT_IS_GLOBAL(e[1]) => ge_lock[e[1]] = h
  BY <1>1 DEF Midway
<1>4. local' = [local EXCEPT ![h] = local[h]] /\ l \in {"sse_self", "process"}
  BY <1>1 DEF OnHarts
<1>5. Tidy(l, local[h])
  BY <1>1 DEF Tidy
<1> HIDE DEF l
<1>6. SseStep(h) /\ pc'[h] = l
  BY <1>1, <1>4, <1>5, StepMade
<1>7. ~AtReset /\ UNCHANGED calls
  BY <1>1, <1>3 DEF SseInv, Placed, calls, Enabled
<1>8. event' = [event EXCEPT ![e] = w]
  BY <1>1, <1>3 DEF InjectPend, SseFunctions
<1>9. Becomes(w, event[e].state, TRUE, event[e].oneshot, event[e].hartid, event[e].interrupted)
  <2> DEFINE s == event[e].state
  <2>1. event[e] \in SseRecords /\ s \in {"UNUSED", "REGISTERED", "ENABLED", "RUNNING"}
    BY <1>1, <1>3 DEF SseFunctions, SseRecords
  <2>2. Becomes(u, event[e].state, TRUE, event[e].oneshot, event[e].hartid, event[e].interrupted)
    BY <2>1, RecordSet
  <2> HIDE DEF u, s
  <2>3. u \in SseRecords
    BY <2>2 DEF Becomes
  <2>4. Becomes([u EXCEPT !.state = s], s, u.pending, u.oneshot, u.hartid, u.interrupted)
    BY <2>1, <2>3, RecordSet
  <2>5. w = [u EXCEPT !.state = s]
    BY DEF w, s
  <2> QED BY <2>2, <2>4, <2>5 DEF Becomes, s
<1> HIDE DEF e, w
<1>10. HartidKept /\ QuietStates(h)
  <2>1. Others(e) /\ event'[e] = w
    BY <1>1, <1>3, <1>8, <1>9, EventSet DEF Becomes
  <2>2. \A x \in SseEvents : x # e => event'[x] = event[x]
    BY <2>1 DEF Others
  <2> QED BY <1>3, <1>9, <2>1, <2>2 DEF HartidKept, QuietStates, Becomes, Others
<1>11. /\ ge_lock' = [x \in GlobalIds |-> ge_lock'[x]]
       /\ \A i \in Harts \ {h}, x \in GlobalIds : ge_lock[x] = i => ge_lock'[x] = i
  <2>1. ge_lock = [x \in GlobalIds |-> ge_lock[x]]
    BY <1>1 DEF SseFunctions
  <2> QED BY <1>2, <1>3, <2>1 DEF EVENT_IS_GLOBAL
<1>12. SseFunctions'
  BY <1>1, <1>10, <1>11 DEF SseFunctions, OnHarts, HartidKept
<1>13. StillMasked
  BY <1>1, <1>7 DEF StillMasked, SseInv, Placed
<1>14. OthersKept(h)
  BY <1>1, <1>6, <1>11, SignalsStay DEF OthersKept
<1>15. QuietSse(h)
  BY <1>1, <1>4, <1>6, <1>10, <1>14 DEF QuietSse, Unlooked
<1>16. \A i \in Harts : Injected(i)'
  BY <1>1, <1>7, <1>10, InjectedKept
<1>17. Midway(h)'
  BY <1>4, <1>6 DEF Midway
<1> QED BY <1>7, <1>12, <1>13, <1>15, <1>16, <1>17, QuietInv

\* ... and goes on until the buffer is empty.
LEMMA InjectDoneInv ==
    ASSUME HangInv, EventInv, NEW h \in Harts, InjectDone(h)
    PROVE  EventInv'
<1> DEFINE l == IF pc[h] = "sse_self" THEN "send" ELSE "process"
           m == local[h].mask \ {Target(h)}
           d == local[h].todo \ {"sse"}
           v == IF pc[h] = "sse_self" THEN [local[h] EXCEPT !.mask = m]
                                      ELSE [local[h] EXCEPT !.todo = d]
<1>1. /\ SseInv /\ pc[h] \in {"process", "sse_self"} /\ Tidy(pc[h], local[h]) /\ OnHarts(pc)
      /\ UNCHANGED sseVars /\ UNCHANGED <<scenario, inited, ipi_type, state, lottery>>
      /\ StatesFit
  BY DEF EventInv, SseInv, InjectDone, Injecting, Processing, bootVars, hsmVars, ipiVars, Orderly,
         HangInv, HangFunctions
<1>2. pc' = [pc EXCEPT ![h] = l]
  BY <1>1 DEF InjectDone, Goto, Set, OnHarts
<1>3. local' = [local EXCEPT ![h] = v]
  BY Zenon DEF InjectDone, Set, Sent, Processed
<1>4. m \subseteq local[h].mask /\ d \subseteq local[h].todo /\ DOMAIN local[h] = DOMAIN Local
  BY <1>1 DEF Tidy
<1>5. l \in {"send", "process"}
  OBVIOUS
<1> HIDE DEF m, d
<1>6. \/ Fields(v, local[h].event, m, local[h].again, local[h].todo)
      \/ Fields(v, local[h].event, local[h].mask, local[h].again, d)
  <2>1. /\ Fields([local[h] EXCEPT !.mask = m], local[h].event, m, local[h].again, local[h].todo)
        /\ Fields([local[h] EXCEPT !.todo = d], local[h].event, local[h].mask, local[h].again, d)
    BY Zenon, <1>4, LocalFields
  <2> QED BY <2>1
<1> HIDE DEF v, l
<1>7. Tidy(l, v)
  BY <1>1, <1>4, <1>5, <1>6 DEF Tidy, Fields
<1>8. l \in Plain /\ pc[h] \in Plain /\ l \notin Unlooked /\ pc[h] # "send"
  BY <1>1, <1>5 DEF Plain, Unlooked
<1>9. Calm
  BY <1>1, <1>2, <1>3, <1>7, <1>8, WriteCalm
<1> QED BY <1>1, <1>9, CalmInv

-----------------------------
\* sse_event_resume: the supervisor is back in the handlers the event has interrupted.
LEMMA SseResumeInv ==
    ASSUME HangInv, EventInv, NEW h \in Harts, SseResume(h)
    PROVE  EventInv'
<1>1. /\ SseInv /\ StackInv /\ SignalInv /\ SseFunctions /\ pc[h] = "sse_resume" /\ OnHarts(local)
      /\ Tidy(pc[h], local[h])
      /\ pc' = [pc EXCEPT ![h] = "ret"] /\ UNCHANGED local
      /\ UNCHANGED <<event, enabled_events, masked, inject_fifo, ge_lock>>
      /\ list_lock' = [list_lock EXCEPT ![h] = Nobody]
      /\ UNCHANGED <<scenario, inited, ipi_type, state, lottery>>
  BY DEF EventInv, SseInv, SseResume, bootVars, hsmVars, ipiVars, Orderly,
         HangInv, HangFunctions, Set, Goto
<1>2. running' = [running EXCEPT ![h] = Stack(h)]
  <2> DEFINE c == event[local[h].sse].interrupted
  <2>1. running' = [running EXCEPT ![h] = c[2]]
    BY DEF SseResume, Set
  <2>2. c = <<h, Front(running[h])>>
    BY <1>1 DEF StackInv, Resuming
  <2> HIDE DEF c
  <2>3. c[2] = Front(running[h])
    BY <2>2
  <2> QED BY <1>1, <2>1, <2>3 DEF Stack
<1>3. SseStep(h) /\ pc'[h] = "ret"
  <2>1. local' = [local EXCEPT ![h] = local[h]] /\ Tidy("ret", local[h])
    BY <1>1 DEF OnHarts, Tidy
  <2> QED BY <1>1, <2>1, StepMade
<1>4. /\ running' \in [Harts -> Seq(SseEvents)] /\ running'[h] = Stack(h)
      /\ \A i \in Harts \ {h} : running'[i] = running[i]
  <2> DEFINE r == Stack(h)
  <2>1. r \in Seq(SseEvents) /\ running \in [Harts -> Seq(SseEvents)]
    BY <1>1, StackType DEF SseFunctions
  <2>2. running' = [running EXCEPT ![h] = r]
    BY <1>2
  <2> HIDE DEF r
  <2>3. /\ running' \in [Harts -> Seq(SseEvents)] /\ running'[h] = r
        /\ \A i \in Harts \ {h} : running'[i] = running[i]
    BY <2>1, <2>2
  <2> QED BY <2>3 DEF r
<1>5. ~AtReset /\ HartsKept /\ UNCHANGED calls
  BY <1>1, <1>3, StepKept, RunsAlive DEF Running, calls
<1>6. \A i \in Harts \ {h} : pc'[i] = pc[i] /\ local'[i] = local[i]
  BY <1>3 DEF SseStep, OnlyMoves
<1>7. HartidKept /\ \A x \in SseEvents : Enabled(x)' <=> Enabled(x)
  BY <1>1 DEF HartidKept, SseFunctions, Enabled
<1>8. SseFunctions' /\ \A i \in Harts \ {h} : list_lock'[i] = list_lock[i]
  BY <1>1, <1>4 DEF SseFunctions, OnHarts
<1>9. SseInv'
  <2>1. StillMasked
    BY <1>1 DEF StillMasked, SseInv, Placed
  <2>2. \A i \in Harts : Injected(i)'
    BY <1>1, <1>5, <1>7, InjectedKept
  <2>3. ASSUME NEW i \in Harts PROVE Midway(i)'
    <3>1. pc'[i] \in {"sse_put", "sse_pend"} => pc'[i] = pc[i] /\ local'[i] = local[i]
      BY <1>3, <1>6
    <3> QED BY <1>1, <1>5, <1>7, <3>1, MidwayKept
  <2> QED BY <1>1, <1>5, <1>7, <1>8, <2>1, <2>2, <2>3, ListsKept
<1>10. StackInv'
  <2> SUFFICES ASSUME NEW i \in Harts
               PROVE  Nested(i, Stack(i))' /\ Resuming(i)'
    BY DEF StackInv
  <2>1. Stack(i)' = Stack(i)
    BY <1>3, <1>4, <1>6 DEF Stack
  <2>2. RunningKept(i)
    BY <1>1, <2>1 DEF RunningKept, Runs
  <2>3. pc'[i] = "sse_resume" => i # h
    BY <1>3
  <2>4. Resuming(i)'
    BY <1>1, <1>4, <1>5, <1>6, <1>7, <1>8, <2>3, ResumingKept
  <2> QED BY <1>1, <2>2, <2>4, NestedKept
<1>11. SignalInv'
  <2>1. ASSUME NEW i \in Harts PROVE SignalsKept(i)
    <3>1. Signalled(i) => Signalled(i)'
      BY <1>1, <1>3, SignalsStay
    <3>2. WaitsKept(i)
      BY <1>1 DEF WaitsKept, Ready
    <3> QED BY <1>1, <1>3, <1>6, <1>7, <3>1, <3>2 DEF SignalsKept, Unlooked
  <2> QED BY <1>1, <1>5, <2>1, SignalKept
<1> QED BY <1>9, <1>10, <1>11 DEF EventInv

\* A list is written.
LEMMA ListSet ==
    ASSUME SseFunctions, NEW c \in Harts, NEW m \in Seq(SseEvents),
           enabled_events' = [enabled_events EXCEPT ![c] = m]
    PROVE  /\ enabled_events' \in [Harts -> Seq(SseEvents)] /\ enabled_events'[c] = m
           /\ \A i \in Harts : i # c => enabled_events'[i] = enabled_events[i]
BY DEF SseFunctions

\* The state of an event is written.
LEMMA StateSet ==
    ASSUME SseFunctions, NEW e \in SseEvents, NEW s \in {"UNUSED", "REGISTERED", "ENABLED", "RUNNING"},
           event' = [event EXCEPT ![e] = [event[e] EXCEPT !.state = s]]
    PROVE  /\ HartidKept /\ event'[e].state = s
           /\ \A x \in SseEvents : /\ x # e => event'[x] = event[x]
                                   /\ event'[x].hartid = event[x].hartid
                                   /\ event'[x].interrupted = event[x].interrupted
                                   /\ event'[x].pending = event[x].pending
<1> DEFINE w == [event[e] EXCEPT !.state = s]
<1>1. Becomes(w, s, event[e].pending, event[e].oneshot, event[e].hartid, event[e].interrupted)
  BY RecordSet DEF SseFunctions
<1>2. event' = [event EXCEPT ![e] = w]
  OBVIOUS
<1> HIDE DEF w
<1>3. Others(e) /\ event'[e] = w
  BY <1>1, <1>2, EventSet DEF Becomes
<1>4. \A x \in SseEvents : x # e => event'[x] = event[x]
  BY <1>3 DEF Others
<1> QED BY <1>1, <1>3, <1>4 DEF HartidKept, Becomes, Others

\* Where events are enabled, a hart with a new one is told.
LEMMA SignalTold ==
    ASSUME SignalInv, UNCHANGED calls, "enable" \in calls,
           \A i \in Harts : (pc'[i] \in Unlooked /\ ~masked'[i] => Signalled(i)') \/ SignalsKept(i)
    PROVE  SignalInv'
<1>1. ASSUME NEW i \in Harts, pc'[i] \in Unlooked, ~masked'[i], Waits(i)' PROVE Signalled(i)'
  <2>1. CASE SignalsKept(i)
    <3>1. pc[i] \in Unlooked /\ ~masked[i] /\ Waits(i) /\ (Signalled(i) => Signalled(i)')
      BY <1>1, <2>1, WaitsBefore DEF SignalsKept
    <3> QED BY <3>1 DEF SignalInv
  <2> QED BY <1>1, <2>1
<1> QED BY <1>1 DEF SignalInv

\* sse_event_enable.
LEMMA EnableInv ==
    ASSUME SseScenarios, HangInv, EventInv, NEW h \in Harts, NEW id \in EventIds,
           SseEnable(h, id), event[sse_event_get(id, h)].state = "REGISTERED"
    PROVE  EventInv'
<1> DEFINE e == sse_event_get(id, h)
           hart == event[e].hartid
           list == enabled_events[hart]
           m == Added(list, e)
           l == IF Told(e) THEN "send" ELSE "ret"
           v == IF Told(e) THEN Sending("sse", {hart}) ELSE local[h]
<1>1. /\ SseInv /\ StackInv /\ SignalInv /\ SseFunctions /\ pc[h] = "S" /\ OnHarts(local)
      /\ Tidy(pc[h], local[h]) /\ "enable" \in calls
      /\ UNCHANGED <<masked, inject_fifo, running>>
      /\ UNCHANGED <<scenario, inited, ipi_type, state, lottery>>
      /\ UNCHANGED calls
  BY DEF EventInv, SseInv, SseEnable, SseCall, Ecall, bootVars, hsmVars, ipiVars, Orderly,
         HangInv, HangFunctions, calls
<1>2. /\ event' = [event EXCEPT ![e] = [event[e] EXCEPT !.state = "ENABLED"]]
      /\ enabled_events' = [enabled_events EXCEPT ![hart] = m]
      /\ pc' = [pc EXCEPT ![h] = l] /\ Unlocked(e) /\ list_lock[hart] = Nobody
  BY DEF SseEnable, SseCall, Goto, Set, ListUnlocked
<1>3. /\ ge_lock' = IF Told(e) THEN [ge_lock EXCEPT ![id] = h] ELSE ge_lock
      /\ list_lock' = IF Told(e) THEN [list_lock EXCEPT ![hart] = h] ELSE list_lock
  BY DEF SseEnable, Set, lockVars
<1>4. local' = [local EXCEPT ![h] = v]
  <2>1. CASE Told(e)
    BY Zenon, <2>1 DEF SseEnable, Set
  <2>2. CASE ~Told(e)
    BY <1>1, <2>2 DEF SseEnable, OnHarts
  <2> QED BY <2>1, <2>2
<1>5. e \in SseEvents /\ e[1] = id /\ e' = e /\ hart \in Harts /\ (EVENT_IS_GLOBAL(id) <=> e[2] = Nobody)
      /\ (~EVENT_IS_GLOBAL(id) => hart = h) /\ event[e].state = "REGISTERED"
  <2>1. e \in SseEvents /\ e[1] = id
    BY EventGot
  <2>2. e' = e
    BY DEF sse_event_get, EVENT_IS_GLOBAL
  <2>3. hart \in Harts
    BY <1>1, <2>1 DEF SseFunctions, SseRecords
  <2>4. ~EVENT_IS_GLOBAL(id) => e[2] = h /\ h # Nobody
    BY HartAssumption DEF sse_event_get, Nobody, Harts
  <2>5. EVENT_IS_GLOBAL(id) => e[2] = Nobody
    BY DEF sse_event_get
  <2> QED BY <1>1, <2>1, <2>2, <2>3, <2>4, <2>5 DEF SseInv, OwnHart
<1>6. Tidy(l, v) /\ l \in {"send", "ret"} /\ (Told(e) <=> l = "send")
  <2>1. Tidy("ret", local[h])
    BY <1>1 DEF Tidy
  <2> QED BY <2>1, SendingTidy
<1>7. Told(e) => v.event = "sse" /\ v.mask = {hart} \cap Interruptible
  BY SendingTidy DEF Fields
<1> HIDE DEF l, v
<1>8. SseStep(h) /\ pc'[h] = l /\ local'[h] = v
  BY <1>1, <1>2, <1>4, <1>6, StepMade
<1>9. ~AtReset /\ HartsKept /\ Alive(h) /\ \A i \in Harts : i # h => pc'[i] = pc[i] /\ local'[i] = local[i]
  BY <1>1, <1>8, StepKept, RunsAlive DEF Running, SseStep, OnlyMoves
<1>10. Alive(hart)
  BY <1>1, <1>5, <1>9 DEF SseInv, Placed
<1>11. list \in Seq(SseEvents)
  BY <1>1, <1>5 DEF SseFunctions
<1>12. m \in Seq(SseEvents) /\ \E p : Inserted(m, list, p, e)
  BY <1>5, <1>11, AddedList
<1>13. Told(e) <=> EVENT_IS_GLOBAL(id) /\ event[e].pending
  BY <1>5 DEF Told
<1> HIDE DEF hart, e, m, list
<1>14. /\ \A x : Contains(m, x) <=> Contains(list, x) \/ x = e
       /\ Distinct(m) <=> Distinct(list) /\ ~Contains(list, e)
       /\ \A x, y : Before(list, x, y) => Before(m, x, y)
  BY <1>11, <1>12, InsertedOrder
<1>15. /\ HartidKept /\ event'[e].state = "ENABLED"
       /\ \A x \in SseEvents : /\ x # e => event'[x] = event[x]
                               /\ event'[x].hartid = event[x].hartid
                               /\ event'[x].interrupted = event[x].interrupted
                               /\ event'[x].pending = event[x].pending
  BY <1>1, <1>2, <1>5, StateSet
<1>16. /\ enabled_events' \in [Harts -> Seq(SseEvents)] /\ enabled_events'[hart] = m
       /\ \A i \in Harts : i # hart => enabled_events'[i] = enabled_events[i]
  BY <1>1, <1>2, <1>5, <1>12, ListSet
<1>17. list = enabled_events[hart] /\ event[e].hartid = hart /\ ~Enabled(e)
  BY <1>5 DEF list, hart, Enabled
<1>18. \A x \in SseEvents : Enabled(x)' <=> Enabled(x) \/ x = e
  BY <1>15 DEF Enabled
<1>19. SseFunctions'
  <2>1. OnHarts(list_lock') /\ ge_lock' = [x \in GlobalIds |-> ge_lock'[x]]
    BY <1>1, <1>3, <1>5, <1>13 DEF SseFunctions, OnHarts, EVENT_IS_GLOBAL
  <2> QED BY <1>1, <1>15, <1>16, <2>1 DEF SseFunctions, OnHarts, HartidKept
<1>20. \A i \in Harts : i # hart => list_lock'[i] = list_lock[i]
  BY <1>1, <1>3 DEF SseFunctions, OnHarts
<1>21. \A i \in Harts : \A x \in GlobalIds : ge_lock[x] = i => ge_lock'[x] = i
  <2>1. Told(e) => ge_lock[id] = Nobody
    BY <1>2, <1>5, <1>13 DEF Unlocked
  <2>2. \A i \in Harts : i # Nobody
    BY HartAssumption DEF Nobody, Harts
  <2> QED BY <1>1, <1>3, <2>1, <2>2 DEF SseFunctions
<1>22. SseInv'
  <2>1. StillMasked
    BY <1>1 DEF StillMasked, SseInv, Placed
  <2>2. \A i \in Harts : Injected(i)'
    BY <1>1, <1>15, InjectedKept
  <2>3. ASSUME NEW i \in Harts PROVE Midway(i)'
    <3>1. pc'[i] \in {"sse_put", "sse_pend"} => pc'[i] = pc[i] /\ local'[i] = local[i]
      BY <1>6, <1>8, <1>9
    <3>2. \A x \in SseEvents : Enabled(x) => event'[x].state = event[x].state
      BY <1>15, <1>17
    <3> QED BY <1>1, <1>15, <1>21, <3>1, <3>2, MidwayKept DEF EVENT_IS_GLOBAL
  <2>4. ASSUME NEW i \in Harts PROVE Listed(i)'
    <3>1. Listed(i) /\ (Alive(i)' <=> Alive(i))
      BY <1>1, <1>9 DEF SseInv, HartsKept
    <3>2. CASE i # hart
      <4>1. \A x \in SseEvents : Contains(enabled_events[i], x) => event[x].hartid = i
        BY <1>1, <3>1 DEF Listed
      <4> QED BY ZenonT(40), <1>1, <1>15, <1>16, <1>17, <1>18, <3>1, <3>2, <4>1 DEF Listed
    <3>3. CASE i = hart
      <4>1. Distinct(m)
        BY <1>5, <1>10, <1>14, <1>17, <3>1, <3>3 DEF Listed
      <4> QED BY <1>1, <1>10, <1>14, <1>15, <1>16, <1>17, <1>18, <3>1, <3>3, <4>1 DEF Listed
    <3> QED BY <3>2, <3>3
  <2>5. EnabledIsListed'
    <3> SUFFICES ASSUME NEW x \in SseEvents, Enabled(x)'
                 PROVE  Contains(enabled_events'[event'[x].hartid], x)
      BY DEF EnabledIsListed
    <3>1. event'[x].hartid = event[x].hartid /\ event[x].hartid \in Harts
      BY <1>1, <1>15 DEF SseFunctions, SseRecords
    <3>2. CASE x = e
      BY <1>14, <1>16, <1>17, <3>1, <3>2
    <3>3. CASE x # e
      <4>1. Contains(enabled_events[event[x].hartid], x)
        BY <1>1, <1>18, <3>3 DEF SseInv, EnabledIsListed
      <4> QED BY <1>14, <1>16, <1>17, <3>1, <4>1
    <3> QED BY <3>2, <3>3
  <2> QED BY <1>1, <1>9, <1>15, <1>19, <2>1, <2>2, <2>3, <2>4, <2>5, SseKept
<1>23. \A x \in SseEvents : (event'[x].state = "RUNNING" <=> event[x].state = "RUNNING")
                            /\ (event[x].state = "RUNNING" => x # e)
  BY <1>5, <1>15
<1>24. \A i \in Harts : \A x, y : Before(enabled_events[i], x, y) => Before(enabled_events'[i], x, y)
  BY <1>14, <1>16, <1>17
<1>25. StackInv'
  <2> SUFFICES ASSUME NEW i \in Harts
               PROVE  Nested(i, Stack(i))' /\ Resuming(i)'
    BY DEF StackInv
  <2>1. Stack(i)' = Stack(i)
    BY <1>1, <1>6, <1>8, <1>9 DEF Stack
  <2>2. RunningKept(i)
    BY <1>15, <1>23, <1>24, <2>1 DEF RunningKept, Runs
  <2>3. pc'[i] = "sse_resume" =>
              /\ pc'[i] = pc[i] /\ local'[i] = local[i] /\ running'[i] = running[i]
              /\ i # hart /\ list_lock'[i] = list_lock[i]
    <3>1. i # Nobody
      BY HartAssumption DEF Nobody, Harts
    <3> QED BY <1>1, <1>2, <1>6, <1>8, <1>9, <1>20, <3>1 DEF StackInv, Resuming
  <2>4. Resuming(i)'
    BY <1>1, <1>15, <1>17, <1>18, <1>23, <2>3, ResumingKept
  <2> QED BY <1>1, <2>2, <2>4, NestedKept
<1>26. SignalInv'
  <2>1. ASSUME NEW i \in Harts
        PROVE  (pc'[i] \in Unlooked /\ ~masked'[i] => Signalled(i)') \/ SignalsKept(i)
    <3>1. Signalled(i) => Signalled(i)'
      BY <1>1, <1>8, SignalsStay
    <3>2. CASE i = h
      BY <1>6, <1>8, <3>2 DEF Unlooked
    <3>3. CASE i # h /\ i = hart /\ Told(e)
      <4> SUFFICES ASSUME pc'[i] \in Unlooked, ~masked'[i] PROVE Signalled(i)'
        OBVIOUS
      <4>1. Reachable(i) /\ pc[i] \in Unlooked
        BY <1>1, <1>9, <3>3 DEF SseInv, Placed
      <4>2. i \in Interruptible
        BY <4>1 DEF Reachable, Interruptible, Unlooked
      <4>3. pc'[h] = "send" /\ local'[h].event = "sse" /\ i \in local'[h].mask
        BY <1>6, <1>7, <1>8, <3>3, <4>2
      <4> QED BY <4>3 DEF Signalled
    <3>4. CASE i # h /\ ~(i = hart /\ Told(e))
      <4>1. ~Ready(e, i)'
        BY <1>5, <1>13, <1>15, <1>17, <3>4 DEF Ready
      <4>2. \A x \in SseEvents : Contains(enabled_events'[i], x) /\ Ready(x, i)' =>
                                   Contains(enabled_events[i], x) /\ Ready(x, i)
        <5>1. \A x \in SseEvents : Ready(x, i)' => x # e /\ Ready(x, i)
          BY <1>5, <1>15, <4>1 DEF Ready
        <5> QED BY <1>14, <1>16, <1>17, <5>1
      <4>3. WaitsKept(i)
        BY <1>23, <1>24, <4>2 DEF WaitsKept
      <4> QED BY <1>1, <1>9, <3>1, <3>4, <4>3 DEF SignalsKept
    <3> QED BY <3>2, <3>3, <3>4
  <2> QED BY <1>1, <2>1, SignalTold
<1> QED BY <1>22, <1>25, <1>26 DEF EventInv

\* sse_event_disable.
LEMMA DisableInv ==
    ASSUME SseScenarios, HangInv, EventInv, NEW h \in Harts, NEW id \in EventIds,
           SseDisable(h, id), event[sse_event_get(id, h)].state = "ENABLED"
    PROVE  EventInv'
<1> DEFINE e == sse_event_get(id, h)
           hart == event[e].hartid
           list == enabled_events[hart]
           m == RemoveFirst(list, e)
<1>1. /\ SseInv /\ StackInv /\ SignalInv /\ SseFunctions /\ pc[h] = "S"
      /\ UNCHANGED <<masked, inject_fifo, running, ge_lock, list_lock>>
      /\ UNCHANGED <<scenario, inited, ipi_type, state, lottery>>
      /\ UNCHANGED calls
  BY DEF EventInv, SseInv, SseDisable, SseCall, Ecall, bootVars, hsmVars, ipiVars, lockVars, calls
<1>2. /\ event' = [event EXCEPT ![e] = [event[e] EXCEPT !.state = "REGISTERED"]]
      /\ enabled_events' = [enabled_events EXCEPT ![hart] = m]
      /\ Unlocked(e) /\ list_lock[hart] = Nobody
  BY DEF SseDisable, SseCall, Set, ListUnlocked
<1>3. SseStep(h) /\ pc'[h] = "ret"
  BY <1>1, ReturnStep DEF SseDisable
<1>4. e \in SseEvents /\ e[1] = id /\ hart \in Harts /\ (~EVENT_IS_GLOBAL(id) => hart = h)
      /\ event[e].state = "ENABLED"
  <2>1. e \in SseEvents /\ e[1] = id
    BY EventGot
  <2>2. hart \in Harts
    BY <1>1, <2>1 DEF SseFunctions, SseRecords
  <2>3. ~EVENT_IS_GLOBAL(id) => e[2] = h /\ h # Nobody
    BY HartAssumption DEF sse_event_get, Nobody, Harts
  <2> QED BY <1>1, <2>1, <2>2, <2>3 DEF SseInv, OwnHart
<1>5. ~AtReset /\ HartsKept /\ \A i \in Harts : i # h => pc'[i] = pc[i] /\ local'[i] = local[i]
  BY <1>1, <1>3, StepKept, RunsAlive DEF Running, SseStep, OnlyMoves
<1>6. list \in Seq(SseEvents) /\ Contains(list, e)
  BY <1>1, <1>4 DEF SseFunctions, SseInv, EnabledIsListed, Enabled
<1>7. m \in Seq(SseEvents) /\ \E p : Inserted(list, m, p, e)
  BY <1>6, RemovedList
<1> HIDE DEF hart, e, m, list
<1>8. /\ \A x : Contains(list, x) <=> Contains(m, x) \/ x = e
      /\ Distinct(list) <=> Distinct(m) /\ ~Contains(m, e)
      /\ \A x, y : x # e /\ y # e /\ Before(list, x, y) => Before(m, x, y)
  BY <1>6, <1>7, InsertedOrder
<1>9. /\ HartidKept /\ event'[e].state = "REGISTERED"
      /\ \A x \in SseEvents : /\ x # e => event'[x] = event[x]
                              /\ event'[x].hartid = event[x].hartid
                              /\ event'[x].interrupted = event[x].interrupted
                              /\ event'[x].pending = event[x].pending
  BY <1>1, <1>2, <1>4, StateSet
<1>10. /\ enabled_events' \in [Harts -> Seq(SseEvents)] /\ enabled_events'[hart] = m
       /\ \A i \in Harts : i # hart => enabled_events'[i] = enabled_events[i]
  BY <1>1, <1>2, <1>4, <1>7, ListSet
<1>11. list = enabled_events[hart] /\ event[e].hartid = hart /\ Enabled(e) /\ Distinct(list)
       /\ Distinct(m) /\ ~Contains(m, e)
  BY <1>1, <1>4, <1>8 DEF list, hart, Enabled, SseInv, Listed
<1>12. \A x \in SseEvents : Enabled(x)' <=> Enabled(x) /\ x # e
  BY <1>9 DEF Enabled
<1>13. SseFunctions'
  BY <1>1, <1>9, <1>10 DEF SseFunctions, OnHarts, HartidKept
<1>14. SseInv'
  <2>1. StillMasked
    BY <1>1 DEF StillMasked, SseInv, Placed
  <2>2. \A i \in Harts : Injected(i)'
    BY <1>1, <1>9, InjectedKept
  <2>3. ASSUME NEW i \in Harts PROVE Midway(i)'
    <3>1. pc'[i] \in {"sse_put", "sse_pend"} => pc'[i] = pc[i] /\ local'[i] = local[i] /\ i # h
      BY <1>3, <1>5
    <3>2. i # Nobody
      BY HartAssumption DEF Nobody, Harts
    <3>3. EVENT_IS_GLOBAL(e[1]) => ge_lock[e[1]] # i
      BY <1>2, <1>4, <3>2 DEF Unlocked
    <3>4. ~EVENT_IS_GLOBAL(e[1]) /\ event[e].hartid = i => i = h
      BY <1>4, <1>11
    <3>5. \A x \in SseEvents : x # e => event'[x].state = event[x].state
      BY <1>9
    <3> QED BY <1>1, <1>9, <3>1, <3>3, <3>4, <3>5, MidwayKept
  <2>4. ASSUME NEW i \in Harts PROVE Listed(i)'
    <3>1. Listed(i) /\ (Alive(i)' <=> Alive(i))
      BY <1>1, <1>5 DEF SseInv, HartsKept
    <3>2. CASE i # hart
      <4>1. Alive(i) \/ "enable" \in calls => ~Contains(enabled_events[i], e)
        BY <1>4, <1>11, <3>1, <3>2 DEF Listed
      <4> QED BY <1>1, <1>9, <1>10, <1>12, <3>1, <3>2, <4>1 DEF Listed
    <3>3. CASE i = hart
      <4>1. \A x : Contains(m, x) => Contains(list, x) /\ x # e
        BY <1>8, <1>11
      <4> QED BY <1>1, <1>9, <1>10, <1>11, <1>12, <3>1, <3>3, <4>1 DEF Listed
    <3> QED BY <3>2, <3>3
  <2>5. EnabledIsListed'
    <3> SUFFICES ASSUME NEW x \in SseEvents, Enabled(x)'
                 PROVE  Contains(enabled_events'[event'[x].hartid], x)
      BY DEF EnabledIsListed
    <3>1. event'[x].hartid = event[x].hartid /\ event[x].hartid \in Harts
      BY <1>1, <1>9 DEF SseFunctions, SseRecords
    <3>2. Contains(enabled_events[event[x].hartid], x) /\ x # e
      BY <1>1, <1>12 DEF SseInv, EnabledIsListed
    <3> QED BY <1>8, <1>10, <1>11, <3>1, <3>2
  <2> QED BY <1>1, <1>5, <1>9, <1>13, <2>1, <2>2, <2>3, <2>4, <2>5, SseKept
<1>15. \A x \in SseEvents : (event'[x].state = "RUNNING" <=> event[x].state = "RUNNING")
                            /\ (event[x].state = "RUNNING" => x # e)
  BY <1>4, <1>9
<1>16. \A i \in Harts : \A x, y : x # e /\ y # e /\ Before(enabled_events[i], x, y)
                                  => Before(enabled_events'[i], x, y)
  BY <1>8, <1>10, <1>11
<1>17. StackInv'
  <2> SUFFICES ASSUME NEW i \in Harts
               PROVE  Nested(i, Stack(i))' /\ Resuming(i)'
    BY DEF StackInv
  <2>1. Stack(i)' = Stack(i)
    BY <1>1, <1>3, <1>5 DEF Stack
  <2>2. RunningKept(i)
    BY <1>9, <1>15, <1>16, <2>1 DEF RunningKept, Runs
  <2>3. pc'[i] = "sse_resume" =>
              /\ pc'[i] = pc[i] /\ local'[i] = local[i] /\ running'[i] = running[i]
              /\ i # hart
    <3>1. i # Nobody
      BY HartAssumption DEF Nobody, Harts
    <3> QED BY <1>1, <1>2, <1>3, <1>5, <3>1 DEF StackInv, Resuming
  <2>4. Resuming(i)'
    BY <1>1, <1>9, <1>11, <1>12, <1>15, <2>3, ResumingKept
  <2> QED BY <1>1, <2>2, <2>4, NestedKept
<1>18. SignalInv'
  <2>1. ASSUME NEW i \in Harts PROVE SignalsKept(i)
    <3>1. Signalled(i) => Signalled(i)'
      BY <1>1, <1>3, SignalsStay
    <3>2. \A x \in SseEvents : Ready(x, i)' => x # e /\ Ready(x, i)
      BY <1>9 DEF Ready
    <3>3. \A x : Contains(enabled_events'[i], x) => Contains(enabled_events[i], x)
      BY <1>8, <1>10, <1>11
    <3>4. WaitsKept(i)
      BY <1>15, <1>16, <3>2, <3>3 DEF WaitsKept
    <3> QED BY <1>1, <1>3, <1>5, <1>9, <1>12, <3>1, <3>4 DEF SignalsKept, Unlooked
  <2> QED BY <1>1, <2>1, SignalKept
<1> QED BY <1>14, <1>17, <1>18 DEF EventInv

\* sbi_sse_enable and sbi_sse_disable, which refuse an event in another state.
LEMMA SseListInv ==
    ASSUME SseScenarios, HangInv, EventInv, NEW h \in Harts, NEW id \in EventIds,
           SseEnable(h, id) \/ SseDisable(h, id)
    PROVE  EventInv'
<1>1. SseInv /\ StatesFit /\ pc[h] = "S" /\ UNCHANGED <<bootVars, hsmVars, ipiVars>>
  BY DEF EventInv, HangInv, SseEnable, SseDisable, SseCall, Ecall
<1>2. CASE SseEnable(h, id)
  <2>1. CASE event[sse_event_get(id, h)].state = "REGISTERED"
    BY <1>2, <2>1, EnableInv
  <2>2. CASE event[sse_event_get(id, h)].state # "REGISTERED"
    <3>1. Goto(h, "ret") /\ UNCHANGED local /\ UNCHANGED sseVars
      BY <1>2, <2>2 DEF SseEnable, sseVars, lockVars
    <3> QED BY <1>1, <3>1, ReturnStep, CalmInv
  <2> QED BY <2>1, <2>2
<1>3. CASE SseDisable(h, id)
  <2>1. CASE event[sse_event_get(id, h)].state = "ENABLED"
    BY <1>3, <2>1, DisableInv
  <2>2. CASE event[sse_event_get(id, h)].state # "ENABLED"
    <3>1. Goto(h, "ret") /\ UNCHANGED local /\ UNCHANGED sseVars
      BY <1>3, <2>2 DEF SseDisable, sseVars, lockVars
    <3> QED BY <1>1, <3>1, ReturnStep, CalmInv
  <2> QED BY <2>1, <2>2
<1> QED BY <1>2, <1>3

-----------------------------
\* The first event of the list that runs is the innermost handler.
LEMMA Innermost ==
    ASSUME SseInv, StackInv, NEW h \in Harts, pc[h] # "sse_resume", NEW n \in DOMAIN enabled_events[h],
           Runs(enabled_events[h][n], h),
           \A j \in DOMAIN enabled_events[h] : event[enabled_events[h][j]].state = "RUNNING" => n <= j
    PROVE  /\ running[h] # <<>> /\ Last(running[h]) = enabled_events[h][n]
           /\ event[enabled_events[h][n]].interrupted = <<h, Front(running[h])>>
           /\ \A k \in 1..(Len(running[h]) - 1) : running[h][k] # enabled_events[h][n]
<1> DEFINE list == enabled_events[h]
           r == running[h]
           e == list[n]
<1>1. /\ list \in Seq(SseEvents) /\ r \in Seq(SseEvents) /\ Distinct(list) /\ Nested(h, r)
  BY DEF SseInv, SseFunctions, Listed, StackInv, Stack
<1>2. \A j \in DOMAIN list : event[list[j]].state = "RUNNING" => n <= j
  OBVIOUS
<1>3. e \in SseEvents /\ n \in DOMAIN list /\ Runs(e, h) /\ list[n] = e
  BY <1>1
<1> HIDE DEF list, r, e
<1>4. PICK k \in DOMAIN r : r[k] = e
  BY <1>1, <1>3 DEF Nested, Runs
<1>5. DOMAIN r = 1..Len(r) /\ Len(r) \in Nat /\ DOMAIN list = 1..Len(list) /\ Len(list) \in Nat
  BY <1>1
<1>6. ASSUME NEW j \in DOMAIN r, r[j] = e PROVE j = Len(r)
  <2> SUFFICES ASSUME j < Len(r) PROVE FALSE
    BY <1>5
  <2>1. j + 1 \in DOMAIN r /\ j < j + 1
    BY <1>5
  <2>2. Before(list, r[j + 1], e) /\ event[r[j + 1]].state = "RUNNING"
    BY <1>1, <1>6, <2>1 DEF Nested, list
  <2>3. PICK a, b \in DOMAIN list : a < b /\ list[a] = r[j + 1] /\ list[b] = e
    BY <2>2 DEF Before
  <2>4. b = n /\ n <= a
    BY <1>1, <1>2, <1>3, <2>2, <2>3 DEF Distinct
  <2> QED BY <1>5, <2>3, <2>4
<1>7. k = Len(r) /\ r # <<>> /\ Last(r) = e
  BY <1>1, <1>4, <1>5, <1>6 DEF Last
<1>8. event[e].interrupted = <<h, Front(r)>>
  <2>1. event[r[k]].interrupted = <<h, SubSeq(r, 1, k - 1)>>
    BY <1>1, <1>4 DEF Nested
  <2> QED BY <1>4, <1>7, <2>1 DEF Front
<1>9. \A j \in 1..(Len(r) - 1) : r[j] # e
  BY <1>5, <1>6
<1> QED BY <1>7, <1>8, <1>9 DEF list, r, e

\* The handlers that are left when the innermost one has completed.
LEMMA NestedFront ==
    ASSUME NEW r \in Seq(SseEvents), r # <<>>, NEW h \in Harts, Nested(h, r),
           \A k \in 1..(Len(r) - 1) : r[k] # Last(r),
           \A x \in SseEvents : x # Last(r) => event'[x] = event[x],
           event'[Last(r)].state # "RUNNING",
           \A x, y \in SseEvents : x # Last(r) /\ y # Last(r) /\ Before(enabled_events[h], x, y)
                               => Before(enabled_events'[h], x, y)
    PROVE  LET q == Front(r)
           IN  /\ \A k \in DOMAIN q : /\ event'[q[k]].state = "RUNNING" /\ event'[q[k]].hartid = h
                                      /\ event'[q[k]].interrupted = <<h, SubSeq(q, 1, k - 1)>>
               /\ \A e \in SseEvents : event'[e].state = "RUNNING" /\ event'[e].hartid = h =>
                     \E k \in DOMAIN q : q[k] = e
               /\ \A j, k \in DOMAIN q : j < k => Before(enabled_events'[h], q[k], q[j])
<1> DEFINE q == Front(r)
           z == Last(r)
<1>1. /\ Len(r) \in Nat \ {0} /\ DOMAIN r = 1..Len(r) /\ z = r[Len(r)] /\ z \in SseEvents
      /\ q \in Seq(SseEvents) /\ Len(q) = Len(r) - 1 /\ DOMAIN q = 1..(Len(r) - 1)
  <2>1. Len(r) \in Nat \ {0} /\ DOMAIN r = 1..Len(r)
    OBVIOUS
  <2>2. z = r[Len(r)] /\ z \in SseEvents
    BY <2>1 DEF Last
  <2>3. q = SubSeq(r, 1, Len(r) - 1) /\ \A k \in 1..(Len(r) - 1) : r[k] \in SseEvents
    BY <2>1 DEF Front
  <2>4. q \in Seq(SseEvents) /\ Len(q) = Len(r) - 1
    BY <2>1, <2>3, SubSeqProperties
  <2> QED BY <2>1, <2>2, <2>4
<1>2. \A k \in 1..(Len(r) - 1) : q[k] = r[k] /\ k \in DOMAIN r /\ r[k] \in SseEvents /\ r[k] # z
  BY <1>1, SubSeqProperties DEF Front
<1>3. ASSUME NEW k \in DOMAIN q PROVE SubSeq(q, 1, k - 1) = SubSeq(r, 1, k - 1)
  <2>1. /\ SubSeq(q, 1, k - 1) \in Seq(SseEvents) /\ SubSeq(r, 1, k - 1) \in Seq(SseEvents)
        /\ Len(SubSeq(q, 1, k - 1)) = k - 1 /\ Len(SubSeq(r, 1, k - 1)) = k - 1
    BY <1>1, SubSeqProperties
  <2>2. \A j \in 1..(k - 1) : SubSeq(q, 1, k - 1)[j] = q[j] /\ SubSeq(r, 1, k - 1)[j] = r[j]
    BY <1>1, SubSeqProperties
  <2>3. \A j \in 1..(k - 1) : q[j] = r[j]
    BY <1>1, <1>2
  <2> QED BY <2>1, <2>2, <2>3, SeqEqual
<1> HIDE DEF q, z
<1>4. ASSUME NEW k \in DOMAIN q
      PROVE  /\ event'[q[k]].state = "RUNNING" /\ event'[q[k]].hartid = h
             /\ event'[q[k]].interrupted = <<h, SubSeq(q, 1, k - 1)>>
  <2>1. q[k] = r[k] /\ k \in DOMAIN r /\ r[k] \in SseEvents /\ event'[r[k]] = event[r[k]]
    BY <1>1, <1>2 DEF z
  <2>2. /\ event[r[k]].state = "RUNNING" /\ event[r[k]].hartid = h
        /\ event[r[k]].interrupted = <<h, SubSeq(r, 1, k - 1)>>
    BY <2>1 DEF Nested
  <2> QED BY <1>3, <2>1, <2>2
<1>5. ASSUME NEW e \in SseEvents, event'[e].state = "RUNNING", event'[e].hartid = h
      PROVE  \E k \in DOMAIN q : q[k] = e
  <2>1. e # z /\ event[e].state = "RUNNING" /\ event[e].hartid = h
    BY <1>5 DEF z
  <2>2. PICK k \in DOMAIN r : r[k] = e
    BY <2>1 DEF Nested
  <2> QED BY <1>1, <1>2, <2>1, <2>2
<1>6. ASSUME NEW j \in DOMAIN q, NEW k \in DOMAIN q, j < k
      PROVE  Before(enabled_events'[h], q[k], q[j])
  <2>1. Before(enabled_events[h], r[k], r[j])
    BY <1>1, <1>2, <1>6 DEF Nested
  <2> QED BY <1>1, <1>2, <2>1 DEF z
<1> QED BY <1>4, <1>5, <1>6 DEF q

\* sbi_sse_complete.
LEMMA CompleteInv ==
    ASSUME SseScenarios, HangInv, EventInv, NEW h \in Harts, SseComplete(h)
    PROVE  EventInv'
<1> DEFINE list == enabled_events[h]
           runs == {i \in DOMAIN list : event[list[i]].state = "RUNNING"}
           e == list[First(runs)]
           one == event[e].oneshot
           s == IF one THEN "REGISTERED" ELSE "ENABLED"
           m == IF one THEN RemoveFirst(list, e) ELSE list
           v == [Local EXCEPT !.sse = e]
           r == running[h]
<1>1. /\ SseInv /\ StackInv /\ SignalInv /\ SseFunctions /\ pc[h] = "S" /\ list_lock[h] = Nobody
      /\ StatesFit /\ UNCHANGED <<bootVars, hsmVars, ipiVars>>
      /\ UNCHANGED <<masked, inject_fifo, running, ge_lock>>
      /\ UNCHANGED <<scenario, inited, ipi_type, state, lottery>>
      /\ UNCHANGED calls
  BY Zenon DEF EventInv, SseInv, SseComplete, Ecall, bootVars, hsmVars, ipiVars, calls, ListUnlocked, HangInv
<1>2. CASE runs = {} \/ event[e].hartid # h
  <2>1. Goto(h, "ret") /\ UNCHANGED local /\ UNCHANGED sseVars
    BY Zenon, <1>1, <1>2 DEF SseComplete, sseVars
  <2> QED BY <1>1, <2>1, ReturnStep, CalmInv
<1>3. CASE ~(runs = {} \/ event[e].hartid # h)
  <2>1. /\ event' = [event EXCEPT ![e] = [event[e] EXCEPT !.state = s]]
        /\ list_lock' = [list_lock EXCEPT ![h] = h]
        /\ pc' = [pc EXCEPT ![h] = "sse_resume"]
    BY Zenon, <1>3 DEF SseComplete, Set, Goto
  <2>2. local' = [local EXCEPT ![h] = v]
    BY Zenon, <1>3 DEF SseComplete, Set
  <2>3. enabled_events' = [enabled_events EXCEPT ![h] = m]
    <3>1. enabled_events \in [Harts -> Seq(SseEvents)]
      BY <1>1 DEF SseFunctions
    <3>2. CASE one
      BY Zenon, <1>3, <3>2 DEF SseComplete, Set
    <3>3. CASE ~one
      <4>1. enabled_events' = enabled_events
        BY Zenon, <1>3, <3>3 DEF SseComplete
      <4> QED BY <3>1, <3>3, <4>1
    <3> QED BY <3>2, <3>3
  <2>4. list \in Seq(SseEvents) /\ r \in Seq(SseEvents) /\ Distinct(list)
    BY <1>1 DEF SseFunctions, SseInv, Listed
  <2>5. First(runs) \in runs /\ \A j \in runs : First(runs) <= j
    <3>1. runs # {}
      BY <1>3
    <3>2. DOMAIN list \subseteq Nat /\ runs \subseteq DOMAIN list
      BY <2>4
    <3> HIDE DEF runs
    <3> QED BY SMTT(30), <3>1, <3>2, FirstLeast
  <2>6. /\ e \in SseEvents /\ event[e].state = "RUNNING" /\ event[e].hartid = h /\ Contains(list, e)
        /\ Enabled(e)
    <3> DEFINE n == First(runs)
    <3>1. n \in DOMAIN list /\ event[list[n]].state = "RUNNING" /\ event[e].hartid = h /\ e = list[n]
      BY Zenon, <1>3, <2>5
    <3> HIDE DEF n, e, list
    <3>2. DOMAIN list = 1..Len(list) /\ e \in SseEvents
      BY <2>4, <3>1
    <3> QED BY <3>1, <3>2 DEF Contains, Enabled
  <2>7. /\ r # <<>> /\ Last(r) = e /\ event[e].interrupted = <<h, Front(r)>>
        /\ \A k \in 1..(Len(r) - 1) : r[k] # e
    <3> DEFINE n == First(runs)
    <3>1. n \in DOMAIN enabled_events[h] /\ Runs(enabled_events[h][n], h)
          /\ \A j \in DOMAIN enabled_events[h] : event[enabled_events[h][j]].state = "RUNNING" => n <= j
      BY Zenon, <2>5, <2>6 DEF Runs
    <3> HIDE DEF n
    <3>2. /\ running[h] # <<>> /\ Last(running[h]) = enabled_events[h][n]
          /\ event[enabled_events[h][n]].interrupted = <<h, Front(running[h])>>
          /\ \A k \in 1..(Len(running[h]) - 1) : running[h][k] # enabled_events[h][n]
      BY <1>1, <3>1, Innermost
    <3> QED BY Zenon, <3>2 DEF n
  <2>8. Fields(v, "none", {}, {}, {}) /\ v.sse = e
    <3>1. DOMAIN Local = DOMAIN Local /\ "sse" \in DOMAIN Local
      BY DEF Local
    <3> DEFINE p == e
    <3> HIDE DEF p, e
    <3>2. Fields([Local EXCEPT !.sse = p], "none", {}, {}, {}) /\ [Local EXCEPT !.sse = p].sse = p
      BY Zenon, <3>1, LocalFields
    <3> QED BY <3>2 DEF p
  <2>9. s \in {"REGISTERED", "ENABLED"} /\ (~one <=> s = "ENABLED")
    OBVIOUS
  <2>10. /\ m \in Seq(SseEvents) /\ Distinct(m)
         /\ \A x : Contains(m, x) <=> Contains(list, x) /\ (x # e \/ ~one)
         /\ \A x, y : x # e /\ y # e /\ Before(list, x, y) => Before(m, x, y)
    <3>1. CASE one
      <4> DEFINE g == RemoveFirst(list, e)
      <4>1. g \in Seq(SseEvents) /\ \E p : Inserted(list, g, p, e)
        BY <2>4, <2>6, RemovedList
      <4>2. m = g
        BY <3>1
      <4> HIDE DEF g, e, list, one, m
      <4>3. /\ \A x : Contains(list, x) <=> Contains(g, x) \/ x = e
            /\ Distinct(list) <=> Distinct(g) /\ ~Contains(g, e)
            /\ \A x, y : x # e /\ y # e /\ Before(list, x, y) => Before(g, x, y)
        BY <2>4, <4>1, InsertedOrder
      <4> QED BY SMTT(30), <2>4, <3>1, <4>1, <4>2, <4>3
    <3>2. CASE ~one
      <4>1. m = list
        BY <3>2
      <4> HIDE DEF m, list, e, one
      <4> QED BY <2>4, <3>2, <4>1
    <3> QED BY Zenon, <3>1, <3>2
  <2> DEFINE R == "sse_resume"
  <2>11. list = enabled_events[h] /\ r = running[h] /\ (one <=> event[e].oneshot)
    OBVIOUS
  <2> HIDE DEF v, m, s, e, runs, list, r, one
  <2>12. Tidy("sse_resume", v)
    BY <2>8 DEF Tidy, Fields
  <2>13. SseStep(h) /\ pc'[h] = "sse_resume" /\ local'[h] = v
    <3>1. pc' = [pc EXCEPT ![h] = R] /\ Tidy(R, v) /\ R \notin {"exit", "finish", "cold", "cold2"}
      BY <2>1, <2>12
    <3>2. pc[h] \notin {"exit", "finish", "cold", "cold2"}
      BY <1>1
    <3> HIDE DEF R
    <3>3. SseStep(h) /\ pc'[h] = R /\ local'[h] = v
      BY <1>1, <2>2, <3>1, <3>2, StepMade
    <3> QED BY <3>3 DEF R
  <2>14. ~AtReset /\ HartsKept /\ \A i \in Harts : i # h => pc'[i] = pc[i] /\ local'[i] = local[i]
    BY <1>1, <2>13, StepKept, RunsAlive DEF Running, SseStep, OnlyMoves
  <2>15. /\ HartidKept /\ event'[e].state = s
         /\ \A x \in SseEvents : /\ x # e => event'[x] = event[x]
                                 /\ event'[x].hartid = event[x].hartid
                                 /\ event'[x].interrupted = event[x].interrupted
                                 /\ event'[x].pending = event[x].pending
    BY <1>1, <2>1, <2>6, <2>9, StateSet
  <2>16. /\ enabled_events' \in [Harts -> Seq(SseEvents)] /\ enabled_events'[h] = m
         /\ \A i \in Harts : i # h => enabled_events'[i] = enabled_events[i]
    BY <1>1, <2>3, <2>10, ListSet
  <2>17. \A x \in SseEvents : Enabled(x)' <=> Enabled(x) /\ (x # e \/ ~one)
    BY <2>6, <2>9, <2>15 DEF Enabled
  <2>18. list_lock'[h] = h /\ OnHarts(list_lock') /\ \A i \in Harts : i # h => list_lock'[i] = list_lock[i]
    BY <1>1, <2>1 DEF SseFunctions, OnHarts
  <2>19. SseFunctions'
    BY <1>1, <2>15, <2>16, <2>18 DEF SseFunctions, OnHarts, HartidKept
  <2>20. SseInv'
    <3>1. StillMasked
      BY <1>1 DEF StillMasked, SseInv, Placed
    <3>2. \A i \in Harts : Injected(i)'
      BY <1>1, <2>15, InjectedKept
    <3>3. ASSUME NEW i \in Harts PROVE Midway(i)'
      <4>1. pc'[i] \in {"sse_put", "sse_pend"} => pc'[i] = pc[i] /\ local'[i] = local[i] /\ i # h
        BY <2>13, <2>14
      <4>2. \A x \in SseEvents : event[x].hartid # h => event'[x].state = event[x].state
        BY <2>6, <2>15
      <4> QED BY <1>1, <2>15, <4>1, <4>2, MidwayKept
    <3>4. ASSUME NEW i \in Harts PROVE Listed(i)'
      <4>1. Listed(i) /\ (Alive(i)' <=> Alive(i))
        BY <1>1, <2>14 DEF SseInv, HartsKept
      <4>2. CASE i # h
        <5>1. Alive(i) \/ "enable" \in calls => ~Contains(enabled_events[i], e)
          BY <2>6, <4>1, <4>2 DEF Listed
        <5> QED BY <1>1, <2>15, <2>16, <2>17, <4>1, <4>2, <5>1 DEF Listed
      <4>3. CASE i = h
        BY <1>1, <2>10, <2>11, <2>15, <2>16, <2>17, <4>1, <4>3 DEF Listed
      <4> QED BY <4>2, <4>3
    <3>5. EnabledIsListed'
      <4> SUFFICES ASSUME NEW x \in SseEvents, Enabled(x)'
                   PROVE  Contains(enabled_events'[event'[x].hartid], x)
        BY DEF EnabledIsListed
      <4>1. event'[x].hartid = event[x].hartid /\ event[x].hartid \in Harts
        BY <1>1, <2>15 DEF SseFunctions, SseRecords
      <4>2. Contains(enabled_events[event[x].hartid], x) /\ (x # e \/ ~one)
        BY <1>1, <2>17 DEF SseInv, EnabledIsListed
      <4> QED BY <2>10, <2>11, <2>16, <4>1, <4>2
    <3> QED BY <1>1, <2>14, <2>15, <2>19, <3>1, <3>2, <3>3, <3>4, <3>5, SseKept
  <2>21. StackInv'
    <3> SUFFICES ASSUME NEW i \in Harts
                 PROVE  Nested(i, Stack(i))' /\ Resuming(i)'
      BY DEF StackInv
    <3>1. CASE i # h
      <4>1. Stack(i)' = Stack(i)
        BY <1>1, <2>14, <3>1 DEF Stack
      <4>2. \A x \in SseEvents : event[x].hartid = i => event'[x] = event[x]
        BY <2>6, <2>15, <3>1
      <4>3. RunningKept(i)
        BY <2>15, <2>16, <3>1, <4>1, <4>2 DEF RunningKept, Runs
      <4>4. Resuming(i)'
        BY <1>1, <2>14, <2>15, <2>18, <3>1, <4>2, ResumingKept DEF Enabled
      <4> QED BY <1>1, <4>3, <4>4, NestedKept
    <3>2. CASE i = h
      <4>1. Stack(h)' = Front(r) /\ Nested(h, r)
        BY <1>1, <2>11, <2>13 DEF Stack, StackInv
      <4>2. event'[e].state # "RUNNING"
        BY <2>9, <2>15
      <4>3. LET q == Front(r)
            IN  /\ \A k \in DOMAIN q : /\ event'[q[k]].state = "RUNNING" /\ event'[q[k]].hartid = h
                                       /\ event'[q[k]].interrupted = <<h, SubSeq(q, 1, k - 1)>>
                /\ \A x \in SseEvents : event'[x].state = "RUNNING" /\ event'[x].hartid = h =>
                      \E k \in DOMAIN q : q[k] = x
                /\ \A j, k \in DOMAIN q : j < k => Before(enabled_events'[h], q[k], q[j])
        <5>1. \A x \in SseEvents : x # Last(r) => event'[x] = event[x]
          BY <2>7, <2>15
        <5>2. event'[Last(r)].state # "RUNNING" /\ \A k \in 1..(Len(r) - 1) : r[k] # Last(r)
          BY <2>7, <4>2
        <5>3. \A x, y \in SseEvents : x # Last(r) /\ y # Last(r) /\ Before(enabled_events[h], x, y)
                               => Before(enabled_events'[h], x, y)
          BY <2>7, <2>10, <2>11, <2>16
        <5> QED BY <2>4, <2>7, <4>1, <5>1, <5>2, <5>3, NestedFront
      <4>4. Nested(h, Stack(h))'
        BY <4>1, <4>3 DEF Nested
      <4>5. /\ running'[h] # <<>> /\ Last(running'[h]) = e /\ local'[h].sse = e
            /\ event'[e].interrupted = <<h, Front(running'[h])>>
            /\ event'[e].hartid = h /\ list_lock'[h] = h
        BY <1>1, <2>6, <2>7, <2>8, <2>11, <2>13, <2>15, <2>18
      <4>6. "prefer" \in calls => event'[e].state \in {"ENABLED", "RUNNING"}
        <5>1. "prefer" \in calls => ~one
          BY <1>1, <2>6, <2>11, ScenarioKnown DEF SseInv, NoOneshot
        <5> QED BY <2>9, <2>15, <5>1
      <4>7. Resuming(h)'
        BY <1>1, <4>2, <4>5, <4>6 DEF Resuming, Enabled
      <4> QED BY <3>2, <4>4, <4>7
    <3> QED BY <3>1, <3>2
  <2>22. SignalInv'
    <3>1. ASSUME NEW i \in Harts PROVE SignalsKept(i)
      <4>1. Signalled(i) => Signalled(i)'
        BY <1>1, <2>13, SignalsStay
      <4>2. CASE i = h
        BY <2>13, <2>15, <2>17, <4>2 DEF SignalsKept, Unlooked
      <4>3. CASE i # h
        <5>1. \A x \in SseEvents : Ready(x, i)' => Ready(x, i)
          BY <2>6, <2>15, <4>3 DEF Ready
        <5>2. ASSUME NEW x \in SseEvents, NEW y \in SseEvents, Before(enabled_events[i], y, x),
                     event[y].state = "RUNNING", Ready(x, i)'
              PROVE  event'[y].state = "RUNNING"
          <6>1. Listed(i) /\ Contains(enabled_events[i], y)
            BY <1>1, <5>2 DEF SseInv, Before, Contains
          <6>2. Alive(i)
            BY <5>1, <5>2, <6>1 DEF Listed, Ready, Enabled
          <6>3. y # e
            BY <2>6, <4>3, <6>1, <6>2 DEF Listed
          <6> QED BY <2>15, <5>2, <6>3
        <5>3. WaitsKept(i)
          BY <2>16, <4>3, <5>1, <5>2 DEF WaitsKept
        <5> QED BY <1>1, <2>14, <2>15, <2>17, <4>1, <4>3, <5>3 DEF SignalsKept
      <4> QED BY <4>2, <4>3
    <3> QED BY <1>1, <3>1, SignalKept
  <2> QED BY <2>20, <2>21, <2>22 DEF EventInv
<1> QED BY <1>2, <1>3

-----------------------------
\* Another handler on top of those hart h is in: an event that comes before them all.
LEMMA NestedMore ==
    ASSUME NEW r \in Seq(SseEvents), NEW h \in Harts, Nested(h, r), NEW e \in SseEvents,
           event[e].state # "RUNNING", UNCHANGED enabled_events,
           \A x \in SseEvents : x # e => event'[x] = event[x],
           event'[e].state = "RUNNING", event'[e].hartid = h, event'[e].interrupted = <<h, r>>,
           \A k \in DOMAIN r : Before(enabled_events[h], e, r[k])
    PROVE  LET q == Append(r, e)
           IN  /\ \A k \in DOMAIN q : /\ event'[q[k]].state = "RUNNING" /\ event'[q[k]].hartid = h
                                      /\ event'[q[k]].interrupted = <<h, SubSeq(q, 1, k - 1)>>
               /\ \A x \in SseEvents : event'[x].state = "RUNNING" /\ event'[x].hartid = h =>
                     \E k \in DOMAIN q : q[k] = x
               /\ \A j, k \in DOMAIN q : j < k => Before(enabled_events'[h], q[k], q[j])
<1> DEFINE q == Append(r, e)
           n == Len(r) + 1
<1>1. /\ Len(r) \in Nat /\ DOMAIN r = 1..Len(r) /\ q \in Seq(SseEvents) /\ Len(q) = n
      /\ DOMAIN q = 1..n /\ q[n] = e /\ \A k \in DOMAIN r : k \in DOMAIN q /\ q[k] = r[k]
  OBVIOUS
<1>2. ASSUME NEW k \in DOMAIN q PROVE SubSeq(q, 1, k - 1) = SubSeq(r, 1, k - 1)
  <2>1. /\ SubSeq(q, 1, k - 1) \in Seq(SseEvents) /\ SubSeq(r, 1, k - 1) \in Seq(SseEvents)
        /\ Len(SubSeq(q, 1, k - 1)) = k - 1 /\ Len(SubSeq(r, 1, k - 1)) = k - 1
    BY <1>1, SubSeqProperties
  <2>2. \A j \in 1..(k - 1) : SubSeq(q, 1, k - 1)[j] = q[j] /\ SubSeq(r, 1, k - 1)[j] = r[j]
    BY <1>1, SubSeqProperties
  <2>3. \A j \in 1..(k - 1) : q[j] = r[j]
    BY <1>1
  <2> QED BY <2>1, <2>2, <2>3, SeqEqual
<1>3. SubSeq(r, 1, n - 1) = r
  <2>1. /\ SubSeq(r, 1, Len(r)) \in Seq(SseEvents) /\ Len(SubSeq(r, 1, Len(r))) = Len(r)
    BY <1>1, SubSeqProperties
  <2>2. \A j \in 1..Len(r) : SubSeq(r, 1, Len(r))[j] = r[j]
    BY <1>1, SubSeqProperties
  <2>3. SubSeq(r, 1, Len(r)) = r
    BY <2>1, <2>2, SeqEqual
  <2>4. n - 1 = Len(r)
    BY <1>1
  <2> QED BY <2>3, <2>4
<1> HIDE DEF q, n
<1>4. \A k \in DOMAIN q : k = n \/ k \in DOMAIN r
  BY <1>1 DEF n
<1>5. \A k \in DOMAIN r : r[k] \in SseEvents /\ r[k] # e /\ event'[r[k]] = event[r[k]]
  BY <1>1 DEF Nested
<1>6. ASSUME NEW k \in DOMAIN q
      PROVE  /\ event'[q[k]].state = "RUNNING" /\ event'[q[k]].hartid = h
             /\ event'[q[k]].interrupted = <<h, SubSeq(q, 1, k - 1)>>
  <2>1. CASE k = n
    BY <1>1, <1>2, <1>3, <2>1
  <2>2. CASE k \in DOMAIN r
    <3>1. q[k] = r[k] /\ event'[r[k]] = event[r[k]]
      BY <1>1, <1>5, <2>2
    <3>2. /\ event[r[k]].state = "RUNNING" /\ event[r[k]].hartid = h
          /\ event[r[k]].interrupted = <<h, SubSeq(r, 1, k - 1)>>
      BY <2>2 DEF Nested
    <3> QED BY <1>2, <3>1, <3>2
  <2> QED BY <1>4, <2>1, <2>2
<1>7. ASSUME NEW x \in SseEvents, event'[x].state = "RUNNING", event'[x].hartid = h
      PROVE  \E k \in DOMAIN q : q[k] = x
  <2>1. CASE x = e
    <3>1. n \in DOMAIN q
      BY <1>1 DEF n
    <3> QED BY <1>1, <2>1, <3>1
  <2>2. CASE x # e
    <3>1. PICK k \in DOMAIN r : r[k] = x
      BY <1>7, <2>2 DEF Nested
    <3> QED BY <1>1, <3>1
  <2> QED BY <2>1, <2>2
<1>8. ASSUME NEW j \in DOMAIN q, NEW k \in DOMAIN q, j < k
      PROVE  Before(enabled_events'[h], q[k], q[j])
  <2>1. j \in DOMAIN r
    BY <1>1, <1>8 DEF n
  <2>2. CASE k = n
    BY <1>1, <2>1, <2>2
  <2>3. CASE k \in DOMAIN r
    <3>1. Before(enabled_events[h], r[k], r[j])
      BY <1>8, <2>1, <2>3 DEF Nested
    <3> QED BY <1>1, <2>1, <2>3, <3>1
  <2> QED BY <1>4, <2>2, <2>3
<1> QED BY <1>6, <1>7, <1>8 DEF q

\* The search at the end of a trap finds the first event that runs or is ready, if any.
LEMMA Found ==
    ASSUME SseInv, NEW h \in Harts, Stops(h) # {}
    PROVE  LET n == First(Stops(h))
               list == enabled_events[h]
           IN  /\ n \in DOMAIN list /\ list[n] \in SseEvents
               /\ event[list[n]].state = "RUNNING" \/ Ready(list[n], h)
               /\ \A x \in SseEvents : /\ Contains(list, x) /\ x # list[n]
                                       /\ event[x].state = "RUNNING" \/ Ready(x, h)
                                       => Before(list, list[n], x)
<1> DEFINE S == Stops(h)
           n == First(S)
           list == enabled_events[h]
<1>1. list \in Seq(SseEvents) /\ DOMAIN list = 1..Len(list) /\ Len(list) \in Nat
  BY DEF SseInv, SseFunctions
<1>2. /\ S = {i \in DOMAIN list : event[list[i]].state = "RUNNING" \/ Ready(list[i], h)}
  BY DEF Stops
<1>3. S # {} /\ S \subseteq Nat
  BY <1>1, <1>2
<1> HIDE DEF S, list
<1>4. n \in S /\ \A j \in S : n <= j
  BY <1>3, FirstLeast
<1> HIDE DEF n
<1>5. ASSUME NEW x \in SseEvents, Contains(list, x), x # list[n], event[x].state = "RUNNING" \/ Ready(x, h)
      PROVE  Before(list, list[n], x)
  <2>1. PICK p \in 1..Len(list) : list[p] = x
    BY <1>5 DEF Contains
  <2>2. p \in S /\ p # n
    BY <1>1, <1>2, <1>5, <2>1
  <2>3. n < p
    BY <1>1, <1>2, <1>4, <2>2
  <2> QED BY <1>1, <1>2, <1>4, <2>1, <2>3 DEF Before
<1>6. n \in DOMAIN list /\ list[n] \in SseEvents /\ (event[list[n]].state = "RUNNING" \/ Ready(list[n], h))
  BY <1>1, <1>2, <1>4
<1> QED BY <1>5, <1>6 DEF n, list, S

\* sbi_sse_process_pending_events at the end of a trap.
LEMMA ReturnInv ==
    ASSUME HangInv, EventInv, NEW h \in Harts, TrapReturn(h), ProcessPendingEvents(h)
    PROVE  EventInv'
<1> DEFINE list == enabled_events[h]
           e == list[First(Stops(h))]
           r == running[h]
           none == masked[h] \/ Stops(h) = {} \/ ~Ready(e, h)
<1>1. /\ SseInv /\ StackInv /\ SignalInv /\ SseFunctions /\ pc[h] = "ret"
      /\ UNCHANGED <<enabled_events, masked, inject_fifo, ge_lock, list_lock>>
      /\ UNCHANGED <<scenario, inited, ipi_type, state, lottery>>
      /\ UNCHANGED calls
      /\ pc' = [pc EXCEPT ![h] = "S"] /\ local' = [local EXCEPT ![h] = Local]
  BY DEF EventInv, SseInv, TrapReturn, ProcessPendingEvents, bootVars, hsmVars, ipiVars, lockVars, calls,
         Goto, Set
<1>2. SseStep(h) /\ pc'[h] = "S"
  <2>1. Fields(Local, "none", {}, {}, {})
    BY Zenon, LocalFields
  <2>2. Tidy("S", Local)
    BY <2>1 DEF Tidy, Fields
  <2> QED BY Zenon, <1>1, <2>2, StepMade
<1>3. ~AtReset /\ HartsKept /\ \A i \in Harts : i # h => pc'[i] = pc[i] /\ local'[i] = local[i]
  BY <1>1, <1>2, StepKept, RunsAlive DEF Running, SseStep, OnlyMoves
<1>4. none => UNCHANGED <<event, running>>
  BY DEF ProcessPendingEvents
<1>5. Stops(h) # {} =>
        /\ e \in SseEvents /\ (event[e].state = "RUNNING" \/ Ready(e, h))
        /\ \A x \in SseEvents : Contains(list, x) /\ x # e /\ (event[x].state = "RUNNING" \/ Ready(x, h))
                                => Before(list, e, x)
  BY <1>1, Found
<1>6. Stops(h) = {} => \A x \in SseEvents : Contains(list, x) => ~Ready(x, h)
  <2>1. list \in Seq(SseEvents)
    BY <1>1 DEF SseFunctions
  <2> QED BY <2>1 DEF Stops, Contains
<1>7. ~none => /\ running' = [running EXCEPT ![h] = Append(r, e)]
               /\ event' = [event EXCEPT ![e] =
                    [event[e] EXCEPT !.state = "RUNNING", !.pending = FALSE, !.interrupted = <<h, r>>]]
  <2> SUFFICES ASSUME ~none
               PROVE  /\ running' = [running EXCEPT ![h] = Append(r, e)]
                      /\ event' = [event EXCEPT ![e] =
                           [event[e] EXCEPT !.state = "RUNNING", !.pending = FALSE, !.interrupted = <<h, r>>]]
    OBVIOUS
  <2>1. e \in SseEvents /\ event \in [SseEvents -> SseRecords]
    BY <1>1, <1>5 DEF SseFunctions
  <2>2. /\ event' = [event EXCEPT ![e].state = "RUNNING", ![e].pending = FALSE,
                                  ![e].interrupted = <<h, running[h]>>]
        /\ running' = [running EXCEPT ![h] = Append(running[h], e)]
    BY DEF ProcessPendingEvents, Set
  <2> HIDE DEF e, none
  <2> QED BY <2>1, <2>2
<1>8. list = enabled_events[h] /\ r = running[h] /\ r \in Seq(SseEvents) /\ Stack(h) = r /\ Nested(h, r)
      /\ list \in Seq(SseEvents)
  BY <1>1 DEF SseFunctions, Stack, StackInv
<1>9. ~none => /\ e \in SseEvents /\ event[e].state = "ENABLED" /\ event[e].hartid = h /\ ~masked[h]
               /\ Stops(h) # {}
  BY <1>5 DEF Ready
<1>10. ~masked[h] /\ Stops(h) # {} /\ none => event[e].state = "RUNNING"
  BY <1>5
<1>11. none \/ ~none
  OBVIOUS
<1> HIDE DEF e, none, list, r
<1>13. ASSUME ~none
       PROVE  Others(e) /\ Becomes(event'[e], "RUNNING", FALSE, event[e].oneshot, h, <<h, r>>)
  <2> DEFINE a == [event[e] EXCEPT !.state = "RUNNING"]
             b == [a EXCEPT !.pending = FALSE]
             c == <<h, r>>
             d == [b EXCEPT !.interrupted = c]
  <2>1. event[e] \in SseRecords /\ e \in SseEvents /\ c \in Harts \X Seq(SseEvents) /\ event[e].hartid = h
    BY <1>1, <1>8, <1>9, <1>13 DEF SseFunctions
  <2>2. Becomes(a, "RUNNING", event[e].pending, event[e].oneshot, h, event[e].interrupted)
    BY <2>1, RecordSet
  <2> HIDE DEF a, c
  <2>3. a \in SseRecords
    BY <2>2 DEF Becomes
  <2>4. Becomes(b, a.state, FALSE, a.oneshot, a.hartid, a.interrupted)
    BY <2>3, RecordSet
  <2> HIDE DEF b
  <2>5. b \in SseRecords
    BY <2>4 DEF Becomes
  <2>6. Becomes(d, b.state, b.pending, b.oneshot, b.hartid, c)
    BY <2>1, <2>5, RecordSet
  <2>7. event' = [event EXCEPT ![e] = d]
    BY Zenon, <1>7, <1>13 DEF a, b, c, d
  <2> HIDE DEF d
  <2>8. Becomes(d, "RUNNING", FALSE, event[e].oneshot, h, c)
    BY <2>2, <2>4, <2>6 DEF Becomes
  <2>9. Others(e) /\ event'[e] = d
    BY <1>1, <2>1, <2>7, <2>8, EventSet DEF Becomes
  <2> QED BY <2>8, <2>9 DEF c
<1>14. \A x \in SseEvents : none \/ x # e => event'[x] = event[x]
  BY <1>4, <1>11, <1>13 DEF Others
<1>15. HartidKept /\ \A x \in SseEvents : Enabled(x)' <=> Enabled(x)
  <2>1. event' \in [SseEvents -> SseRecords]
    BY <1>1, <1>4, <1>11, <1>13 DEF SseFunctions, Others
  <2>2. ~none => /\ event'[e].hartid = event[e].hartid /\ event'[e].oneshot = event[e].oneshot
                 /\ event'[e].state = "RUNNING" /\ event[e].state = "ENABLED"
    BY <1>9, <1>13 DEF Becomes
  <2>3. \A x \in SseEvents : /\ event'[x].hartid = event[x].hartid /\ event'[x].oneshot = event[x].oneshot
                             /\ event'[x].state = event[x].state
                                \/ (event'[x].state = "RUNNING" /\ event[x].state = "ENABLED")
    BY <1>14, <2>2
  <2> QED BY <2>1, <2>3 DEF HartidKept, Enabled
<1>16. /\ running' \in [Harts -> Seq(SseEvents)] /\ \A i \in Harts : i # h => running'[i] = running[i]
       /\ ~none => running'[h] = Append(r, e)
       /\ none => running'[h] = r
  <2> DEFINE q == Append(r, e)
  <2>1. running \in [Harts -> Seq(SseEvents)] /\ (~none => q \in Seq(SseEvents))
    BY <1>1, <1>8, <1>9 DEF SseFunctions
  <2>2. ~none => running' = [running EXCEPT ![h] = q]
    BY <1>7
  <2> HIDE DEF q
  <2>3. /\ running' \in [Harts -> Seq(SseEvents)] /\ \A i \in Harts : i # h => running'[i] = running[i]
        /\ ~none => running'[h] = q
        /\ none => running'[h] = r
    BY <1>4, <1>8, <2>1, <2>2
  <2> QED BY <2>3 DEF q
<1>17. SseFunctions'
  BY <1>1, <1>15, <1>16 DEF SseFunctions, OnHarts, HartidKept
<1>18. \A x \in SseEvents : event[x].hartid # h => event'[x] = event[x]
  BY <1>9, <1>14
<1>19. SseInv'
  <2>1. StillMasked
    BY <1>1 DEF StillMasked, SseInv, Placed
  <2>2. \A i \in Harts : Injected(i)'
    BY <1>1, <1>15, InjectedKept
  <2>3. ASSUME NEW i \in Harts PROVE Midway(i)'
    <3>1. pc'[i] \in {"sse_put", "sse_pend"} => pc'[i] = pc[i] /\ local'[i] = local[i] /\ i # h
      BY <1>2, <1>3
    <3> QED BY <1>1, <1>15, <1>18, <3>1, MidwayKept
  <2> QED BY <1>1, <1>3, <1>15, <1>17, <2>1, <2>2, <2>3, ListsKept
<1>20. StackInv'
  <2> SUFFICES ASSUME NEW i \in Harts
               PROVE  Nested(i, Stack(i))' /\ Resuming(i)'
    BY DEF StackInv
  <2>1. CASE i # h
    <3>1. Stack(i)' = Stack(i)
      BY <1>3, <1>16, <2>1 DEF Stack
    <3>2. RunningKept(i)
      BY <1>1, <1>15, <1>18, <2>1, <3>1 DEF RunningKept, Runs, HartidKept
    <3>3. Resuming(i)'
      BY <1>1, <1>3, <1>15, <1>16, <1>18, <2>1, ResumingKept DEF Enabled
    <3> QED BY <1>1, <3>2, <3>3, NestedKept
  <2>2. CASE i = h /\ none
    <3>1. Stack(i)' = Stack(i)
      BY <1>2, <1>8, <1>16, <2>2 DEF Stack
    <3>2. RunningKept(i)
      BY <1>1, <1>4, <2>2, <3>1 DEF RunningKept, Runs
    <3> QED BY <1>1, <1>2, <2>2, <3>2, NestedKept DEF Resuming
  <2>3. CASE i = h /\ ~none
    <3>1. Stack(i)' = Append(r, e)
      BY <1>2, <1>16, <2>3 DEF Stack
    <3>2. /\ event[e].state # "RUNNING" /\ e \in SseEvents
          /\ \A x \in SseEvents : x # e => event'[x] = event[x]
          /\ event'[e].state = "RUNNING" /\ event'[e].hartid = h /\ event'[e].interrupted = <<h, r>>
      BY <1>9, <1>13, <1>14, <2>3 DEF Becomes
    <3>3. ASSUME NEW k \in DOMAIN r PROVE Before(enabled_events[h], e, r[k])
      <4> DEFINE x == r[k]
      <4>1. x \in SseEvents /\ event[x].state = "RUNNING" /\ event[x].hartid = h
        BY <1>8 DEF Nested
      <4> HIDE DEF x
      <4>2. Contains(list, x) /\ x # e
        BY <1>1, <1>8, <3>2, <4>1 DEF SseInv, EnabledIsListed, Enabled
      <4>3. Before(list, e, x)
        BY <1>5, <1>9, <2>3, <4>1, <4>2
      <4> QED BY <1>8, <4>3 DEF x
    <3>4. LET q == Append(r, e)
          IN  /\ \A k \in DOMAIN q : /\ event'[q[k]].state = "RUNNING" /\ event'[q[k]].hartid = h
                                      /\ event'[q[k]].interrupted = <<h, SubSeq(q, 1, k - 1)>>
              /\ \A x \in SseEvents : event'[x].state = "RUNNING" /\ event'[x].hartid = h =>
                    \E k \in DOMAIN q : q[k] = x
              /\ \A j, k \in DOMAIN q : j < k => Before(enabled_events'[h], q[k], q[j])
      <4>1. UNCHANGED enabled_events /\ r \in Seq(SseEvents) /\ Nested(h, r)
        BY <1>1, <1>8
      <4> QED BY ONLY ZenonT(40), <3>2, <3>3, <4>1, h \in Harts, NestedMore
    <3>5. Nested(i, Stack(i))'
      BY <2>3, <3>1, <3>4 DEF Nested
    <3> QED BY <1>2, <2>3, <3>5 DEF Resuming
  <2> QED BY <2>1, <2>2, <2>3
<1>21. SignalInv'
  <2>1. ASSUME NEW i \in Harts, i # h PROVE SignalsKept(i)
    <3>1. Signalled(i) => Signalled(i)'
      BY <1>1, <1>2, SignalsStay
    <3>2. \A x \in SseEvents : Ready(x, i)' => Ready(x, i)
      BY <1>15, <1>18, <2>1 DEF Ready, HartidKept
    <3>3. \A y \in SseEvents : event[y].state = "RUNNING" => event'[y].state = "RUNNING"
      BY <1>9, <1>14
    <3>4. WaitsKept(i)
      BY <1>1, <3>2, <3>3 DEF WaitsKept
    <3> QED BY <1>1, <1>3, <1>15, <2>1, <3>1, <3>4 DEF SignalsKept, HartidKept
  <2>2. ~masked[h] => ~Waits(h)'
    <3> SUFFICES ASSUME ~masked[h], NEW x \in SseEvents, Contains(list, x), Ready(x, h)'
                 PROVE  \E y \in SseEvents : Before(list, y, x) /\ event'[y].state = "RUNNING"
      BY <1>1, <1>8 DEF Waits
    <3>1. Ready(x, h) /\ (~none => x # e)
      BY <1>13, <1>14 DEF Ready, Becomes
    <3>2. Stops(h) # {}
      BY <1>6, <3>1
    <3>3. event'[e].state = "RUNNING" /\ e \in SseEvents
      BY <1>5, <1>10, <1>13, <1>14, <3>2 DEF Becomes
    <3>4. x # e
      BY <1>10, <3>1, <3>2 DEF Ready
    <3> QED BY <1>5, <3>1, <3>2, <3>3, <3>4
  <2>3. ASSUME NEW i \in Harts, pc'[i] \in Unlooked, ~masked'[i], Waits(i)' PROVE Signalled(i)'
    <3>1. i # h
      BY <1>1, <2>2, <2>3
    <3>2. pc[i] \in Unlooked /\ ~masked[i] /\ Waits(i) /\ (Signalled(i) => Signalled(i)')
      BY <2>1, <2>3, <3>1, WaitsBefore DEF SignalsKept
    <3> QED BY <3>2 DEF SignalInv, EventInv
  <2>4. "enable" \notin calls' => \A i \in Harts : pc'[i] = "finish" =>
             \A x \in SseEvents : event'[x].hartid = i => ~Enabled(x)'
    BY <1>1, <1>2, <1>3, <1>15 DEF SignalInv, HartidKept
  <2> QED BY <2>3, <2>4 DEF SignalInv
<1> QED BY <1>19, <1>20, <1>21 DEF EventInv

-----------------------------
\* sbi_sse_exit: the events of a hart that stops are not enabled any more.
LEMMA SseExitInv ==
    ASSUME HangInv, EventInv, NEW h \in Harts, SbiExit(h), ExitSse(h)
    PROVE  EventInv'
<1>1. /\ SseInv /\ StackInv /\ SignalInv /\ SseFunctions /\ pc[h] = "exit" /\ OnHarts(pc)
      /\ Orderly(h) /\ UNCHANGED local
      /\ UNCHANGED <<enabled_events, masked, inject_fifo, ge_lock, list_lock>>
      /\ UNCHANGED <<scenario, inited, ipi_type, state, lottery>>
      /\ UNCHANGED calls
      /\ pc' = [pc EXCEPT ![h] = "ipi"] /\ Fits(pc[h], state[h])
      /\ running' = [running EXCEPT ![h] = <<>>]
  BY DEF EventInv, SseInv, SbiExit, ExitSse, bootVars, hsmVars, ipiVars, lockVars, calls,
         Goto, Set, HangInv, HangFunctions, StatesFit
<1>2. pc'[h] = "ipi" /\ "enable" \notin calls /\ \A i \in Harts : i # h => pc'[i] = pc[i]
  BY <1>1 DEF Orderly, Tidy, OnHarts
<1>3. /\ running' \in [Harts -> Seq(SseEvents)] /\ running'[h] = <<>>
      /\ \A i \in Harts : i # h => running'[i] = running[i]
  BY <1>1 DEF SseFunctions
<1>4. state[h] = "STOP_PENDING" /\ ~Alive(h)' /\ ~Reachable(h)'
      /\ \A i \in Harts : i # h => (Alive(i)' <=> Alive(i)) /\ (Reachable(i)' <=> Reachable(i))
  BY <1>1, <1>2 DEF Fits, Running, Alive, Reachable
<1>5. \A x \in SseEvents : event[x].hartid = h => x[2] \in {h, Nobody}
  BY <1>1 DEF SseInv, OwnHart
<1>6. ASSUME NEW x \in SseEvents
      PROVE  /\ event'[x] \in SseRecords
             /\ event'[x].hartid = event[x].hartid /\ event'[x].oneshot = event[x].oneshot
             /\ event[x].hartid = h => ~(event'[x].state \in {"ENABLED", "RUNNING"})
             /\ event[x].hartid # h => event'[x] = event[x]
             /\ event[x].state = "UNUSED" => event'[x].state = "UNUSED"
  <2>1. event'[x] = IF x[2] \in {h, Nobody} /\ event[x].hartid = h /\ Enabled(x)
                    THEN [event[x] EXCEPT !.state = "UNUSED"] ELSE event[x]
    BY Zenon DEF ExitSse
  <2>2. event[x] \in SseRecords
    BY <1>1 DEF SseFunctions
  <2>3. Becomes([event[x] EXCEPT !.state = "UNUSED"], "UNUSED", event[x].pending, event[x].oneshot,
                event[x].hartid, event[x].interrupted)
    BY <2>2, RecordSet
  <2>4. CASE event[x].hartid = h /\ Enabled(x)
    BY <1>5, <2>1, <2>3, <2>4 DEF Becomes
  <2>5. CASE ~(event[x].hartid = h /\ Enabled(x))
    BY <2>1, <2>2, <2>5 DEF Enabled
  <2> QED BY <2>4, <2>5
<1>7. HartidKept
  <2>1. event' = [x \in SseEvents |-> event'[x]]
    BY Zenon DEF ExitSse
  <2>2. event' \in [SseEvents -> SseRecords]
    BY <1>6, <2>1
  <2> QED BY <1>6, <2>2 DEF HartidKept
<1>8. \A x \in SseEvents : /\ Enabled(x)' <=> Enabled(x) /\ event[x].hartid # h
  BY <1>6 DEF Enabled
<1>9. SseInv'
  <2>1. SseFunctions'
    BY <1>1, <1>3, <1>7 DEF SseFunctions, OnHarts, HartidKept
  <2>2. OwnHart' /\ NoOneshot'
    BY <1>1, <1>7 DEF SseInv, OwnHart, NoOneshot, HartidKept
  <2>3. Placed'
    <3>1. AtReset' <=> AtReset
      BY <1>1 DEF AtReset
    <3>2. \A i \in Harts : Alive(i)' => inited'[i] > 0
      BY <1>1, <1>4 DEF SseInv, Placed
    <3>3. AtReset => /\ \A x \in SseEvents : event'[x].state = "UNUSED"
                     /\ \A i \in Harts : fifo_is_empty(inject_fifo[i])
      BY <1>1, <1>6 DEF SseInv, Placed
    <3> QED BY <1>1, <1>2, <3>1, <3>2, <3>3 DEF Placed
  <2>4. ColdReset'
    BY <1>1, <1>2 DEF SseInv, ColdReset, AtReset
  <2>5. \A i \in Harts : Orderly(i)'
    <3>1. \A i \in Harts : Orderly(i)
      BY <1>1 DEF SseInv
    <3> QED BY <1>1, <1>2, <3>1 DEF Orderly, Tidy
  <2>6. ASSUME NEW i \in Harts PROVE Listed(i)'
    <3>1. Listed(i)
      BY <1>1 DEF SseInv
    <3>2. CASE i = h
      BY <1>1, <1>2, <1>4, <1>7, <1>8, <3>1, <3>2 DEF Listed, HartidKept
    <3>3. CASE i # h
      BY <1>1, <1>2, <1>4, <1>7, <1>8, <3>1, <3>3 DEF Listed, HartidKept
    <3> QED BY <3>2, <3>3
  <2>7. \A i \in Harts : Injected(i)'
    BY <1>1, <1>7, InjectedKept
  <2>8. ASSUME NEW i \in Harts PROVE Midway(i)'
    <3>1. pc'[i] \in {"sse_put", "sse_pend"} => pc'[i] = pc[i] /\ local'[i] = local[i] /\ i # h
      BY <1>1, <1>2
    <3> QED BY <1>1, <1>6, <1>7, <3>1, MidwayKept
  <2>9. EnabledIsListed'
    BY <1>1, <1>7, <1>8 DEF SseInv, EnabledIsListed, HartidKept
  <2> QED BY <2>1, <2>2, <2>3, <2>4, <2>5, <2>6, <2>7, <2>8, <2>9 DEF SseInv
<1>10. StackInv'
  <2> SUFFICES ASSUME NEW i \in Harts
               PROVE  Nested(i, Stack(i))' /\ Resuming(i)'
    BY DEF StackInv
  <2>1. CASE i # h
    <3>1. Stack(i)' = Stack(i)
      BY <1>2, <1>3, <2>1 DEF Stack
    <3>2. \A x \in SseEvents : event[x].hartid = i => event'[x] = event[x]
      BY <1>6, <2>1
    <3>3. RunningKept(i)
      BY <1>1, <1>6, <2>1, <3>1, <3>2 DEF RunningKept, Runs
    <3>4. Resuming(i)'
      BY <1>1, <1>2, <1>3, <1>7, <2>1, <3>2, ResumingKept DEF Enabled
    <3> QED BY <1>1, <3>3, <3>4, NestedKept
  <2>2. CASE i = h
    <3>1. Stack(i)' = <<>> /\ Resuming(i)'
      BY <1>2, <1>3, <2>2 DEF Stack, Resuming
    <3>2. \A x \in SseEvents : ~(event'[x].state = "RUNNING" /\ event'[x].hartid = h)
      BY <1>6
    <3>3. Nested(i, Stack(i))'
      BY <2>2, <3>1, <3>2 DEF Nested
    <3> QED BY <3>1, <3>3
  <2> QED BY <2>1, <2>2
<1>11. SignalInv'
  <2>1. ASSUME NEW i \in Harts PROVE SignalsKept(i)
    <3>1. Signalled(i) => Signalled(i)'
      BY <1>1, <1>2 DEF Signalled
    <3>2. CASE i = h
      BY <1>2, <1>7, <1>8, <3>2 DEF SignalsKept, Unlooked, HartidKept
    <3>3. CASE i # h
      <4>1. \A x \in SseEvents : Ready(x, i)' => Ready(x, i)
        BY <1>6, <1>7, <3>3 DEF Ready, HartidKept
      <4>2. ASSUME NEW x \in SseEvents, NEW y \in SseEvents, Before(enabled_events[i], y, x),
                   event[y].state = "RUNNING", Ready(x, i)'
            PROVE  event'[y].state = "RUNNING"
        <5>1. Listed(i) /\ Contains(enabled_events[i], y)
          BY SMTT(30), <1>1, <4>2 DEF SseInv, Before, Contains
        <5>2. Alive(i)
          BY <4>1, <4>2, <5>1 DEF Listed, Ready, Enabled
        <5>3. event[y].hartid = i
          BY <5>1, <5>2 DEF Listed
        <5> QED BY <1>6, <3>3, <4>2, <5>3
      <4>3. WaitsKept(i)
        BY <1>1, <4>1, <4>2 DEF WaitsKept
      <4> QED BY <1>1, <1>2, <1>7, <1>8, <3>1, <3>3, <4>3 DEF SignalsKept, HartidKept
    <3> QED BY <3>2, <3>3
  <2> QED BY <1>1, <2>1, SignalKept
<1> QED BY <1>9, <1>10, <1>11 DEF EventInv

\* sbi_sse_init, in the boot of a hart: it has no event that could be enabled.
LEMMA SseBootInv ==
    ASSUME HangInv, EventInv, NEW h \in Harts, InitHart(h), InitSse(h)
    PROVE  EventInv'
<1>1. /\ SseInv /\ StackInv /\ SignalInv /\ SseFunctions /\ pc[h] = "clear" /\ OnHarts(pc) /\ ColdAlone
      /\ Orderly(h) /\ UNCHANGED local /\ inited \in [Harts -> Nat]
      /\ UNCHANGED <<masked, ge_lock, running>>
      /\ UNCHANGED <<scenario, state, lottery>>
      /\ UNCHANGED calls
      /\ pc' = [pc EXCEPT ![h] = "finish"] /\ Fits(pc[h], state[h])
      /\ ipi_type' = ipi_type
      /\ inited' = [inited EXCEPT ![h] = inited[h] + 1]
  BY DEF EventInv, SseInv, InitHart, InitSse, bootVars, hsmVars, ipiVars, calls,
         Goto, Set, HangInv, HangFunctions, StatesFit
<1>2. pc'[h] = "finish" /\ \A i \in Harts : i # h => pc'[i] = pc[i]
  BY <1>1 DEF OnHarts
<1>3. /\ OnHarts(ipi_type')
      /\ inited'[h] > 0 /\ \A i \in Harts : i # h => inited'[i] = inited[i]
  <2>1. OnHarts(ipi_type')
    BY <1>1 DEF SseFunctions, OnHarts
  <2>2. inited[h] \in Nat /\ inited'[h] = inited[h] + 1
    BY <1>1
  <2>3. \A i \in Harts : i # h => inited'[i] = inited[i]
    BY <1>1
  <2>4. inited'[h] > 0
    BY <2>2
  <2> QED BY <2>1, <2>3, <2>4
<1>4. state[h] = "START_PENDING" /\ ~Alive(h) /\ Alive(h)' /\ ~Reachable(h)' /\ ~Reachable(h)
      /\ \A i \in Harts : i # h => (Alive(i)' <=> Alive(i)) /\ (Reachable(i)' <=> Reachable(i))
  BY <1>1, <1>2 DEF Fits, Running, Alive, Reachable
<1>5. ~AtReset' /\ lottery /\ \A c \in Harts : pc[c] \notin {"cold", "cold2"}
  BY <1>1, <1>3 DEF AtReset, ColdAlone
<1>6. /\ enabled_events' = [enabled_events EXCEPT ![h] = <<>>]
      /\ list_lock' = [list_lock EXCEPT ![h] = Nobody]
      /\ inject_fifo' = [inject_fifo EXCEPT ![h] = fifo_init(Cardinality(EventIds), -1)]
  BY DEF InitSse, Set
<1>7. /\ enabled_events' \in [Harts -> Seq(SseEvents)] /\ enabled_events'[h] = <<>>
      /\ \A i \in Harts : i # h => enabled_events'[i] = enabled_events[i]
  <2>1. <<>> \in Seq(SseEvents)
    OBVIOUS
  <2> QED BY <1>1, <1>6, <2>1, ListSet
<1>8. /\ OnHarts(list_lock') /\ OnHarts(inject_fifo')
      /\ inject_fifo'[h] = fifo_init(Cardinality(EventIds), -1)
      /\ \A i \in Harts : i # h => list_lock'[i] = list_lock[i] /\ inject_fifo'[i] = inject_fifo[i]
  <2> DEFINE f == fifo_init(Cardinality(EventIds), -1)
  <2>1. inject_fifo' = [inject_fifo EXCEPT ![h] = f]
    BY <1>6
  <2> HIDE DEF f
  <2>2. /\ OnHarts(list_lock') /\ OnHarts(inject_fifo') /\ inject_fifo'[h] = f
        /\ \A i \in Harts : i # h => list_lock'[i] = list_lock[i] /\ inject_fifo'[i] = inject_fifo[i]
    BY <1>1, <1>6, <2>1 DEF SseFunctions, OnHarts
  <2> QED BY <2>2 DEF f
<1>9. ASSUME NEW x \in SseEvents
      PROVE  /\ event'[x] \in SseRecords /\ event'[x].oneshot = event[x].oneshot
             /\ event'[x].state = event[x].state /\ event'[x].interrupted = event[x].interrupted
             /\ AtReset /\ x[2] = Nobody => event'[x].hartid = h
             /\ ~AtReset \/ x[2] # Nobody => event'[x] = event[x]
  <2>1. event'[x] = IF AtReset /\ x[2] = Nobody THEN [event[x] EXCEPT !.hartid = h] ELSE event[x]
    BY Zenon DEF InitSse, AtReset
  <2>2. event[x] \in SseRecords
    BY <1>1 DEF SseFunctions
  <2>3. Becomes([event[x] EXCEPT !.hartid = h], event[x].state, event[x].pending, event[x].oneshot,
                h, event[x].interrupted)
    BY <2>2, RecordSet
  <2> QED BY <2>1, <2>2, <2>3 DEF Becomes
<1>10. event' \in [SseEvents -> SseRecords]
  <2>1. event' = [x \in SseEvents |-> event'[x]]
    BY Zenon DEF InitSse
  <2> QED BY <1>9, <2>1
<1>11. SseFunctions'
  BY <1>1, <1>3, <1>7, <1>8, <1>10 DEF SseFunctions, OnHarts
<1>12. \A x \in SseEvents : (Enabled(x)' <=> Enabled(x)) /\ (Enabled(x) => ~AtReset /\ event'[x] = event[x])
  <2>1. AtReset => \A x \in SseEvents : event[x].state = "UNUSED"
    BY <1>1 DEF SseInv, Placed
  <2> QED BY <1>9, <2>1 DEF Enabled
<1>13. \A x \in SseEvents : Enabled(x) => event[x].hartid # h
  BY <1>1, <1>4 DEF SseInv, Listed
<1>14. ~AtReset => HartidKept
  BY <1>9, <1>10 DEF HartidKept
<1>15. \A i \in Harts : pc[i] \in Running => ~AtReset
  BY <1>1, RunsAlive
<1>16. SseInv'
  <2>1. OwnHart' /\ NoOneshot'
    BY <1>1, <1>9 DEF SseInv, OwnHart, NoOneshot
  <2>2. Placed'
    <3>1. \A i \in Harts : Alive(i)' => inited'[i] > 0
      BY <1>1, <1>3, <1>4 DEF SseInv, Placed
    <3>2. ASSUME "enable" \in calls, NEW x \in SseEvents, x[2] = Nobody
          PROVE  Alive(event[x].hartid)'
      <4> DEFINE t == event'[x].hartid
      <4>1. t \in Harts
        BY <1>10 DEF SseRecords
      <4>2. CASE AtReset
        <5>1. t = h
          BY <1>9, <3>2, <4>2
        <5> HIDE DEF t
        <5>2. \A j \in Harts : j = h => Alive(j)'
          BY <1>4
        <5> QED BY <4>1, <5>1, <5>2 DEF t, Alive, Reachable
      <4>3. CASE ~AtReset
        <5>1. Alive(event[x].hartid) /\ t = event[x].hartid
          BY <1>1, <1>9, <3>2, <4>3 DEF SseInv, Placed
        <5> HIDE DEF t
        <5>2. Alive(t)
          BY <5>1
        <5>3. \A j \in Harts : Alive(j) => Alive(j)'
          BY <1>4
        <5> QED BY <4>1, <5>2, <5>3 DEF t, Alive, Reachable
      <4> QED BY <4>2, <4>3
    <3>3. "enable" \in calls => \A i \in Harts : ~Reachable(i)' => masked'[i]
      BY <1>1, <1>4 DEF SseInv, Placed
    <3> QED BY <1>1, <1>5, <3>1, <3>2, <3>3 DEF Placed
  <2>3. ColdReset'
    BY <1>1, <1>2, <1>5 DEF ColdReset
  <2>4. \A i \in Harts : Orderly(i)'
    <3>1. \A i \in Harts : Orderly(i)
      BY <1>1 DEF SseInv
    <3>2. Tidy("finish", local[h])
      BY <1>1 DEF Orderly, Tidy
    <3> QED BY <1>1, <1>2, <1>3, <3>1, <3>2 DEF Orderly, Tidy
  <2>5. ASSUME NEW i \in Harts PROVE Listed(i)'
    <3>1. Listed(i)
      BY <1>1 DEF SseInv
    <3>2. CASE i = h
      <4>1. Distinct(<<>>) /\ \A x : ~Contains(<<>>, x)
        BY DEF Distinct, Contains
      <4> QED BY <1>1, <1>4, <1>7, <3>2, <4>1 DEF Listed
    <3>3. CASE i # h
      BY <1>1, <1>4, <1>7, <1>9, <1>12, <3>1, <3>3 DEF Listed
    <3> QED BY <3>2, <3>3
  <2>6. ASSUME NEW i \in Harts PROVE Injected(i)'
    <3>1. CASE i = h
      BY <1>8, <3>1, InitId DEF Injected
    <3>2. CASE i # h /\ ~AtReset
      BY <1>1, <1>8, <1>14, <3>2, InjectedKept
    <3>3. CASE i # h /\ AtReset
      <4>1. fifo_is_empty(inject_fifo[i]) /\ Injected(i) /\ inject_fifo'[i] = inject_fifo[i]
        BY <1>1, <1>8, <3>3 DEF SseInv, Placed
      <4>2. Live(inject_fifo[i]) = {}
        BY <4>1 DEF fifo_is_empty, Live
      <4> QED BY <1>1, <4>1, <4>2 DEF Injected
    <3> QED BY <3>1, <3>2, <3>3
  <2>7. ASSUME NEW i \in Harts PROVE Midway(i)'
    <3>1. pc'[i] \in {"sse_put", "sse_pend"} => pc'[i] = pc[i] /\ local'[i] = local[i] /\ i # h
      BY <1>1, <1>2
    <3>2. CASE ~AtReset
      BY <1>1, <1>9, <1>14, <3>1, <3>2, MidwayKept
    <3>3. CASE AtReset
      <4>1. pc'[i] # "sse_put"
        BY <1>15, <3>1, <3>3 DEF Running
      <4>2. pc'[i] # "sse_pend"
        <5>1. Midway(i)
          BY <1>1 DEF SseInv
        <5> QED BY <1>12, <3>1, <3>3, <5>1 DEF Midway
      <4> QED BY <4>1, <4>2 DEF Midway
    <3> QED BY <3>2, <3>3
  <2>8. EnabledIsListed'
    <3> SUFFICES ASSUME NEW x \in SseEvents, Enabled(x)'
                 PROVE  Contains(enabled_events'[event'[x].hartid], x)
      BY DEF EnabledIsListed
    <3>1. event'[x] = event[x] /\ event[x].hartid # h /\ event[x].hartid \in Harts
      BY <1>1, <1>12, <1>13 DEF SseFunctions, SseRecords
    <3>2. Contains(enabled_events[event[x].hartid], x)
      BY <1>1, <1>12 DEF SseInv, EnabledIsListed
    <3> QED BY <1>7, <3>1, <3>2
  <2> QED BY <1>11, <2>1, <2>2, <2>3, <2>4, <2>5, <2>6, <2>7, <2>8 DEF SseInv
<1>17. StackInv'
  <2> SUFFICES ASSUME NEW i \in Harts
               PROVE  Nested(i, Stack(i))' /\ Resuming(i)'
    BY DEF StackInv
  <2>1. Stack(i)' = Stack(i)
    BY <1>1, <1>2 DEF Stack
  <2>2. \A x \in SseEvents : /\ Runs(x, i)' <=> Runs(x, i)
                             /\ Runs(x, i) => i # h /\ event'[x] = event[x]
    BY <1>12, <1>13 DEF Runs, Enabled
  <2>3. RunningKept(i)
    BY <1>7, <2>1, <2>2 DEF RunningKept
  <2>4. Resuming(i)'
    <3>1. CASE pc'[i] # "sse_resume"
      BY <3>1 DEF Resuming
    <3>2. CASE pc'[i] = "sse_resume"
      <4>1. i # h /\ pc[i] = "sse_resume" /\ ~AtReset
        BY <1>2, <1>15, <3>2 DEF Running
      <4> QED BY <1>1, <1>8, <1>9, <1>12, <1>14, <3>2, <4>1, ResumingKept
    <3> QED BY <3>1, <3>2
  <2> QED BY <1>1, <2>3, <2>4, NestedKept
<1>18. SignalInv'
  <2>1. ASSUME NEW i \in Harts, pc'[i] \in Unlooked, ~masked'[i], Waits(i)' PROVE Signalled(i)'
    <3>1. i # h /\ pc[i] \in Unlooked /\ ~masked[i] /\ enabled_events'[i] = enabled_events[i]
      BY <1>1, <1>2, <1>7, <2>1 DEF Unlooked
    <3>2. Waits(i)
      <4>1. PICK x \in SseEvents :
               /\ Contains(enabled_events'[i], x) /\ Ready(x, i)'
               /\ \A y \in SseEvents : Before(enabled_events'[i], y, x) => event'[y].state # "RUNNING"
        BY <2>1 DEF Waits
      <4>2. Ready(x, i)
        <5>1. Enabled(x)'
          BY <4>1 DEF Ready, Enabled
        <5> QED BY <1>12, <4>1, <5>1 DEF Ready
      <4>3. \A y \in SseEvents : event'[y].state = event[y].state
        BY <1>9
      <4> QED BY <3>1, <4>1, <4>2, <4>3 DEF Waits
    <3>3. Signalled(i)
      BY <1>1, <3>1, <3>2 DEF SignalInv
    <3> QED BY <1>1, <1>2, <1>3, <3>1, <3>3 DEF Signalled
  <2>2. "enable" \notin calls' => \A i \in Harts : pc'[i] = "finish" =>
             \A x \in SseEvents : event'[x].hartid = i => ~Enabled(x)'
    BY <1>1, <1>2, <1>12, <1>13 DEF SignalInv
  <2> QED BY <2>1, <2>2 DEF SignalInv
<1> QED BY <1>16, <1>17, <1>18 DEF EventInv

-----------------------------
\* What the events are at first.
LEMMA SseAtFirst ==
    ASSUME SseScenarios, Init
    PROVE  /\ scenario \in Scenarios /\ SseFunctions
           /\ \A h \in Harts :
                /\ pc[h] \in {"reset", "S", "off", "wait"} /\ (pc[h] = "S" <=> h \in scenario.up)
                /\ Reachable(h) <=> h \in scenario.up
                /\ inited[h] = IF h \in scenario.up THEN 1 ELSE 0
                /\ local[h] = Local /\ ipi_type[h] = {} /\ running[h] = <<>>
                /\ masked[h] <=> (h \in scenario.up => scenario.sse.masked)
                /\ inject_fifo[h] = fifo_init(Cardinality(EventIds), -1)
                /\ Distinct(enabled_events[h])
                /\ \A x : Contains(enabled_events[h], x) <=>
                            x \in SseEvents /\ Enabled(x) /\ event[x].hartid = h
           /\ \A x \in SseEvents :
                /\ event[x].hartid = IF x[2] = Nobody THEN 0 ELSE x[2]
                /\ event[x].state = IF event[x].hartid \in scenario.up THEN scenario.sse.state ELSE "UNUSED"
                /\ event[x].pending => scenario.sse.pending
                /\ event[x].oneshot = FALSE /\ event[x].interrupted = <<>>
           /\ lottery <=> scenario.up # {}
<1> DEFINE u == scenario.up
           q == scenario.sse
<1>1. /\ scenario \in Scenarios /\ lottery = (u # {})
      /\ state = [h \in Harts |-> IF h \in u THEN "STARTED" ELSE "STOPPED"]
      /\ inited = [h \in Harts |-> IF h \in u THEN 1 ELSE 0]
      /\ \E off : pc = [h \in Harts |-> IF u = {} THEN "reset" ELSE IF h \in u THEN "S"
                                        ELSE IF h \in off THEN "off" ELSE "wait"]
      /\ local = [h \in Harts |-> Local] /\ ipi_type = [h \in Harts |-> {}]
  <2> DEFINE o == Plugged(scenario) \cup IF scenario.dev = "secondary" THEN Harts ELSE {}
  <2>1. pc = [h \in Harts |-> IF u = {} THEN "reset" ELSE IF h \in u THEN "S"
                              ELSE IF h \in o THEN "off" ELSE "wait"]
    BY DEF Init, HartInit
  <2> HIDE DEF o
  <2>2. QED BY <2>1 DEF Init, HartInit
<1>2. /\ u \in SUBSET Harts
      /\ q \in [state : {"UNUSED", "REGISTERED", "ENABLED"}, pending : BOOLEAN, masked : BOOLEAN]
  BY <1>1 DEF SseScenarios
<1>3. /\ masked = [h \in Harts |-> h \in u => q.masked]
      /\ inject_fifo = [h \in Harts |-> fifo_init(Cardinality(EventIds), -1)]
      /\ ge_lock = [id \in GlobalIds |-> Nobody] /\ list_lock = [h \in Harts |-> Nobody]
      /\ running = [h \in Harts |-> <<>>]
  BY Zenon DEF Init, SseInit
<1>4. \A x \in SseEvents : x[2] \in {Nobody} \cup Harts /\ 0 \in Harts
  BY HartAssumption DEF SseEvents, sse_event_get, Harts
<1>5. event = [x \in SseEvents |->
                  LET hart == IF x[2] = Nobody THEN 0 ELSE x[2]
                      used == hart \in u
                  IN  [state |-> IF used THEN q.state ELSE "UNUSED", pending |-> used /\ q.pending,
                       prio |-> 0, oneshot |-> FALSE, hartid |-> hart, interrupted |-> <<>>]]
  BY Zenon DEF Init, SseInit
<1>6. enabled_events = [h \in Harts |->
         CHOOSE list \in SetToSeqs({x \in SseEvents : Enabled(x) /\ event[x].hartid = h}) :
           IsSorted(list, LAMBDA e, f : e[1] < f[1])]
  BY Zenon DEF Init, SseInit
<1> HIDE DEF u, q
<1>7. ASSUME NEW x \in SseEvents
      PROVE  /\ event[x] \in SseRecords
             /\ event[x].hartid = IF x[2] = Nobody THEN 0 ELSE x[2]
             /\ event[x].state = IF event[x].hartid \in u THEN q.state ELSE "UNUSED"
             /\ event[x].pending => q.pending
             /\ event[x].oneshot = FALSE /\ event[x].interrupted = <<>>
  <2> DEFINE hart == IF x[2] = Nobody THEN 0 ELSE x[2]
             s == IF hart \in u THEN q.state ELSE "UNUSED"
             p == hart \in u /\ q.pending
  <2>1. event[x] = [state |-> s, pending |-> p, prio |-> 0, oneshot |-> FALSE, hartid |-> hart,
                    interrupted |-> <<>>]
    BY <1>5
  <2>2. s \in {"UNUSED", "REGISTERED", "ENABLED", "RUNNING"} /\ p \in BOOLEAN /\ (p => q.pending)
    BY <1>2
  <2>3. hart \in Harts
    BY <1>4
  <2> HIDE DEF hart, p
  <2>4. event[x].hartid = hart /\ event[x].state = s /\ event[x].pending = p
        /\ event[x].oneshot = FALSE /\ event[x].interrupted = <<>>
    BY <2>1
  <2> HIDE DEF s
  <2>5. event[x] \in SseRecords
    BY <2>1, <2>2, <2>3 DEF SseRecords
  <2> QED BY <2>2, <2>4, <2>5 DEF hart, s
<1>8. event \in [SseEvents -> SseRecords]
  <2>1. event = [x \in SseEvents |-> event[x]]
    BY <1>5
  <2> QED BY <1>7, <2>1
<1>9. ASSUME NEW h \in Harts
      PROVE  /\ enabled_events[h] \in Seq(SseEvents) /\ Distinct(enabled_events[h])
             /\ \A x : Contains(enabled_events[h], x) <=>
                         x \in SseEvents /\ Enabled(x) /\ event[x].hartid = h
  <2> DEFINE S == {x \in SseEvents : Enabled(x) /\ event[x].hartid = h}
             l == CHOOSE list \in SetToSeqs(S) : IsSorted(list, LAMBDA e, f : e[1] < f[1])
  <2>1. enabled_events[h] = l
    BY Zenon, <1>6
  <2>2. \A x, y \in S : x[1] = y[1] => x = y
    <3> SUFFICES ASSUME NEW x \in S, NEW y \in S, x[1] = y[1] PROVE x = y
      OBVIOUS
    <3>1. /\ x \in SseEvents /\ y \in SseEvents /\ event[x].hartid = h /\ event[y].hartid = h
      OBVIOUS
    <3>2. /\ x[2] # Nobody => x[2] = h
          /\ y[2] # Nobody => y[2] = h
      BY <1>7, <3>1
    <3>3. PICK id \in EventIds, i \in Harts : x = sse_event_get(id, i)
      BY <3>1 DEF SseEvents
    <3>4. PICK jd \in EventIds, j \in Harts : y = sse_event_get(jd, j)
      BY <3>1 DEF SseEvents
    <3>5. i # Nobody /\ j # Nobody
      BY HartAssumption DEF Harts, Nobody
    <3> QED BY <3>2, <3>3, <3>4, <3>5 DEF sse_event_get
  <2>3. S \in SUBSET SseEvents
    OBVIOUS
  <2> HIDE DEF S
  <2>4. l \in Seq(SseEvents) /\ Distinct(l) /\ \A x : Contains(l, x) <=> x \in S
    BY Zenon, <2>2, <2>3, SortedList
  <2> HIDE DEF l
  <2> QED BY <2>1, <2>4 DEF S
<1>10. enabled_events \in [Harts -> Seq(SseEvents)]
  <2> DEFINE list(h) == CHOOSE l \in SetToSeqs({x \in SseEvents : Enabled(x) /\ event[x].hartid = h}) :
                          IsSorted(l, LAMBDA e, f : e[1] < f[1])
  <2>1. enabled_events = [h \in Harts |-> list(h)]
    BY Zenon, <1>6
  <2> HIDE DEF list
  <2>2. enabled_events = [h \in Harts |-> enabled_events[h]]
    BY <2>1
  <2> QED BY <1>9, <2>2
<1>11. SseFunctions
  <2>1. masked \in [Harts -> BOOLEAN]
    BY <1>3
  <2>2. running \in [Harts -> Seq(SseEvents)]
    BY <1>3
  <2>3. OnHarts(inject_fifo) /\ OnHarts(list_lock) /\ OnHarts(ipi_type)
    BY <1>1, <1>3 DEF OnHarts
  <2>4. ge_lock = [id \in GlobalIds |-> ge_lock[id]]
    BY <1>3
  <2> QED BY <1>8, <1>10, <2>1, <2>2, <2>3, <2>4 DEF SseFunctions
<1>12. ASSUME NEW h \in Harts
       PROVE  /\ pc[h] \in {"reset", "S", "off", "wait"} /\ (pc[h] = "S" <=> h \in u)
              /\ Reachable(h) <=> h \in u
              /\ inited[h] = IF h \in u THEN 1 ELSE 0
              /\ local[h] = Local /\ ipi_type[h] = {} /\ running[h] = <<>>
              /\ masked[h] <=> (h \in u => q.masked)
              /\ inject_fifo[h] = fifo_init(Cardinality(EventIds), -1)
  <2>1. pc[h] \in {"reset", "S", "off", "wait"} /\ (pc[h] = "S" <=> h \in u)
    BY <1>1
  <2>2. state[h] = IF h \in u THEN "STARTED" ELSE "STOPPED"
    BY <1>1
  <2>3. inited[h] = IF h \in u THEN 1 ELSE 0
    BY <1>1
  <2>4. local[h] = Local /\ ipi_type[h] = {} /\ running[h] = <<>>
    BY <1>1, <1>3
  <2>5. /\ masked[h] <=> (h \in u => q.masked)
        /\ inject_fifo[h] = fifo_init(Cardinality(EventIds), -1)
    BY <1>3
  <2> QED BY <2>1, <2>2, <2>3, <2>4, <2>5 DEF Reachable
<1> QED BY <1>1, <1>7, <1>9, <1>11, <1>12 DEF u, q

\* The invariant holds at first.
LEMMA EventInvInit ==
    ASSUME SseScenarios, Init
    PROVE  EventInv
<1> DEFINE u == scenario.up
           q == scenario.sse
<1>1. /\ u \in SUBSET Harts /\ (u = {} \/ 0 \in u)
      /\ q \in [state : {"UNUSED", "REGISTERED", "ENABLED"}, pending : BOOLEAN, masked : BOOLEAN]
      /\ q.state = "ENABLED" /\ q.pending => q.masked
  BY SseAtFirst DEF SseScenarios
<1>2. \A h \in Harts :
         /\ pc[h] \in {"reset", "S", "off", "wait"} /\ (pc[h] = "S" <=> h \in u)
         /\ Reachable(h) <=> h \in u
         /\ inited[h] = IF h \in u THEN 1 ELSE 0
         /\ local[h] = Local /\ ipi_type[h] = {} /\ running[h] = <<>>
         /\ masked[h] <=> (h \in u => q.masked)
         /\ inject_fifo[h] = fifo_init(Cardinality(EventIds), -1)
         /\ Distinct(enabled_events[h])
         /\ \A x : Contains(enabled_events[h], x) <=>
                     x \in SseEvents /\ Enabled(x) /\ event[x].hartid = h
  BY SseAtFirst
<1>3. \A x \in SseEvents :
         /\ event[x].hartid = IF x[2] = Nobody THEN 0 ELSE x[2]
         /\ event[x].state = IF event[x].hartid \in u THEN q.state ELSE "UNUSED"
         /\ event[x].pending => q.pending
         /\ event[x].oneshot = FALSE /\ event[x].interrupted = <<>>
  BY SseAtFirst
<1>4. SseFunctions /\ (lottery <=> u # {})
  BY SseAtFirst
<1> HIDE DEF u, q
<1>5. AtReset <=> u = {}
  <2>1. \A h \in Harts : inited[h] = 0 <=> h \notin u
    BY <1>2
  <2> QED BY <1>1, <2>1 DEF AtReset
<1>6. \A h \in Harts : Alive(h) <=> h \in u
  BY <1>2 DEF Alive
<1>7. /\ \A x \in SseEvents : event[x].state # "RUNNING" /\ event[x].hartid \in Harts
  <2>1. \A x \in SseEvents : event[x].hartid \in Harts
    BY <1>4 DEF SseFunctions, SseRecords
  <2> QED BY <1>1, <1>3, <2>1
<1>8. OwnHart /\ NoOneshot /\ ColdReset
  <2>1. ColdReset
    BY <1>2, <1>4, <1>5 DEF ColdReset
  <2> QED BY <1>3, <2>1 DEF OwnHart, NoOneshot
<1>9. Placed
  <2>1. \A h \in Harts : Alive(h) => inited[h] > 0
    BY <1>2, <1>6
  <2>2. AtReset => /\ \A x \in SseEvents : event[x].state = "UNUSED"
                   /\ \A h \in Harts : fifo_is_empty(inject_fifo[h])
    BY <1>2, <1>3, <1>5, InitId
  <2>3. ~AtReset => \A x \in SseEvents : x[2] = Nobody => Alive(event[x].hartid)
    BY <1>1, <1>3, <1>5, <1>6, <1>7
  <2>4. \A h \in Harts : ~Reachable(h) => masked[h]
    BY <1>2
  <2> QED BY <2>1, <2>2, <2>3, <2>4 DEF Placed
<1>10. ASSUME NEW h \in Harts
       PROVE  Orderly(h) /\ Listed(h) /\ Injected(h) /\ Midway(h)
  <2>1. Orderly(h)
    BY <1>2 DEF Orderly, Tidy, Local
  <2>2. Listed(h)
    BY <1>2, <1>3, <1>6 DEF Listed, Enabled
  <2>3. Injected(h)
    BY <1>2, InitId DEF Injected
  <2>4. Midway(h)
    BY <1>2 DEF Midway
  <2> QED BY <2>1, <2>2, <2>3, <2>4
<1>11. SseInv
  <2>1. EnabledIsListed
    BY <1>2, <1>7 DEF EnabledIsListed
  <2> QED BY <1>4, <1>8, <1>9, <1>10, <2>1 DEF SseInv
<1>12. StackInv
  <2> SUFFICES ASSUME NEW h \in Harts
               PROVE  Nested(h, Stack(h)) /\ Resuming(h)
    BY DEF StackInv
  <2>1. Stack(h) = <<>> /\ pc[h] # "sse_resume"
    BY <1>2 DEF Stack
  <2>2. Nested(h, <<>>)
    BY <1>7 DEF Nested
  <2> QED BY <2>1, <2>2 DEF Resuming
<1>13. SignalInv
  <2>1. ASSUME NEW h \in Harts, pc[h] \in Unlooked, ~masked[h] PROVE ~Waits(h)
    <3>1. h \in u /\ ~q.masked
      BY <1>2, <2>1
    <3>2. \A x \in SseEvents : ~Ready(x, h)
      BY <1>1, <1>3, <3>1 DEF Ready
    <3> QED BY <3>2 DEF Waits
  <2>2. \A h \in Harts : pc[h] # "finish"
    BY <1>2
  <2> QED BY <2>1, <2>2 DEF SignalInv
<1> QED BY <1>11, <1>12, <1>13 DEF EventInv

\* Every step preserves it.
LEMMA EventInvNext ==
    ASSUME SseScenarios, HangInv, EventInv, [Next]_vars
    PROVE  EventInv'
<1>1. SseInv /\ StatesFit
  BY DEF EventInv, HangInv
<1>2. ASSUME NEW h \in Harts, UNCHANGED sseVars,
             Machine(h) \/ Supervisor(h) \/ Wake(h) \/ TlbMachine(h) \/ TlbSupervisor(h) \/ EntryDone(h)
      PROVE  EventInv'
  BY <1>1, <1>2, HartsCalm, CalmInv
<1>3. ASSUME NEW h \in Harts, SseMachine(h) PROVE EventInv'
  BY <1>3, SseSentInv, SseResumeInv, InjectSendInv, InjectSelfInv, InjectTakeInv, InjectPendInv,
     InjectDoneInv DEF SseMachine
<1>4. ASSUME NEW h \in Harts, SseSupervisor(h) PROVE EventInv'
  <2>1. CASE \E id \in EventIds :
               \/ SseRegister(h, id) \/ SseUnregister(h, id)
               \/ \E prio \in Prios : SetPrio(h, id, prio)
               \/ \E oneshot \in BOOLEAN : SetOneshot(h, id, oneshot)
               \/ \E t \in scenario.targets : SetPreferredHart(h, id, t)
    BY <2>1, WritesInv
  <2>2. CASE \E id \in EventIds : SseEnable(h, id) \/ SseDisable(h, id)
    BY <2>2, SseListInv
  <2>3. CASE \E id \in EventIds, t \in scenario.targets : SseInject(h, id, t)
    BY <2>3, SseInjectInv
  <2>4. CASE SseComplete(h)
    BY <2>4, CompleteInv
  <2>5. CASE \E on \in BOOLEAN : SseMask(h, on)
    BY <2>5, SseMaskInv
  <2> QED BY <1>4, <2>1, <2>2, <2>3, <2>4, <2>5 DEF SseSupervisor
<1>5. ASSUME NEW h \in Harts, InitHart(h), InitSse(h) PROVE EventInv'
  BY <1>5, SseBootInv
<1>6. ASSUME NEW h \in Harts, SbiExit(h), ExitSse(h) PROVE EventInv'
  BY <1>6, SseExitInv
<1>7. ASSUME NEW h \in Harts, TrapReturn(h), ProcessPendingEvents(h) PROVE EventInv'
  BY <1>7, ReturnInv
<1>8. CASE UNCHANGED vars
  <2>1. UNCHANGED hartVars /\ UNCHANGED sseVars
    BY <1>8 DEF vars
  <2> QED BY <1>1, <2>1, StillCalm, CalmInv
<1> QED BY <1>2, <1>3, <1>4, <1>5, <1>6, <1>7, <1>8 DEF Next, Firmware, Calls, Wakes

\* An event that waits, first in the list, is one that could be handled.
LEMMA ReadyWaits ==
    ASSUME SseInv, NEW h \in Harts, Stops(h) # {}, Ready(enabled_events[h][First(Stops(h))], h)
    PROVE  Waits(h)
<1> DEFINE list == enabled_events[h]
           n == First(Stops(h))
<1>1. /\ n \in DOMAIN list /\ list[n] \in SseEvents
      /\ \A x \in SseEvents : /\ Contains(list, x) /\ x # list[n]
                              /\ event[x].state = "RUNNING" \/ Ready(x, h)
                              => Before(list, list[n], x)
  BY Found
<1>2. Distinct(list) /\ list \in Seq(SseEvents)
  BY DEF SseInv, Listed, SseFunctions
<1>3. Ready(list[n], h)
  OBVIOUS
<1> HIDE DEF n, list
<1>4. Contains(list, list[n]) /\ DOMAIN list = 1..Len(list) /\ Len(list) \in Nat
  BY <1>1, <1>2 DEF Contains
<1>5. ASSUME NEW y \in SseEvents, Before(list, y, list[n]), event[y].state = "RUNNING" PROVE FALSE
  <2>1. PICK i \in DOMAIN list, j \in DOMAIN list : i < j /\ list[i] = y /\ list[j] = list[n]
    BY <1>5 DEF Before
  <2>2. j = n /\ i # n
    BY <1>1, <1>2, <1>4, <2>1 DEF Distinct
  <2>3. y # list[n] /\ Contains(list, y)
    BY <1>1, <1>2, <1>4, <2>1, <2>2 DEF Distinct, Contains
  <2>4. Before(list, list[n], y)
    BY <1>1, <1>5, <2>3
  <2>5. PICK k \in DOMAIN list, m \in DOMAIN list : k < m /\ list[k] = list[n] /\ list[m] = y
    BY <2>4 DEF Before
  <2>6. k = n /\ m = i
    BY <1>1, <1>2, <2>1, <2>5 DEF Distinct
  <2> QED BY <1>4, <2>1, <2>2, <2>5, <2>6
<1> QED BY <1>1, <1>3, <1>4, <1>5 DEF Waits, list

\* The invariant holds always.
LEMMA EventsKept ==
    ASSUME KnownStart, SseScenarios
    PROVE  Spec => []EventInv
<1>1. Init => HangInv /\ EventInv
  BY HangInvInit, EventInvInit
<1>2. HangInv /\ EventInv /\ [Next]_vars => (HangInv /\ EventInv)'
  BY HangInvNext, EventInvNext
<1> QED BY <1>1, <1>2, PTL DEF Spec

\* An event that is enabled or running is in the list of its hart: injections,
\* calls of other harts, harts that stop and start again included.
THEOREM EnabledAreListed ==
    ASSUME KnownStart, SseScenarios
    PROVE  Spec => []EnabledIsListed
<1>1. EventInv => EnabledIsListed
  BY DEF EventInv, SseInv
<1> QED BY <1>1, EventsKept, PTL

\* sse_event_resume restores the context that the handler which is completed has
\* interrupted, however deep the handlers are nested: the first running event of the
\* list is the innermost one.
THEOREM ResumesInterrupted ==
    ASSUME KnownStart, SseScenarios
    PROVE  Spec => []RestoresInterrupted
<1>1. EventInv => RestoresInterrupted
  BY DEF EventInv, StackInv, Resuming, RestoresInterrupted
<1> QED BY <1>1, EventsKept, PTL

\* The supervisor does not run on while an event waits that it could handle at once,
\* unless an interrupt for it is on its way: whoever makes an event pending or enables
\* one does so in a trap, whose end looks at the list, or interrupts the hart.
THEOREM ReadyAreSignalled ==
    ASSUME KnownStart, SseScenarios
    PROVE  Spec => []ReadyIsSignalled
<1>1. EventInv => ReadyIsSignalled
  <2> SUFFICES ASSUME EventInv, NEW h \in Harts, pc[h] = "S", ~masked[h], Stops(h) # {},
                      Ready(enabled_events[h][First(Stops(h))], h)
               PROVE  Signalled(h)
    BY DEF ReadyIsSignalled, Signalled
  <2>1. Waits(h)
    BY ReadyWaits DEF EventInv
  <2> QED BY <2>1 DEF EventInv, SignalInv, Unlooked
<1> QED BY <1>1, EventsKept, PTL
=============================================================================
