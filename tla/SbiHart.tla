------------------------------- MODULE SbiHart -------------------------------
(***************************************************************************)
(* The harts of a machine under OpenSBI (course2/opensbi/lib/sbi): cold and *)
(* warm boot (sbi_init.c), the hart state management calls (sbi_hsm.c),     *)
(* inter-processor interrupts (sbi_ipi.c), system reset and system suspend  *)
(* (sbi_system.c).  M-mode runs with interrupts off, so a hart handles IPIs *)
(* only when it is in S-mode, in sbi_exit, or where the code calls for it.  *)
(*                                                                         *)
(* Harts share their state words through atomic operations and their       *)
(* scratch areas without any.  Such accesses are steps of their own, but for *)
(* three places where no property tells a hart that acts between them from *)
(* one that acts before or after: Sending, ResumeFinish and InitHart.       *)
(* The supervisor is the environment: in S-mode a hart makes any of its    *)
(* remaining calls.  One domain has all the harts, every address passes its *)
(* checks, and no reset device resets the machine.                          *)
(***************************************************************************)
EXTENDS Integers, FiniteSets

CONSTANTS NHarts,     \* number of harts
          Addrs(_),   \* the addresses a hart asks others to start at and
                      \* itself to resume at
          BootAddr,   \* the address the firmware boots into
          Scenarios   \* [calls, left, targets, up, dev, awake, fences, sse]: the
                      \* calls the supervisor uses, how many each hart makes, the
                      \* harts they are about, the harts that run already
                      \* (none: cold boot), the HSM device, the harts that a
                      \* hotplug device does not switch off,
                      \* the fences a hart asks for (SbiTlb), and how the harts
                      \* that run have set up their events (SbiSse)

Harts == 0..(NHarts - 1)

ASSUME HartAssumption ==
    /\ NHarts \in Nat
    /\ \A s \in Scenarios : s.targets \subseteq Harts /\ s.dev \in {"none", "secondary", "hotplug"}

VARIABLES
    scenario, left,\* the scenario, and the calls that are left in it
    lottery,       \* coldboot_lottery
    coldboot_done, \* coldboot_done
    state,         \* sbi_hsm_data.state
    ticket,        \* sbi_hsm_data.start_ticket: has it been taken?
    next,          \* scratch->next_addr, next_arg1 and next_mode
    entered,       \* entry_count
    inited,        \* init_count
    msip,          \* MIP.MSIP: the machine software interrupt is pending
    ssip,          \* MIP.SSIP: the supervisor's is
    ipi_type,      \* sbi_ipi_data.ipi_type: the events posted
    pc,            \* where the hart is
    local,         \* the locals of the call it executes, see Local
    at,            \* the address it entered S-mode at
    asked,         \* what the caller that put it in START_PENDING, or the
                   \* hart that suspended, asked for
    late           \* the harts that were posted an event between the two steps
                   \* of their sbi_ipi_init, by a sender that had found them before
                   \* they stopped, and that have not taken their events since

hsmVars == <<state, ticket, next, entered, inited>>
ipiVars == <<msip, ssip, ipi_type>>
bootVars == <<scenario, lottery, coldboot_done, late>>
hartVars == <<bootVars, left, hsmVars, ipiVars, pc, local, at, asked>>

\* to: the hart to start; addr: an address; off: entry_count = init_count,
\* new: init_count = 0; mask, again: the targets of sbi_ipi_send_many to do in
\* this round and in the next; event: what is sent; todo: the events that
\* sbi_ipi_process took; sse: a software event, was: its state when it was read.
Local == [to |-> 0, addr |-> BootAddr, off |-> FALSE, new |-> FALSE,
          ret |-> FALSE, mask |-> {}, again |-> {}, event |-> "none", todo |-> {},
          sse |-> <<>>, was |-> "none"]

calls == scenario.calls
dev == scenario.dev   \* hsm_dev

\* The harts that the device s.dev switches off when they stop and resets when
\* they start: not those for which hart_stop returns SBI_ENOTSUPP and hart_start
\* raises the interrupt itself.
Plugged(s) == IF s.dev = "hotplug" THEN Harts \ s.awake ELSE {}

Set(f, h, v) == [f EXCEPT ![h] = v]
Goto(h, l) == pc' = Set(pc, h, l)

\* __sbi_hsm_hart_change_state by hart h itself, then on to l or to other.
ChangeState(h, old, new, l, other) ==
    IF state[h] = old
    THEN state' = Set(state, h, new) /\ Goto(h, l)
    ELSE UNCHANGED state /\ Goto(h, other)

HartInit ==
    \E s \in Scenarios :
      LET cold == s.up = {}
          off == Plugged(s) \cup IF s.dev = "secondary" THEN Harts ELSE {}
      IN  /\ scenario = s /\ left = s.left
          /\ lottery = ~cold /\ coldboot_done = ~cold
          /\ state = [h \in Harts |-> IF h \in s.up THEN "STARTED" ELSE "STOPPED"]
          /\ ticket = [h \in Harts |-> FALSE]
          /\ next = [h \in Harts |-> BootAddr]
          /\ inited = [h \in Harts |-> IF h \in s.up THEN 1 ELSE 0]
          /\ entered = [h \in Harts |-> IF h \in s.up \/ ~(cold \/ h \in off)
                                        THEN 1 ELSE 0]
          /\ msip = [h \in Harts |-> FALSE]
          /\ ssip = [h \in Harts |-> FALSE]
          /\ ipi_type = [h \in Harts |-> {}]
          /\ pc = [h \in Harts |-> IF cold THEN "reset"
                                   ELSE IF h \in s.up THEN "S"
                                   ELSE IF h \in off THEN "off" ELSE "wait"]
          /\ local = [h \in Harts |-> Local]
          /\ at = [h \in Harts |-> BootAddr]
          /\ asked = [h \in Harts |-> BootAddr]
          /\ late = {}

-----------------------------------------------------------------------------
(* sbi_init.c *)

\* sbi_init: the first hart to draw boots cold.
SbiInit(h) ==
    /\ pc[h] = "reset"
    /\ lottery' = TRUE
    /\ Goto(h, IF lottery THEN "warm" ELSE "cold")
    /\ UNCHANGED <<scenario, coldboot_done, late, left, hsmVars, ipiVars, local, at, asked>>

\* init_coldboot until the other harts are let in: sbi_hsm_init.
InitColdboot(h) ==
    /\ pc[h] = "cold"
    /\ entered' = Set(entered, h, entered[h] + 1)
    /\ state' = [i \in Harts |-> IF i = h THEN "START_PENDING" ELSE "STOPPED"]
    /\ ticket' = [i \in Harts |-> FALSE]
    /\ Goto(h, "cold2")
    /\ UNCHANGED <<bootVars, left, next, inited, ipiVars, local, at, asked>>

WakeColdbootHarts(h) ==
    /\ pc[h] = "cold2"
    /\ coldboot_done' = TRUE
    /\ Goto(h, "init")
    /\ UNCHANGED <<scenario, lottery, late, left, hsmVars, ipiVars, local, at, asked>>

\* init_warmboot: a hart that was suspended resumes, any other starts up.
InitWarmboot(h) ==
    /\ pc[h] = "warm" /\ coldboot_done
    /\ IF state[h] = "SUSPENDED"
       THEN Goto(h, "resume") /\ UNCHANGED <<msip, entered>>
       ELSE /\ msip' = Set(msip, h, FALSE)
            /\ entered' = Set(entered, h, entered[h] + 1)
            /\ Goto(h, "wait")
    /\ UNCHANGED <<bootVars, left, state, ticket, next, inited, ssip, ipi_type, local, at, asked>>

\* Mutant of IpiInit: sbi_ipi_init keeps the events of the hart's former life.
IpiInitKeepsEvents(h) ==
    /\ pc[h] = "init"
    /\ late' = late \ {h}
    /\ Goto(h, "clear")
    /\ UNCHANGED <<scenario, lottery, coldboot_done, left, hsmVars, ipiVars, local, at, asked>>

\* sbi_ipi_init on a hart that boots, cold or warm: first what was posted to it
\* is dropped, ...
IpiInit(h) ==
    /\ pc[h] = "init"
    /\ ipi_type' = Set(ipi_type, h, {})
    /\ late' = late \ {h}
    /\ Goto(h, "clear")
    /\ UNCHANGED <<scenario, lottery, coldboot_done, left, hsmVars, msip, ssip, local, at, asked>>

\* ... then its interrupt, also one that was raised in between.  The rest of
\* init_coldboot and of init_warm_startup comes with it.
InitHart(h) ==
    /\ pc[h] = "clear"
    /\ msip' = Set(msip, h, FALSE)
    /\ inited' = Set(inited, h, inited[h] + 1)
    /\ Goto(h, "finish")
    /\ UNCHANGED <<bootVars, left, state, ticket, next, entered, ssip, ipi_type, local, at, asked>>

-----------------------------------------------------------------------------
(* sbi_hsm.c: starting a hart *)

\* Mutant of HartWait: the state counts only after wfi.
HartWaitSleepsFirst(h) ==
    /\ pc[h] = "wait"
    /\ Goto(h, IF msip[h] /\ state[h] = "START_PENDING" THEN "init" ELSE "wfi")
    /\ UNCHANGED <<bootVars, left, hsmVars, ipiVars, local, at, asked>>

\* One round of sbi_hsm_hart_wait: the state is looked at before wfi.
HartWait(h) ==
    /\ pc[h] = "wait"
    /\ Goto(h, IF state[h] = "START_PENDING" THEN "init" ELSE "wfi")
    /\ UNCHANGED <<bootVars, left, hsmVars, ipiVars, local, at, asked>>

\* wfi returns when the interrupt is pending, whether or not it is taken.
Wfi(h) ==
    /\ pc[h] = "wfi" /\ msip[h]
    /\ Goto(h, "wait")
    /\ UNCHANGED <<bootVars, left, hsmVars, ipiVars, local, at, asked>>

\* sbi_hsm_hart_start_finish: the state first, ...
StartFinish(h) ==
    /\ pc[h] = "finish"
    /\ ChangeState(h, "START_PENDING", "STARTED", "launch", "hang")
    /\ UNCHANGED <<bootVars, left, ticket, next, entered, inited, ipiVars, local, at, asked>>

\* ... then the parameters are read, and only now may they be replaced.
Launch(h) ==
    /\ pc[h] = "launch"
    /\ at' = Set(at, h, next[h])
    /\ ticket' = Set(ticket, h, FALSE)
    /\ Goto(h, "S")
    /\ UNCHANGED <<bootVars, left, state, next, entered, inited, ipiVars, local, asked>>

\* The supervisor on hart h makes the call e.
Ecall(h, e) == /\ pc[h] = "S" /\ e \in calls /\ left[h] > 0
               /\ left' = Set(left, h, left[h] - 1)

\* Mutant of HartStart: without the ticket.
HartStartNoTicket(h, t, a) ==
    /\ Ecall(h, "start")
    /\ local' = Set(local, h, [Local EXCEPT !.to = t, !.addr = a])
    /\ Goto(h, "st_write")
    /\ UNCHANGED <<bootVars, state, ticket, next, entered, inited, ipiVars, at, asked>>

\* sbi_hsm_hart_start(t, a): the ticket of t.
HartStart(h, t, a) ==
    /\ Ecall(h, "start")
    /\ ticket' = Set(ticket, t, TRUE)
    /\ local' = Set(local, h, [Local EXCEPT !.to = t, !.addr = a])
    /\ Goto(h, IF ticket[t] THEN "ret" ELSE "st_write")
    /\ UNCHANGED <<bootVars, state, next, entered, inited, ipiVars, at, asked>>

\* The counts are read and the parameters written before the state is known.
StartWrite(h) ==
    LET t == local[h].to
    IN  /\ pc[h] = "st_write"
        /\ local' = Set(local, h, [local[h] EXCEPT !.off = entered[t] = inited[t],
                                                   !.new = inited[t] = 0])
        /\ next' = Set(next, t, local[h].addr)
        /\ Goto(h, "st_cas")
        /\ UNCHANGED <<bootVars, left, state, ticket, entered, inited, ipiVars, at, asked>>

\* Mutant of StartCas: any hart that does not run may be started.
StartCasUnlessStarted(h) ==
    LET t == local[h].to
    IN  /\ pc[h] = "st_cas"
        /\ IF state[t] # "STARTED"
           THEN /\ state' = Set(state, t, "START_PENDING")
                /\ asked' = Set(asked, t, local[h].addr)
                /\ Goto(h, "st_kick")
           ELSE Goto(h, "st_rel") /\ UNCHANGED <<state, asked>>
        /\ UNCHANGED <<bootVars, left, ticket, next, entered, inited, ipiVars, local, at>>

\* The cmpxchg on the state of t.
StartCas(h) ==
    LET t == local[h].to
    IN  /\ pc[h] = "st_cas"
        /\ IF state[t] = "STOPPED"
           THEN /\ state' = Set(state, t, "START_PENDING")
                /\ asked' = Set(asked, t, local[h].addr)
                /\ Goto(h, "st_kick")
           ELSE Goto(h, "st_rel") /\ UNCHANGED <<state, asked>>
        /\ UNCHANGED <<bootVars, left, ticket, next, entered, inited, ipiVars, local, at>>

\* A hart that has left the firmware is powered on by a device that can do so, and
\* one that has never been there by a device that only boots secondary harts; a
\* hart that waits in the firmware gets an interrupt, from sbi_hsm_hart_start or
\* from the device.
UseDevice(h) == \/ local[h].to \in Plugged(scenario) /\ local[h].off
                \/ dev = "secondary" /\ local[h].new

StartDevice(h) ==
    LET t == local[h].to
    IN  /\ pc[h] = "st_kick" /\ UseDevice(h) /\ pc[t] = "off"
        /\ pc' = [pc EXCEPT ![t] = "reset", ![h] = "ret"]
        /\ UNCHANGED <<bootVars, left, hsmVars, ipiVars, local, at, asked>>

\* The device refuses, for instance because the hart is not off yet.
StartRefused(h) ==
    LET t == local[h].to
    IN  /\ pc[h] = "st_kick" /\ UseDevice(h)
        /\ state' = Set(state, t, IF state[t] = "START_PENDING" THEN "STOPPED" ELSE state[t])
        /\ Goto(h, "st_rel")
        /\ UNCHANGED <<bootVars, left, ticket, next, entered, inited, ipiVars, local, at, asked>>

StartIpi(h) ==
    /\ pc[h] = "st_kick" /\ ~UseDevice(h)
    /\ msip' = Set(msip, local[h].to, TRUE)
    /\ Goto(h, "ret")
    /\ UNCHANGED <<bootVars, left, hsmVars, ssip, ipi_type, local, at, asked>>

\* err: in sbi_hsm_hart_start.
StartRelease(h) ==
    /\ pc[h] = "st_rel"
    /\ ticket' = Set(ticket, local[h].to, FALSE)
    /\ Goto(h, "ret")
    /\ UNCHANGED <<bootVars, left, state, next, entered, inited, ipiVars, local, at, asked>>

\* The end of sbi_trap_handler.
TrapReturn(h) ==
    /\ pc[h] = "ret"
    /\ Goto(h, "S")
    /\ local' = Set(local, h, Local)
    /\ UNCHANGED <<bootVars, left, hsmVars, ipiVars, at, asked>>

-----------------------------------------------------------------------------
(* sbi_hsm.c: stopping and suspending *)

\* sbi_hsm_hart_stop.
HartStop(h) ==
    /\ Ecall(h, "stop")
    /\ ChangeState(h, "STARTED", "STOP_PENDING", "exit", "ret")
    /\ UNCHANGED <<bootVars, ticket, next, entered, inited, ipiVars, local, at, asked>>

\* sbi_exit up to sbi_ipi_exit.
SbiExit(h) ==
    /\ pc[h] = "exit"
    /\ Goto(h, "ipi")
    /\ UNCHANGED <<bootVars, left, hsmVars, ipiVars, local, at, asked>>

\* sbi_hsm_exit: from here on the hart may be started.
HsmExit(h) ==
    /\ pc[h] = "hsm_exit"
    /\ ChangeState(h, "STOP_PENDING", "STOPPED", "stopped", "hang")
    /\ UNCHANGED <<bootVars, left, ticket, next, entered, inited, ipiVars, local, at, asked>>

\* The device switches the hart off, or fails to, and then sbi_hsm_exit hangs
\* it.  A hart without such a device waits in the warm boot path.
HsmStopped(h) ==
    /\ pc[h] = "stopped"
    /\ \E l \in IF h \in Plugged(scenario) THEN {"off", "stuck"} ELSE {"warm"} : Goto(h, l)
    /\ UNCHANGED <<bootVars, left, hsmVars, ipiVars, local, at, asked>>

\* sbi_hsm_hart_suspend(ret, a): the resume address is saved, ...
HartSuspend(h, ret, a) ==
    /\ Ecall(h, "suspend")
    /\ next' = Set(next, h, a)
    /\ asked' = Set(asked, h, a)
    /\ local' = Set(local, h, [Local EXCEPT !.ret = ret])
    /\ Goto(h, "su_cas")
    /\ UNCHANGED <<bootVars, state, ticket, entered, inited, ipiVars, at>>

\* ... then the state is changed, and the hart sleeps.
SuspendCas(h) ==
    /\ pc[h] = "su_cas"
    /\ ChangeState(h, "STARTED", "SUSPENDED", "asleep", "ret")
    /\ UNCHANGED <<bootVars, left, ticket, next, entered, inited, ipiVars, local, at, asked>>

\* A retentive suspend returns, and so does one that the device refuses.
SuspendReturn(h) ==
    /\ pc[h] = "asleep"
    /\ ChangeState(h, "SUSPENDED", "STARTED", "ret", "hang")
    /\ UNCHANGED <<bootVars, left, ticket, next, entered, inited, ipiVars, local, at, asked>>

\* A non-retentive one resumes in the warm boot path.
SuspendWarm(h) ==
    /\ pc[h] = "asleep" /\ ~local[h].ret
    /\ Goto(h, "warm")
    /\ local' = Set(local, h, Local)
    /\ UNCHANGED <<bootVars, left, hsmVars, ipiVars, at, asked>>

\* init_warm_resume: sbi_hsm_hart_resume_start, ...
ResumeStart(h) ==
    /\ pc[h] = "resume"
    /\ ChangeState(h, "SUSPENDED", "RESUME_PENDING", "resumed", "hang")
    /\ UNCHANGED <<bootVars, left, ticket, next, entered, inited, ipiVars, local, at, asked>>

\* ... and sbi_hsm_hart_resume_finish.
ResumeFinish(h) ==
    /\ pc[h] = "resumed"
    /\ ChangeState(h, "RESUME_PENDING", "STARTED", "S", "hang")
    /\ at' = Set(at, h, next[h])
    /\ UNCHANGED <<bootVars, left, ticket, next, entered, inited, ipiVars, local, asked>>

-----------------------------------------------------------------------------
(* sbi_ipi.c *)

\* sbi_hsm_hart_interruptible_mask.
Interruptible ==
    {i \in Harts : state[i] \in {"STARTED", "SUSPENDED", "RESUME_PENDING"}}

First(S) == CHOOSE i \in S : \A j \in S : i <= j
Target(h) == First(local[h].mask)

\* The locals of sbi_ipi_send_many when it has found its targets.
Sending(event, hmask) ==
    [Local EXCEPT !.event = event, !.mask = hmask \cap Interruptible]

\* The locals after the first target is done with.
Sent(h) == [local[h] EXCEPT !.mask = local[h].mask \ {Target(h)}]

\* The call sbi_send_ipi.
SendSmode(h, hmask) ==
    /\ Ecall(h, "ipi")
    /\ local' = Set(local, h, Sending("smode", hmask))
    /\ Goto(h, "send")
    /\ UNCHANGED <<bootVars, hsmVars, ipiVars, at, asked>>

\* sbi_ipi_send to the hart itself: the event is processed on the spot, but
\* for a halt, which ipi_update_halt breaks off.
SendSelf(h) ==
    /\ pc[h] = "send" /\ local[h].event \in {"smode", "halt"}
    /\ local[h].mask # {} /\ Target(h) = h
    /\ ssip' = IF local[h].event = "smode" THEN Set(ssip, h, TRUE) ELSE ssip
    /\ local' = Set(local, h, Sent(h))
    /\ UNCHANGED <<bootVars, left, hsmVars, msip, ipi_type, pc, at, asked>>

\* sbi_ipi_send to another hart: the event is posted, and the interrupt raised
\* by the hart that finds nothing posted.  An event with an update() callback
\* comes here when that has succeeded.
PostEvent(h) ==
    /\ \/ pc[h] = "post"
       \/ pc[h] = "send" /\ local[h].event # "tlb" /\ local[h].mask # {} /\ Target(h) # h
    /\ ipi_type' = Set(ipi_type, Target(h), ipi_type[Target(h)] \cup {local[h].event})
    /\ IF ipi_type[Target(h)] = {}
       THEN Goto(h, "raw") /\ UNCHANGED local
       ELSE Goto(h, "send") /\ local' = Set(local, h, Sent(h))
    /\ late' = late \cup {i \in Harts : i = Target(h) /\ pc[i] = "clear"}
    /\ UNCHANGED <<scenario, lottery, coldboot_done, left, hsmVars, msip, ssip, at, asked>>

\* sbi_ipi_raw_send.
RawSend(h) ==
    /\ pc[h] = "raw"
    /\ msip' = Set(msip, Target(h), TRUE)
    /\ Goto(h, "send")
    /\ local' = Set(local, h, Sent(h))
    /\ UNCHANGED <<bootVars, left, hsmVars, ssip, ipi_type, at, asked>>

\* Another round for the targets whose update() asked for it.
SendRetry(h) ==
    /\ pc[h] = "send" /\ local[h].mask = {} /\ local[h].again # {}
    /\ local' = Set(local, h, [local[h] EXCEPT !.mask = local[h].again, !.again = {}])
    /\ UNCHANGED <<bootVars, left, hsmVars, ipiVars, pc, at, asked>>

\* Every target is served: sbi_ipi_sync, and back to the caller.
SendDone(h) ==
    /\ pc[h] = "send" /\ local[h].mask = {} /\ local[h].again = {}
    /\ Goto(h, CASE local[h].event = "halt" -> "rs_stop"
                 [] local[h].event = "tlb"  -> "sync"
                 [] local[h].event = "sse"  -> "sse_sent"
                 [] OTHER                   -> "ret")
    /\ UNCHANGED <<bootVars, left, hsmVars, ipiVars, local, at, asked>>

\* The interrupt is taken in S-mode.
TakeIpi(h) ==
    /\ pc[h] = "S" /\ msip[h]
    /\ Goto(h, "ipi")
    /\ UNCHANGED <<bootVars, left, hsmVars, ipiVars, local, at, asked>>

\* sbi_ipi_process, on the interrupt or in sbi_ipi_exit: first the interrupt
\* is cleared, ...
IpiClear(h) ==
    /\ pc[h] = "ipi"
    /\ msip' = Set(msip, h, FALSE)
    /\ Goto(h, "xchg")
    /\ UNCHANGED <<bootVars, left, hsmVars, ssip, ipi_type, local, at, asked>>

\* ... then the events are taken.
IpiXchg(h) ==
    /\ pc[h] = "xchg"
    /\ local' = Set(local, h, [Local EXCEPT !.todo = ipi_type[h]])
    /\ ipi_type' = Set(ipi_type, h, {})
    /\ late' = late \ {h}
    /\ Goto(h, "process")
    /\ UNCHANGED <<scenario, lottery, coldboot_done, left, hsmVars, msip, ssip, at, asked>>

\* The events in the order of their numbers.
Number(e) == CASE e = "smode" -> 0 [] e = "halt" -> 1 [] e = "tlb" -> 2 [] e = "sse" -> 3
Processing(h, e) == /\ pc[h] = "process" /\ e \in local[h].todo
                    /\ \A f \in local[h].todo : Number(e) <= Number(f)
Processed(h, e) == [local[h] EXCEPT !.todo = local[h].todo \ {e}]

ProcessSmode(h) ==
    /\ Processing(h, "smode")
    /\ ssip' = Set(ssip, h, TRUE)
    /\ local' = Set(local, h, Processed(h, "smode"))
    /\ UNCHANGED <<bootVars, left, hsmVars, msip, ipi_type, pc, at, asked>>

\* sbi_ipi_process_halt: sbi_hsm_hart_stop does not return, and the events
\* that were taken with this one are forgotten.
ProcessHalt(h) ==
    /\ Processing(h, "halt")
    /\ ChangeState(h, "STARTED", "STOP_PENDING", "exit", "process")
    /\ local' = Set(local, h, IF state[h] = "STARTED" THEN Local ELSE Processed(h, "halt"))
    /\ UNCHANGED <<bootVars, left, ticket, next, entered, inited, ipiVars, at, asked>>

\* sbi_ipi_process returns, to the trap handler or to sbi_exit.
IpiDone(h) ==
    /\ pc[h] = "process" /\ local[h].todo = {}
    /\ Goto(h, IF state[h] = "STOP_PENDING" THEN "hsm_exit" ELSE "ret")
    /\ UNCHANGED <<bootVars, left, hsmVars, ipiVars, local, at, asked>>

\* The supervisor handles its interrupt.
ClearSmode(h) ==
    /\ pc[h] = "S" /\ ssip[h]
    /\ ssip' = Set(ssip, h, FALSE)
    /\ UNCHANGED <<bootVars, left, hsmVars, msip, ipi_type, pc, local, at, asked>>

-----------------------------------------------------------------------------
(* sbi_system.c *)

\* sbi_system_reset: the halt event goes to every other hart, ...
SystemReset(h) ==
    /\ Ecall(h, "reset")
    /\ local' = Set(local, h, Sending("halt", Harts))
    /\ Goto(h, "send")
    /\ UNCHANGED <<bootVars, hsmVars, ipiVars, at, asked>>

\* ... and the hart stops itself; if it could not, sbi_hsm_exit would hang it.
ResetStop(h) ==
    /\ pc[h] = "rs_stop"
    /\ ChangeState(h, "STARTED", "STOP_PENDING", "exit", "hang")
    /\ UNCHANGED <<bootVars, left, ticket, next, entered, inited, ipiVars, local, at, asked>>

\* sbi_system_suspend: denied unless every other hart is stopped.
SystemSuspend(h, a) ==
    /\ Ecall(h, "sysuspend")
    /\ local' = Set(local, h, [Local EXCEPT !.addr = a])
    /\ Goto(h, IF \A i \in Harts \ {h} : state[i] = "STOPPED" THEN "ss_cas" ELSE "ret")
    /\ UNCHANGED <<bootVars, hsmVars, ipiVars, at, asked>>

SystemSuspendCas(h) ==
    /\ pc[h] = "ss_cas"
    /\ ChangeState(h, "STARTED", "SUSPENDED", "ss_next", "ret")
    /\ UNCHANGED <<bootVars, left, ticket, next, entered, inited, ipiVars, local, at, asked>>

SystemSuspendNext(h) ==
    /\ pc[h] = "ss_next"
    /\ next' = Set(next, h, local[h].addr)
    /\ asked' = Set(asked, h, local[h].addr)
    /\ Goto(h, "asleep")
    /\ UNCHANGED <<bootVars, left, state, ticket, entered, inited, ipiVars, local, at>>

-----------------------------------------------------------------------------
\* What the firmware does on hart h, but for the steps that are also steps of
\* its other components: InitHart, SbiExit and TrapReturn.
Machine(h) ==
    \/ SbiInit(h) \/ InitColdboot(h) \/ WakeColdbootHarts(h) \/ InitWarmboot(h) \/ IpiInit(h)
    \/ HartWait(h) \/ Wfi(h) \/ StartFinish(h) \/ Launch(h)
    \/ StartWrite(h) \/ StartCas(h) \/ StartDevice(h) \/ StartRefused(h) \/ StartIpi(h)
    \/ StartRelease(h) \/ HsmExit(h) \/ HsmStopped(h)
    \/ SuspendCas(h) \/ ResumeStart(h) \/ ResumeFinish(h)
    \/ SendSelf(h) \/ PostEvent(h) \/ RawSend(h) \/ SendRetry(h) \/ SendDone(h)
    \/ TakeIpi(h) \/ IpiClear(h) \/ IpiXchg(h) \/ ProcessSmode(h) \/ ProcessHalt(h) \/ IpiDone(h)
    \/ ResetStop(h) \/ SystemSuspendCas(h) \/ SystemSuspendNext(h)

\* What the supervisor on hart h may do.
Supervisor(h) ==
    \/ \E t \in scenario.targets, a \in Addrs(h) : HartStart(h, t, a)
    \/ HartStop(h)
    \/ \E ret \in BOOLEAN, a \in Addrs(h) : HartSuspend(h, ret, a)
    \/ SendSmode(h, scenario.targets)
    \/ ClearSmode(h) \/ SystemReset(h)
    \/ \E a \in Addrs(h) : SystemSuspend(h, a)

\* A hart that sleeps is woken by an interrupt, some other one or an IPI.
Wake(h) == SuspendReturn(h) \/ SuspendWarm(h)

HartNext ==
    \E h \in Harts : \/ Machine(h) \/ InitHart(h) \/ SbiExit(h) \/ TrapReturn(h)
                     \/ Supervisor(h) \/ Wake(h)

\* The harts by themselves.
HartSpec == HartInit /\ [][HartNext]_hartVars
-----------------------------------------------------------------------------
\* A hart enters S-mode where the caller of sbi_hsm_hart_start that it was
\* started by, or its own sbi_hsm_hart_suspend, asked for: next_addr, next_arg1
\* and next_mode lie in the scratch area of the hart, where every other hart
\* writes them before it knows whether it may.
EntersWhereAsked ==
    \A h \in Harts : pc[h] \in {"launch", "resumed"} => next[h] = asked[h]

\* Every change of state that the code expects to succeed does, whatever the
\* other harts do to the state in between: the only hart that ends in
\* sbi_hart_hang is one that its device failed to switch off ("stuck").
NoHang == \A h \in Harts : pc[h] # "hang"

\* An event that is posted to a hart will be seen: its interrupt is pending, or
\* the sender that found nothing posted is about to raise it, or the hart is
\* about to take what is posted, or has yet to initialise.  A sender that finds
\* another event posted raises no interrupt.  The exception is an event that came
\* between the two steps of sbi_ipi_init: its interrupt may be cleared there.
PendingHasInterrupt ==
    \A h \in Harts \ late : ipi_type[h] # {} =>
       \/ msip[h]
       \/ pc[h] \in {"xchg", "wait", "wfi", "init"}
       \/ \E i \in Harts : pc[i] = "raw" /\ Target(i) = h
=============================================================================
