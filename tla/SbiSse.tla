------------------------------- MODULE SbiSse -------------------------------
(***************************************************************************)
(* Supervisor software events of OpenSBI (course2/opensbi/lib/sbi/          *)
(* sbi_sse.c): local events, one instance per hart, and global ones, which  *)
(* every hart may configure and one hart, the preferred one, handles.  An   *)
(* enabled event is in the list of its hart, in the order of priority; the  *)
(* end of every trap injects the first one that is pending, and a handler   *)
(* may be interrupted by an event of higher priority.                       *)
(*                                                                         *)
(* A global event is protected by a lock of its own, a list by that of its *)
(* hart; sbi_sse_complete takes only the second, and so do the injections.  *)
(* A call that holds its locks from beginning to end is one step.           *)
(* No scenario enables an event that is still in a list.  The callbacks of  *)
(* drivers, which act on the calling hart alone, and the writes of the      *)
(* INTERRUPTED_* attributes are left out.                                   *)
(***************************************************************************)
EXTENDS SbiHart, SbiFifo, SequencesExt

CONSTANTS LocalIds, GlobalIds,  \* the supported_events
          Prios                 \* the priorities the supervisor sets

ASSUME SseAssumption ==
    /\ LocalIds \cup GlobalIds \subseteq Nat /\ LocalIds \cap GlobalIds = {}
    /\ IsFiniteSet(LocalIds \cup GlobalIds) /\ Prios \subseteq Nat

Nobody == -1
EventIds == LocalIds \cup GlobalIds
EVENT_IS_GLOBAL(id) == id \in GlobalIds

\* sse_event_get: the event hart h means by id.
sse_event_get(id, h) == <<id, IF EVENT_IS_GLOBAL(id) THEN Nobody ELSE h>>
SseEvents == {sse_event_get(id, h) : id \in EventIds, h \in Harts}

VARIABLES
    event,            \* its attributes: status, prio, config, hartid, and the
                      \* interrupted context
    enabled_events,   \* enabled_event_list
    masked,           \* masked
    inject_fifo,      \* the ring buffer of the events sent to a hart
    ge_lock,          \* the holder of the lock of a global event
    list_lock,        \* the holder of enabled_event_lock
    running           \* the handlers the supervisor is in, innermost last
sseVars == <<event, enabled_events, masked, inject_fifo, ge_lock, list_lock, running>>
lockVars == <<ge_lock, list_lock>>

Enabled(e) == event[e].state \in {"ENABLED", "RUNNING"}
Unlocked(e) == EVENT_IS_GLOBAL(e[1]) => ge_lock[e[1]] = Nobody
ListUnlocked(h) == list_lock[h] = Nobody

\* sse_event_add_to_list: before the first event of lower priority.
Precedes(e, f) == \/ event[e].prio < event[f].prio
                  \/ event[e].prio = event[f].prio /\ e[1] < f[1]
Added(list, e) == LET after == {i \in DOMAIN list : Precedes(e, list[i])}
                  IN  IF after = {} THEN Append(list, e) ELSE InsertAt(list, First(after), e)

\* The events after boot, or as the supervisor on the harts that run has set
\* them up: scenario.sse is [state, pending, masked].
SseInit ==
    /\ event = [e \in SseEvents |->
                  LET hart == IF e[2] = Nobody THEN 0 ELSE e[2]
                      used == hart \in scenario.up
                  IN  [state |-> IF used THEN scenario.sse.state ELSE "UNUSED",
                       pending |-> used /\ scenario.sse.pending, prio |-> 0,
                       oneshot |-> FALSE, hartid |-> hart, interrupted |-> <<>>]]
    /\ enabled_events = [h \in Harts |->
         CHOOSE list \in SetToSeqs({e \in SseEvents : Enabled(e) /\ event[e].hartid = h}) :
           IsSorted(list, LAMBDA e, f : e[1] < f[1])]
    /\ masked = [h \in Harts |-> h \in scenario.up => scenario.sse.masked]
    /\ inject_fifo = [h \in Harts |-> fifo_init(Cardinality(EventIds), -1)]
    /\ ge_lock = [id \in GlobalIds |-> Nobody]
    /\ list_lock = [h \in Harts |-> Nobody]
    /\ running = [h \in Harts |-> <<>>]

\* The call named c about event e: it waits for the lock of the event.
SseCall(h, c, e) == Ecall(h, c) /\ Unlocked(e)

\* What the calls leave alone that return at once and only write the event.
Writes(h) == /\ Goto(h, "ret")
             /\ UNCHANGED <<bootVars, hsmVars, ipiVars, local, at, asked, enabled_events,
                            masked, inject_fifo, lockVars, running>>

-----------------------------------------------------------------------------
\* sbi_sse_register and sbi_sse_unregister.
SseRegister(h, id) ==
    LET e == sse_event_get(id, h)
    IN  /\ SseCall(h, "register", e)
        /\ event' = IF event[e].state = "UNUSED"
                    THEN [event EXCEPT ![e].state = "REGISTERED"] ELSE event
        /\ Writes(h)

SseUnregister(h, id) ==
    LET e == sse_event_get(id, h)
    IN  /\ SseCall(h, "unregister", e)
        /\ event' = IF event[e].state = "REGISTERED"
                    THEN [event EXCEPT ![e].state = "UNUSED"] ELSE event
        /\ Writes(h)

\* sbi_sse_write_attrs, one attribute at a time: an event that is enabled keeps
\* its attributes.
SetPrio(h, id, prio) ==
    LET e == sse_event_get(id, h)
    IN  /\ SseCall(h, "prio", e)
        /\ event' = IF Enabled(e) THEN event ELSE [event EXCEPT ![e].prio = prio]
        /\ Writes(h)

SetOneshot(h, id, oneshot) ==
    LET e == sse_event_get(id, h)
    IN  /\ SseCall(h, "oneshot", e)
        /\ event' = IF Enabled(e) THEN event ELSE [event EXCEPT ![e].oneshot = oneshot]
        /\ Writes(h)

SetPreferredHart(h, id, t) ==
    LET e == sse_event_get(id, h)
    IN  /\ SseCall(h, "prefer", e)
        /\ event' = IF Enabled(e) \/ ~EVENT_IS_GLOBAL(id) \/ state[t] # "STARTED"
                    THEN event ELSE [event EXCEPT ![e].hartid = t]
        /\ Writes(h)

\* Mutant of Told: the hart of a pending event is not interrupted.
ToldNever(e) == FALSE

\* sse_event_enable tells the hart of a global event that is pending.
Told(e) == EVENT_IS_GLOBAL(e[1]) /\ event[e].pending

\* sbi_sse_enable: the locks are kept until the interrupt is sent.
SseEnable(h, id) ==
    LET e    == sse_event_get(id, h)
        hart == event[e].hartid
    IN  /\ SseCall(h, "enable", e) /\ ListUnlocked(hart)
        /\ IF event[e].state # "REGISTERED"
           THEN Goto(h, "ret") /\ UNCHANGED <<event, enabled_events, local, lockVars>>
           ELSE /\ event' = [event EXCEPT ![e].state = "ENABLED"]
                /\ enabled_events' = Set(enabled_events, hart, Added(enabled_events[hart], e))
                /\ IF Told(e)
                   THEN /\ ge_lock' = Set(ge_lock, id, h) /\ list_lock' = Set(list_lock, hart, h)
                        /\ local' = Set(local, h, Sending("sse", {hart}))
                        /\ Goto(h, "send")
                   ELSE Goto(h, "ret") /\ UNCHANGED <<local, lockVars>>
        /\ UNCHANGED <<bootVars, hsmVars, ipiVars, at, asked, masked, inject_fifo, running>>

\* sbi_ipi_send_many has returned: the locks h holds, if any, are released.
SseSent(h) ==
    /\ pc[h] = "sse_sent"
    /\ ge_lock' = [id \in GlobalIds |-> IF ge_lock[id] = h THEN Nobody ELSE ge_lock[id]]
    /\ list_lock' = [i \in Harts |-> IF list_lock[i] = h THEN Nobody ELSE list_lock[i]]
    /\ Goto(h, "ret")
    /\ UNCHANGED <<bootVars, left, hsmVars, ipiVars, local, at, asked, event,
                   enabled_events, masked, inject_fifo, running>>

\* sbi_sse_disable.
SseDisable(h, id) ==
    LET e    == sse_event_get(id, h)
        hart == event[e].hartid
    IN  /\ SseCall(h, "disable", e) /\ ListUnlocked(hart)
        /\ IF event[e].state = "ENABLED"
           THEN /\ event' = [event EXCEPT ![e].state = "REGISTERED"]
                /\ enabled_events' = Set(enabled_events, hart, RemoveFirst(enabled_events[hart], e))
           ELSE UNCHANGED <<event, enabled_events>>
        /\ Goto(h, "ret")
        /\ UNCHANGED <<bootVars, hsmVars, ipiVars, local, at, asked, masked,
                       inject_fifo, lockVars, running>>

\* sbi_sse_hart_mask and sbi_sse_hart_unmask.
SseMask(h, on) ==
    /\ Ecall(h, IF on THEN "mask" ELSE "unmask")
    /\ masked' = Set(masked, h, on)
    /\ Goto(h, "ret")
    /\ UNCHANGED <<bootVars, hsmVars, ipiVars, local, at, asked, event, enabled_events,
                   inject_fifo, lockVars, running>>

-----------------------------------------------------------------------------
\* sbi_sse_complete: the first running event of the list, under the lock of
\* the list alone; a oneshot event is disabled, ...
SseComplete(h) ==
    LET list == enabled_events[h]
        runs == {i \in DOMAIN list : event[list[i]].state = "RUNNING"}
        e    == list[First(runs)]
    IN  /\ Ecall(h, "complete") /\ ListUnlocked(h)
        /\ IF runs = {} \/ event[e].hartid # h
           THEN Goto(h, "ret") /\ UNCHANGED <<event, enabled_events, local, list_lock>>
           ELSE /\ event' = [event EXCEPT ![e].state =
                               IF event[e].oneshot THEN "REGISTERED" ELSE "ENABLED"]
                /\ enabled_events' = IF event[e].oneshot
                                     THEN Set(enabled_events, h, RemoveFirst(list, e))
                                     ELSE enabled_events
                /\ list_lock' = Set(list_lock, h, h)
                /\ local' = Set(local, h, [Local EXCEPT !.sse = e])
                /\ Goto(h, "sse_resume")
        /\ UNCHANGED <<bootVars, hsmVars, ipiVars, at, asked, masked, inject_fifo,
                       ge_lock, running>>

\* ... then sse_event_resume restores the registers the event has saved.
SseResume(h) ==
    /\ pc[h] = "sse_resume"
    /\ running' = Set(running, h, event[local[h].sse].interrupted[2])
    /\ list_lock' = Set(list_lock, h, Nobody)
    /\ Goto(h, "ret")
    /\ UNCHANGED <<bootVars, left, hsmVars, ipiVars, local, at, asked, event,
                   enabled_events, masked, inject_fifo, ge_lock>>

\* Mutant of Stops: a running event does not stop the search.
StopsWhenReady(h) ==
    {i \in DOMAIN enabled_events[h] :
       LET e == enabled_events[h][i]
       IN  event[e].pending /\ event[e].state = "ENABLED" /\ event[e].hartid = h}

\* sbi_sse_process_pending_events at the end of a trap: down the list to the
\* first event that runs, which nothing after it may interrupt, or is ready.
Ready(e, h) == event[e].pending /\ event[e].state = "ENABLED" /\ event[e].hartid = h
Stops(h) == {i \in DOMAIN enabled_events[h] :
               LET e == enabled_events[h][i] IN event[e].state = "RUNNING" \/ Ready(e, h)}

ProcessPendingEvents(h) ==
    LET e == enabled_events[h][First(Stops(h))]
    IN  /\ masked[h] \/ ListUnlocked(h)
        /\ IF masked[h] \/ Stops(h) = {} \/ ~Ready(e, h)
           THEN UNCHANGED <<event, running>>
           ELSE /\ event' = [event EXCEPT ![e].state = "RUNNING", ![e].pending = FALSE,
                                          ![e].interrupted = <<h, running[h]>>]
                /\ running' = Set(running, h, Append(running[h], e))
        /\ UNCHANGED <<enabled_events, masked, inject_fifo, lockVars>>

-----------------------------------------------------------------------------
\* sse_inject_event: on the hart that handles it the event becomes pending, any
\* other hart is sent it.
SseInject(h, id, t) ==
    LET e    == sse_event_get(id, h)
        hart == IF EVENT_IS_GLOBAL(id) THEN event[e].hartid ELSE t
    IN  /\ SseCall(h, "inject", e)
        /\ event' = IF hart = h /\ Enabled(e)
                    THEN [event EXCEPT ![e].pending = TRUE] ELSE event
        /\ local' = Set(local, h, [Local EXCEPT !.to = hart, !.sse = <<id, hart>>])
        /\ Goto(h, IF hart = h THEN "ret" ELSE "sse_put")
        /\ UNCHANGED <<bootVars, hsmVars, ipiVars, at, asked, enabled_events, masked,
                       inject_fifo, lockVars, running>>

\* sse_ipi_inject_send: it fails when the buffer is full.
InjectSend(h) ==
    LET t == local[h].to
    IN  /\ pc[h] = "sse_put"
        /\ IF fifo_is_full(inject_fifo[t])
           THEN Goto(h, "ret") /\ UNCHANGED <<inject_fifo, local>>
           ELSE /\ inject_fifo' = Set(inject_fifo, t, fifo_put(inject_fifo[t], local[h].sse[1]))
                /\ local' = Set(local, h, Sending("sse", {t}))
                /\ Goto(h, "send")
        /\ UNCHANGED <<bootVars, left, hsmVars, ipiVars, at, asked, event, enabled_events,
                       masked, lockVars, running>>

\* sbi_ipi_send to the hart itself.
InjectSelf(h) ==
    /\ pc[h] = "send" /\ local[h].event = "sse" /\ local[h].mask # {} /\ Target(h) = h
    /\ Goto(h, "sse_self")
    /\ UNCHANGED <<bootVars, left, hsmVars, ipiVars, local, at, asked, sseVars>>

\* sse_ipi_inject_process: an event is taken from the buffer and its status
\* read under its lock, ...
Injecting(h) == Processing(h, "sse") \/ pc[h] = "sse_self"

InjectTake(h) ==
    LET id == fifo_oldest(inject_fifo[h])
        e  == sse_event_get(id, h)
    IN  /\ Injecting(h) /\ ~fifo_is_empty(inject_fifo[h]) /\ Unlocked(e)
        /\ inject_fifo' = Set(inject_fifo, h, fifo_taken(inject_fifo[h], -1))
        /\ IF Enabled(e)
           THEN /\ ge_lock' = IF EVENT_IS_GLOBAL(id) THEN Set(ge_lock, id, h) ELSE ge_lock
                /\ local' = Set(local, h, [local[h] EXCEPT !.sse = e, !.was = event[e].state])
                /\ Goto(h, "sse_pend")
           ELSE UNCHANGED <<ge_lock, local, pc>>
        /\ UNCHANGED <<bootVars, left, hsmVars, ipiVars, at, asked, event, enabled_events,
                       masked, list_lock, running>>

\* ... and written back with the event pending.
InjectPend(h) ==
    LET e == local[h].sse
    IN  /\ pc[h] = "sse_pend"
        /\ event' = [event EXCEPT ![e].pending = TRUE, ![e].state = local[h].was]
        /\ ge_lock' = IF EVENT_IS_GLOBAL(e[1]) THEN Set(ge_lock, e[1], Nobody) ELSE ge_lock
        /\ Goto(h, IF local[h].event = "sse" THEN "sse_self" ELSE "process")
        /\ UNCHANGED <<bootVars, left, hsmVars, ipiVars, local, at, asked, enabled_events,
                       masked, inject_fifo, list_lock, running>>

InjectDone(h) ==
    /\ Injecting(h) /\ fifo_is_empty(inject_fifo[h])
    /\ IF pc[h] = "sse_self"
       THEN local' = Set(local, h, Sent(h)) /\ Goto(h, "send")
       ELSE local' = Set(local, h, Processed(h, "sse")) /\ UNCHANGED pc
    /\ UNCHANGED <<bootVars, left, hsmVars, ipiVars, at, asked, sseVars>>

-----------------------------------------------------------------------------
\* sbi_sse_init, in the boot of the hart: the hart that boots cold is the
\* preferred one of the global events, and the list of a hart is emptied.
InitSse(h) ==
    LET cold == \A i \in Harts : inited[i] = 0
    IN  /\ event' = [e \in SseEvents |-> IF cold /\ e[2] = Nobody
                                         THEN [event[e] EXCEPT !.hartid = h] ELSE event[e]]
        /\ enabled_events' = Set(enabled_events, h, <<>>)
        /\ list_lock' = Set(list_lock, h, Nobody)
        /\ inject_fifo' = Set(inject_fifo, h, fifo_init(Cardinality(EventIds), -1))
        /\ UNCHANGED <<masked, ge_lock, running>>

\* Mutant of ExitSse: the events stay as they are.
ExitSseKeepsEvents(h) ==
    /\ running' = Set(running, h, <<>>)
    /\ UNCHANGED <<event, enabled_events, masked, inject_fifo, lockVars>>

\* sbi_sse_exit: its events are not enabled any more; the list stays.
ExitSse(h) ==
    /\ \A id \in GlobalIds : ge_lock[id] = Nobody
    /\ event' = [e \in SseEvents |->
                   IF e[2] \in {h, Nobody} /\ event[e].hartid = h /\ Enabled(e)
                   THEN [event[e] EXCEPT !.state = "UNUSED"] ELSE event[e]]
    /\ running' = Set(running, h, <<>>)
    /\ UNCHANGED <<enabled_events, masked, inject_fifo, lockVars>>

SseMachine(h) ==
    \/ SseSent(h) \/ SseResume(h) \/ InjectSend(h) \/ InjectSelf(h)
    \/ InjectTake(h) \/ InjectPend(h) \/ InjectDone(h)

SseSupervisor(h) ==
    \/ \E id \in EventIds :
         \/ SseRegister(h, id) \/ SseUnregister(h, id) \/ SseEnable(h, id) \/ SseDisable(h, id)
         \/ \E prio \in Prios : SetPrio(h, id, prio)
         \/ \E oneshot \in BOOLEAN : SetOneshot(h, id, oneshot)
         \/ \E t \in scenario.targets : SetPreferredHart(h, id, t) \/ SseInject(h, id, t)
    \/ SseComplete(h)
    \/ \E on \in BOOLEAN : SseMask(h, on)
-----------------------------------------------------------------------------
\* An event in a state from ENABLED on is in the list of its hart, as the comment
\* on struct sse_hart_state says.
EnabledIsListed ==
    \A e \in SseEvents : Enabled(e) => Contains(enabled_events[event[e].hartid], e)

\* sse_event_resume restores the context that the handler which is completed has
\* interrupted: it is the innermost one, and nobody has injected the event
\* anew in between.
RestoresInterrupted ==
    \A h \in Harts : pc[h] = "sse_resume" =>
       LET e == local[h].sse
       IN  /\ running[h] # <<>> /\ Last(running[h]) = e
           /\ event[e].interrupted = <<h, Front(running[h])>>

\* The supervisor does not run on while an event waits that it could handle at
\* once, unless an interrupt for it is on its way: sse_event_set_pending and
\* sse_event_enable run on one hart, the injection on another.
ReadyIsSignalled ==
    \A h \in Harts :
       pc[h] = "S" /\ ~masked[h] /\ Stops(h) # {} /\ Ready(enabled_events[h][First(Stops(h))], h)
       => \/ "sse" \in ipi_type[h]
          \/ \E i \in Harts : pc[i] = "send" /\ local[i].event = "sse" /\ h \in local[i].mask
=============================================================================
