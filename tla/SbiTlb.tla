------------------------------- MODULE SbiTlb -------------------------------
(***************************************************************************)
(* Remote fences of OpenSBI (course2/opensbi/lib/sbi/sbi_tlb.c, called from *)
(* sbi_ecall_rfence.c): a request is put into the ring buffer of every      *)
(* target hart, where it may be merged with one that waits there, the       *)
(* targets are interrupted, and the caller waits for its counter tlb_sync   *)
(* to come back to zero, emptying its own buffer in the meantime.           *)
(*                                                                         *)
(* Addresses are numbers below Word, with the arithmetic of unsigned long. *)
(***************************************************************************)
EXTENDS SbiHart, SbiFifo

CONSTANTS Word, PageSize,  \* size of the address space and of a page
          FlushLimit,      \* tlb_range_flush_limit
          FifoSize         \* sbi_platform_tlb_fifo_num_entries

ASSUME TlbAssumption ==
    /\ Word \in Nat /\ PageSize \in 1..Word /\ Word % PageSize = 0 /\ FifoSize \in Nat \ {0}

FLUSH_ALL == Word - 1   \* SBI_TLB_FLUSH_ALL
Types == {"fence_i", "sfence_vma", "sfence_vma_asid", "hfence"}
Asids == {0, 1}
NoEntry == [type |-> "none", asid |-> 0, start |-> 0, size |-> 0, smask |-> {}]

VARIABLES
    fifo,      \* tlb_fifo
    tlb_sync,  \* tlb_sync
    hand,      \* the entry a hart has taken from its buffer, flushed but not
               \* yet reported to its sources
    request,   \* the request a hart is sending
    need       \* what its call still has to flush: <<hart, translation>>
tlbVars == <<fifo, tlb_sync, hand, request, need>>

-----------------------------------------------------------------------------
Pages == 0..(Word \div PageSize - 1)

\* The loop of the local fences.
RangePages(r) ==
    IF (r.start = 0 /\ r.size = 0) \/ r.size = FLUSH_ALL
    THEN Pages
    ELSE {((r.start + i * PageSize) % Word) \div PageSize :
            i \in {j \in 0..Word : j * PageSize < r.size}}

\* tlb_entry_local_process: the translations that are gone afterwards.
Flushed(r) ==
    CASE r.type = "fence_i"         -> {<<"icache", 0, 0>>}
      [] r.type = "sfence_vma"      -> {"vma"} \X Asids \X RangePages(r)
      [] r.type = "sfence_vma_asid" -> {"vma"} \X {r.asid} \X RangePages(r)
      [] r.type = "hfence"          -> {"gvma"} \X {0} \X RangePages(r)

\* tlb_update_cb lets tlb_range_check compare entries of one address space.
SameSpace(curr, next_) ==
    /\ next_.type = curr.type
    /\ \/ next_.type = "sfence_vma"
       \/ next_.type = "sfence_vma_asid" /\ next_.asid = curr.asid

\* Mutant of Skips: the ends are not compared.
SkipsByStart(curr, next_) == next_.start >= curr.start

\* tlb_range_check.
End(r) == (r.start + r.size) % Word
Updates(curr, next_) == next_.start <= curr.start /\ End(next_) > End(curr)
Skips(curr, next_) == next_.start >= curr.start /\ End(next_) <= End(curr)

\* The waiting entry after the callback: the wider range, all the sources.
Merged(curr, next_) ==
    LET wide == IF Updates(curr, next_) THEN next_ ELSE curr
    IN  [curr EXCEPT !.start = wide.start, !.size = wide.size,
                     !.smask = curr.smask \cup next_.smask]

\* The entries of buffer f that the callback would not leave unchanged.
Mergeable(f, r) ==
    {i \in 0..(f.avail - 1) : LET curr == fifo_entry(f, i)
                              IN  SameSpace(curr, r) /\ (Updates(curr, r) \/ Skips(curr, r))}

-----------------------------------------------------------------------------
TlbInit ==
    /\ fifo = [h \in Harts |-> fifo_init(FifoSize, NoEntry)]
    /\ tlb_sync = [h \in Harts |-> 0]
    /\ hand = [h \in Harts |-> NoEntry]
    /\ request = [h \in Harts |-> NoEntry]
    /\ need = [h \in Harts |-> {}]

\* Hart h has flushed f.
NeedAfter(h, f) == [i \in Harts |-> need[i] \ ({h} \X f)]

\* sbi_tlb_request: a large range becomes a full flush.
Limited(r) == IF r.size > FlushLimit THEN [r EXCEPT !.start = 0, !.size = FLUSH_ALL] ELSE r

RemoteFence(h, r, hmask) ==
    LET entry == [type |-> r.type, asid |-> r.asid, start |-> Limited(r).start,
                  size |-> Limited(r).size, smask |-> {h}]
    IN  /\ Ecall(h, "rfence")
        /\ local' = Set(local, h, Sending("tlb", hmask))
        /\ request' = Set(request, h, entry)
        /\ need' = Set(need, h, (hmask \cap Interruptible) \X Flushed(entry))
        /\ Goto(h, "send")
        /\ UNCHANGED <<bootVars, hsmVars, ipiVars, at, asked, fifo, tlb_sync, hand>>

\* tlb_update for the hart itself: a local fence.
UpdateSelf(h) ==
    /\ pc[h] = "send" /\ local[h].event = "tlb"
    /\ local[h].mask # {} /\ Target(h) = h
    /\ need' = NeedAfter(h, Flushed(request[h]))
    /\ local' = Set(local, h, Sent(h))
    /\ UNCHANGED <<bootVars, left, hsmVars, ipiVars, pc, at, asked, fifo, tlb_sync, hand, request>>

\* tlb_update for another hart: sbi_fifo_inplace_update, ...
UpdateInplace(h) ==
    LET t   == Target(h)
        hit == Mergeable(fifo[t], request[h])
    IN  /\ pc[h] = "send" /\ local[h].event = "tlb"
        /\ local[h].mask # {} /\ t # h
        /\ IF hit = {}
           THEN Goto(h, "enqueue") /\ UNCHANGED fifo
           ELSE LET curr == fifo_entry(fifo[t], First(hit))
                IN  /\ fifo' = Set(fifo, t, fifo_replace(fifo[t], First(hit),
                                                         Merged(curr, request[h])))
                    /\ Goto(h, "add")
        /\ UNCHANGED <<bootVars, left, hsmVars, ipiVars, local, at, asked,
                       tlb_sync, hand, request, need>>

\* tlb_process_once: hart h takes an entry from its buffer, if there is one,
\* and flushes.
Take(h) ==
    /\ ~fifo_is_empty(fifo[h])
    /\ hand' = Set(hand, h, fifo_oldest(fifo[h]))
    /\ fifo' = Set(fifo, h, fifo_taken(fifo[h], NoEntry))
    /\ need' = NeedAfter(h, Flushed(fifo_oldest(fifo[h])))

\* ... and, when nothing was merged, sbi_fifo_enqueue.
UpdateEnqueue(h) ==
    LET t == Target(h)
    IN  /\ pc[h] = "enqueue" /\ ~fifo_is_full(fifo[t])
        /\ fifo' = Set(fifo, t, fifo_put(fifo[t], request[h]))
        /\ Goto(h, "add")
        /\ UNCHANGED <<bootVars, left, hsmVars, ipiVars, local, at, asked,
                       tlb_sync, hand, request, need>>

\* The buffer is full: an entry of the hart's own is processed, and the target
\* is tried again in the next round.
UpdateRetry(h) ==
    LET t == Target(h)
    IN  /\ pc[h] = "enqueue" /\ fifo_is_full(fifo[t])
        /\ local' = Set(local, h, [Sent(h) EXCEPT !.again = local[h].again \cup {t}])
        /\ Goto(h, "send")
        /\ \/ Take(h)
           \/ fifo_is_empty(fifo[h]) /\ UNCHANGED <<hand, fifo, need>>
        /\ UNCHANGED <<bootVars, left, hsmVars, ipiVars, at, asked, tlb_sync, request>>

\* The end of tlb_update: the target may have answered already.
UpdateAdd(h) ==
    /\ pc[h] = "add"
    /\ tlb_sync' = Set(tlb_sync, h, tlb_sync[h] + 1)
    /\ Goto(h, "post")
    /\ UNCHANGED <<bootVars, left, hsmVars, ipiVars, local, at, asked, fifo, hand, request, need>>

\* The end of tlb_entry_process: the sources are told.
EntryDone(h) ==
    /\ hand[h] # NoEntry
    /\ tlb_sync' = [i \in Harts |-> IF i \in hand[h].smask THEN tlb_sync[i] - 1 ELSE tlb_sync[i]]
    /\ hand' = Set(hand, h, NoEntry)
    /\ UNCHANGED <<hartVars, fifo, request, need>>

\* Mutant of SyncTake: the hart only waits.
SyncWaits(h) == pc[h] = "sync" /\ tlb_sync[h] > 0 /\ UNCHANGED <<hartVars, tlbVars>>

\* tlb_sync: a round of its loop ...
SyncTake(h) ==
    /\ pc[h] = "sync" /\ tlb_sync[h] > 0
    /\ Take(h)
    /\ UNCHANGED <<hartVars, tlb_sync, request>>

\* ... and its end.
SyncDone(h) ==
    /\ pc[h] = "sync" /\ tlb_sync[h] <= 0
    /\ Goto(h, "ret")
    /\ request' = Set(request, h, NoEntry)
    /\ need' = Set(need, h, {})
    /\ UNCHANGED <<bootVars, left, hsmVars, ipiVars, local, at, asked, fifo, tlb_sync, hand>>

\* tlb_process, for the event.
ProcessTake(h) ==
    /\ Processing(h, "tlb")
    /\ Take(h)
    /\ UNCHANGED <<hartVars, tlb_sync, request>>

ProcessTlbDone(h) ==
    /\ Processing(h, "tlb") /\ fifo_is_empty(fifo[h])
    /\ local' = Set(local, h, Processed(h, "tlb"))
    /\ UNCHANGED <<bootVars, left, hsmVars, ipiVars, pc, at, asked, tlbVars>>

\* sbi_tlb_init, in the boot of the hart.
InitTlb(h) ==
    /\ tlb_sync' = Set(tlb_sync, h, 0)
    /\ fifo' = Set(fifo, h, fifo_init(FifoSize, NoEntry))
    /\ UNCHANGED <<hand, request, need>>

\* Nothing has to be flushed any more on a hart that leaves the supervisor.
ExitTlb(h) ==
    /\ need' = [i \in Harts |-> {n \in need[i] : n[1] # h}]
    /\ UNCHANGED <<fifo, tlb_sync, hand, request>>

TlbMachine(h) ==
    \/ UpdateSelf(h) \/ UpdateInplace(h) \/ UpdateEnqueue(h) \/ UpdateRetry(h) \/ UpdateAdd(h)
    \/ SyncTake(h) \/ SyncDone(h) \/ ProcessTake(h) \/ ProcessTlbDone(h)

TlbSupervisor(h) ==
    \E r \in scenario.fences[h] : RemoteFence(h, r, scenario.targets)
-----------------------------------------------------------------------------
\* When the loop of tlb_sync ends, every translation the call asked to flush has
\* been flushed on every hart that was to be interrupted when it was made and has
\* not left the supervisor since; requests are merged and answered by others in
\* the meantime, and counted down before they are counted.
FenceComplete ==
    \A h \in Harts : pc[h] = "sync" /\ tlb_sync[h] <= 0 /\ hand[h] = NoEntry => need[h] = {}
=============================================================================
