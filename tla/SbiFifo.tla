------------------------------- MODULE SbiFifo -------------------------------
(***************************************************************************)
(* The ring buffer of OpenSBI (course2/opensbi/lib/sbi/sbi_fifo.c).  Every *)
(* operation runs under the buffer's spinlock, so an operator gives the    *)
(* buffer after it.  A buffer is [queue, num_entries, avail, tail]: tail is *)
(* the index of the oldest of the avail entries.                            *)
(***************************************************************************)
EXTENDS Integers

\* sbi_fifo_init, and the state after sbi_fifo_reset; zero is a cleared entry.
fifo_init(entries, zero) ==
    [queue |-> [i \in 0..(entries - 1) |-> zero], num_entries |-> entries,
     avail |-> 0, tail |-> 0]

fifo_is_full(f) == f.avail = f.num_entries
fifo_is_empty(f) == f.avail = 0

\* The index of the entry after i older ones.
Index(f, i) == IF f.tail + i >= f.num_entries THEN f.tail + i - f.num_entries ELSE f.tail + i

\* __sbi_fifo_enqueue.
fifo_put(f, data) ==
    [f EXCEPT !.queue = [f.queue EXCEPT ![Index(f, f.avail)] = data], !.avail = f.avail + 1]

\* __sbi_fifo_dequeue: the entry it copies out, and the buffer afterwards.  The
\* slot is cleared, as nothing reads it before it is written again.
fifo_oldest(f) == f.queue[f.tail]
fifo_taken(f, zero) ==
    [f EXCEPT !.queue = [f.queue EXCEPT ![f.tail] = zero], !.avail = f.avail - 1,
              !.tail = IF f.tail + 1 >= f.num_entries THEN 0 ELSE f.tail + 1]

\* sbi_fifo_inplace_update stops at the oldest entry for which the callback
\* does something, and changes it there.
fifo_entry(f, i) == f.queue[Index(f, i)]
fifo_replace(f, i, data) == [f EXCEPT !.queue = [f.queue EXCEPT ![Index(f, i)] = data]]
=============================================================================
