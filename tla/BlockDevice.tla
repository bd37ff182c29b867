----------------------------- MODULE BlockDevice -----------------------------
(***************************************************************************)
(* What the Mosaic operating system promises about its virtual block       *)
(* storage (course2/mosaic/mosaic.py, docstring of OperatingSystem): single *)
(* block writes are atomic, a read sees the latest write, sync makes every  *)
(* write durable, and a crash keeps, block by block, either the latest      *)
(* write or the value that was durable before it.                           *)
(*                                                                         *)
(* view[k] is what a read of block k returns, safe[k] what survives.        *)
(***************************************************************************)
CONSTANTS Keys,     \* block numbers
          Content   \* what a block can hold, "never written" included

VARIABLES view, safe

devVars == <<view, safe>>

TypeOK == /\ view \in [Keys -> Content]
          /\ safe \in [Keys -> Content]

Init == /\ view \in [Keys -> Content]
        /\ safe = view

Write(k, v) == /\ view' = [view EXCEPT ![k] = v]
               /\ UNCHANGED safe

Sync == /\ safe' = view
        /\ UNCHANGED view

\* The blocks in kept reach the disk before the crash, the others do not;
\* afterwards a read returns what is on the disk.
Crash(kept) == /\ safe' = [k \in Keys |-> IF k \in kept THEN view[k] ELSE safe[k]]
               /\ view' = safe'

Next == \/ \E k \in Keys, v \in Content : Write(k, v)
        \/ Sync
        \/ \E kept \in SUBSET Keys : Crash(kept)

Spec == Init /\ [][Next]_devVars
=============================================================================
