----------------------------- MODULE MCMosaicOS -----------------------------
(***************************************************************************)
(* MosaicOS for TLC.  An application, chosen at the start, uses either the *)
(* process and character device calls, with up to three threads and a heap *)
(* of two values, or the block device calls together with spawn and sched,  *)
(* so that two threads write blocks.                                        *)
(***************************************************************************)
EXTENDS MosaicOS

ThreadOps == {"spawn", "fork", "sched", "choose", "choose from nothing", "write"}
StorageOps == {"spawn", "sched", "bread", "bwrite", "sync", "crash"}
AllOps == ThreadOps \cup StorageOps

VARIABLE app   \* the calls the application uses
mcVars == <<vars, app>>

MCInit == Init /\ app \in {ThreadOps, StorageOps} /\ (app = StorageOps => heaps = <<0>>)

\* What the application does until its next call.
Runs ==
    /\ UNCHANGED app
    /\ threads'[current'].ctx \in app \cup {"dead"}
    /\ app = StorageOps => /\ threads'[current'].ctx = "spawn" => Len(threads') < 2
                           /\ \A h \in DOMAIN heaps' : heaps'[h] = 0

MCNext ==
    \/ (Boot /\ Runs) \/ (SysSpawn /\ Runs) \/ (SysFork /\ Runs) \/ (SysSched /\ Runs)
    \/ (SysChoose /\ Runs) \/ (SysWrite /\ Runs)
    \/ (SysBread /\ Runs) \/ (SysBwrite /\ Runs) \/ (SysSync /\ Runs) \/ (SysCrash /\ Runs)
    \/ (Terminated /\ UNCHANGED app)

MCSpec == MCInit /\ [][MCNext]_mcVars
=============================================================================
