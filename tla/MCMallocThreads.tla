-------------------------- MODULE MCMallocThreads --------------------------
(***************************************************************************)
(* Programs for a table of three slots: no thread, two, three (the limit)  *)
(* and four (one too many), most of which call mymalloc.                    *)
(***************************************************************************)
EXTENDS MallocThreads

F == {"main", "T_malloc", "other"}
Spawning == {<<>>, <<"T_malloc", "other">>, <<"T_malloc", "T_malloc", "T_malloc">>,
             <<"T_malloc", "other", "T_malloc", "other">>}
=============================================================================
