------------------------------- MODULE Pstree --------------------------------
(***************************************************************************)
(* os2025/pstree/pstree.c: /proc is scanned while processes come and go,   *)
(* the nodes are linked through the hash table and the tree of process 1 is *)
(* printed.  The kernel, which is not part of the repository, forks and      *)
(* ends processes and lists /proc in the order of the pids.                  *)
(***************************************************************************)
EXTENDS Integers, Sequences, Functions

CONSTANTS N,                \* pids are 1..N
          HASH_TABLE_SIZE,
          Options,          \* first arguments used
          OddNames,         \* pids of processes with a ')' in their name
          MaxChanges        \* bound on what the kernel does during the scan

ASSUME NAssumption == N \in Nat \ {0} /\ HASH_TABLE_SIZE \in Nat \ {0} /\ MaxChanges \in Nat
ASSUME OddAssumption == OddNames \subseteq 2..N
ASSUME OptionAssumption == Options \subseteq {"none", "-n", "--numeric-sort"}

Pids == 1..N
None == -1

VARIABLES
    par,      \* the kernel: the parent of each process, None if there is none
    changes,  \* how often the kernel has changed par
    stable,   \* the processes that are as they were when the scan began
    option,   \* argv[1]
    pc,       \* "scan", "link", "print", "done"
    cursor,   \* readdir goes on after this pid
    entry,    \* the pid readdir has returned, None before it is asked again
    node,     \* the ProcessNodes: the recorded ppid of each pid, or None
    buckets,  \* the pids in each bucket of the hash table
    unlinked, \* what the linking loop has still to visit of each bucket
    children, \* the list children/sibling of each node
    frames,   \* the activations of print_node: the siblings left in each
    printed   \* the pids printed

kernel == <<par, changes, stable>>
vars == <<kernel, option, pc, cursor, entry, node, buckets, unlinked, children, frames, printed>>

\* The members of S that come from root through parents in S.
Below(root, S, parent) ==
    {p \in S : \A T \in SUBSET S :
        root \in T /\ (\A q \in S : parent[q] \in T => q \in T) => p \in T}

\* The process tables: everything descends from process 1.
Alive(f) == {p \in Pids : f[p] # None}
Trees == {f \in [Pids -> Pids \cup {0, None}] :
            /\ f[1] = 0 /\ \A p \in Pids \ {1} : f[p] # 0
            /\ Below(1, Alive(f), f) = Alive(f)}

Init ==
    /\ par \in Trees
    /\ changes = 0
    /\ stable = Alive(par)
    /\ option \in Options
    /\ pc = "scan" /\ cursor = 0 /\ entry = None
    /\ node = [p \in Pids |-> None]
    /\ buckets = [i \in 0..(HASH_TABLE_SIZE - 1) |-> <<>>]
    /\ unlinked = buckets
    /\ children = [p \in Pids |-> <<>>]
    /\ frames = <<>> /\ printed = <<>>

-----------------------------------------------------------------------------
(* The kernel, during the scan. *)

Fork(p, q) ==
    /\ pc = "scan" /\ changes < MaxChanges
    /\ par[p] # None /\ par[q] = None
    /\ par' = [par EXCEPT ![q] = p]
    /\ changes' = changes + 1
    /\ UNCHANGED <<stable, option, pc, cursor, entry, node, buckets, unlinked, children, frames,
                   printed>>

\* A process ends and is reaped; process 1 adopts its children.
Exit(p) ==
    /\ pc = "scan" /\ changes < MaxChanges
    /\ p # 1 /\ par[p] # None
    /\ par' = [q \in Pids |-> IF q = p THEN None ELSE IF par[q] = p THEN 1 ELSE par[q]]
    /\ changes' = changes + 1
    /\ stable' = {q \in stable : q # p /\ par[q] # p}
    /\ UNCHANGED <<option, pc, cursor, entry, node, buckets, unlinked, children, frames, printed>>

-----------------------------------------------------------------------------
(* main: the scan *)

\* readdir returns the next process that is there, or the scan is over.
ReadDir ==
    LET ahead == {p \in Pids : p > cursor /\ par[p] # None}
    IN  /\ pc = "scan" /\ entry = None
        /\ IF ahead # {}
           THEN /\ entry' = CHOOSE p \in ahead : \A q \in ahead : p <= q
                /\ cursor' = entry'
                /\ UNCHANGED <<pc, unlinked>>
           ELSE /\ pc' = "link"
                /\ unlinked' = buckets
                /\ UNCHANGED <<cursor, entry>>
        /\ UNCHANGED <<kernel, option, node, buckets, children, frames, printed>>

hash_table_insert(p) == [buckets EXCEPT ![p % HASH_TABLE_SIZE] = <<p>> \o @]

\* Mutant: only the first node of the bucket is compared.
lookup_first(p) == LET b == buckets[p % HASH_TABLE_SIZE] IN b # <<>> /\ b[1] = p
hash_table_lookup(p) ==
    LET b == buckets[p % HASH_TABLE_SIZE] IN \E k \in DOMAIN b : b[k] = p

\* The ppid that is read from the text of /proc/p/stat: after the first ')',
\* which is part of the name of an odd process, any number may stand.  Names
\* have no newline.
ParsedPpid(p) == IF p \in OddNames THEN Pids \cup {0} ELSE {par[p]}

\* read_process_info for the entry, which may have ended since, and its node.
ReadInfo ==
    /\ pc = "scan" /\ entry # None
    /\ IF par[entry] = None
       THEN UNCHANGED <<node, buckets>>
       ELSE /\ \E ppid \in ParsedPpid(entry) : node' = [node EXCEPT ![entry] = ppid]
            /\ buckets' = hash_table_insert(entry)
    /\ entry' = None
    /\ UNCHANGED <<kernel, option, pc, cursor, unlinked, children, frames, printed>>

-----------------------------------------------------------------------------
(* main: the links and the output *)

Busy == {i \in DOMAIN unlinked : unlinked[i] # <<>>}

\* Mutant: a process without a parent in the table goes to process 1.
LinkOrphans ==
    /\ pc = "link" /\ Busy # {}
    /\ LET i == CHOOSE i \in Busy : \A j \in Busy : i <= j
           p == Head(unlinked[i])
           parent == IF hash_table_lookup(node[p]) THEN node[p] ELSE 1
       IN  /\ unlinked' = [unlinked EXCEPT ![i] = Tail(@)]
           /\ children' = IF node[p] # 0 THEN [children EXCEPT ![parent] = <<p>> \o @]
                          ELSE children
    /\ UNCHANGED <<kernel, option, pc, cursor, entry, node, buckets, frames, printed>>

\* One hash node: its process becomes the first child of its parent, if the
\* table has one; the message about a missing parent changes nothing.
Link ==
    /\ pc = "link" /\ Busy # {}
    /\ LET i == CHOOSE i \in Busy : \A j \in Busy : i <= j
           p == Head(unlinked[i])
       IN  /\ unlinked' = [unlinked EXCEPT ![i] = Tail(@)]
           /\ children' = IF node[p] # 0 /\ hash_table_lookup(node[p])
                          THEN [children EXCEPT ![node[p]] = <<p>> \o @]
                          ELSE children
    /\ UNCHANGED <<kernel, option, pc, cursor, entry, node, buckets, frames, printed>>

\* qsort with compare_pid: the arrangement of the list by pid.
Arrangements(l) == {[i \in DOMAIN l |-> l[f[i]]] : f \in Bijection(DOMAIN l, DOMAIN l)}
qsort(l) == CHOOSE s \in Arrangements(l) : \A i, j \in DOMAIN l : i < j => s[i] <= s[j]

\* The order of the loop over children: as linked, or by sort_children.
sorted == option = "-n"
Ordered(p) == IF sorted THEN qsort(children[p]) ELSE children[p]

\* print_process_tree prints process 1 if it is in the table.
PrintRoot ==
    /\ pc = "link" /\ Busy = {}
    /\ IF hash_table_lookup(1)
       THEN /\ pc' = "print"
            /\ printed' = <<1>>
            /\ frames' = <<Ordered(1)>>
       ELSE /\ pc' = "done"
            /\ UNCHANGED <<printed, frames>>
    /\ UNCHANGED <<kernel, option, cursor, entry, node, buckets, unlinked, children>>

\* Mutant: the loop does not go on to the next sibling.
PrintNodeStays ==
    /\ pc = "print" /\ frames # <<>> /\ Head(frames) # <<>>
    /\ Len(printed) < N + 2
    /\ LET child == Head(Head(frames))
       IN  /\ printed' = Append(printed, child)
           /\ frames' = <<Ordered(child)>> \o frames
    /\ UNCHANGED <<kernel, option, pc, cursor, entry, node, buckets, unlinked, children>>

\* print_node(child): the line of the child, then the loop over its children.
PrintNode ==
    /\ pc = "print" /\ frames # <<>> /\ Head(frames) # <<>>
    /\ LET child == Head(Head(frames))
       IN  /\ printed' = Append(printed, child)
           /\ frames' = <<Ordered(child), Tail(Head(frames))>> \o Tail(frames)
    /\ UNCHANGED <<kernel, option, pc, cursor, entry, node, buckets, unlinked, children>>

\* Mutant: print_node does not return at the end of its list.
PrintReturnNot ==
    /\ pc = "print" /\ frames # <<>> /\ Head(frames) = <<>>
    /\ UNCHANGED vars

\* print_node returns.
PrintReturn ==
    /\ pc = "print" /\ frames # <<>> /\ Head(frames) = <<>>
    /\ frames' = Tail(frames)
    /\ UNCHANGED <<kernel, option, pc, cursor, entry, node, buckets, unlinked, children, printed>>

\* free_resources frees what nobody looks at any more, and main returns.
Finish ==
    /\ pc = "print" /\ frames = <<>>
    /\ pc' = "done"
    /\ UNCHANGED <<kernel, option, cursor, entry, node, buckets, unlinked, children, frames,
                   printed>>

Done == pc = "done" /\ UNCHANGED vars

Program == ReadDir \/ ReadInfo \/ Link \/ PrintRoot \/ PrintNode \/ PrintReturn \/ Finish

Next == Program \/ Done \/ (\E p, q \in Pids : Fork(p, q)) \/ (\E p \in Pids : Exit(p))

\* The program is one sequential process, which the kernel keeps running.
Spec == Init /\ [][Next]_vars /\ WF_vars(Program)

-----------------------------------------------------------------------------
TypeOK ==
    /\ par \in [Pids -> Pids \cup {0, None}]
    /\ changes \in 0..MaxChanges
    /\ stable \subseteq Pids
    /\ option \in Options
    /\ pc \in {"scan", "link", "print", "done"}
    /\ cursor \in 0..N /\ entry \in Pids \cup {None}
    /\ node \in [Pids -> Pids \cup {0, None}]
    /\ buckets \in [0..(HASH_TABLE_SIZE - 1) -> Seq(Pids)]
    /\ unlinked \in [0..(HASH_TABLE_SIZE - 1) -> Seq(Pids)]
    /\ children \in [Pids -> Seq(Pids)]
    /\ frames \in Seq(Seq(Pids)) /\ printed \in Seq(Pids)

\* No process is printed twice.  The scan is no snapshot: a pid may be read,
\* lose its parent and see that parent's pid come back as its own child, so
\* the recorded parents may form a cycle.
PrintedOnce == IsInjective(printed)

Recorded == {p \in Pids : node[p] # None}

\* Exactly the recorded processes that descend from process 1 are printed,
\* whatever the order in which the buckets were linked.
TreeComplete == pc = "done" =>
    Range(printed) = Below(1, Recorded, node)

\* A process that was there all along, with all its ancestors, and whose names
\* are not odd, is printed: the processes that come and go during the scan and
\* those that are linked to the wrong parent hide no other.
StablePrinted == pc = "done" =>
    Below(1, stable \ OddNames, par) \subseteq Range(printed)

\* The program ends, also when the recorded parents form a cycle.
Terminates == <>(pc = "done")
=============================================================================
