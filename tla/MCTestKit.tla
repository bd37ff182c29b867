------------------------------ MODULE MCTestKit ------------------------------
(***************************************************************************)
(* Suites for TestKit.                                                      *)
(***************************************************************************)
EXTENDS TestKit

Unit(body, fini) == [sys |-> FALSE, init |-> "ok", main |-> "ok", body |-> body, fini |-> fini]
System(main, body, fini) == [sys |-> TRUE, init |-> "ok", main |-> main, body |-> body,
                             fini |-> fini]
BadInit(init) == [sys |-> TRUE, init |-> init, main |-> "ok", body |-> "ok", fini |-> "ok"]

\* Every way a case can end, each followed and preceded by another.
Kinds == {Unit(b, "ok") : b \in Outcomes} \cup {Unit("ok", x) : x \in {"none", "segv", "loop"}}
            \cup {System(x, "ok", "ok") : x \in Outcomes}
            \cup {System("ok", b, "none") : b \in Outcomes}
            \cup {BadInit(x) : x \in {"segv", "loop"}}
Pairs == {<<a, b>> : a \in Kinds, b \in Kinds} \cup {<<>>}

\* Suites that go on in the second piece of the table, and fill it.
Quick == Unit("ok", "none")
Long == {<<Quick, Quick, Unit("abort", "ok")>>, <<Quick, Quick, Quick, Quick>>}

\* Programs that fork: a system test, which the first piece holds with room to
\* spare, and pairs that fill it, so that cases may come twice.
Forkers == {<<System("ok", "ok", "none")>>, <<Unit("loop", "ok"), System("ok", "ok", "none")>>}

MCSuites == Pairs \cup Long \cup Forkers
=============================================================================
