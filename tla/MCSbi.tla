------------------------------- MODULE MCSbi -------------------------------
(* Three harts; each scenario lets a few of the calls meet. *)
EXTENDS Sbi

MCAddrs(h) == {h + 1}

Fence(type, asid, start, size) == [type |-> type, asid |-> asid, start |-> start, size |-> size]

\* By default all harts but the last one run, there is no device, and the
\* events are enabled.
Scenario(c, a, b, d) ==
    [calls |-> c, left |-> [h \in Harts |-> CASE h = 0 -> a [] h = 1 -> b [] h = 2 -> d],
     targets |-> Harts, up |-> {0, 1}, dev |-> "none", awake |-> {},
     fences |-> [h \in Harts |-> {Fence("sfence_vma", 0, 2, 2)}],
     sse |-> [state |-> "ENABLED", pending |-> FALSE, masked |-> FALSE]]
Towards(t, s) == [s EXCEPT !.targets = t]
ColdBoot(s) == [s EXCEPT !.up = {}]
Secondary(s) == [s EXCEPT !.dev = "secondary"]
Hotplug(awake, s) == [s EXCEPT !.dev = "hotplug", !.awake = awake]
AllUp(s) == [s EXCEPT !.up = Harts]
Fresh(s) == [s EXCEPT !.sse = [state |-> "UNUSED", pending |-> FALSE, masked |-> TRUE]]
Disabled(s) == [s EXCEPT !.sse = [state |-> "REGISTERED", pending |-> TRUE, masked |-> FALSE]]

\* Harts 0 and 1 ask all three harts for a fence, one of f and one of g.
Fences(f, g) == [AllUp(Scenario({"rfence"}, 1, 1, 0)) EXCEPT
                   !.fences = [h \in Harts |-> IF h = 0 THEN f ELSE g]]

MCScenarios ==
    { ColdBoot(Scenario({"start", "rfence"}, 1, 1, 0)),
      Scenario({"start", "stop"}, 1, 1, 1),
      Hotplug({}, Scenario({"start", "stop"}, 1, 1, 1)),
      Hotplug({1}, Scenario({"start", "stop"}, 1, 1, 1)),
      Secondary(Scenario({"start", "stop"}, 1, 1, 1)),
      Scenario({"start", "stop", "sysuspend"}, 1, 1, 0),
      Scenario({"suspend", "ipi", "reset"}, 1, 1, 0),
      Fences({Fence("sfence_vma", 0, 2, 2)},
             {Fence("sfence_vma", 0, 2, 4), Fence("sfence_vma", 0, 4, 2)}),
      Fences({Fence("sfence_vma_asid", 1, 2, 2)}, {Fence("sfence_vma_asid", 1, 2, 6)}),
      Fences({Fence("hfence", 0, 2, 2)}, {Fence("fence_i", 0, 0, 0)}),
      Scenario({"rfence", "stop"}, 1, 1, 0),
      AllUp(Towards({1}, Scenario({"ipi", "stop", "start"}, 1, 1, 1))),
      Scenario({"rfence", "suspend"}, 1, 1, 0),
      Scenario({"rfence", "reset"}, 1, 1, 0),
      Towards({0}, Scenario({"inject", "complete"}, 3, 1, 0)),
      Towards({0}, Scenario({"inject", "disable", "mask"}, 2, 1, 0)),
      Towards({0}, Scenario({"inject", "stop", "start"}, 1, 2, 0)),
      Disabled(Scenario({"enable", "disable", "inject"}, 1, 1, 0)),
      Disabled(Scenario({"oneshot", "enable", "complete"}, 3, 1, 0)),
      Disabled(Scenario({"prefer", "prio", "unregister", "enable"}, 2, 1, 0)),
      Fresh(Scenario({"register", "enable", "unmask"}, 2, 1, 0)) }

\* A range from address 0 waits when a flush of everything, start and size zero,
\* is asked for.
FullFlushes == {Fences({Fence("sfence_vma", 0, 0, 2)}, {Fence("sfence_vma", 0, 0, 0)})}
=============================================================================
