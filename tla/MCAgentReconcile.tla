------------------------- MODULE MCAgentReconcile -------------------------
(* Small instances of AgentReconcile: one or two entries. *)
EXTENDS AgentReconcile, TLC

Grant(budget) == [phase |-> "PendingApply", action |-> "apply", assigned |-> budget]
Refuse(action) == [phase |-> "Failed", action |-> action, assigned |-> 0]

Two == <<"a", "b">>

\* One entry, whose budget changes or that is throttled.
Resized == [plans |-> {Grant(1), Grant(2), Refuse("throttle")}, listKeys |-> TRUE,
            early |-> {"a"}, late |-> {"a"}, moving |-> {}, maxEdits |-> 1, maxFailures |-> 2]

\* One entry that is evicted, while its pods start and end.
Evicted == [plans |-> {Grant(1), Refuse("evict")}, listKeys |-> TRUE,
            early |-> {"a"}, late |-> {"a"}, moving |-> {"a"}, maxEdits |-> 1, maxFailures |-> 1]

\* Two entries, their reports accepted.
NamedApart == [plans |-> {Grant(1), Refuse("throttle")}, listKeys |-> FALSE,
               early |-> {"a", "b"}, late |-> {"a", "b"}, moving |-> {},
               maxEdits |-> 1, maxFailures |-> 1]

AgentSettings == [resized |-> Resized, evicted |-> Evicted, apart |-> NamedApart]

\* One entry, and a second one that comes later.
Second(plans, moving, max) ==
  [second |-> [plans |-> plans, listKeys |-> TRUE, early |-> {"a"}, late |-> {"b"},
    moving |-> moving, maxEdits |-> max, maxFailures |-> 0]]

FirstStatusSettings == Second({Grant(1), Grant(2)}, {}, 2)
LedgerReleasedSettings == Second({Grant(1), Refuse("evict")}, {"a"}, 1)
TwoEntriesSettings == Second({Grant(1)}, {}, 1)
=============================================================================
