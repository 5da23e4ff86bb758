------------------------ MODULE MCAllocationLedger ------------------------
(* Small instances of AllocationLedger: two or three pods. *)
EXTENDS AllocationLedger, TLC

CONSTANTS p1, p2, p3

\* team/web-1, team/web-2 and team/web-3
OneTeam == [p \in Pods |-> <<"team">>]
WebPods == [p \in Pods |-> <<"web", (p1 :> "1" @@ p2 :> "2" @@ p3 :> "3")[p]>>]

=============================================================================
