---------------------------- MODULE ScanResults ----------------------------
(***************************************************************************)
(* What RemoveIneligibleDomains relies on from its pool of workers: when   *)
(* the loop over the results ends, every domain to scan has exactly one    *)
(* verdict.  This is what the action Scan of RemoveIneligible does in one  *)
(* step.                                                                   *)
(***************************************************************************)
CONSTANTS PolicyStates,  \* the domains to scan
          Verdicts       \* what a scan may find

VARIABLE results         \* results[d]: the verdicts on d; none before the end

NoResults == [d \in PolicyStates |-> <<>>]

Init == results = NoResults

Collect == /\ results = NoResults
           /\ results' \in [PolicyStates -> {<<v>> : v \in Verdicts}]

Spec == Init /\ [][Collect]_results
=============================================================================
