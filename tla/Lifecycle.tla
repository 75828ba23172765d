----------------------------- MODULE Lifecycle -----------------------------
(***************************************************************************)
(* What the site promises about the status of a domain: which statuses     *)
(* follow which, and at whose instance.  An owner's request moves its own  *)
(* domain in one step, if at all; Update and the weekly scans may move     *)
(* several domains in one step, as they write in batches.                  *)
(***************************************************************************)
EXTENDS DomainState

CONSTANT Domains

VARIABLES status,       \* status[d]: the status of d
          asked         \* requests not answered yet: <<"submit" or "remove", d>>

NotListed == {"unknown", "rejected", "removed"}

AwaitingRemoval == {"pending-removal", "pending-automated-removal"}

\* The domains of D go from a status of From to the status to.
Move(D, From, to) ==
    /\ \A d \in D : status[d] \in From
    /\ status' = [d \in Domains |-> IF d \in D THEN to ELSE status[d]]

Ask(op, d) == asked' = asked \cup {<<op, d>>} /\ UNCHANGED status

Answer(op, d) == <<op, d>> \in asked /\ asked' = asked \ {<<op, d>>}

\* A request is turned down, or comes to nothing.
Decline(op, d) == Answer(op, d) /\ UNCHANGED status

\* A submission queues a domain that is not on the list, or takes back a
\* removal that has not happened yet.
Submit(d) == /\ Answer("submit", d)
             /\ \/ Move({d}, NotListed, "pending")
                \/ Move({d}, AwaitingRemoval, "preloaded")

Remove(d) == Answer("remove", d) /\ Move({d}, {"pending", "preloaded"}, "pending-removal")

\* Repeated failed scans of domains the site has once listed.
AutomatedRemoval(D) ==
    /\ Move(D, Statuses \ {"unknown", "rejected"}, "pending-automated-removal")
    /\ UNCHANGED asked

\* Update finds some domains on the list that were not known to be on it, and
\* others gone from it.  A domain that awaits its removal keeps waiting.
Reconcile(added, gone) ==
    /\ \A d \in added : status[d] \in NotListed \cup {"pending"}
    /\ \A d \in gone : status[d] \in ListedStatuses
    /\ status' = [d \in Domains |-> IF d \in added THEN "preloaded"
                                    ELSE IF d \in gone THEN "removed" ELSE status[d]]
    /\ UNCHANGED asked

Init == status \in [Domains -> {"unknown", "rejected"}] /\ asked = {}

Next == \/ \E d \in Domains : \/ \E op \in {"submit", "remove"} : Ask(op, d) \/ Decline(op, d)
                              \/ Submit(d)
                              \/ Remove(d)
        \/ \E D \in SUBSET Domains : AutomatedRemoval(D)
        \/ \E added, gone \in SUBSET Domains : Reconcile(added, gone)

Spec == Init /\ [][Next]_<<status, asked>>
=============================================================================
