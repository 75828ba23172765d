---------------------------- MODULE UserRequests ----------------------------
(***************************************************************************)
(* Submit and Remove (api/domain_handlers.go), the two handlers a site     *)
(* owner can change a domain's state with.  Each checks the domain against *)
(* the live site, reads the domain's state, decides, and writes a whole    *)
(* new state: three steps, between which any other handler may run.  The   *)
(* checks are those of the hstspreload library and depend on the site: any *)
(* outcome.  A request that fails its check is answered at once and        *)
(* changes nothing, so only those that pass are modelled.                  *)
(***************************************************************************)
EXTENDS Datastore

CONSTANTS Clients,      \* concurrent requests
          MaxRequests   \* bound: requests that pass their check

ASSUME UserRequestsAssumption == MaxRequests \in Nat

VARIABLES requests,     \* requests[c]: the handler serving c
          served,       \* requests that passed their check so far
          vetted        \* history: the checks each domain has passed

requestVars == <<requests, served, vetted>>

Idle == [pc     |-> "idle",
         op     |-> "submit",
         domain |-> CHOOSE d \in Domains : TRUE,
         state  |-> UnknownState]

Requests == [pc     : {"idle", "read", "put"},
             op     : {"submit", "remove"},
             domain : Domains,
             state  : DomainStates]

\* Mutant: the date of the state read is kept, as it is for a removal taken back.
SubmittedStateKeepingDate(s) ==
    IF s.status \in {"unknown", "rejected", "removed"}
    THEN [status |-> "pending", includeSubDomains |-> TRUE,
          policy |-> "", submissionDate |-> s.submissionDate]
    ELSE [status |-> "preloaded", includeSubDomains |-> TRUE,
          policy |-> "", submissionDate |-> s.submissionDate]

\* The state Submit stores for a domain it read as s.
SubmittedState(s) ==
    IF s.status \in {"unknown", "rejected", "removed"}
    THEN [status |-> "pending", includeSubDomains |-> TRUE,
          policy |-> "", submissionDate |-> "submission"]
    ELSE [status |-> "preloaded", includeSubDomains |-> TRUE,
          policy |-> "", submissionDate |-> s.submissionDate]

\* The states in which Submit stores anything at all.
CanSubmit(s) == s.status \notin {"pending", "preloaded"}

\* The state Remove stores.
RemovalState == [status |-> "pending-removal", includeSubDomains |-> FALSE,
                 policy |-> "", submissionDate |-> "removal request"]

\* The states in which Remove stores it.  An automated removal under way is
\* answered with an internal error.
CanRemove(s) == s.status \in {"pending", "preloaded"} /\ ~IsProtected(s)

\* PreloadableDomain or RemovableDomain finds no errors.
CheckSite(c, op, d) ==
    /\ requests[c].pc = "idle"
    /\ served < MaxRequests
    /\ served' = served + 1
    /\ requests' = [requests EXCEPT ![c] = [Idle EXCEPT !.pc = "read", !.op = op, !.domain = d]]
    /\ vetted' = [vetted EXCEPT ![d] = @ \cup {op}]
    /\ UNCHANGED <<states, ineligible, failures>>

\* StateForDomain, and the decision on its answer.
ReadState(c) ==
    LET r == requests[c]
        s == states[r.domain]
    IN  /\ r.pc = "read"
        /\ \/ /\ r.op = "submit" /\ CanSubmit(s)
              /\ requests' = [requests EXCEPT ![c].pc = "put", ![c].state = SubmittedState(s)]
           \/ /\ r.op = "remove" /\ CanRemove(s)
              /\ requests' = [requests EXCEPT ![c].pc = "put", ![c].state = RemovalState]
           \/ /\ IF r.op = "submit" THEN ~CanSubmit(s) ELSE ~CanRemove(s)
              /\ requests' = [requests EXCEPT ![c] = Idle]
        /\ UNCHANGED <<states, ineligible, failures, served, vetted>>

\* PutState: whatever has been stored since the read is overwritten.
PutState(c) ==
    /\ requests[c].pc = "put"
    /\ PutStates({requests[c].domain}, [d \in Domains |-> requests[c].state])
    /\ requests' = [requests EXCEPT ![c] = Idle]
    /\ UNCHANGED <<ineligible, failures, served, vetted>>

\* An error of the datastore, or the end of the instance: a write that was
\* reported as failed may still have been applied.
FailRequest(c) ==
    /\ requests[c].pc # "idle"
    /\ Fail
    /\ \/ UNCHANGED states
       \/ /\ requests[c].pc = "put"
          /\ PutStates({requests[c].domain}, [d \in Domains |-> requests[c].state])
    /\ requests' = [requests EXCEPT ![c] = Idle]
    /\ UNCHANGED <<ineligible, served, vetted>>

UserRequestsTypeOK == /\ requests \in [Clients -> Requests]
                      /\ served \in 0..MaxRequests
                      /\ vetted \in [Domains -> SUBSET {"submit", "remove"}]

UserRequestsInit == /\ requests = [c \in Clients |-> Idle]
                    /\ served = 0
                    /\ vetted = [d \in Domains |-> {}]

UserRequestsNext ==
    \E c \in Clients :
        \/ \E op \in {"submit", "remove"}, d \in Domains : CheckSite(c, op, d)
        \/ ReadState(c)
        \/ PutState(c)
        \/ FailRequest(c)
=============================================================================
