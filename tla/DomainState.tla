---------------------------- MODULE DomainState ----------------------------
(***************************************************************************)
(* The values the site stores for a domain (database/domainstate.go) and   *)
(* the entries of the HSTS preload list they are compared with.  A domain  *)
(* name is the key under which a value is stored, so it is not a field.    *)
(* Message, a maintainer's free text, is left out.  A time is kept only as *)
(* far as the handlers tell times apart: never set, set by an accepted     *)
(* submission, set by an accepted removal request.                         *)
(***************************************************************************)

Statuses == {"unknown", "pending", "preloaded", "rejected", "removed",
             "pending-removal", "pending-automated-removal"}

\* The statuses of a domain that is on the list, ToEntry's condition.
ListedStatuses == {"preloaded", "pending-removal", "pending-automated-removal"}

BulkPolicies == {"bulk-18-weeks", "bulk-1-year", "bulk-legacy"}

Policies == BulkPolicies \cup {"", "custom"}

SubmissionDates == {"zero", "submission", "removal request"}

DomainStates == [status            : Statuses,
                 includeSubDomains : BOOLEAN,
                 policy            : Policies,
                 submissionDate    : SubmissionDates]

\* What StateForDomain answers when there is no entity for the domain.
UnknownState == [status |-> "unknown", includeSubDomains |-> FALSE,
                 policy |-> "", submissionDate |-> "zero"]

ForceHTTPS == "force-https"

\* An entry of the list.  Update skips an entry of another mode, so the mode
\* "" stands for such an entry and for no entry at all.
Entries == [mode : {ForceHTTPS, ""}, includeSubDomains : BOOLEAN, policy : Policies]

ToEntry(s) == [mode              |-> IF s.status \in ListedStatuses THEN ForceHTTPS ELSE "",
               includeSubDomains |-> s.includeSubDomains,
               policy            |-> s.policy]

\* Mutant: the wrong one of two strings.
EntryToDomainStateByMode(entry, status) ==
    [status            |-> entry.mode,
     includeSubDomains |-> entry.includeSubDomains,
     policy            |-> entry.policy,
     submissionDate    |-> "zero"]

EntryToDomainState(entry, status) ==
    [status            |-> status,
     includeSubDomains |-> entry.includeSubDomains,
     policy            |-> entry.policy,
     submissionDate    |-> "zero"]

IsBulk(s) == s.policy \in BulkPolicies

IsProtected(s) == s.status # "pending" /\ ~IsBulk(s)
=============================================================================
