----------------------------- MODULE Datastore -----------------------------
(***************************************************************************)
(* The two entity kinds the site keeps in Google Cloud Datastore and how   *)
(* database/database.go writes them: in batches, each one call of the      *)
(* datastore, giving up at the first batch that fails.  Reads of one call  *)
(* see one state of the datastore; no two calls share a transaction, so    *)
(* every handler is a process that takes one step per call.                *)
(***************************************************************************)
EXTENDS DomainState, Naturals, FiniteSets

CONSTANTS Domains,      \* domain names
          BatchSize,    \* entities written by one datastore call (450)
          MaxFailures   \* bound: failed datastore calls and handlers cut short

ASSUME DatastoreAssumption == /\ Domains # {}
                              /\ IsFiniteSet(Domains)
                              /\ BatchSize \in Nat \ {0}
                              /\ MaxFailures \in Nat

VARIABLES states,       \* states[d]: the DomainState entity of d
          ineligible,   \* ineligible[d]: the IneligibleDomainState entity of d
          failures      \* failed calls and handlers cut short so far

(***************************************************************************)
(* An IneligibleDomainState keeps the failed scans of a domain.  Only      *)
(* whether there are two, and the times of the first and the last one, are *)
(* ever looked at; scans = 2 stands for two or more and scans = 0 for no   *)
(* entity.                                                                 *)
(***************************************************************************)
NoScans == [scans |-> 0, first |-> 0, last |-> 0]

IneligibleStates == [scans : 0..2, first : Nat, last : Nat]

AppendScan(r, time) == IF r.scans = 0
                         THEN [scans |-> 1, first |-> time, last |-> time]
                         ELSE [scans |-> 2, first |-> r.first, last |-> time]

\* What the next datastore call writes of the set D still to be written.  The
\* order of the updates is the list's or a Go map's: any.
Batches(D) == {B \in SUBSET D : \/ B = D /\ Cardinality(D) <= BatchSize
                                \/ Cardinality(B) = BatchSize}

\* PutMulti of new[d] for the domains d of B: whatever is stored is replaced.
PutStates(B, new) == states' = [d \in Domains |-> IF d \in B THEN new[d] ELSE states[d]]

PutIneligible(B, new) ==
    ineligible' = [d \in Domains |-> IF d \in B THEN new[d] ELSE ineligible[d]]

DeleteIneligible(B) == PutIneligible(B, [d \in Domains |-> NoScans])

\* A datastore call returns an error, or the instance running the handler dies.
Fail == failures < MaxFailures /\ failures' = failures + 1

DatastoreTypeOK == /\ states \in [Domains -> DomainStates]
                   /\ ineligible \in [Domains -> IneligibleStates]
                   /\ failures \in 0..MaxFailures

\* A database with nothing in it but decisions of the days when a maintainer
\* could still reject a domain.
DatastoreInit ==
    /\ states \in [Domains -> {UnknownState, [UnknownState EXCEPT !.status = "rejected"]}]
    /\ ineligible = [d \in Domains |-> NoScans]
    /\ failures = 0
=============================================================================
