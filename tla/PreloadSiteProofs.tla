------------------------- MODULE PreloadSiteProofs -------------------------
(***************************************************************************)
(* Proofs about PreloadSite, for every set of domains, requests, runs of   *)
(* Update, ranges and bounds.                                              *)
(***************************************************************************)
EXTENDS PreloadSite, TLAPS

-----------------------------------------------------------------------------
(* The values a handler starts from and what the datastore is left with.   *)

USE DEF Statuses, ListedStatuses

\* A state with nothing in it is a state, its entry an entry.
LEMMA UnknownStateType == UnknownState \in DomainStates /\ ToEntry(UnknownState) \in Entries
  BY DEF UnknownState, DomainStates, Policies, BulkPolicies, SubmissionDates,
         ToEntry, Entries, ForceHTTPS

\* No request, no run: values of the right kind.
LEMMA IdleTypes == /\ Idle \in Requests
                   /\ NotRunning \in Updates
                   /\ \A t \in Nat : Finished(t) \in Runs
  BY UnknownStateType, DatastoreAssumption
  DEF Idle, Requests, NotRunning, Updates, Finished, Runs, NoScans, IneligibleStates

\* Writing states, whole or in part, leaves states.
LEMMA PutStatesType ==
  ASSUME states \in [Domains -> DomainStates],
         NEW B, NEW new, \A d \in B \cap Domains : new[d] \in DomainStates,
         PutStates(B, new)
  PROVE  states' \in [Domains -> DomainStates]
  BY DEF PutStates

\* Writing the entities of failed scans leaves such entities.
LEMMA PutIneligibleType ==
  ASSUME ineligible \in [Domains -> IneligibleStates],
         NEW B, NEW new, \A d \in B \cap Domains : new[d] \in IneligibleStates,
         PutIneligible(B, new)
  PROVE  ineligible' \in [Domains -> IneligibleStates]
  BY DEF PutIneligible

\* Deleting them too.
LEMMA DeleteIneligibleType ==
  ASSUME ineligible \in [Domains -> IneligibleStates],
         NEW B, DeleteIneligible(B)
  PROVE  ineligible' \in [Domains -> IneligibleStates]
  BY DEF DeleteIneligible, PutIneligible, NoScans, IneligibleStates

\* What Submit, Remove and Update store are states.
LEMMA WrittenTypes ==
  ASSUME NEW s \in DomainStates
  PROVE  /\ SubmittedState(s) \in DomainStates
         /\ RemovalState \in DomainStates
         /\ [s EXCEPT !.status = "pending-automated-removal"] \in DomainStates
         /\ \A entry \in Entries : Reconciled(entry, s) \in DomainStates
  BY DEF SubmittedState, RemovalState, Reconciled, EntryToDomainState, Entries,
         DomainStates, Policies, BulkPolicies, SubmissionDates

\* A failed call is counted and the bound kept.
LEMMA FailType == failures \in 0..MaxFailures /\ Fail => failures' \in 0..MaxFailures
  BY DatastoreAssumption DEF Fail
-----------------------------------------------------------------------------
(* Type correctness: one lemma per component, one step per action.         *)

\* The steps of Submit and Remove keep the types.
LEMMA RequestsKeepType ==
  ASSUME TypeOK, UserRequestsNext, UNCHANGED <<updateVars, scanVars>>
  PROVE  TypeOK'
<1> USE DEF TypeOK, DatastoreTypeOK, UserRequestsTypeOK, UpdateJobTypeOK,
            RemoveIneligibleTypeOK, updateVars, scanVars
<1>1. PICK c \in Clients :
        \/ \E op \in {"submit", "remove"}, d \in Domains : CheckSite(c, op, d)
        \/ ReadState(c)
        \/ PutState(c)
        \/ FailRequest(c)
  BY DEF UserRequestsNext
<1>2. requests[c] \in Requests /\ requests[c].domain \in Domains
      /\ requests[c].state \in DomainStates
  BY DEF Requests
<1>3. CASE \E op \in {"submit", "remove"}, d \in Domains : CheckSite(c, op, d)
  <2>1. PICK op \in {"submit", "remove"}, d \in Domains : CheckSite(c, op, d)
    BY <1>3
  <2>2. [Idle EXCEPT !.pc = "read", !.op = op, !.domain = d] \in Requests
    BY IdleTypes DEF Requests
  <2> QED
    BY <2>1, <2>2, UserRequestsAssumption DEF CheckSite
<1>4. CASE ReadState(c)
  <2>1. states[requests[c].domain] \in DomainStates
    BY <1>2
  <2>2. \A s \in DomainStates :
           [requests[c] EXCEPT !.pc = "put", !.state = s] \in Requests
    BY <1>2 DEF Requests
  <2>3. \/ requests' = [requests EXCEPT ![c].pc = "put",
                                       ![c].state = SubmittedState(states[requests[c].domain])]
        \/ requests' = [requests EXCEPT ![c].pc = "put", ![c].state = RemovalState]
        \/ requests' = [requests EXCEPT ![c] = Idle]
    BY <1>4 DEF ReadState
  <2>4. requests' \in [Clients -> Requests]
    BY <2>1, <2>2, <2>3, WrittenTypes, IdleTypes
  <2> QED
    BY <1>4, <2>4 DEF ReadState
<1>5. CASE PutState(c)
  <2>1. states' \in [Domains -> DomainStates]
    BY <1>2, <1>5, PutStatesType DEF PutState
  <2> QED
    BY <1>5, <2>1, IdleTypes DEF PutState
<1>6. CASE FailRequest(c)
  <2>1. states' \in [Domains -> DomainStates]
    BY <1>2, <1>6, PutStatesType DEF FailRequest
  <2>2. failures' \in 0..MaxFailures
    BY <1>6, FailType DEF FailRequest
  <2> QED
    BY <1>6, <2>1, <2>2, IdleTypes DEF FailRequest
<1> QED
  BY <1>1, <1>3, <1>4, <1>5, <1>6

\* The steps of Update and changes of the list keep the types.
LEMMA UpdatesKeepType ==
  ASSUME TypeOK, UpdateJobNext, UNCHANGED <<requestVars, scanVars>>
  PROVE  TypeOK'
<1> USE DEF TypeOK, DatastoreTypeOK, UserRequestsTypeOK, UpdateJobTypeOK,
            RemoveIneligibleTypeOK, requestVars, scanVars
<1>1. CASE \E d \in Domains : EditList(d)
  BY <1>1, UpdateJobAssumption DEF EditList
<1>2. CASE \E u \in Updaters : UpdateStep(u) \/ FailUpdate(u)
  <2>1. PICK u \in Updaters : UpdateStep(u) \/ FailUpdate(u)
    BY <1>2
  <2>2. /\ updates[u] \in Updates
        /\ updates[u].entries \in [Domains -> Entries]
        /\ updates[u].domainStates \in [Domains -> DomainStates]
        /\ updates[u].todo \subseteq Domains
    BY DEF Updates
  <2>3. \A status : WithStatus(updates[u].domainStates, status) \in [Domains -> DomainStates]
    BY <2>2 DEF WithStatus
  <2>4. CASE FetchList(u)
    <3>1. [updates[u] EXCEPT !.pc = "preloaded", !.entries = list] \in Updates
      BY <2>2 DEF Updates
    <3> QED
      BY <3>1, <2>4 DEF FetchList
  <2>5. CASE \/ Query(u, "preloaded", "pending-removal")
             \/ Query(u, "pending-removal", "pending-automated-removal")
    <3>1. \A status, next \in ListedStatuses :
             [updates[u] EXCEPT !.pc = next,
                                !.domainStates = WithStatus(@, status)] \in Updates
      BY <2>2, <2>3 DEF Updates
    <3> QED
      BY <3>1, <2>5 DEF Query
  <2>6. CASE QueryLast(u)
    <3> DEFINE entries == updates[u].entries
               found   == WithStatus(updates[u].domainStates, "pending-automated-removal")
               todo    == Changed(entries, found)
    <3>1. found \in [Domains -> DomainStates] /\ entries \in [Domains -> Entries]
      BY <2>2, <2>3
    <3>2. todo \subseteq Domains
      BY DEF Changed
    <3>3. [d \in Domains |-> IF d \in todo THEN Reconciled(entries[d], found[d])
                             ELSE UnknownState] \in [Domains -> DomainStates]
      BY <3>1, WrittenTypes, UnknownStateType
    <3>4. updates'[u] \in Updates
      BY <2>6, <3>1, <3>2, <3>3, IdleTypes DEF QueryLast, Updates
    <3> QED
      BY <2>6, <3>4 DEF QueryLast
  <2>7. CASE PutUpdates(u)
    <3>1. states' \in [Domains -> DomainStates]
      BY <2>2, <2>7, PutStatesType DEF PutUpdates
    <3>2. \A B : [updates[u] EXCEPT !.todo = @ \ B] \in Updates
      BY <2>2 DEF Updates
    <3>3. PICK B : updates' = [updates EXCEPT ![u] =
                      IF B = updates[u].todo THEN NotRunning
                      ELSE [updates[u] EXCEPT !.todo = @ \ B]]
      BY <2>7 DEF PutUpdates
    <3>4. updates' \in [Updaters -> Updates]
      BY <3>2, <3>3, IdleTypes
    <3> QED
      BY <2>7, <3>1, <3>4 DEF PutUpdates
  <2>8. CASE FailUpdate(u)
    <3>1. states' \in [Domains -> DomainStates]
      BY <2>2, <2>8, PutStatesType DEF FailUpdate
    <3>2. failures' \in 0..MaxFailures
      BY <2>8, FailType DEF FailUpdate
    <3> QED
      BY <2>8, <3>1, <3>2, IdleTypes DEF FailUpdate
  <2> QED
    BY <2>1, <2>4, <2>5, <2>6, <2>7, <2>8 DEF UpdateStep
<1> QED
  BY <1>1, <1>2 DEF UpdateJobNext

\* The steps of RemoveIneligibleDomains and the passing of time keep the types.
LEMMA RunsKeepType ==
  ASSUME TypeOK, RemoveIneligibleNext, UNCHANGED <<requestVars, updateVars>>
  PROVE  TypeOK'
<1> USE DEF TypeOK, DatastoreTypeOK, UserRequestsTypeOK, UpdateJobTypeOK,
            RemoveIneligibleTypeOK, requestVars, updateVars
<1>1. CASE Tick
  BY <1>1, RemoveIneligibleAssumption DEF Tick
<1>2. CASE \E s \in Shards : \/ GetDomains(s) \/ GetIneligible(s) \/ Scan(s)
                             \/ DeleteBatch(s) \/ SetBatch(s)
                             \/ GetPendingRemoval(s) \/ GetStates(s) \/ PutPendingRemoval(s)
                             \/ FailRun(s)
  <2>1. PICK s \in Shards : \/ GetDomains(s) \/ GetIneligible(s) \/ Scan(s)
                            \/ DeleteBatch(s) \/ SetBatch(s)
                            \/ GetPendingRemoval(s) \/ GetStates(s) \/ PutPendingRemoval(s)
                            \/ FailRun(s)
    BY <1>2
  <2>2. /\ now \in Nat
        /\ runs[s] \in Runs
        /\ runs[s].started \in Nat
        /\ runs[s].policyStates \subseteq Domains
        /\ runs[s].records \in [Domains -> IneligibleStates]
        /\ runs[s].deletes \subseteq Domains
        /\ runs[s].sets \subseteq Domains
        /\ runs[s].pendingRemoval \subseteq Domains
        /\ runs[s].domainStates \in [Domains -> DomainStates]
    BY RemoveIneligibleAssumption DEF Runs
  <2>3. Finished(runs[s].started) \in Runs
    BY <2>2, IdleTypes
  <2>4. CASE GetDomains(s)
    <3>1. \A D \in SUBSET Domains : [runs[s] EXCEPT !.pc = "getAll", !.started = now,
                                                    !.policyStates = D] \in Runs
      BY <2>2 DEF Runs
    <3>2. runs' \in [Shards -> Runs]
      BY <3>1, <2>4 DEF GetDomains, InRange
    <3> QED
      BY <2>4, <3>2 DEF GetDomains
  <2>5. CASE GetIneligible(s)
    <3> DEFINE records == RecordsInRange(s)
               deletes == {d \in Domains : records[d].scans > 0} \ runs[s].policyStates
    <3>1. records \in [Domains -> IneligibleStates]
      BY DEF RecordsInRange, NoScans, IneligibleStates
    <3>2. [runs[s] EXCEPT !.pc = "scan", !.records = records, !.deletes = deletes] \in Runs
      BY <2>2, <3>1 DEF Runs
    <3>3. runs' \in [Shards -> Runs]
      BY <3>2, <2>5 DEF GetIneligible
    <3> QED
      BY <2>5, <3>3 DEF GetIneligible
  <2>6. CASE Scan(s)
    <3>1. PICK passing \in SUBSET runs[s].policyStates :
            /\ runs' = [runs EXCEPT ![s] = Scanned(runs[s], passing)]
            /\ failedScans' = Logged(failedScans, runs[s].policyStates \ passing)
            /\ passedScans' = Logged(passedScans, passing)
      BY <2>6 DEF Scan
    <3>2. \A r \in IneligibleStates : AppendScan(r, now) \in IneligibleStates
      BY <2>2 DEF AppendScan, IneligibleStates
    <3>3. [d \in Domains |-> IF d \in runs[s].policyStates \ passing
                             THEN AppendScan(runs[s].records[d], now)
                             ELSE runs[s].records[d]] \in [Domains -> IneligibleStates]
      BY <2>2, <3>2
    <3>4. Scanned(runs[s], passing) \in Runs
      BY <2>2, <3>1, <3>3 DEF Runs, Forgiven, Scanned
    <3>5. /\ failedScans' \in [Domains -> SUBSET Nat]
          /\ passedScans' \in [Domains -> SUBSET Nat]
      BY <2>2, <3>1 DEF Logged
    <3> QED
      BY <2>6, <3>1, <3>4, <3>5 DEF Scan
  <2>7. CASE DeleteBatch(s)
    <3>1. ineligible' \in [Domains -> IneligibleStates]
      BY <2>7, DeleteIneligibleType DEF DeleteBatch
    <3>2. PICK B : runs' = [runs EXCEPT
                      ![s].deletes = @ \ B,
                      ![s].pc = IF B = runs[s].deletes THEN "set" ELSE @]
      BY <2>7 DEF DeleteBatch
    <3>3. \A pc \in {"set", runs[s].pc} :
             [runs[s] EXCEPT !.deletes = @ \ B, !.pc = pc] \in Runs
      BY <2>2 DEF Runs
    <3>4. runs' \in [Shards -> Runs]
      BY <3>2, <3>3
    <3> QED
      BY <2>7, <3>1, <3>4 DEF DeleteBatch
  <2>8. CASE SetBatch(s)
    <3>1. ineligible' \in [Domains -> IneligibleStates]
      BY <2>2, <2>8, PutIneligibleType DEF SetBatch
    <3>2. PICK B : runs' = [runs EXCEPT ![s] =
                      IF B = runs[s].sets
                      THEN [Finished(runs[s].started) EXCEPT !.pc = "getAllAgain"]
                      ELSE [runs[s] EXCEPT !.sets = @ \ B]]
      BY <2>8 DEF SetBatch
    <3>3. [runs[s] EXCEPT !.sets = @ \ B] \in Runs
      BY <2>2 DEF Runs
    <3>4. [Finished(runs[s].started) EXCEPT !.pc = "getAllAgain"] \in Runs
      BY <2>3 DEF Runs
    <3>5. runs' \in [Shards -> Runs]
      BY <3>2, <3>3, <3>4
    <3> QED
      BY <2>8, <3>1, <3>5 DEF SetBatch
  <2>9. CASE GetPendingRemoval(s)
    <3>1. \A D \in SUBSET Domains :
             [runs[s] EXCEPT !.pc = "getStates", !.pendingRemoval = D] \in Runs
      BY <2>2 DEF Runs
    <3>2. runs' \in [Shards -> Runs]
      BY <3>1, <2>9 DEF GetPendingRemoval
    <3> QED
      BY <2>9, <3>2 DEF GetPendingRemoval
  <2>10. CASE GetStates(s)
    <3> DEFINE marked == [d \in Domains |->
                            IF d \in runs[s].pendingRemoval
                            THEN [states[d] EXCEPT !.status = "pending-automated-removal"]
                            ELSE UnknownState]
    <3>1. marked \in [Domains -> DomainStates]
      BY WrittenTypes, UnknownStateType
    <3>2. [runs[s] EXCEPT !.pc = "put", !.domainStates = marked] \in Runs
      BY <2>2, <3>1 DEF Runs
    <3>3. \/ runs' = [runs EXCEPT ![s] = Finished(runs[s].started)]
          \/ runs' = [runs EXCEPT ![s] = [runs[s] EXCEPT !.pc = "put",
                                                        !.domainStates = marked]]
      BY <2>10 DEF GetStates
    <3>4. runs' \in [Shards -> Runs]
      BY <2>3, <3>2, <3>3
    <3> QED
      BY <2>10, <3>4 DEF GetStates
  <2>11. CASE PutPendingRemoval(s)
    <3>1. states' \in [Domains -> DomainStates]
      BY <2>2, <2>11, PutStatesType DEF PutPendingRemoval
    <3>2. PICK B : runs' = [runs EXCEPT ![s] =
                      IF B = runs[s].pendingRemoval THEN Finished(runs[s].started)
                      ELSE [runs[s] EXCEPT !.pendingRemoval = @ \ B]]
      BY <2>11 DEF PutPendingRemoval
    <3>3. [runs[s] EXCEPT !.pendingRemoval = @ \ B] \in Runs
      BY <2>2 DEF Runs
    <3>4. runs' \in [Shards -> Runs]
      BY <2>3, <3>2, <3>3
    <3> QED
      BY <2>11, <3>1, <3>4 DEF PutPendingRemoval
  <2>12. CASE FailRun(s)
    <3>1. states' \in [Domains -> DomainStates]
      BY <2>2, <2>12, PutStatesType DEF FailRun
    <3>2. ineligible' \in [Domains -> IneligibleStates]
      BY <2>2, <2>12, PutIneligibleType, DeleteIneligibleType DEF FailRun
    <3>3. failures' \in 0..MaxFailures
      BY <2>12, FailType DEF FailRun
    <3>4. passedScans' \in [Domains -> SUBSET Nat]
      BY <2>2, <2>12 DEF FailRun, Unlogged
    <3> QED
      BY <2>3, <2>12, <3>1, <3>2, <3>3, <3>4 DEF FailRun
  <2> QED
    BY <2>1, <2>4, <2>5, <2>6, <2>7, <2>8, <2>9, <2>10, <2>11, <2>12
<1> QED
  BY <1>1, <1>2 DEF RemoveIneligibleNext

\* The initial values are of the right kinds.
LEMMA InitType == Init => TypeOK
<1> SUFFICES ASSUME Init PROVE TypeOK
  OBVIOUS
<1>1. DatastoreTypeOK
  <2>1. [UnknownState EXCEPT !.status = "rejected"] \in DomainStates
    BY UnknownStateType DEF DomainStates
  <2>2. NoScans \in IneligibleStates
    BY DEF NoScans, IneligibleStates
  <2> QED
    BY <2>1, <2>2, UnknownStateType, DatastoreAssumption
    DEF Init, DatastoreInit, DatastoreTypeOK
<1>2. UserRequestsTypeOK
  BY IdleTypes, UserRequestsAssumption DEF Init, UserRequestsInit, UserRequestsTypeOK
<1>3. UpdateJobTypeOK
  BY IdleTypes, UpdateJobAssumption DEF Init, UpdateJobInit, UpdateJobTypeOK
<1>4. RemoveIneligibleTypeOK
  BY IdleTypes, RemoveIneligibleAssumption
  DEF Init, RemoveIneligibleInit, RemoveIneligibleTypeOK
<1> QED
  BY <1>1, <1>2, <1>3, <1>4 DEF TypeOK

\* Every step keeps the types.
LEMMA TypeKept == TypeOK /\ [Next]_vars => TypeOK'
<1>1. TypeOK /\ Next => TypeOK'
  BY RequestsKeepType, UpdatesKeepType, RunsKeepType DEF Next
<1>2. TypeOK /\ UNCHANGED vars => TypeOK'
  BY DEF TypeOK, DatastoreTypeOK, UserRequestsTypeOK, UpdateJobTypeOK,
         RemoveIneligibleTypeOK, vars, requestVars, updateVars, scanVars
<1> QED
  BY <1>1, <1>2

\* The variables hold values of the kinds the code gives them, for every
\* number of requests, runs, ranges and domains.
THEOREM TypeCorrect == Spec => []TypeOK
  BY InitType, TypeKept, PTL DEF Spec
-----------------------------------------------------------------------------
(* The inductive invariant.                                                *)

\* What an account rests on only grows: the checks passed, the failed scans,
\* the domains that have a state.
Grows == \A d \in Domains : /\ vetted[d] \subseteq vetted'[d]
                            /\ failedScans[d] \subseteq failedScans'[d]
                            /\ states[d].status # "unknown" => states'[d].status # "unknown"

\* Hence what was once accounted for stays so, however old it is.
LEMMA AccountsStay ==
  ASSUME Grows
  PROVE  /\ \A d \in Domains : \A s : Accounted(d, s) => Accounted(d, s)'
         /\ \A d \in Domains : \A r : Recorded(d, r) => Recorded(d, r)'
         /\ \A r : r.domain \in Domains /\ RequestAccounted(r) => RequestAccounted(r)'
         /\ \A job : UpdateAccounted(job) => UpdateAccounted(job)'
         /\ \A run : RunAccounted(run) => RunAccounted(run)'
<1>1. \A d \in Domains : Evidence(d) => Evidence(d)'
  BY DEF Grows, Evidence
<1>2. \A d \in Domains : \A s : Accounted(d, s) => Accounted(d, s)'
  BY <1>1 DEF Grows, Accounted
<1>3. \A d \in Domains : \A r : Recorded(d, r) => Recorded(d, r)'
  BY DEF Grows, Recorded
<1>4. \A r : r.domain \in Domains /\ RequestAccounted(r) => RequestAccounted(r)'
  BY <1>2 DEF Grows, RequestAccounted
<1>5. \A job : UpdateAccounted(job) => UpdateAccounted(job)'
  BY <1>2 DEF UpdateAccounted
<1>6. \A run : RunAccounted(run) => RunAccounted(run)'
  BY <1>1, <1>3 DEF RunAccounted, Grows
<1> QED
  BY <1>2, <1>3, <1>4, <1>5, <1>6

\* A step that grows the accounts and changes no entity but by states that are
\* accounted for, and no handler but to one that is, keeps the invariant.
LEMMA IInvKept ==
  ASSUME IInv, TypeOK', Grows,
         \A d \in Domains : \/ states'[d] = states[d]
                            \/ Accounted(d, states'[d]) /\ states'[d].status # "unknown",
         \A d \in Domains : ineligible'[d] = ineligible[d] \/ Recorded(d, ineligible[d])',
         \A c \in Clients : requests'[c] = requests[c] \/ RequestAccounted(requests[c])',
         \A u \in Updaters : updates'[u] = updates[u] \/ UpdateAccounted(updates[u])',
         \A s \in Shards : runs'[s] = runs[s] \/ RunAccounted(runs[s])',
         RunsStayInRange'
  PROVE  IInv'
<1>1. StatusIsAccountedFor'
  BY AccountsStay DEF IInv, StatusIsAccountedFor
<1>2. EntitiesAreAccountedFor'
  BY AccountsStay DEF IInv, EntitiesAreAccountedFor
<1>3. \A c \in Clients : requests[c].domain \in Domains
  BY DEF IInv, TypeOK, UserRequestsTypeOK, Requests
<1>4. HandlersAreAccountedFor'
  BY <1>3, AccountsStay DEF IInv, HandlersAreAccountedFor
<1> QED
  BY <1>1, <1>2, <1>4 DEF IInv

\* Nothing read, nothing to write: accounted for.
LEMMA EmptyAccounts == /\ \A d \in Domains : Accounted(d, UnknownState)
                       /\ \A d \in Domains : Recorded(d, NoScans)
                       /\ RequestAccounted(Idle)
                       /\ UpdateAccounted(NotRunning)
                       /\ \A t \in Nat : RunAccounted(Finished(t))
<1>1. \A d \in Domains : Accounted(d, UnknownState) /\ Recorded(d, NoScans)
  BY DEF Accounted, UnknownState, Recorded, NoScans
<1>2. RequestAccounted(Idle)
  BY DEF RequestAccounted, Idle
<1>3. UpdateAccounted(NotRunning)
  BY <1>1 DEF UpdateAccounted, NotRunning
<1>4. \A t \in Nat : RunAccounted(Finished(t))
  BY <1>1 DEF RunAccounted, Finished
<1> QED
  BY <1>1, <1>2, <1>3, <1>4

\* The steps of Submit and Remove keep the invariant.
LEMMA RequestsKeepIInv ==
  ASSUME IInv, UserRequestsNext, UNCHANGED <<updateVars, scanVars>>
  PROVE  IInv'
<1>1. PICK c \in Clients :
        \/ \E op \in {"submit", "remove"}, d \in Domains : CheckSite(c, op, d)
        \/ ReadState(c)
        \/ PutState(c)
        \/ FailRequest(c)
  BY DEF UserRequestsNext
<1>2. TypeOK /\ TypeOK'
  BY RequestsKeepType DEF IInv
<1>3. /\ requests \in [Clients -> Requests]
      /\ requests[c].domain \in Domains
      /\ states \in [Domains -> DomainStates]
      /\ vetted \in [Domains -> SUBSET {"submit", "remove"}]
  BY <1>2 DEF TypeOK, DatastoreTypeOK, UserRequestsTypeOK, Requests
<1>4. UNCHANGED <<updates, runs, failedScans>> /\ RunsStayInRange'
  BY DEF updateVars, scanVars, IInv, RunsStayInRange, InRange
<1>5. RequestAccounted(requests[c]) /\ Accounted(requests[c].domain, states[requests[c].domain])
  BY <1>3 DEF IInv, HandlersAreAccountedFor, StatusIsAccountedFor
<1>6. CASE \E op \in {"submit", "remove"}, d \in Domains : CheckSite(c, op, d)
  <2>1. PICK op \in {"submit", "remove"}, d \in Domains : CheckSite(c, op, d)
    BY <1>6
  <2>2. Grows
    BY <1>3, <1>4, <2>1 DEF Grows, CheckSite
  <2>3. \A b \in Clients : requests'[b] = requests[b] \/ RequestAccounted(requests[b])'
    <3>1. requests'[c] = [Idle EXCEPT !.pc = "read", !.op = op, !.domain = d]
      BY <1>3, <2>1 DEF CheckSite
    <3>2. op \in vetted'[d]
      BY <1>3, <2>1 DEF CheckSite
    <3>3. RequestAccounted(requests[c])'
      BY <3>1, <3>2 DEF RequestAccounted, Idle
    <3> QED
      BY <1>3, <2>1, <3>3 DEF CheckSite
  <2> QED
    BY <1>2, <1>4, <2>1, <2>2, <2>3, IInvKept DEF CheckSite
<1>7. CASE ReadState(c)
  <2> DEFINE s == states[requests[c].domain]
  <2>1. Grows
    BY <1>4, <1>7 DEF Grows, ReadState
  <2>2. RequestAccounted(requests[c])'
    <3>1. CASE requests'[c] = Idle
      BY <3>1, EmptyAccounts DEF RequestAccounted, Idle
    <3>2. CASE /\ requests[c].pc = "read" /\ requests[c].op = "submit" /\ CanSubmit(s)
               /\ requests'[c] = [requests[c] EXCEPT !.pc = "put", !.state = SubmittedState(s)]
      <4>1. "submit" \in vetted'[requests[c].domain]
        BY <1>5, <1>7, <3>2 DEF RequestAccounted, ReadState
      <4>2. /\ SubmittedState(s).status \in {"pending", "preloaded"}
            /\ SubmittedState(s).status = "pending"
               => SubmittedState(s).submissionDate = "submission"
        BY DEF SubmittedState
      <4>3. requests'[c].domain = requests[c].domain /\ requests'[c].op = "submit"
            /\ requests'[c].state = SubmittedState(s)
        BY <1>3, <3>2 DEF Requests
      <4> QED
        BY <4>1, <4>2, <4>3 DEF RequestAccounted, Accounted
    <3>3. CASE /\ requests[c].pc = "read" /\ requests[c].op = "remove"
               /\ requests'[c] = [requests[c] EXCEPT !.pc = "put", !.state = RemovalState]
      <4>1. "remove" \in vetted'[requests[c].domain]
        BY <1>5, <1>7, <3>3 DEF RequestAccounted, ReadState
      <4>2. requests'[c].domain = requests[c].domain /\ requests'[c].op = "remove"
            /\ requests'[c].state = RemovalState
        BY <1>3, <3>3 DEF Requests
      <4>3. RemovalState.status = "pending-removal"
        BY DEF RemovalState
      <4> QED
        BY <4>1, <4>2, <4>3 DEF RequestAccounted, Accounted
    <3> QED
      BY <1>3, <1>7, <3>1, <3>2, <3>3 DEF ReadState, Requests
  <2>3. \A b \in Clients : requests'[b] = requests[b] \/ RequestAccounted(requests[b])'
    BY <1>3, <1>7, <2>2 DEF ReadState
  <2> QED
    BY <1>2, <1>4, <1>7, <2>1, <2>3, IInvKept DEF ReadState
<1>8. CASE PutState(c) \/ FailRequest(c)
  <2>1. \A d \in Domains : \/ states'[d] = states[d]
                           \/ /\ requests[c].pc = "put"
                              /\ d = requests[c].domain /\ states'[d] = requests[c].state
    BY <1>3, <1>8 DEF PutState, FailRequest, PutStates
  <2>2. \A d \in Domains : \/ states'[d] = states[d]
                           \/ Accounted(d, states'[d]) /\ states'[d].status # "unknown"
    <3>1. requests[c].pc = "put" => /\ Accounted(requests[c].domain, requests[c].state)
                                    /\ requests[c].state.status # "unknown"
      BY <1>5 DEF RequestAccounted
    <3> QED
      BY <2>1, <3>1
  <2>3. UNCHANGED <<vetted, ineligible>> /\ requests' = [requests EXCEPT ![c] = Idle]
    BY <1>8 DEF PutState, FailRequest
  <2>4. Grows
    BY <1>4, <2>2, <2>3 DEF Grows
  <2>5. \A b \in Clients : requests'[b] = requests[b] \/ RequestAccounted(requests[b])'
    <3>1. requests'[c] = Idle
      BY <1>3, <2>3
    <3>2. RequestAccounted(requests[c])'
      BY <3>1 DEF RequestAccounted, Idle
    <3> QED
      BY <1>3, <2>3, <3>2
  <2> QED
    BY <1>2, <1>4, <2>2, <2>3, <2>4, <2>5, IInvKept
<1> QED
  BY <1>1, <1>6, <1>7, <1>8

\* What Update makes of a state it can account for it can account for.
LEMMA ReconciledAccounts ==
  ASSUME NEW d \in Domains, NEW entries \in [Domains -> Entries],
         NEW found \in [Domains -> DomainStates],
         Accounted(d, found[d]), d \in Changed(entries, found)
  PROVE  /\ Accounted(d, Reconciled(entries[d], found[d]))
         /\ Reconciled(entries[d], found[d]).status # "unknown"
<1> DEFINE s == found[d]
           new == Reconciled(entries[d], s)
<1>1. s \in DomainStates
  OBVIOUS
<1>2. \/ new.status \in {"preloaded", "removed"}
      \/ /\ s.status # "unknown"
         /\ new.status = s.status /\ new.submissionDate = s.submissionDate
  BY <1>1 DEF Reconciled, EntryToDomainState, Changed, DomainStates
<1>3. CASE new.status \in {"preloaded", "removed"}
  BY <1>3 DEF Accounted
<1>4. CASE /\ s.status # "unknown"
           /\ new.status = s.status /\ new.submissionDate = s.submissionDate
  BY <1>4 DEF Accounted
<1> QED
  BY <1>2, <1>3, <1>4

\* The steps of Update and changes of the list keep the invariant.
LEMMA UpdatesKeepIInv ==
  ASSUME IInv, UpdateJobNext, UNCHANGED <<requestVars, scanVars>>
  PROVE  IInv'
<1>1. TypeOK /\ TypeOK'
  BY UpdatesKeepType DEF IInv
<1>2. /\ states \in [Domains -> DomainStates]
      /\ updates \in [Updaters -> Updates]
  BY <1>1 DEF TypeOK, DatastoreTypeOK, UpdateJobTypeOK
<1>3. /\ UNCHANGED <<requests, vetted, runs, failedScans>>
      /\ RunsStayInRange'
  BY DEF requestVars, scanVars, IInv, RunsStayInRange, InRange
<1>4. CASE \E d \in Domains : EditList(d)
  <2>1. UNCHANGED <<states, ineligible, updates>>
    BY <1>4 DEF EditList
  <2>2. Grows
    BY <1>3, <2>1 DEF Grows
  <2> QED
    BY <1>1, <1>3, <2>1, <2>2, IInvKept
<1>5. CASE \E u \in Updaters : UpdateStep(u) \/ FailUpdate(u)
  <2>1. PICK u \in Updaters : UpdateStep(u) \/ FailUpdate(u)
    BY <1>5
  <2>2. /\ updates[u] \in Updates
        /\ updates[u].entries \in [Domains -> Entries]
        /\ updates[u].domainStates \in [Domains -> DomainStates]
        /\ updates[u].todo \subseteq Domains
    BY <1>2 DEF Updates
  <2>3. \A d \in Domains :
           /\ Accounted(d, updates[u].domainStates[d])
           /\ d \in updates[u].todo => updates[u].domainStates[d].status # "unknown"
    BY DEF IInv, HandlersAreAccountedFor, UpdateAccounted
  <2>4. \A status :
           LET found == WithStatus(updates[u].domainStates, status)
           IN  /\ found \in [Domains -> DomainStates]
               /\ \A d \in Domains : Accounted(d, found[d])
    BY <1>2, <2>2, <2>3 DEF WithStatus, IInv, StatusIsAccountedFor
  <2>5. CASE UNCHANGED <<states, ineligible>> /\ UpdateAccounted(updates'[u])
             /\ \A v \in Updaters \ {u} : updates'[v] = updates[v]
    <3>1. Grows
      BY <1>3, <2>5 DEF Grows
    <3>2. UpdateAccounted(updates[u])'
      BY <2>5, <3>1, AccountsStay DEF UpdateAccounted
    <3> QED
      BY <1>1, <1>3, <2>5, <3>1, <3>2, IInvKept
  <2>6. CASE FetchList(u)
    <3>1. updates'[u] = [updates[u] EXCEPT !.pc = "preloaded", !.entries = list]
      BY <1>2, <2>6 DEF FetchList
    <3>2. UpdateAccounted(updates'[u])
      BY <2>2, <2>3, <3>1 DEF UpdateAccounted, Updates
    <3> QED
      BY <1>2, <2>5, <2>6, <3>2 DEF FetchList
  <2>7. CASE \/ Query(u, "preloaded", "pending-removal")
             \/ Query(u, "pending-removal", "pending-automated-removal")
    <3>1. PICK status, next : Query(u, status, next) /\ status # "unknown"
      BY <2>7
    <3> DEFINE found == WithStatus(updates[u].domainStates, status)
    <3>2. updates'[u] = [updates[u] EXCEPT !.pc = next, !.domainStates = found]
      BY <1>2, <3>1 DEF Query
    <3>3. \A d \in Domains :
             updates[u].domainStates[d].status # "unknown" => found[d].status # "unknown"
      BY <3>1 DEF WithStatus
    <3>4. UpdateAccounted(updates'[u])
      BY <2>2, <2>3, <2>4, <3>2, <3>3 DEF UpdateAccounted, Updates
    <3> QED
      BY <1>2, <2>5, <3>1, <3>4 DEF Query
  <2>8. CASE QueryLast(u)
    <3> DEFINE entries == updates[u].entries
               found   == WithStatus(updates[u].domainStates, "pending-automated-removal")
               todo    == Changed(entries, found)
               new     == [d \in Domains |-> IF d \in todo THEN Reconciled(entries[d], found[d])
                                             ELSE UnknownState]
    <3>1. updates'[u] \in {NotRunning, [pc |-> "put", entries |-> entries, todo |-> todo,
                                        domainStates |-> new]}
      BY <1>2, <2>8 DEF QueryLast
    <3>2. /\ found \in [Domains -> DomainStates]
          /\ \A d \in Domains : Accounted(d, found[d])
      BY <2>4
    <3>3. \A d \in Domains : d \in todo => /\ Accounted(d, new[d])
                                          /\ new[d].status # "unknown"
      BY <2>2, <3>2, ReconciledAccounts
    <3>4. \A d \in Domains : Accounted(d, new[d])
      BY <3>3, EmptyAccounts
    <3>5. UpdateAccounted([pc |-> "put", entries |-> entries, todo |-> todo,
                           domainStates |-> new])
      BY <3>3, <3>4 DEF UpdateAccounted
    <3>6. UpdateAccounted(updates'[u])
      BY <3>1, <3>5, EmptyAccounts
    <3> QED
      BY <1>2, <2>5, <2>8, <3>6 DEF QueryLast
  <2>9. CASE PutUpdates(u) \/ FailUpdate(u)
    <3>1. PICK B \in SUBSET updates[u].todo :
             PutStates(B, updates[u].domainStates) \/ UNCHANGED states
      BY <2>9 DEF PutUpdates, FailUpdate, Batches
    <3>2. \A d \in Domains :
             \/ states'[d] = states[d]
             \/ Accounted(d, states'[d]) /\ states'[d].status # "unknown"
      BY <1>2, <2>3, <3>1 DEF PutStates
    <3>3. UNCHANGED ineligible
      BY <2>9 DEF PutUpdates, FailUpdate
    <3>4. Grows
      BY <1>3, <3>2 DEF Grows
    <3>5. \A v \in Updaters : updates'[v] = updates[v] \/ UpdateAccounted(updates'[v])
      <4>1. PICK D : updates' \in {[updates EXCEPT ![u] = NotRunning],
                                  [updates EXCEPT ![u] = [updates[u] EXCEPT !.todo = @ \ D]]}
        BY <2>9 DEF PutUpdates, FailUpdate
      <4>2. UpdateAccounted([updates[u] EXCEPT !.todo = @ \ D])
        BY <2>2, <2>3 DEF UpdateAccounted, Updates
      <4> QED
        BY <1>2, <4>1, <4>2, EmptyAccounts
    <3>6. \A v \in Updaters : updates'[v] = updates[v] \/ UpdateAccounted(updates[v])'
      BY <3>4, <3>5, AccountsStay DEF UpdateAccounted
    <3> QED
      BY <1>1, <1>3, <3>2, <3>3, <3>4, <3>6, IInvKept
  <2> QED
    BY <2>1, <2>6, <2>7, <2>8, <2>9 DEF UpdateStep
<1> QED
  BY <1>4, <1>5 DEF UpdateJobNext

\* One more failed scan, recorded.
LEMMA AppendScanIsRecorded ==
  ASSUME NEW d \in Domains, NEW r \in IneligibleStates, Recorded(d, r),
         NEW time, time \in failedScans'[d], failedScans[d] \subseteq failedScans'[d],
         states'[d].status # "unknown"
  PROVE  Recorded(d, AppendScan(r, time))'
<1>1. r.scans \in 0..2
  BY DEF IneligibleStates
<1>2. CASE r.scans = 0
  BY <1>2 DEF AppendScan, Recorded
<1>3. CASE r.scans > 0
  BY <1>3 DEF AppendScan, Recorded
<1> QED
  BY <1>1, <1>2, <1>3

\* The steps of RemoveIneligibleDomains and the passing of time keep the
\* invariant.
LEMMA RunsKeepIInv ==
  ASSUME IInv, RemoveIneligibleNext, UNCHANGED <<requestVars, updateVars>>
  PROVE  IInv'
<1>1. TypeOK /\ TypeOK'
  BY RunsKeepType DEF IInv
<1>2. /\ states \in [Domains -> DomainStates]
      /\ ineligible \in [Domains -> IneligibleStates]
      /\ runs \in [Shards -> Runs]
      /\ failedScans \in [Domains -> SUBSET Nat]
      /\ now \in Nat
  BY <1>1, RemoveIneligibleAssumption
  DEF TypeOK, DatastoreTypeOK, RemoveIneligibleTypeOK
<1>3. UNCHANGED <<requests, vetted, updates>>
  BY DEF requestVars, updateVars
<1>4. CASE Tick
  <2>1. UNCHANGED <<states, ineligible, runs, failedScans>>
    BY <1>4 DEF Tick
  <2>2. Grows /\ RunsStayInRange'
    BY <1>3, <2>1 DEF Grows, IInv, RunsStayInRange, InRange
  <2> QED
    BY <1>1, <1>3, <2>1, <2>2, IInvKept
<1>5. CASE \E s \in Shards : \/ GetDomains(s) \/ GetIneligible(s) \/ Scan(s)
                             \/ DeleteBatch(s) \/ SetBatch(s)
                             \/ GetPendingRemoval(s) \/ GetStates(s) \/ PutPendingRemoval(s)
                             \/ FailRun(s)
  <2>1. PICK s \in Shards : \/ GetDomains(s) \/ GetIneligible(s) \/ Scan(s)
                            \/ DeleteBatch(s) \/ SetBatch(s)
                            \/ GetPendingRemoval(s) \/ GetStates(s) \/ PutPendingRemoval(s)
                            \/ FailRun(s)
    BY <1>5
  <2> DEFINE run == runs[s]
             InOwnRange(r) == r.policyStates \cup r.deletes \cup r.sets \subseteq InRange(s)
  <2>2. /\ run \in Runs
        /\ run.started \in Nat
        /\ run.policyStates \subseteq Domains
        /\ run.records \in [Domains -> IneligibleStates]
        /\ run.sets \subseteq Domains
        /\ run.deletes \subseteq Domains
        /\ run.pendingRemoval \subseteq Domains
    BY <1>2 DEF Runs
  <2>3. RunAccounted(run) /\ InOwnRange(run)
    BY DEF IInv, HandlersAreAccountedFor, RunsStayInRange
  <2>4. EntitiesAreAccountedFor
    BY DEF IInv
  <2>5. ASSUME Grows, RunAccounted(runs[s])', InOwnRange(runs'[s]),
               \A t \in Shards \ {s} : runs'[t] = runs[t],
               \A d \in Domains : \/ states'[d] = states[d]
                                  \/ Accounted(d, states'[d]) /\ states'[d].status # "unknown",
               \A d \in Domains : ineligible'[d] = ineligible[d] \/ Recorded(d, ineligible[d])'
        PROVE  IInv'
    <3>1. RunsStayInRange'
      BY <2>5 DEF IInv, RunsStayInRange, InRange
    <3> QED
      BY <1>1, <1>3, <2>5, <3>1, IInvKept
  <2>6. \A t \in Nat : RunAccounted(Finished(t))' /\ InOwnRange(Finished(t))
    <3>1. \A d \in Domains : Recorded(d, NoScans)'
      BY DEF Recorded, NoScans
    <3> QED
      BY <3>1 DEF RunAccounted, Finished
  <2>7. CASE GetDomains(s)
    <3> DEFINE D == {d \in InRange(s) : states[d].policy \in {"bulk-18-weeks", "bulk-1-year"}}
    <3>1. runs'[s] = [run EXCEPT !.pc = "getAll", !.started = now, !.policyStates = D]
      BY <1>2, <2>7 DEF GetDomains
    <3>2. D \subseteq InRange(s) /\ \A d \in D : states[d].status # "unknown"
      BY <2>4 DEF EntitiesAreAccountedFor, InRange
    <3>3. Grows
      BY <1>3, <2>7 DEF Grows, GetDomains
    <3>4. RunAccounted(runs'[s])
      BY <2>2, <2>3, <3>1, <3>2 DEF RunAccounted, Runs
    <3>5. RunAccounted(runs[s])'
      BY <3>3, <3>4, AccountsStay DEF RunAccounted
    <3>6. InOwnRange(runs'[s])
      BY <2>2, <2>3, <3>1, <3>2 DEF Runs
    <3> QED
      BY <1>2, <2>5, <2>7, <3>3, <3>5, <3>6 DEF GetDomains
  <2>8. CASE GetIneligible(s)
    <3> DEFINE records == RecordsInRange(s)
               D == {d \in Domains : records[d].scans > 0} \ run.policyStates
    <3>1. runs'[s] = [run EXCEPT !.pc = "scan", !.records = records, !.deletes = D]
      BY <1>2, <2>8 DEF GetIneligible
    <3>2. \A d \in Domains : Recorded(d, records[d])
      BY <2>4, EmptyAccounts DEF EntitiesAreAccountedFor, RecordsInRange
    <3>3. D \subseteq InRange(s)
      BY DEF RecordsInRange, NoScans
    <3>4. Grows
      BY <1>3, <2>8 DEF Grows, GetIneligible
    <3>5. RunAccounted(runs'[s])
      BY <2>2, <2>3, <3>1, <3>2 DEF RunAccounted, Runs
    <3>6. RunAccounted(runs[s])'
      BY <3>4, <3>5, AccountsStay DEF RunAccounted
    <3>7. InOwnRange(runs'[s])
      BY <2>2, <2>3, <3>1, <3>3 DEF Runs
    <3> QED
      BY <1>2, <2>5, <2>8, <3>4, <3>6, <3>7 DEF GetIneligible
  <2>9. CASE Scan(s)
    <3>1. PICK passing \in SUBSET run.policyStates :
            /\ runs' = [runs EXCEPT ![s] = Scanned(run, passing)]
            /\ failedScans' = Logged(failedScans, run.policyStates \ passing)
      BY <2>9 DEF Scan
    <3> DEFINE failing == run.policyStates \ passing
               records == [d \in Domains |-> IF d \in failing THEN AppendScan(run.records[d], now)
                                             ELSE run.records[d]]
    <3>2. /\ runs'[s].pc = "delete" /\ runs'[s].policyStates = {} /\ runs'[s].sets = failing
          /\ runs'[s].records = records
          /\ runs'[s].deletes = run.deletes \cup Forgiven(run.records, passing)
          /\ runs'[s].pendingRemoval = run.pendingRemoval
      BY <1>2, <2>2, <3>1 DEF Scanned, Runs
    <3>3. \A d \in Domains : /\ failedScans[d] \subseteq failedScans'[d]
                             /\ d \in failing => now \in failedScans'[d]
      BY <1>2, <3>1 DEF Logged
    <3>4. UNCHANGED <<states, ineligible>> /\ Grows
      BY <1>3, <2>9, <3>3 DEF Grows, Scan
    <3>5. \A d \in Domains : d \in failing => states'[d].status # "unknown"
      BY <2>3, <3>4 DEF RunAccounted
    <3>6. \A d \in Domains : Recorded(d, run.records[d])
      BY <2>3 DEF RunAccounted
    <3>7. ASSUME NEW d \in Domains, NEW r, r = records[d]
          PROVE  Recorded(d, r)'
      <4>1. CASE d \in failing
        <5>1. PICK old, time : old = run.records[d] /\ time = now
          OBVIOUS
        <5>2. Recorded(d, AppendScan(old, time))'
          BY <2>2, <3>3, <3>5, <3>6, <4>1, <5>1, AppendScanIsRecorded
        <5>3. r = AppendScan(old, time)
          BY <3>7, <4>1, <5>1
        <5> QED
          BY <5>2, <5>3
      <4>2. CASE d \notin failing
        BY <3>3, <3>4, <3>6, <3>7, <4>2 DEF Recorded
      <4> QED
        BY <4>1, <4>2
    <3>8. \A d \in Domains : d \in run.pendingRemoval => Evidence(d)'
      BY <2>3, <3>3 DEF RunAccounted, Evidence
    <3>9. RunAccounted(runs[s])'
      BY <3>2, <3>5, <3>7, <3>8 DEF RunAccounted, Recorded
    <3>10. InOwnRange(runs'[s])
      BY <2>3, <3>2 DEF Forgiven
    <3> QED
      BY <1>2, <2>5, <3>1, <3>4, <3>9, <3>10
  <2>10. CASE DeleteBatch(s) \/ SetBatch(s)
    <3>1. PICK B \in SUBSET Domains : \/ DeleteIneligible(B)
                                     \/ PutIneligible(B, run.records)
      BY <2>2, <2>10 DEF DeleteBatch, SetBatch, Batches
    <3>2. UNCHANGED <<states, failedScans>> /\ Grows
      BY <1>3, <2>10 DEF Grows, DeleteBatch, SetBatch
    <3>3. \A d \in Domains : ineligible'[d] = ineligible[d] \/ Recorded(d, ineligible[d])'
      <4>1. \A d \in Domains : ineligible'[d] \in {ineligible[d], NoScans, run.records[d]}
        BY <1>2, <3>1 DEF DeleteIneligible, PutIneligible
      <4>2. \A d \in Domains : Recorded(d, run.records[d]) /\ Recorded(d, NoScans)
        BY <2>3, EmptyAccounts DEF RunAccounted
      <4> QED
        BY <3>2, <4>1, <4>2 DEF Recorded
    <3>4. PICK D :
            \/ runs' = [runs EXCEPT ![s].deletes = @ \ D,
                                    ![s].pc = IF D = run.deletes THEN "set" ELSE @]
               /\ run.pc = "delete"
            \/ runs' = [runs EXCEPT ![s] =
                          IF D = run.sets
                          THEN [Finished(run.started) EXCEPT !.pc = "getAllAgain"]
                          ELSE [run EXCEPT !.sets = @ \ D]]
      BY <2>10 DEF DeleteBatch, SetBatch
    <3>5. RunAccounted(runs'[s]) /\ InOwnRange(runs'[s])
      <4>1. \A pc \in {"set", "delete"} :
              LET new == [run EXCEPT !.deletes = @ \ D, !.pc = pc]
              IN  RunAccounted(new) /\ InOwnRange(new)
        BY <2>2, <2>3 DEF RunAccounted, Runs
      <4>2. /\ RunAccounted([run EXCEPT !.sets = @ \ D])
            /\ InOwnRange([run EXCEPT !.sets = @ \ D])
        BY <2>2, <2>3 DEF RunAccounted, Runs
      <4>3. /\ RunAccounted([Finished(run.started) EXCEPT !.pc = "getAllAgain"])
            /\ InOwnRange([Finished(run.started) EXCEPT !.pc = "getAllAgain"])
        BY EmptyAccounts DEF RunAccounted, Finished, Recorded, NoScans
      <4> QED
        BY <1>2, <3>4, <4>1, <4>2, <4>3
    <3>6. RunAccounted(runs[s])'
      BY <3>2, <3>5, AccountsStay DEF RunAccounted
    <3>7. \A t \in Shards \ {s} : runs'[t] = runs[t]
      BY <1>2, <3>4
    <3> QED
      BY <2>5, <3>2, <3>3, <3>5, <3>6, <3>7
  <2>11. CASE GetPendingRemoval(s)
    <3> DEFINE D == {d \in Domains : ShouldRemove(ineligible[d])}
    <3>1. runs'[s] = [run EXCEPT !.pc = "getStates", !.pendingRemoval = D]
      BY <1>2, <2>11 DEF GetPendingRemoval
    <3>2. ASSUME NEW d \in D
          PROVE  Evidence(d)
      <4>1. /\ ineligible[d].scans = 2
            /\ ineligible[d].last - ineligible[d].first > RemovalAge
        BY DEF ShouldRemove
      <4>2. {ineligible[d].first, ineligible[d].last} \subseteq failedScans[d]
        <5>1. ineligible[d].scans > 0 /\ d \in Domains
          BY <4>1
        <5> QED
          BY <2>4, <5>1 DEF EntitiesAreAccountedFor, Recorded
      <4> QED
        BY <4>1, <4>2 DEF Evidence
    <3>3. Grows
      BY <1>3, <2>11 DEF Grows, GetPendingRemoval
    <3>4. RunAccounted(runs'[s])
      BY <2>2, <2>3, <3>1, <3>2 DEF RunAccounted, Runs
    <3>5. RunAccounted(runs[s])'
      BY <3>3, <3>4, AccountsStay DEF RunAccounted
    <3>6. InOwnRange(runs'[s])
      BY <2>2, <2>3, <3>1 DEF Runs
    <3> QED
      BY <1>2, <2>5, <2>11, <3>3, <3>5, <3>6 DEF GetPendingRemoval
  <2>12. CASE GetStates(s)
    <3> DEFINE marked == [d \in Domains |->
                            IF d \in run.pendingRemoval
                            THEN [states[d] EXCEPT !.status = "pending-automated-removal"]
                            ELSE UnknownState]
    <3>1. \/ runs'[s] = Finished(run.started)
          \/ runs'[s] = [run EXCEPT !.pc = "put", !.domainStates = marked]
      BY <1>2, <2>12 DEF GetStates
    <3>2. \A d \in Domains :
             d \in run.pendingRemoval => marked[d].status = "pending-automated-removal"
      BY <1>2 DEF DomainStates
    <3>3. Grows
      BY <1>3, <2>12 DEF Grows, GetStates
    <3>4. RunAccounted([run EXCEPT !.pc = "put", !.domainStates = marked])
      BY <2>2, <2>3, <3>2 DEF RunAccounted, Runs
    <3>5. RunAccounted(runs'[s])
      BY <2>2, <3>1, <3>4, EmptyAccounts
    <3>6. RunAccounted(runs[s])'
      BY <3>3, <3>5, AccountsStay DEF RunAccounted
    <3>7. InOwnRange(runs'[s])
      BY <2>2, <2>3, <2>6, <3>1 DEF Runs
    <3> QED
      BY <1>2, <2>5, <2>12, <3>3, <3>6, <3>7 DEF GetStates
  <2>13. CASE PutPendingRemoval(s) \/ FailRun(s)
    <3>1. PICK B \in SUBSET Domains :
            /\ \/ UNCHANGED states
               \/ /\ run.pc = "put" /\ B \subseteq run.pendingRemoval
                  /\ PutStates(B, run.domainStates)
            /\ UNCHANGED ineligible \/ DeleteIneligible(B) \/ PutIneligible(B, run.records)
      BY <2>2, <2>13 DEF PutPendingRemoval, FailRun, Batches
    <3>2. \A d \in Domains : \/ states'[d] = states[d]
                             \/ /\ Evidence(d)
                                /\ states'[d].status = "pending-automated-removal"
      BY <1>2, <2>3, <3>1 DEF PutStates, RunAccounted
    <3>3. \A d \in Domains : \/ states'[d] = states[d]
                             \/ Accounted(d, states'[d]) /\ states'[d].status # "unknown"
      BY <3>2 DEF Accounted
    <3>4. UNCHANGED failedScans /\ Grows
      BY <1>3, <2>13, <3>2 DEF Grows, PutPendingRemoval, FailRun
    <3>5. \A d \in Domains : ineligible'[d] = ineligible[d] \/ Recorded(d, ineligible[d])'
      <4>1. \A d \in Domains : ineligible'[d] \in {ineligible[d], NoScans, run.records[d]}
        BY <1>2, <3>1 DEF DeleteIneligible, PutIneligible
      <4>2. \A d \in Domains : \A r \in {run.records[d], NoScans} : Recorded(d, r)'
        BY <2>3, <3>4, EmptyAccounts, AccountsStay DEF RunAccounted
      <4> QED
        BY <4>1, <4>2 DEF Recorded
    <3>6. PICK D : runs' \in {[runs EXCEPT ![s] = [run EXCEPT !.pendingRemoval = @ \ D]],
                             [runs EXCEPT ![s] = Finished(run.started)]}
      BY <2>13 DEF PutPendingRemoval, FailRun
    <3>7. RunAccounted(runs'[s]) /\ InOwnRange(runs'[s])
      <4>1. /\ RunAccounted([run EXCEPT !.pendingRemoval = @ \ D])
            /\ InOwnRange([run EXCEPT !.pendingRemoval = @ \ D])
        BY <2>2, <2>3 DEF RunAccounted, Runs
      <4> QED
        BY <1>2, <2>2, <2>6, <3>6, <4>1, EmptyAccounts
    <3>8. RunAccounted(runs[s])'
      BY <3>4, <3>7, AccountsStay DEF RunAccounted
    <3>9. \A t \in Shards \ {s} : runs'[t] = runs[t]
      BY <1>2, <3>6
    <3> QED
      BY <2>5, <3>3, <3>4, <3>5, <3>7, <3>8, <3>9
  <2> QED
    BY <2>1, <2>7, <2>8, <2>9, <2>10, <2>11, <2>12, <2>13
<1> QED
  BY <1>4, <1>5 DEF RemoveIneligibleNext

\* An empty database satisfies the invariant, nothing having been read.
LEMMA InitIInv == Init => IInv
<1> SUFFICES ASSUME Init PROVE IInv
  OBVIOUS
<1>1. TypeOK
  BY InitType
<1>2. /\ \A d \in Domains : states[d].status \in {"unknown", "rejected"} /\ states[d].policy = ""
      /\ ineligible = [d \in Domains |-> NoScans]
  <2>1. \A d \in Domains :
           states[d] \in {UnknownState, [UnknownState EXCEPT !.status = "rejected"]}
    BY DEF Init, DatastoreInit
  <2> DEFINE rejected == [UnknownState EXCEPT !.status = "rejected"]
  <2>2. UnknownState.status = "unknown" /\ UnknownState.policy = ""
    BY DEF UnknownState
  <2>3. rejected.status = "rejected" /\ rejected.policy = ""
    BY DEF UnknownState
  <2> QED
    BY <2>1, <2>2, <2>3 DEF Init, DatastoreInit
<1>3. StatusIsAccountedFor /\ EntitiesAreAccountedFor
  BY <1>2, EmptyAccounts DEF StatusIsAccountedFor, EntitiesAreAccountedFor, Accounted
<1>4. /\ requests = [c \in Clients |-> Idle]
      /\ updates = [u \in Updaters |-> NotRunning]
      /\ runs = [s \in Shards |-> Finished(0)]
  BY DEF Init, UserRequestsInit, UpdateJobInit, RemoveIneligibleInit
<1>5. HandlersAreAccountedFor
  BY <1>4, EmptyAccounts DEF HandlersAreAccountedFor
<1>6. RunsStayInRange
  BY <1>4 DEF RunsStayInRange, Finished
<1> QED
  BY <1>1, <1>3, <1>5, <1>6 DEF IInv

\* No step of the site breaks the invariant.
LEMMA IInvStays == IInv /\ [Next]_vars => IInv'
<1>1. IInv /\ Next => IInv'
  BY RequestsKeepIInv, UpdatesKeepIInv, RunsKeepIInv DEF Next
<1>2. ASSUME IInv, UNCHANGED vars
      PROVE  IInv'
  <2>1. TypeOK'
    BY <1>2, TypeKept DEF IInv
  <2>2. /\ UNCHANGED <<states, ineligible, requests, vetted, updates, runs, failedScans>>
        /\ Grows /\ RunsStayInRange'
    BY <1>2 DEF vars, requestVars, updateVars, scanVars, Grows, IInv, RunsStayInRange,
                InRange
  <2> QED
    BY <1>2, <2>1, <2>2, IInvKept
<1> QED
  BY <1>1, <1>2

\* The inductive invariant holds: what is stored, what each handler has read
\* and what it will still write are accounted for.
THEOREM Inductive == Spec => []IInv
  BY InitIInv, IInvStays, PTL DEF Spec

\* Whatever the interleaving of requests, Update runs and scans, and whatever
\* call fails, pending domains have passed PreloadableDomain and carry a
\* submission's date, domains pending removal have passed RemovableDomain, and
\* those pending automated removal have two failed scans far enough apart.
THEOREM StatusAccounted == Spec => []StatusIsAccountedFor
  BY Inductive, PTL DEF IInv

\* A domain with recorded failed scans has a state, so that the StatesForDomains
\* of SetPendingAutomatedRemoval never fails for a missing entity.
THEOREM IneligibleHaveStates == Spec => []IneligibleHasState
<1>1. IInv => IneligibleHasState
  BY DEF IInv, EntitiesAreAccountedFor, Recorded, IneligibleHasState
<1> QED
  BY <1>1, Inductive, PTL

\* The recorded scans of a domain are only ever changed by the run for the
\* range the domain is in: it can only delete and store what it found there.
THEOREM OwnRangeKeepsScans == Spec => ScansKeptByOwnRange
<1> DEFINE Kept == \A d \in Domains : ineligible'[d] # ineligible[d]
                                       => runs'[ShardOf[d]] # runs[ShardOf[d]]
<1>1. ASSUME IInv, Next
      PROVE  Kept
  <2> SUFFICES ASSUME NEW d \in Domains, ineligible'[d] # ineligible[d]
               PROVE  runs'[ShardOf[d]] # runs[ShardOf[d]]
    OBVIOUS
  <2>1. RemoveIneligibleNext
    BY <1>1 DEF Next, UserRequestsNext, CheckSite, ReadState, PutState, FailRequest,
                UpdateJobNext, EditList, UpdateStep, FetchList, Query, QueryLast,
                PutUpdates, FailUpdate
  <2>2. PICK s \in Shards : DeleteBatch(s) \/ SetBatch(s) \/ FailRun(s)
    BY <2>1 DEF RemoveIneligibleNext, Tick, GetDomains, GetIneligible, Scan,
                GetPendingRemoval, GetStates, PutPendingRemoval
  <2> DEFINE run == runs[s]
  <2>3. /\ ineligible \in [Domains -> IneligibleStates]
        /\ runs \in [Shards -> Runs]
        /\ run \in Runs
        /\ run.deletes \cup run.sets \subseteq InRange(s)
    BY <1>1 DEF IInv, TypeOK, DatastoreTypeOK, RemoveIneligibleTypeOK, RunsStayInRange
  <2>4. ASSUME NEW B, d \in B, B \subseteq InRange(s), runs'[s] # run
        PROVE  runs'[ShardOf[d]] # runs[ShardOf[d]]
    BY <2>4 DEF InRange
  <2>5. \A B, new : PutIneligible(B, new) => d \in B
    BY <2>3 DEF PutIneligible
  <2>6. CASE DeleteBatch(s)
    <3>1. PICK B \in SUBSET run.deletes :
             /\ DeleteIneligible(B)
             /\ runs' = [runs EXCEPT ![s].deletes = @ \ B,
                                     ![s].pc = IF B = run.deletes THEN "set" ELSE @]
      BY <2>6 DEF DeleteBatch, Batches
    <3>2. d \in B
      BY <2>5, <3>1 DEF DeleteIneligible
    <3>3. runs'[s].deletes = run.deletes \ B
      BY <2>3, <3>1 DEF Runs
    <3>4. runs'[s] # run
      BY <3>2, <3>3
    <3> QED
      BY <2>3, <2>4, <3>2, <3>4
  <2>7. CASE SetBatch(s)
    <3>1. PICK B \in SUBSET run.sets :
             /\ PutIneligible(B, run.records)
             /\ runs' = [runs EXCEPT ![s] =
                            IF B = run.sets
                            THEN [Finished(run.started) EXCEPT !.pc = "getAllAgain"]
                            ELSE [run EXCEPT !.sets = @ \ B]]
      BY <2>7 DEF SetBatch, Batches
    <3>2. d \in B
      BY <2>5, <3>1
    <3>3. runs'[s].sets \in {{}, run.sets \ B}
      BY <2>3, <3>1 DEF Runs, Finished
    <3>4. runs'[s] # run
      BY <3>2, <3>3
    <3> QED
      BY <2>3, <2>4, <3>2, <3>4
  <2>8. CASE FailRun(s)
    <3>1. PICK B \in SUBSET (run.deletes \cup run.sets) :
             \/ UNCHANGED ineligible
             \/ DeleteIneligible(B)
             \/ PutIneligible(B, run.records)
      BY <2>8 DEF FailRun, Batches
    <3>2. d \in B
      BY <2>5, <3>1 DEF DeleteIneligible
    <3>3. run.pc # "idle" /\ runs'[s].pc = "idle"
      BY <2>3, <2>8 DEF FailRun, Finished
    <3>4. runs'[s] # run
      BY <3>3
    <3> QED
      BY <2>3, <2>4, <3>2, <3>4
  <2> QED
    BY <2>2, <2>6, <2>7, <2>8
<1>2. UNCHANGED vars => Kept
  BY DEF vars, scanVars
<1>3. IInv /\ [Next]_vars => [Kept]_vars
  BY <1>1, <1>2
<1> QED
  BY <1>3, Inductive, PTL DEF Spec, ScansKeptByOwnRange
-----------------------------------------------------------------------------
(* A scan that passes makes the site forget the failures before it.        *)

\* A run works on the recorded scans of its own range only.
LEMMA RangeIsOwn ==
  ASSUME IInv, NEW t \in Shards, NEW d \in Domains \ InRange(t),
         \/ GetDomains(t) \/ GetIneligible(t) \/ Scan(t)
         \/ DeleteBatch(t) \/ SetBatch(t)
         \/ GetPendingRemoval(t) \/ GetStates(t) \/ PutPendingRemoval(t)
         \/ FailRun(t)
  PROVE  /\ ineligible'[d] = ineligible[d] /\ passedScans'[d] = passedScans[d]
         /\ \A s \in Shards \ {t} : runs'[s] = runs[s]
         /\ UNCHANGED now
<1> DEFINE run == runs[t]
<1>1. /\ ineligible \in [Domains -> IneligibleStates] /\ runs \in [Shards -> Runs]
      /\ passedScans \in [Domains -> SUBSET Nat]
      /\ d \notin run.policyStates /\ d \notin run.deletes /\ d \notin run.sets
  BY DEF IInv, TypeOK, DatastoreTypeOK, RemoveIneligibleTypeOK, RunsStayInRange
<1>2. ineligible'[d] = ineligible[d]
  <2>1. \/ UNCHANGED ineligible
        \/ \E B \in SUBSET (run.deletes \cup run.sets) :
              DeleteIneligible(B) \/ PutIneligible(B, run.records)
    BY DEF GetDomains, GetIneligible, Scan, DeleteBatch, SetBatch, GetPendingRemoval,
           GetStates, PutPendingRemoval, FailRun, Batches
  <2> QED
    BY <1>1, <2>1 DEF DeleteIneligible, PutIneligible
<1>3. passedScans'[d] = passedScans[d]
  <2>1. \/ UNCHANGED passedScans
        \/ \E D \in SUBSET run.policyStates : passedScans' = Logged(passedScans, D)
        \/ passedScans' = Unlogged(passedScans, run)
    BY DEF GetDomains, GetIneligible, Scan, DeleteBatch, SetBatch, GetPendingRemoval,
           GetStates, PutPendingRemoval, FailRun
  <2> QED
    BY <1>1, <2>1 DEF Logged, Unlogged
<1>4. (\A s \in Shards \ {t} : runs'[s] = runs[s]) /\ UNCHANGED now
  BY <1>1 DEF GetDomains, GetIneligible, Scan, DeleteBatch, SetBatch, GetPendingRemoval,
           GetStates, PutPendingRemoval, FailRun
<1> QED
  BY <1>2, <1>3, <1>4

\* A step of the run for d's range.
LEMMA RunForgets ==
  ASSUME IInv, NEW s \in Shards, NEW d \in InRange(s), PassesInOrder(s, d),
         \/ GetDomains(s) \/ GetIneligible(s) \/ Scan(s)
         \/ DeleteBatch(s) \/ SetBatch(s)
         \/ GetPendingRemoval(s) \/ GetStates(s) \/ PutPendingRemoval(s)
         \/ FailRun(s)
  PROVE  PassesInOrder(s, d)'
<1> DEFINE run == runs[s]
<1>1. /\ d \in Domains /\ ineligible[d] \in IneligibleStates
      /\ DOMAIN ineligible = Domains /\ DOMAIN runs = Shards
      /\ run \in Runs /\ DOMAIN passedScans = Domains
      /\ now \in Nat /\ run.started \in Nat /\ passedScans[d] \subseteq Nat
      /\ run.policyStates \subseteq Domains
  BY RemoveIneligibleAssumption
  DEF IInv, TypeOK, DatastoreTypeOK, RemoveIneligibleTypeOK, InRange, Runs
<1>2. /\ run.started <= now
      /\ \A p \in passedScans[d] : p <= now
      /\ BeginsAfter(ineligible[d], ActedOn(run, d))
      /\ run.pc = "scan" => run.records[d] = ineligible[d]
      /\ run.pc \in {"delete", "set"} /\ d \in run.sets
         => BeginsAfter(run.records[d], passedScans[d])
  BY DEF PassesInOrder
<1>3. CASE \/ GetDomains(s) \/ GetPendingRemoval(s) \/ GetStates(s) \/ PutPendingRemoval(s)
  <2>1. /\ run.pc \notin {"delete", "set", "scan"} /\ runs'[s].pc \notin {"delete", "set", "scan"}
        /\ runs'[s].started \in {run.started, now}
        /\ UNCHANGED <<now, ineligible, passedScans>>
    <3>1. CASE GetDomains(s)
      BY <1>1, <3>1 DEF GetDomains, Runs
    <3>2. CASE GetPendingRemoval(s)
      BY <1>1, <3>2 DEF GetPendingRemoval, Runs
    <3>3. CASE GetStates(s)
      BY <1>1, <3>3 DEF GetStates, Finished, Runs
    <3>4. CASE PutPendingRemoval(s)
      BY <1>1, <3>4 DEF PutPendingRemoval, Finished, Runs
    <3> QED
      BY <1>3, <3>1, <3>2, <3>3, <3>4
  <2>2. runs'[s].started <= now'
    BY <1>1, <1>2, <2>1
  <2>3. BeginsAfter(ineligible[d], ActedOn(runs[s], d))'
    BY <1>2, <2>1 DEF BeginsAfter, ActedOn
  <2> QED
    BY <1>2, <2>1, <2>2, <2>3 DEF PassesInOrder
<1>4. CASE GetIneligible(s)
  <2>1. /\ run.pc = "getAll" /\ runs'[s].pc = "scan" /\ runs'[s].records = RecordsInRange(s)
        /\ runs'[s].started = run.started
        /\ UNCHANGED <<now, ineligible, passedScans>>
    BY <1>1, <1>4 DEF GetIneligible, Runs
  <2>2. runs'[s].records[d] = ineligible[d]
    BY <1>1, <2>1 DEF RecordsInRange
  <2>3. BeginsAfter(ineligible[d], ActedOn(runs[s], d))'
    BY <1>2, <2>1 DEF BeginsAfter, ActedOn
  <2> QED
    BY <1>2, <2>1, <2>2, <2>3 DEF PassesInOrder
<1>5. CASE Scan(s)
  <2>1. PICK passing \in SUBSET run.policyStates :
           /\ runs' = [runs EXCEPT ![s] = Scanned(run, passing)]
           /\ passedScans' = Logged(passedScans, passing)
           /\ run.pc = "scan" /\ UNCHANGED <<now, ineligible>>
    BY <1>5 DEF Scan
  <2> DEFINE failing == run.policyStates \ passing
  <2>2. /\ runs'[s].pc = "delete" /\ runs'[s].sets = failing
        /\ runs'[s].started = run.started
        /\ runs'[s].deletes = run.deletes \cup Forgiven(run.records, passing)
        /\ d \in failing => runs'[s].records[d] = AppendScan(ineligible[d], now)
    BY <1>1, <1>2, <2>1 DEF Scanned, Runs
  <2>3. BeginsAfter(ineligible[d], passedScans[d]) /\ run.records[d] = ineligible[d]
    BY <1>2, <2>1 DEF BeginsAfter, ActedOn
  <2>4. passedScans'[d] = IF d \in passing THEN passedScans[d] \cup {now} ELSE passedScans[d]
    BY <1>1, <2>1 DEF Logged
  <2>5. \A p \in passedScans'[d] : p <= now'
    BY <1>1, <1>2, <2>1, <2>4
  <2>6. BeginsAfter(ineligible[d], ActedOn(runs[s], d))'
    <3>1. ASSUME ineligible[d].scans > 0, d \in passing PROVE d \in runs'[s].deletes
      BY <2>2, <2>3, <3>1 DEF Forgiven
    <3>2. \A p \in Nat : p < run.started => p # now
      BY <1>1, <1>2
    <3>3. ASSUME ineligible[d].scans > 0, NEW p \in ActedOn(runs[s], d)'
          PROVE  p \in passedScans[d]
      BY <1>1, <2>2, <2>4, <3>1, <3>2, <3>3 DEF ActedOn
    <3> QED
      BY <2>1, <2>3, <3>3 DEF BeginsAfter
  <2>7. ASSUME d \in failing PROVE BeginsAfter(runs[s].records[d], passedScans[d])'
    <3>1. AppendScan(ineligible[d], now).first
          = IF ineligible[d].scans = 0 THEN now ELSE ineligible[d].first
      BY DEF AppendScan
    <3>2. passedScans'[d] = passedScans[d]
      BY <2>4, <2>7
    <3>3. ineligible[d].scans # 0 => ineligible[d].scans > 0
      BY <1>1 DEF IneligibleStates
    <3> QED
      BY <1>2, <2>2, <2>3, <2>7, <3>1, <3>2, <3>3 DEF BeginsAfter
  <2> QED
    BY <1>2, <2>1, <2>2, <2>5, <2>6, <2>7 DEF PassesInOrder
<1>6. CASE DeleteBatch(s)
  <2>1. PICK B \in SUBSET run.deletes :
           /\ DeleteIneligible(B)
           /\ runs' = [runs EXCEPT ![s].deletes = @ \ B,
                                   ![s].pc = IF B = run.deletes THEN "set" ELSE @]
           /\ run.pc = "delete" /\ UNCHANGED <<now, passedScans>>
    BY <1>6 DEF DeleteBatch, Batches
  <2>2. /\ runs'[s].deletes = run.deletes \ B
        /\ runs'[s].pc = IF B = run.deletes THEN "set" ELSE "delete"
        /\ runs'[s].sets = run.sets /\ runs'[s].records = run.records
        /\ runs'[s].started = run.started
    BY <1>1, <2>1 DEF Runs
  <2>3. ineligible'[d] = IF d \in B THEN NoScans ELSE ineligible[d]
    BY <1>1, <2>1 DEF DeleteIneligible, PutIneligible
  <2>4. BeginsAfter(ineligible[d], ActedOn(runs[s], d))'
    <3>1. CASE d \in B
      BY <2>3, <3>1 DEF BeginsAfter, NoScans
    <3>2. CASE d \notin B
      <4>1. ActedOn(runs[s], d)' = ActedOn(run, d)
        BY <2>1, <2>2, <3>2 DEF ActedOn
      <4> QED
        BY <1>2, <2>3, <3>2, <4>1 DEF BeginsAfter
    <3> QED
      BY <3>1, <3>2
  <2>5. d \in runs'[s].sets => BeginsAfter(runs[s].records[d], passedScans[d])'
    BY <1>2, <2>1, <2>2 DEF BeginsAfter
  <2> QED
    BY <1>2, <2>1, <2>2, <2>4, <2>5 DEF PassesInOrder
<1>7. CASE SetBatch(s)
  <2>1. PICK B \in SUBSET run.sets :
           /\ PutIneligible(B, run.records)
           /\ runs' = [runs EXCEPT ![s] =
                          IF B = run.sets THEN [Finished(run.started) EXCEPT !.pc = "getAllAgain"]
                          ELSE [run EXCEPT !.sets = @ \ B]]
           /\ run.pc = "set" /\ UNCHANGED <<now, passedScans>>
    BY <1>7 DEF SetBatch, Batches
  <2>2. /\ \/ runs'[s].pc = "getAllAgain"
           \/ runs'[s].pc = "set" /\ runs'[s].sets = run.sets \ B /\ runs'[s].records = run.records
        /\ runs'[s].started = run.started
    BY <1>1, <2>1 DEF Runs, Finished
  <2>3. ineligible'[d] = IF d \in B THEN run.records[d] ELSE ineligible[d]
    BY <1>1, <2>1 DEF PutIneligible
  <2>4. BeginsAfter(ineligible[d], ActedOn(runs[s], d))'
    BY <1>2, <2>1, <2>2, <2>3 DEF BeginsAfter, ActedOn
  <2>5. runs'[s].pc \in {"delete", "set"} /\ d \in runs'[s].sets
        => BeginsAfter(runs[s].records[d], passedScans[d])'
    BY <1>2, <2>1, <2>2 DEF BeginsAfter
  <2> QED
    BY <1>2, <2>1, <2>2, <2>4, <2>5 DEF PassesInOrder
<1>8. CASE FailRun(s)
  <2>1. /\ runs' = [runs EXCEPT ![s] = Finished(run.started)]
        /\ passedScans' = Unlogged(passedScans, run) /\ UNCHANGED now
        /\ \/ UNCHANGED ineligible
           \/ run.pc = "delete" /\ \E B \in SUBSET run.deletes : DeleteIneligible(B)
           \/ run.pc = "set" /\ \E B \in SUBSET run.sets : PutIneligible(B, run.records)
    BY <1>8 DEF FailRun, Batches
  <2>2. runs'[s].pc = "idle" /\ runs'[s].started = run.started
    BY <1>1, <2>1 DEF Finished
  <2>3. /\ passedScans'[d] \subseteq passedScans[d]
        /\ passedScans'[d] \subseteq ActedOn(run, d)
    BY <1>1, <2>1 DEF Unlogged, ActedOn
  <2>4. BeginsAfter(ineligible[d], ActedOn(run, d))'
    <3>1. CASE ineligible'[d] = ineligible[d] \/ ineligible'[d] = NoScans
      BY <1>2, <2>3, <3>1 DEF BeginsAfter, NoScans, ActedOn
    <3>2. CASE run.pc = "set" /\ d \in run.sets /\ ineligible'[d] = run.records[d]
      BY <1>2, <2>3, <3>2 DEF BeginsAfter, ActedOn
    <3>3. \/ ineligible'[d] = ineligible[d] \/ ineligible'[d] = NoScans
          \/ run.pc = "set" /\ d \in run.sets /\ ineligible'[d] = run.records[d]
      BY <1>1, <2>1 DEF DeleteIneligible, PutIneligible
    <3> QED
      BY <3>1, <3>2, <3>3
  <2>5. \A p \in passedScans'[d] : p <= now'
    BY <1>2, <2>1, <2>3
  <2> QED
    BY <1>2, <2>1, <2>2, <2>4, <2>5 DEF PassesInOrder
<1> QED
  BY <1>3, <1>4, <1>5, <1>6, <1>7, <1>8

\* Every step keeps series from reaching back across a scan that passed.
LEMMA StepForgets ==
  IInv /\ NoSeriesAcrossPass /\ [Next]_vars => NoSeriesAcrossPass'
<1> SUFFICES ASSUME IInv, NoSeriesAcrossPass, [Next]_vars,
                    NEW s \in Shards, NEW d \in InRange(s)
             PROVE  PassesInOrder(s, d)'
  BY DEF NoSeriesAcrossPass, InRange
<1>1. PassesInOrder(s, d)
  BY DEF NoSeriesAcrossPass
<1>2. CASE UNCHANGED <<ineligible, scanVars>>
  BY <1>1, <1>2 DEF scanVars, PassesInOrder, BeginsAfter, ActedOn
<1>3. CASE Tick
  <2>1. /\ UNCHANGED <<ineligible, runs, passedScans>>
        /\ \A p \in passedScans[d] : p <= now => p <= now'
        /\ runs[s].started <= now => runs[s].started <= now'
    BY <1>3, RemoveIneligibleAssumption
    DEF Tick, InRange, IInv, TypeOK, RemoveIneligibleTypeOK, Runs
  <2>2. BeginsAfter(ineligible[d], ActedOn(runs[s], d))'
    BY <1>1, <2>1 DEF PassesInOrder, BeginsAfter, ActedOn
  <2>3. BeginsAfter(runs[s].records[d], passedScans[d])
        => BeginsAfter(runs[s].records[d], passedScans[d])'
    BY <2>1 DEF BeginsAfter
  <2> QED
    BY <1>1, <2>1, <2>2, <2>3 DEF PassesInOrder
<1>4. ASSUME NEW t \in Shards,
             \/ GetDomains(t) \/ GetIneligible(t) \/ Scan(t)
             \/ DeleteBatch(t) \/ SetBatch(t)
             \/ GetPendingRemoval(t) \/ GetStates(t) \/ PutPendingRemoval(t)
             \/ FailRun(t)
      PROVE  PassesInOrder(s, d)'
  <2>1. CASE t = s
    BY <1>1, <1>4, <2>1, RunForgets
  <2>2. CASE t # s
    <3>1. d \in Domains \ InRange(t)
      BY <2>2 DEF InRange
    <3>2. /\ ineligible'[d] = ineligible[d] /\ passedScans'[d] = passedScans[d]
          /\ runs'[s] = runs[s] /\ UNCHANGED now
      BY <1>4, <2>2, <3>1, RangeIsOwn
    <3> QED
      BY <1>1, <3>2 DEF PassesInOrder, BeginsAfter, ActedOn
  <2> QED
    BY <2>1, <2>2
<1>5. CASE ~RemoveIneligibleNext
  <2>1. UNCHANGED <<ineligible, scanVars>>
    BY <1>5 DEF vars, Next, UserRequestsNext, CheckSite, ReadState, PutState, FailRequest,
                UpdateJobNext, EditList, UpdateStep, FetchList, Query, QueryLast,
                PutUpdates, FailUpdate
  <2> QED
    BY <1>2, <2>1
<1> QED
  BY <1>3, <1>4, <1>5 DEF RemoveIneligibleNext

\* Whatever calls fail, every recorded series and every series a run will store
\* begins after the passes of its domain that runs have acted on.
THEOREM SeriesBeginAfterPass == Spec => []NoSeriesAcrossPass
<1>1. Init => NoSeriesAcrossPass
  <2> SUFFICES ASSUME Init, NEW s \in Shards, NEW d \in InRange(s) PROVE PassesInOrder(s, d)
    BY DEF NoSeriesAcrossPass
  <2>1. /\ ineligible[d] = NoScans /\ passedScans[d] = {} /\ runs[s] = Finished(0) /\ now = 0
    BY DEF Init, DatastoreInit, RemoveIneligibleInit, InRange
  <2> QED
    BY <2>1 DEF PassesInOrder, BeginsAfter, ActedOn, NoScans, Finished
<1> QED
  BY <1>1, StepForgets, Inductive, PTL DEF Spec

\* Whatever calls fail, no recorded series of failures reaches back beyond a
\* scan that passed, once the run that made it has deleted the domain's entity.
THEOREM PassesForget == Spec => []PassForgetsFailures
<1>1. NoSeriesAcrossPass => PassForgetsFailures
  BY DEF NoSeriesAcrossPass, PassesInOrder, BeginsAfter, ActedOn, PassForgetsFailures
<1> QED
  BY <1>1, SeriesBeginAfterPass, PTL
=============================================================================
