---------------------------- MODULE SerialProofs ----------------------------
(***************************************************************************)
(* Proofs about the site while its handlers do not overlap, for every set  *)
(* of domains, requests, runs and ranges: Update installs the list, and    *)
(* all handlers together implement Lifecycle.                              *)
(***************************************************************************)
EXTENDS SerialSite, PreloadSiteProofs

USE DEF Statuses, ListedStatuses

-----------------------------------------------------------------------------
(* Only the handler at work takes a step. *)

\* The steps of a run for a range.
RunStep(s) == \/ GetDomains(s) \/ GetIneligible(s) \/ Scan(s)
              \/ DeleteBatch(s) \/ SetBatch(s)
              \/ GetPendingRemoval(s) \/ GetStates(s) \/ PutPendingRemoval(s)
              \/ FailRun(s)

RequestStep(c) == \/ \E op \in {"submit", "remove"}, d \in Domains : CheckSite(c, op, d)
                  \/ ReadState(c)
                  \/ PutState(c)
                  \/ FailRequest(c)

\* A handler at work excludes the others.
LEMMA WorksAlone ==
  ASSUME Serial
  PROVE  /\ \A c \in Clients : requests[c].pc # "idle"
               => /\ \A b \in Clients \ {c} : requests[b].pc = "idle"
                  /\ \A u \in Updaters : updates[u].pc = "idle"
                  /\ \A s \in Shards : runs[s].pc = "idle"
         /\ \A u \in Updaters : updates[u].pc # "idle"
               => /\ \A c \in Clients : requests[c].pc = "idle"
                  /\ \A v \in Updaters \ {u} : updates[v].pc = "idle"
                  /\ \A s \in Shards : runs[s].pc = "idle"
         /\ \A s \in Shards : runs[s].pc # "idle"
               => /\ \A c \in Clients : requests[c].pc = "idle"
                  /\ \A u \in Updaters : updates[u].pc = "idle"
                  /\ \A t \in Shards \ {s} : runs[t].pc = "idle"
<1>1. /\ \A c \in Clients : requests[c].pc # "idle" => <<"request", c>> \in AtWork
      /\ \A u \in Updaters : updates[u].pc # "idle" => <<"update", u>> \in AtWork
      /\ \A s \in Shards : runs[s].pc # "idle" => <<"scan", s>> \in AtWork
  BY DEF AtWork
<1>2. \A i, j : /\ <<"request", i>> # <<"update", j>> /\ <<"request", i>> # <<"scan", j>>
                /\ <<"update", i>> # <<"scan", j>>
                /\ \A k \in {"request", "update", "scan"} : i # j => <<k, i>> # <<k, j>>
  OBVIOUS
<1> QED
  BY <1>1, <1>2 DEF Serial

\* What a handler has read and has still to write when it is idle.
LEMMA IdleInOrder ==
  /\ \A r : r.pc # "put" => RequestInOrder(r)
  /\ FoundWith({}) = [d \in Domains |-> UnknownState]
  /\ UpdateInOrder(NotRunning)
<1>1. FoundWith({}) = [d \in Domains |-> UnknownState]
  BY DEF FoundWith
<1>2. UpdateInOrder(NotRunning)
  BY <1>1 DEF UpdateInOrder, NotRunning
<1> QED
  BY <1>1, <1>2 DEF RequestInOrder

\* Idle handlers stay in order whatever is stored.
LEMMA OthersStayInOrder ==
  /\ \A r : r.pc # "put" => RequestInOrder(r)'
  /\ \A job : UpdateInOrder(job) /\ job.pc = "idle" => UpdateInOrder(job)'
  /\ UNCHANGED states => /\ \A r : RequestInOrder(r) => RequestInOrder(r)'
                         /\ \A job : UpdateInOrder(job) => UpdateInOrder(job)'
<1>1. FoundWith({})' = FoundWith({})
  BY DEF FoundWith
<1>2. UNCHANGED states => \A asked : FoundWith(asked)' = FoundWith(asked)
  BY DEF FoundWith
<1>3. \A job : UpdateInOrder(job) /\ job.pc = "idle" => UpdateInOrder(job)'
  BY <1>1 DEF UpdateInOrder
<1>4. UNCHANGED states => \A job : UpdateInOrder(job) => UpdateInOrder(job)'
  BY <1>1, <1>2 DEF UpdateInOrder
<1>5. UNCHANGED states => \A r : RequestInOrder(r) => RequestInOrder(r)'
  BY DEF RequestInOrder
<1> QED
  BY <1>3, <1>4, <1>5 DEF RequestInOrder

-----------------------------------------------------------------------------
(* The comparison with the list. *)

\* What Update stores for a domain agrees with its entry, and a domain it
\* leaves alone agrees already.
LEMMA ReconciledAgrees ==
  ASSUME NEW entries \in [Domains -> Entries], states \in [Domains -> DomainStates],
         NEW d \in Domains
  PROVE  LET found == FoundWith(ListedStatuses)
         IN  IF d \in Changed(entries, found)
             THEN Agrees(Reconciled(entries[d], found[d]), entries[d])
             ELSE Agrees(states[d], entries[d])
<1> DEFINE found == FoundWith(ListedStatuses)
           entry == entries[d]
           s == found[d]
           new == Reconciled(entry, s)
<1>1. /\ entry \in Entries /\ states[d] \in DomainStates
      /\ s = IF states[d].status \in ListedStatuses THEN states[d] ELSE UnknownState
      /\ s \in DomainStates
  BY UnknownStateType DEF FoundWith
<1>2. d \in Changed(entries, found) <=> IF entry.mode = ForceHTTPS THEN ToEntry(s) # entry
                                        ELSE s.status # "unknown"
  BY DEF Changed
<1> HIDE DEF found, entry, s
<1>3. s.status = "unknown" \/ (s = states[d] /\ s.status \in ListedStatuses)
  <2>1. UnknownState.status = "unknown"
    BY DEF UnknownState
  <2> QED
    BY <1>1, <2>1
<1>4. CASE entry.mode = ForceHTTPS
  <2>1. Agrees(new, entry)
    <3>1. CASE s.status = "unknown"
      <4>1. /\ new.status = "preloaded" /\ new.policy = entry.policy
            /\ new.includeSubDomains = entry.includeSubDomains
        BY <1>4, <3>1 DEF Reconciled, EntryToDomainState
      <4> QED
        BY <1>1, <1>4, <4>1 DEF Agrees, ToEntry, Entries
    <3>2. CASE s.status # "unknown"
      <4>1. /\ new.status = s.status /\ new.policy = entry.policy
            /\ new.includeSubDomains = entry.includeSubDomains
        BY <1>1, <1>4, <3>2 DEF Reconciled, DomainStates
      <4> QED
        BY <1>1, <1>3, <1>4, <3>2, <4>1 DEF Agrees, ToEntry, Entries
    <3> QED
      BY <3>1, <3>2
  <2>2. d \notin Changed(entries, found) => Agrees(states[d], entry)
    <3> SUFFICES ASSUME ToEntry(s) = entry PROVE Agrees(states[d], entry)
      BY <1>2, <1>4
    <3>1. ToEntry(s).mode = ForceHTTPS
      BY <1>4
    <3>2. s.status # "unknown"
      BY <3>1 DEF ToEntry, ForceHTTPS
    <3> QED
      BY <1>3, <3>2 DEF Agrees
  <2> QED
    BY <2>1, <2>2 DEF entry, s, found
<1>5. CASE entry.mode # ForceHTTPS
  <2>1. entry.mode = ""
    BY <1>1, <1>5 DEF Entries
  <2>2. Agrees(new, entry)
    <3>1. new.status = "removed"
      BY <1>1, <1>5 DEF Reconciled, DomainStates
    <3> QED
      BY <1>5, <2>1, <3>1 DEF Agrees, ToEntry
  <2>3. d \notin Changed(entries, found) => Agrees(states[d], entry)
    <3>1. s.status = "unknown" => states[d].status \notin ListedStatuses
      BY <1>1
    <3> QED
      BY <1>2, <1>5, <2>1, <3>1 DEF Agrees, ToEntry
  <2> QED
    BY <2>2, <2>3 DEF entry, s, found
<1> QED
  BY <1>4, <1>5

\* Whether a domain is to be written, and how, depends on its own state.
LEMMA FoundAlone ==
  ASSUME NEW entries, NEW d \in Domains, states'[d] = states[d]
  PROVE  /\ FoundWith(ListedStatuses)'[d] = FoundWith(ListedStatuses)[d]
         /\ d \in Changed(entries, FoundWith(ListedStatuses)')
            <=> d \in Changed(entries, FoundWith(ListedStatuses))
<1>1. FoundWith(ListedStatuses)'[d] = FoundWith(ListedStatuses)[d]
  BY DEF FoundWith
<1> QED
  BY <1>1 DEF Changed
\* How Update moves a domain: onto the list, off it, or nowhere.
LEMMA ReconciledStatus ==
  ASSUME NEW entries \in [Domains -> Entries], states \in [Domains -> DomainStates],
         NEW d \in Domains, d \in Changed(entries, FoundWith(ListedStatuses))
  PROVE  LET new == Reconciled(entries[d], FoundWith(ListedStatuses)[d]).status
         IN  \/ states[d].status \notin ListedStatuses /\ new = "preloaded"
             \/ states[d].status \in ListedStatuses /\ new \in {"removed", states[d].status}
<1> DEFINE s == FoundWith(ListedStatuses)[d]
           entry == entries[d]
<1>1. /\ states[d] \in DomainStates
      /\ s = IF states[d].status \in ListedStatuses THEN states[d] ELSE UnknownState
      /\ IF entry.mode = ForceHTTPS THEN TRUE ELSE s.status # "unknown"
      /\ UnknownState.status = "unknown"
  BY DEF FoundWith, Changed, UnknownState
<1> HIDE DEF s, entry
<1>2. CASE states[d].status \in ListedStatuses
  BY <1>1, <1>2 DEF Reconciled, DomainStates, s, entry
<1>3. CASE states[d].status \notin ListedStatuses
  BY <1>1, <1>3 DEF Reconciled, EntryToDomainState, s, entry
<1> QED
  BY <1>2, <1>3
-----------------------------------------------------------------------------
(* The invariant: one lemma per component. *)

\* A domain that has been scanned stays one that has been listed or queued, if
\* the states written are, and scans are of such domains.
LEMMA KnownStays ==
  ASSUME ScannedOnceKnown,
         \A d \in Domains : states'[d] = states[d] \/ states'[d].status \notin NeverListed,
         \A d \in Domains : \/ failedScans'[d] = failedScans[d]
                            \/ \E s \in Shards : d \in runs[s].policyStates,
         \A s \in Shards : \A d \in Domains :
            d \in runs'[s].policyStates
            => d \in runs[s].policyStates \/ states[d].status \notin NeverListed
  PROVE  ScannedOnceKnown'
  BY DEF ScannedOnceKnown

\* What a request stores has been listed or queued.
LEMMA RequestStores ==
  ASSUME NEW r, RequestInOrder(r), r.pc = "put"
  PROVE  r.state.status \in {"pending", "preloaded", "pending-removal"}
<1>1. /\ \A s : SubmittedState(s).status \in {"pending", "preloaded"}
      /\ RemovalState.status = "pending-removal"
  BY DEF SubmittedState, RemovalState
<1> QED
  BY <1>1 DEF RequestInOrder

\* The steps of Submit and Remove.
LEMMA RequestsUndisturbed ==
  ASSUME IInv, WorksUndisturbed, Serial', NEW c \in Clients, RequestStep(c),
         UNCHANGED <<updateVars, scanVars>>
  PROVE  WorksUndisturbed'
<1> DEFINE r == requests[c]
<1>1. /\ requests \in [Clients -> Requests] /\ r \in Requests /\ r.domain \in Domains
      /\ states \in [Domains -> DomainStates] /\ states[r.domain].status \in Statuses
      /\ UNCHANGED <<updates, runs, failedScans>>
  BY DEF IInv, TypeOK, UserRequestsTypeOK, DatastoreTypeOK, Requests, DomainStates,
         updateVars, scanVars
<1>2. /\ Serial /\ ScannedOnceKnown /\ RequestInOrder(r)
      /\ \A b \in Clients : RequestInOrder(requests[b])
      /\ \A u \in Updaters : UpdateInOrder(updates[u])
  BY DEF WorksUndisturbed
<1>3. ASSUME UNCHANGED states, RequestInOrder(requests'[c]),
             \A b \in Clients \ {c} : requests'[b] = requests[b]
      PROVE  WorksUndisturbed'
  <2>1. \A b \in Clients : RequestInOrder(requests[b])'
    BY <1>2, <1>3, OthersStayInOrder DEF RequestInOrder
  <2>2. \A u \in Updaters : UpdateInOrder(updates[u])'
    <3>1. \A job : UpdateInOrder(job) => UpdateInOrder(job)'
      BY <1>3, OthersStayInOrder
    <3> QED
      BY <1>1, <1>2, <3>1 DEF UpdateInOrder
  <2>3. ScannedOnceKnown'
    BY <1>1, <1>2, <1>3 DEF ScannedOnceKnown
  <2> QED
    BY <2>1, <2>2, <2>3 DEF WorksUndisturbed
<1>4. CASE \E op \in {"submit", "remove"}, d \in Domains : CheckSite(c, op, d)
  <2>1. requests'[c].pc = "read"
    BY <1>1, <1>4 DEF CheckSite, Idle
  <2> QED
    BY <1>1, <1>3, <1>4, <2>1, IdleInOrder DEF CheckSite
<1>5. CASE ReadState(c)
  <2>1. RequestInOrder(requests'[c])
    <3> DEFINE s == states[r.domain]
    <3>1. CASE requests' = [requests EXCEPT ![c] = Idle]
      BY <1>1, <3>1 DEF RequestInOrder, Idle
    <3>2. CASE /\ r.op = "submit" /\ CanSubmit(s)
               /\ requests' = [requests EXCEPT ![c].pc = "put", ![c].state = SubmittedState(s)]
      <4>1. /\ requests'[c].op = "submit" /\ requests'[c].domain = r.domain
            /\ requests'[c].state = SubmittedState(s)
        BY <1>1, <3>2 DEF Requests
      <4> QED
        BY <3>2, <4>1 DEF RequestInOrder
    <3>3. CASE /\ r.op = "remove" /\ CanRemove(s)
               /\ requests' = [requests EXCEPT ![c].pc = "put", ![c].state = RemovalState]
      <4>1. /\ requests'[c].op = "remove" /\ requests'[c].domain = r.domain
            /\ requests'[c].state = RemovalState
        BY <1>1, <3>3 DEF Requests
      <4> QED
        BY <3>3, <4>1 DEF RequestInOrder
    <3> QED
      BY <1>5, <3>1, <3>2, <3>3 DEF ReadState
  <2> QED
    BY <1>1, <1>3, <1>5, <2>1 DEF ReadState
<1>6. CASE PutState(c) \/ FailRequest(c)
  <2>1. /\ r.pc # "idle" /\ requests' = [requests EXCEPT ![c] = Idle]
        /\ \A d \in Domains : \/ states'[d] = states[d]
                              \/ r.pc = "put" /\ states'[d] = r.state
    BY <1>1, <1>6 DEF PutState, FailRequest, PutStates
  <2>2. /\ \A b \in Clients \ {c} : requests[b].pc = "idle"
        /\ \A u \in Updaters : updates[u].pc = "idle"
    BY <1>2, <2>1, WorksAlone
  <2>3. \A b \in Clients : requests'[b].pc = "idle"
    BY <1>1, <2>1, <2>2 DEF Idle
  <2>4. \A b \in Clients : RequestInOrder(requests[b])'
    BY <2>3 DEF RequestInOrder
  <2>5. \A u \in Updaters : UpdateInOrder(updates[u])'
    <3>1. \A job : UpdateInOrder(job) /\ job.pc = "idle" => UpdateInOrder(job)'
      BY OthersStayInOrder
    <3> QED
      BY <1>1, <1>2, <2>2, <3>1 DEF UpdateInOrder
  <2>6. ScannedOnceKnown'
    <3>1. r.pc = "put" => r.state.status \notin NeverListed
      BY <1>1, <1>2, RequestStores DEF NeverListed
    <3> QED
      BY <1>1, <1>2, <2>1, <3>1, KnownStays
  <2> QED
    BY <2>4, <2>5, <2>6 DEF WorksUndisturbed
<1> QED
  BY <1>4, <1>5, <1>6 DEF RequestStep

\* The steps of Update.
LEMMA UpdatesUndisturbed ==
  ASSUME IInv, WorksUndisturbed, Serial', NEW u \in Updaters, UpdateStep(u) \/ FailUpdate(u),
         UNCHANGED <<requestVars, scanVars>>
  PROVE  WorksUndisturbed'
<1> DEFINE job == updates[u]
<1>1. /\ updates \in [Updaters -> Updates] /\ job \in Updates
      /\ job.entries \in [Domains -> Entries] /\ job.todo \subseteq Domains
      /\ states \in [Domains -> DomainStates]
      /\ UNCHANGED <<requests, runs, failedScans>>
  BY DEF IInv, TypeOK, UpdateJobTypeOK, DatastoreTypeOK, Updates, requestVars, scanVars
<1>2. /\ Serial /\ ScannedOnceKnown /\ UpdateInOrder(job)
      /\ \A c \in Clients : RequestInOrder(requests[c])
      /\ \A v \in Updaters : UpdateInOrder(updates[v])
  BY DEF WorksUndisturbed
<1>3. ASSUME UNCHANGED states, UpdateInOrder(updates'[u]),
             \A v \in Updaters \ {u} : updates'[v] = updates[v]
      PROVE  WorksUndisturbed'
  <2>1. \A c \in Clients : RequestInOrder(requests[c])'
    BY <1>1, <1>2, <1>3 DEF RequestInOrder
  <2>2. \A v \in Updaters : UpdateInOrder(updates[v])'
    <3>1. \A j : UpdateInOrder(j) => UpdateInOrder(j)'
      BY <1>3, OthersStayInOrder
    <3>2. \A v \in Updaters : UpdateInOrder(updates'[v])
      BY <1>2, <1>3
    <3> QED
      BY <3>1, <3>2 DEF UpdateInOrder
  <2>3. ScannedOnceKnown'
    BY <1>1, <1>2, <1>3 DEF ScannedOnceKnown
  <2> QED
    BY <2>1, <2>2, <2>3 DEF WorksUndisturbed
<1>4. CASE FetchList(u)
  <2>1. /\ job.pc = "idle" /\ updates'[u].pc = "preloaded"
        /\ updates'[u].domainStates = job.domainStates
    BY <1>1, <1>4 DEF FetchList, Updates
  <2>2. UpdateInOrder(updates'[u])
    BY <1>2, <2>1 DEF UpdateInOrder
  <2> QED
    BY <1>1, <1>3, <1>4, <2>2 DEF FetchList
<1>5. ASSUME NEW status, NEW next, Query(u, status, next),
             \/ status = "preloaded" /\ next = "pending-removal"
             \/ status = "pending-removal" /\ next = "pending-automated-removal"
      PROVE  WorksUndisturbed'
  <2>1. /\ job.pc = status /\ updates'[u].pc = next
        /\ updates'[u].domainStates = WithStatus(job.domainStates, status)
    BY <1>1, <1>5 DEF Query, Updates
  <2>2. CASE status = "preloaded" /\ next = "pending-removal"
    <3>1. WithStatus(FoundWith({}), "preloaded") = FoundWith({"preloaded"})
      BY DEF WithStatus, FoundWith
    <3>2. UpdateInOrder(updates'[u])
      BY <1>2, <2>1, <2>2, <3>1 DEF UpdateInOrder
    <3> QED
      BY <1>1, <1>3, <1>5, <3>2 DEF Query
  <2>3. CASE status = "pending-removal" /\ next = "pending-automated-removal"
    <3>1. WithStatus(FoundWith({"preloaded"}), "pending-removal")
          = FoundWith({"preloaded", "pending-removal"})
      BY DEF WithStatus, FoundWith
    <3>2. UpdateInOrder(updates'[u])
      BY <1>2, <2>1, <2>3, <3>1 DEF UpdateInOrder
    <3> QED
      BY <1>1, <1>3, <1>5, <3>2 DEF Query
  <2> QED
    BY <1>5, <2>2, <2>3
<1>6. CASE QueryLast(u)
  <2> DEFINE found == FoundWith(ListedStatuses)
             todo == Changed(job.entries, found)
  <2>1. WithStatus(job.domainStates, "pending-automated-removal") = found
    <3>1. job.domainStates = FoundWith({"preloaded", "pending-removal"})
      BY <1>2, <1>6 DEF QueryLast, UpdateInOrder
    <3> QED
      BY <3>1 DEF WithStatus, FoundWith
  <2> DEFINE new == [pc |-> "put", entries |-> job.entries, todo |-> todo,
                     domainStates |-> [d \in Domains |->
                        IF d \in todo THEN Reconciled(job.entries[d], found[d]) ELSE UnknownState]]
  <2>2. updates'[u] \in {NotRunning, new}
    BY <1>1, <1>6, <2>1 DEF QueryLast
  <2>3. \A d \in Domains : d \notin todo => Agrees(states[d], job.entries[d])
    BY <1>1, ReconciledAgrees
  <2>4. UpdateInOrder(new)
    BY <2>3 DEF UpdateInOrder
  <2>5. UpdateInOrder(updates'[u])
    BY <2>2, <2>4, IdleInOrder
  <2> QED
    BY <1>1, <1>3, <1>6, <2>5 DEF QueryLast
<1>7. CASE PutUpdates(u) \/ FailUpdate(u)
  <2>1. /\ job.pc # "idle"
        /\ \A v \in Updaters \ {u} : updates'[v] = updates[v]
        /\ \E B \in SUBSET job.todo :
              /\ \/ UNCHANGED states
                 \/ job.pc = "put" /\ PutStates(B, job.domainStates)
              /\ \/ updates'[u] = NotRunning
                 \/ /\ job.pc = "put" /\ PutStates(B, job.domainStates)
                    /\ updates'[u] = [job EXCEPT !.todo = @ \ B]
    BY <1>1, <1>7 DEF PutUpdates, FailUpdate, Batches
  <2>2. PICK B \in SUBSET job.todo :
           /\ \/ UNCHANGED states
              \/ job.pc = "put" /\ PutStates(B, job.domainStates)
           /\ \/ updates'[u] = NotRunning
              \/ /\ job.pc = "put" /\ PutStates(B, job.domainStates)
                 /\ updates'[u] = [job EXCEPT !.todo = @ \ B]
    BY <2>1
  <2>3. /\ \A c \in Clients : requests[c].pc = "idle"
        /\ \A v \in Updaters \ {u} : updates[v].pc = "idle"
    BY <1>2, <2>1, WorksAlone
  <2>4. \A c \in Clients : RequestInOrder(requests[c])'
    BY <1>1, <2>3 DEF RequestInOrder
  <2>5. UpdateInOrder(updates[u])'
    <3>1. CASE updates'[u] = NotRunning
      BY <3>1 DEF UpdateInOrder, NotRunning, FoundWith
    <3>2. CASE /\ job.pc = "put" /\ PutStates(B, job.domainStates)
               /\ updates'[u] = [job EXCEPT !.todo = @ \ B]
      <4>1. /\ updates'[u].pc = "put" /\ updates'[u].todo = job.todo \ B
            /\ updates'[u].entries = job.entries /\ updates'[u].domainStates = job.domainStates
        BY <1>1, <3>2 DEF Updates
      <4>2. ASSUME NEW d \in Domains, d \in job.todo \ B
            PROVE  /\ d \in Changed(job.entries, FoundWith(ListedStatuses)')
                   /\ job.domainStates[d]
                      = Reconciled(job.entries[d], FoundWith(ListedStatuses)'[d])
        <5>1. states'[d] = states[d]
          BY <3>2, <4>2 DEF PutStates
        <5>2. /\ d \in Changed(job.entries, FoundWith(ListedStatuses))
              /\ job.domainStates[d] = Reconciled(job.entries[d], FoundWith(ListedStatuses)[d])
          BY <1>2, <3>2, <4>2 DEF UpdateInOrder
        <5>3. /\ FoundWith(ListedStatuses)'[d] = FoundWith(ListedStatuses)[d]
              /\ d \in Changed(job.entries, FoundWith(ListedStatuses)')
                 <=> d \in Changed(job.entries, FoundWith(ListedStatuses))
          BY <5>1, FoundAlone
        <5> QED
          BY <5>2, <5>3
      <4>3. ASSUME NEW d \in Domains, d \notin job.todo \ B
            PROVE  Agrees(states'[d], job.entries[d])
        <5>1. CASE d \in B
          <6>1. states'[d] = job.domainStates[d]
            BY <3>2, <5>1 DEF PutStates
          <6>2. /\ d \in Changed(job.entries, FoundWith(ListedStatuses))
                /\ job.domainStates[d] = Reconciled(job.entries[d], FoundWith(ListedStatuses)[d])
            BY <1>2, <3>2, <5>1 DEF UpdateInOrder
          <6> QED
            BY <1>1, <6>1, <6>2, ReconciledAgrees
        <5>2. CASE d \notin job.todo
          BY <1>2, <2>2, <3>2, <5>2 DEF PutStates, UpdateInOrder
        <5> QED
          BY <4>3, <5>1, <5>2
      <4> QED
        BY <4>1, <4>2, <4>3 DEF UpdateInOrder
    <3> QED
      BY <2>2, <3>1, <3>2
  <2>6. \A v \in Updaters : UpdateInOrder(updates[v])'
    <3>1. \A j : UpdateInOrder(j) /\ j.pc = "idle" => UpdateInOrder(j)'
      BY OthersStayInOrder
    <3>2. \A v \in Updaters \ {u} : UpdateInOrder(updates[v])'
      BY <1>2, <2>1, <2>3, <3>1 DEF UpdateInOrder
    <3> QED
      BY <2>5, <3>2
  <2>7. ScannedOnceKnown'
    <3>1. ASSUME NEW d \in Domains, states'[d] # states[d]
          PROVE  states'[d].status \notin NeverListed
      <4>1. job.pc = "put" /\ d \in job.todo /\ states'[d] = job.domainStates[d]
        BY <1>1, <2>2, <3>1 DEF PutStates
      <4>2. job.domainStates[d].status \in {"removed"} \cup ListedStatuses
        BY <1>1, <1>2, <4>1, ReconciledStatus DEF UpdateInOrder
      <4> QED
        BY <4>1, <4>2 DEF NeverListed
    <3> QED
      BY <1>1, <1>2, <3>1, KnownStays
  <2> QED
    BY <2>4, <2>6, <2>7 DEF WorksUndisturbed
<1> QED
  BY <1>4, <1>5, <1>6, <1>7 DEF UpdateStep
\* A run marks only domains whose scans have failed.
LEMMA MarkedOnly ==
  ASSUME IInv, NEW s \in Shards, RunStep(s), NEW d \in Domains, states'[d] # states[d]
  PROVE  /\ states'[d].status = "pending-automated-removal"
         /\ failedScans[d] # {} /\ runs[s].pc # "idle"
<1> DEFINE run == runs[s]
<1>1. /\ states \in [Domains -> DomainStates] /\ RunAccounted(run)
      /\ run.pendingRemoval \subseteq Domains
  BY DEF IInv, TypeOK, DatastoreTypeOK, RemoveIneligibleTypeOK, Runs, HandlersAreAccountedFor
<1>2. \/ UNCHANGED states
      \/ \E B \in SUBSET run.pendingRemoval : run.pc = "put" /\ PutStates(B, run.domainStates)
  BY DEF RunStep, GetDomains, GetIneligible, Scan, DeleteBatch, SetBatch, GetPendingRemoval,
         GetStates, PutPendingRemoval, FailRun, Batches
<1>3. /\ d \in run.pendingRemoval /\ run.pc = "put" /\ states'[d] = run.domainStates[d]
  BY <1>1, <1>2 DEF PutStates
<1>4. Evidence(d) /\ run.domainStates[d].status = "pending-automated-removal"
  BY <1>1, <1>3 DEF RunAccounted
<1> QED
  BY <1>3, <1>4 DEF Evidence
\* The steps of the scans.
LEMMA RunsUndisturbed ==
  ASSUME IInv, WorksUndisturbed, Serial', NEW s \in Shards, RunStep(s),
         UNCHANGED <<requestVars, updateVars>>
  PROVE  WorksUndisturbed'
<1> DEFINE run == runs[s]
<1>1. /\ runs \in [Shards -> Runs] /\ run \in Runs
      /\ run.policyStates \subseteq Domains /\ run.pendingRemoval \subseteq Domains
      /\ failedScans \in [Domains -> SUBSET Nat]
      /\ UNCHANGED <<requests, updates>>
  BY DEF IInv, TypeOK, RemoveIneligibleTypeOK, Runs, requestVars, updateVars
<1>2. /\ Serial /\ ScannedOnceKnown
      /\ \A c \in Clients : RequestInOrder(requests[c])
      /\ \A u \in Updaters : UpdateInOrder(updates[u])
  BY DEF WorksUndisturbed
<1>3. ASSUME UNCHANGED states, ScannedOnceKnown' PROVE WorksUndisturbed'
  <2>1. /\ \A r : RequestInOrder(r) => RequestInOrder(r)'
        /\ \A job : UpdateInOrder(job) => UpdateInOrder(job)'
    BY <1>3, OthersStayInOrder
  <2>2. \A c \in Clients : RequestInOrder(requests[c])'
    BY <1>1, <1>2, <2>1 DEF RequestInOrder
  <2>3. \A u \in Updaters : UpdateInOrder(updates[u])'
    BY <1>1, <1>2, <2>1 DEF UpdateInOrder
  <2> QED
    BY <1>3, <2>2, <2>3 DEF WorksUndisturbed
<1>4. CASE GetDomains(s)
  <2>1. /\ \A t \in Shards \ {s} : runs'[t] = runs[t]
        /\ \A d \in runs'[s].policyStates : d \in Domains /\ states[d].policy # ""
        /\ UNCHANGED <<states, failedScans>>
    BY <1>1, <1>4 DEF GetDomains, InRange, Runs
  <2>2. \A t \in Shards : \A d \in Domains :
           d \in runs'[t].policyStates
           => d \in runs[t].policyStates \/ states[d].status \notin NeverListed
    BY <1>2, <2>1 DEF ScannedOnceKnown
  <2>3. ScannedOnceKnown'
    BY <1>2, <2>1, <2>2, KnownStays
  <2> QED
    BY <1>3, <2>1, <2>3
<1>5. CASE Scan(s)
  <2>1. PICK passing \in SUBSET run.policyStates :
           /\ runs' = [runs EXCEPT ![s] = Scanned(run, passing)]
           /\ failedScans' = Logged(failedScans, run.policyStates \ passing)
           /\ UNCHANGED states
    BY <1>5 DEF Scan
  <2>2. /\ runs'[s].policyStates = {}
        /\ \A t \in Shards \ {s} : runs'[t] = runs[t]
    BY <1>1, <2>1 DEF Scanned, Runs
  <2>3. \A d \in Domains : failedScans'[d] = failedScans[d] \/ d \in run.policyStates
    BY <1>1, <2>1 DEF Logged
  <2>4. ScannedOnceKnown'
    BY <1>2, <2>1, <2>2, <2>3, KnownStays
  <2> QED
    BY <1>3, <2>1, <2>4
<1>6. CASE \/ GetIneligible(s) \/ DeleteBatch(s) \/ SetBatch(s)
           \/ GetPendingRemoval(s) \/ GetStates(s) \/ PutPendingRemoval(s) \/ FailRun(s)
  <2>1. /\ run.pc # "idle" /\ UNCHANGED failedScans
        /\ \A t \in Shards \ {s} : runs'[t] = runs[t]
        /\ runs'[s].policyStates \in {run.policyStates, {}}
    <3>1. CASE GetIneligible(s)
      BY <1>1, <3>1 DEF GetIneligible, Runs
    <3>2. CASE DeleteBatch(s)
      BY <1>1, <3>2 DEF DeleteBatch, Runs
    <3>3. CASE SetBatch(s)
      BY <1>1, <3>3 DEF SetBatch, Finished, Runs
    <3>4. CASE GetPendingRemoval(s)
      BY <1>1, <3>4 DEF GetPendingRemoval, Runs
    <3>5. CASE GetStates(s)
      BY <1>1, <3>5 DEF GetStates, Finished, Runs
    <3>6. CASE PutPendingRemoval(s)
      BY <1>1, <3>6 DEF PutPendingRemoval, Finished, Runs
    <3>7. CASE FailRun(s)
      BY <1>1, <3>7 DEF FailRun, Finished
    <3> QED
      BY <1>6, <3>1, <3>2, <3>3, <3>4, <3>5, <3>6, <3>7
  <2>2. ASSUME NEW d \in Domains, states'[d] # states[d]
        PROVE  states'[d].status = "pending-automated-removal"
    BY <1>6, <2>2, MarkedOnly DEF RunStep
  <2>3. ScannedOnceKnown'
    <3>1. "pending-automated-removal" \notin NeverListed
      BY DEF NeverListed
    <3> QED
      BY <1>2, <2>1, <2>2, <3>1, KnownStays
  <2>4. /\ \A c \in Clients : requests[c].pc = "idle"
        /\ \A u \in Updaters : updates[u].pc = "idle"
    BY <1>2, <2>1, WorksAlone
  <2>5. \A c \in Clients : RequestInOrder(requests[c])'
    BY <1>1, <2>4 DEF RequestInOrder
  <2>6. \A u \in Updaters : UpdateInOrder(updates[u])'
    <3>1. \A job : UpdateInOrder(job) /\ job.pc = "idle" => UpdateInOrder(job)'
      BY OthersStayInOrder
    <3> QED
      BY <1>1, <1>2, <2>4, <3>1 DEF UpdateInOrder
  <2> QED
    BY <2>3, <2>5, <2>6 DEF WorksUndisturbed
<1> QED
  BY <1>4, <1>5, <1>6 DEF RunStep

\* The list changes, or time passes.
LEMMA QuietUndisturbed ==
  ASSUME WorksUndisturbed,
         UNCHANGED <<states, requests, updates, runs, failedScans>>
  PROVE  WorksUndisturbed'
<1>1. /\ \A r : RequestInOrder(r) => RequestInOrder(r)'
      /\ \A job : UpdateInOrder(job) => UpdateInOrder(job)'
  BY OthersStayInOrder
<1>2. /\ \A c \in Clients : RequestInOrder(requests[c])'
      /\ \A u \in Updaters : UpdateInOrder(updates[u])'
  BY <1>1 DEF WorksUndisturbed, RequestInOrder, UpdateInOrder
<1>3. Serial' /\ ScannedOnceKnown'
  BY DEF WorksUndisturbed, Serial, AtWork, ScannedOnceKnown
<1> QED
  BY <1>2, <1>3 DEF WorksUndisturbed

\* Every step of a handler is one of these, or quiet.
LEMMA StepOfOne ==
  ASSUME [Next /\ Serial']_vars
  PROVE  \/ /\ UNCHANGED <<states, requests, updates, runs, failedScans>>
         \/ /\ Serial'
            /\ \/ \E c \in Clients : RequestStep(c) /\ UNCHANGED <<updateVars, scanVars>>
               \/ \E u \in Updaters : /\ UpdateStep(u) \/ FailUpdate(u)
                                      /\ UNCHANGED <<requestVars, scanVars>>
               \/ \E s \in Shards : RunStep(s) /\ UNCHANGED <<requestVars, updateVars>>
<1>1. CASE UNCHANGED vars
  BY <1>1 DEF vars, requestVars, updateVars, scanVars
<1>2. CASE Serial' /\ UserRequestsNext /\ UNCHANGED <<updateVars, scanVars>>
  BY <1>2 DEF UserRequestsNext, RequestStep
<1>3. CASE Serial' /\ UpdateJobNext /\ UNCHANGED <<requestVars, scanVars>>
  <2>1. CASE \E d \in Domains : EditList(d)
    BY <1>3, <2>1 DEF EditList, requestVars, scanVars
  <2> QED
    BY <1>3, <2>1 DEF UpdateJobNext
<1>4. CASE Serial' /\ RemoveIneligibleNext /\ UNCHANGED <<requestVars, updateVars>>
  <2>1. CASE Tick
    BY <1>4, <2>1 DEF Tick, requestVars, updateVars
  <2> QED
    BY <1>4, <2>1 DEF RemoveIneligibleNext, RunStep
<1> QED
  BY <1>1, <1>2, <1>3, <1>4 DEF Next

LEMMA StaysUndisturbed ==
  IInv /\ WorksUndisturbed /\ [Next /\ Serial']_vars => WorksUndisturbed'
  BY StepOfOne, QuietUndisturbed, RequestsUndisturbed, UpdatesUndisturbed, RunsUndisturbed

LEMMA InitUndisturbed == Init => WorksUndisturbed
<1> SUFFICES ASSUME Init PROVE WorksUndisturbed
  OBVIOUS
<1>1. /\ requests = [c \in Clients |-> Idle]
      /\ updates = [u \in Updaters |-> NotRunning]
      /\ runs = [s \in Shards |-> Finished(0)]
      /\ failedScans = [d \in Domains |-> {}]
      /\ \A d \in Domains : states[d] \in {UnknownState, [UnknownState EXCEPT !.status = "rejected"]}
  BY DEF Init, DatastoreInit, UserRequestsInit, UpdateJobInit, RemoveIneligibleInit
<1>2. Serial
  BY <1>1 DEF Serial, AtWork, Idle, NotRunning, Finished
<1>3. \A c \in Clients : RequestInOrder(requests[c])
  BY <1>1, IdleInOrder DEF Idle
<1>4. \A u \in Updaters : UpdateInOrder(updates[u])
  BY <1>1, IdleInOrder
<1>5. ScannedOnceKnown
  <2>1. \A d \in Domains : states[d].policy = ""
    <3>1. /\ UnknownState.policy = ""
          /\ [UnknownState EXCEPT !.status = "rejected"].policy = ""
      BY DEF UnknownState
    <3> QED
      BY <1>1, <3>1
  <2> QED
    BY <1>1, <2>1 DEF ScannedOnceKnown, Finished
<1> QED
  BY <1>2, <1>3, <1>4, <1>5 DEF WorksUndisturbed

\* While handlers do not overlap, nobody changes what the one at work has read.
THEOREM Undisturbed == SerialSpec => [](IInv /\ WorksUndisturbed)
<1>1. Init => IInv /\ WorksUndisturbed
  BY InitIInv, InitUndisturbed
<1>2. IInv /\ WorksUndisturbed /\ [Next /\ Serial']_vars => (IInv /\ WorksUndisturbed)'
  BY IInvStays, StaysUndisturbed
<1> QED
  BY <1>1, <1>2, PTL DEF SerialSpec
-----------------------------------------------------------------------------
(* Update installs the list. *)

\* A run ends without failing only when every domain agrees with its entries.
LEMMA StepInstalls ==
  IInv /\ WorksUndisturbed /\ [Next /\ Serial']_vars
  => [\A u \in Updaters :
         /\ updates[u].pc # "idle" /\ updates'[u].pc = "idle"
         /\ failures' = failures
         => InSync(states', updates[u].entries)]_vars
<1> SUFFICES ASSUME IInv, WorksUndisturbed, Next, Serial', NEW u \in Updaters,
                    updates[u].pc # "idle", updates'[u].pc = "idle", failures' = failures,
                    NEW d \in Domains
             PROVE  Agrees(states'[d], updates[u].entries[d])
  BY DEF InSync
<1> DEFINE job == updates[u]
<1>1. /\ updates \in [Updaters -> Updates] /\ job \in Updates
      /\ job.entries \in [Domains -> Entries] /\ job.todo \subseteq Domains
      /\ states \in [Domains -> DomainStates] /\ failures \in Nat
      /\ UpdateInOrder(job)
  BY DEF IInv, TypeOK, UpdateJobTypeOK, DatastoreTypeOK, Updates, WorksUndisturbed
<1>2. PICK v \in Updaters : UpdateStep(v) \/ FailUpdate(v)
  <2>1. updates' # updates
    OBVIOUS
  <2> QED
    BY <2>1 DEF Next, UpdateJobNext, EditList, updateVars
<1>3. v = u
  <2>1. \A w \in Updaters \ {v} : updates'[w] = updates[w]
    BY <1>1, <1>2 DEF UpdateStep, FetchList, Query, QueryLast, PutUpdates, FailUpdate
  <2> QED
    BY <2>1
<1>4. ~FailUpdate(u)
  BY <1>1 DEF FailUpdate, Fail
<1>5. CASE FetchList(u)
  BY <1>5 DEF FetchList
<1>6. CASE \/ Query(u, "preloaded", "pending-removal")
           \/ Query(u, "pending-removal", "pending-automated-removal")
  <2>1. updates'[u].pc \in {"pending-removal", "pending-automated-removal"}
    BY <1>1, <1>6 DEF Query, Updates
  <2> QED
    BY <2>1
<1>7. CASE QueryLast(u)
  <2> DEFINE found == FoundWith(ListedStatuses)
  <2>1. WithStatus(job.domainStates, "pending-automated-removal") = found
    <3>1. job.domainStates = FoundWith({"preloaded", "pending-removal"})
      BY <1>1, <1>7 DEF QueryLast, UpdateInOrder
    <3> QED
      BY <3>1 DEF WithStatus, FoundWith
  <2>2. Changed(job.entries, found) = {} /\ UNCHANGED states
    <3>1. Changed(job.entries, found) # {} => updates'[u].pc = "put"
      BY <1>1, <1>7, <2>1 DEF QueryLast
    <3> QED
      BY <1>7, <3>1 DEF QueryLast
  <2>3. d \notin Changed(job.entries, found)
    BY <2>2
  <2> QED
    BY <1>1, <2>2, <2>3, ReconciledAgrees
<1>8. CASE PutUpdates(u)
  <2>1. PICK B \in Batches(job.todo) :
           /\ PutStates(B, job.domainStates) /\ job.pc = "put"
           /\ updates' = [updates EXCEPT ![u] =
                 IF B = job.todo THEN NotRunning ELSE [job EXCEPT !.todo = @ \ B]]
    BY <1>8 DEF PutUpdates
  <2>2. B = job.todo
    <3>1. [job EXCEPT !.todo = @ \ B].pc = "put"
      BY <1>1, <2>1 DEF Updates
    <3> QED
      BY <1>1, <2>1, <3>1
  <2>3. CASE d \in job.todo
    <3>1. states'[d] = job.domainStates[d]
      BY <2>1, <2>2, <2>3 DEF PutStates
    <3>2. /\ d \in Changed(job.entries, FoundWith(ListedStatuses))
          /\ job.domainStates[d] = Reconciled(job.entries[d], FoundWith(ListedStatuses)[d])
      BY <1>1, <2>1, <2>3 DEF UpdateInOrder
    <3> QED
      BY <1>1, <3>1, <3>2, ReconciledAgrees
  <2>4. CASE d \notin job.todo
    BY <1>1, <2>1, <2>2, <2>4 DEF PutStates, UpdateInOrder
  <2> QED
    BY <2>3, <2>4
<1> QED
  BY <1>2, <1>3, <1>4, <1>5, <1>6, <1>7, <1>8 DEF UpdateStep

\* A run of Update that nothing overlaps and of which no call fails leaves the
\* database as the list it fetched says, however many batches it takes.
THEOREM InstallsList == SerialSpec => UpdateInstallsList
<1>1. IInv /\ WorksUndisturbed /\ [Next /\ Serial']_vars
      => [\A u \in Updaters :
             /\ updates[u].pc # "idle" /\ updates'[u].pc = "idle"
             /\ failures' = failures
             => InSync(states', updates[u].entries)]_vars
  BY StepInstalls
<1> QED
  BY <1>1, Undisturbed, PTL DEF SerialSpec, UpdateInstallsList

-----------------------------------------------------------------------------
(* The handlers implement Lifecycle. *)

\* The request at work is the only one to be answered.
LEMMA AskedByOne ==
  ASSUME IInv, Serial, NEW c \in Clients, requests[c].pc # "idle",
         UNCHANGED updates, UNCHANGED runs
  PROVE  /\ AskedSeen = {<<requests[c].op, requests[c].domain>>}
         /\ requests' = [requests EXCEPT ![c] = Idle] => AskedSeen' = {}
<1>1. \A b \in Clients \ {c} : requests[b].pc = "idle"
  BY WorksAlone
<1>2. AskedSeen = {<<requests[c].op, requests[c].domain>>}
  BY <1>1 DEF AskedSeen
<1>3. ASSUME requests' = [requests EXCEPT ![c] = Idle] PROVE AskedSeen' = {}
  <2>1. \A b \in Clients : requests'[b].pc = "idle"
    BY <1>1, <1>3 DEF Idle, IInv, TypeOK, UserRequestsTypeOK
  <2> QED
    BY <2>1 DEF AskedSeen
<1> QED
  BY <1>2, <1>3

\* A request's steps are those of one step of Lifecycle, or none.
LEMMA RequestsLive ==
  ASSUME IInv, WorksUndisturbed, Serial', NEW c \in Clients, RequestStep(c),
         UNCHANGED <<updateVars, scanVars>>
  PROVE  Lifecycle!Next \/ UNCHANGED <<StatusSeen, AskedSeen>>
<1> DEFINE r == requests[c]
           d == r.domain
<1>1. /\ requests \in [Clients -> Requests] /\ r \in Requests
      /\ d \in Domains /\ r.op \in {"submit", "remove"}
      /\ states \in [Domains -> DomainStates] /\ states[d].status \in Statuses
      /\ UNCHANGED <<updates, runs>> /\ Serial /\ RequestInOrder(r)
  BY DEF IInv, TypeOK, UserRequestsTypeOK, DatastoreTypeOK, Requests, DomainStates,
         updateVars, scanVars, WorksUndisturbed
<1>2. UNCHANGED states => UNCHANGED StatusSeen
  BY DEF StatusSeen
<1>3. CASE \E op \in {"submit", "remove"}, e \in Domains : CheckSite(c, op, e)
  <2>1. PICK op \in {"submit", "remove"}, e \in Domains : CheckSite(c, op, e)
    BY <1>3
  <2>2. /\ requests[c].pc = "idle" /\ UNCHANGED states
        /\ requests'[c].pc = "read" /\ requests'[c].op = op /\ requests'[c].domain = e
        /\ \A b \in Clients \ {c} : requests'[b] = requests[b]
    BY <1>1, <2>1 DEF CheckSite, Idle
  <2>3. AskedSeen' = AskedSeen \cup {<<op, e>>}
    BY <2>2 DEF AskedSeen
  <2>4. Lifecycle!Ask(op, e)
    BY <1>2, <2>2, <2>3 DEF Lifecycle!Ask
  <2> QED
    BY <2>4 DEF Lifecycle!Next
<1>4. CASE r.pc # "idle" /\ UNCHANGED states /\ requests' = [requests EXCEPT ![c] = Idle]
  <2>1. AskedSeen = {<<r.op, d>>} /\ AskedSeen' = {}
    BY <1>1, <1>4, AskedByOne
  <2>2. Lifecycle!Decline(r.op, d)
    BY <1>2, <1>4, <2>1 DEF Lifecycle!Decline, Lifecycle!Answer
  <2> QED
    BY <1>1, <2>2 DEF Lifecycle!Next
<1>5. CASE ReadState(c)
  <2>1. CASE requests' = [requests EXCEPT ![c] = Idle]
    BY <1>4, <1>5, <2>1 DEF ReadState
  <2>2. CASE \E new : requests' = [requests EXCEPT ![c].pc = "put", ![c].state = new]
    <3>1. /\ requests'[c].pc = "put" /\ requests'[c].op = r.op /\ requests'[c].domain = d
          /\ \A b \in Clients \ {c} : requests'[b] = requests[b]
      BY <1>1, <2>2 DEF Requests
    <3>2. r.pc # "idle" /\ UNCHANGED states
      BY <1>5 DEF ReadState
    <3>3. UNCHANGED AskedSeen
      BY <3>1, <3>2 DEF AskedSeen
    <3> QED
      BY <1>2, <3>2, <3>3
  <2> QED
    BY <1>5, <2>1, <2>2 DEF ReadState
<1>6. CASE /\ r.pc = "put" /\ PutStates({d}, [e \in Domains |-> r.state])
           /\ requests' = [requests EXCEPT ![c] = Idle]
  <2>1. AskedSeen = {<<r.op, d>>} /\ AskedSeen' = {}
    BY <1>1, <1>6, AskedByOne
  <2>2. Lifecycle!Answer(r.op, d)
    BY <2>1 DEF Lifecycle!Answer
  <2>3. StatusSeen' = [e \in Domains |-> IF e \in {d} THEN r.state.status ELSE StatusSeen[e]]
    BY <1>1, <1>6 DEF StatusSeen, PutStates
  <2>4. StatusSeen[d] = states[d].status
    BY <1>1 DEF StatusSeen
  <2>5. CASE /\ r.op = "submit" /\ CanSubmit(states[d]) /\ r.state = SubmittedState(states[d])
    <3>1. \/ StatusSeen[d] \in Lifecycle!NotListed /\ r.state.status = "pending"
          \/ StatusSeen[d] \in Lifecycle!AwaitingRemoval /\ r.state.status = "preloaded"
      <4>1. \A s : s.status \in Statuses /\ CanSubmit(s)
               => \/ s.status \in Lifecycle!NotListed /\ SubmittedState(s).status = "pending"
                  \/ /\ s.status \in Lifecycle!AwaitingRemoval
                     /\ SubmittedState(s).status = "preloaded"
        BY DEF CanSubmit, SubmittedState, Lifecycle!NotListed, Lifecycle!AwaitingRemoval
      <4> QED
        BY <1>1, <2>4, <2>5, <4>1
    <3>2. Lifecycle!Submit(d)
      BY <2>2, <2>3, <2>5, <3>1 DEF Lifecycle!Submit, Lifecycle!Move
    <3> QED
      BY <1>1, <3>2 DEF Lifecycle!Next
  <2>6. CASE /\ r.op = "remove" /\ CanRemove(states[d]) /\ r.state = RemovalState
    <3>1. StatusSeen[d] \in {"pending", "preloaded"} /\ r.state.status = "pending-removal"
      <4>1. \A s : CanRemove(s) => s.status \in {"pending", "preloaded"}
        BY DEF CanRemove
      <4>2. RemovalState.status = "pending-removal"
        BY DEF RemovalState
      <4> QED
        BY <2>4, <2>6, <4>1, <4>2
    <3>2. Lifecycle!Remove(d)
      BY <2>2, <2>3, <2>6, <3>1 DEF Lifecycle!Remove, Lifecycle!Move
    <3> QED
      BY <1>1, <3>2 DEF Lifecycle!Next
  <2> QED
    BY <1>1, <1>6, <2>5, <2>6 DEF RequestInOrder
<1> QED
  BY <1>3, <1>4, <1>5, <1>6 DEF RequestStep, PutState, FailRequest

\* A step of Update that stores anything moves domains onto the list or off it.
LEMMA UpdatesLive ==
  ASSUME IInv, WorksUndisturbed, NEW u \in Updaters, UpdateStep(u) \/ FailUpdate(u),
         UNCHANGED <<requestVars, scanVars>>
  PROVE  Lifecycle!Next \/ UNCHANGED <<StatusSeen, AskedSeen>>
<1> DEFINE job == updates[u]
<1>1. /\ job \in Updates /\ job.entries \in [Domains -> Entries] /\ job.todo \subseteq Domains
      /\ states \in [Domains -> DomainStates] /\ UNCHANGED requests
      /\ UpdateInOrder(job)
  BY DEF IInv, TypeOK, UpdateJobTypeOK, DatastoreTypeOK, Updates, requestVars, WorksUndisturbed
<1>2. UNCHANGED AskedSeen
  BY <1>1 DEF AskedSeen
<1>3. CASE UNCHANGED states
  BY <1>2, <1>3 DEF StatusSeen
<1>4. ASSUME NEW B \in SUBSET job.todo, job.pc = "put", PutStates(B, job.domainStates)
      PROVE  Lifecycle!Next
  <2> DEFINE new(d) == job.domainStates[d].status
             added == {d \in B : states[d].status \notin ListedStatuses}
             gone == {d \in B : states[d].status \in ListedStatuses /\ new(d) = "removed"}
  <2>1. \A d \in B : /\ d \in Changed(job.entries, FoundWith(ListedStatuses))
                     /\ job.domainStates[d]
                        = Reconciled(job.entries[d], FoundWith(ListedStatuses)[d])
    BY <1>1, <1>4 DEF UpdateInOrder
  <2>2. \A d \in B : \/ states[d].status \notin ListedStatuses /\ new(d) = "preloaded"
                     \/ states[d].status \in ListedStatuses /\ new(d) \in {"removed", states[d].status}
    BY <1>1, <2>1, ReconciledStatus
  <2> HIDE DEF new
  <2>3. StatusSeen' = [d \in Domains |-> IF d \in B THEN new(d) ELSE states[d].status]
    BY <1>4 DEF StatusSeen, PutStates, new
  <2>4. StatusSeen' = [d \in Domains |-> IF d \in added THEN "preloaded"
                                         ELSE IF d \in gone THEN "removed" ELSE StatusSeen[d]]
    BY <2>2, <2>3 DEF StatusSeen
  <2>5. /\ \A d \in added : StatusSeen[d] \in Lifecycle!NotListed \cup {"pending"}
        /\ \A d \in gone : StatusSeen[d] \in ListedStatuses
        /\ added \in SUBSET Domains /\ gone \in SUBSET Domains
    BY <1>1 DEF StatusSeen, Lifecycle!NotListed, DomainStates
  <2> HIDE DEF added, gone
  <2>6. Lifecycle!Reconcile(added, gone)
    BY <1>2, <2>4, <2>5 DEF Lifecycle!Reconcile, Lifecycle!ListedStatuses
  <2> QED
    BY <2>5, <2>6 DEF Lifecycle!Next
<1>5. \/ UNCHANGED states
      \/ \E B \in SUBSET job.todo : job.pc = "put" /\ PutStates(B, job.domainStates)
  BY DEF UpdateStep, FetchList, Query, QueryLast, PutUpdates, FailUpdate, Batches
<1> QED
  BY <1>3, <1>4, <1>5

\* A step of the scans that stores states marks domains that were scanned.
LEMMA RunsLive ==
  ASSUME IInv, WorksUndisturbed, NEW s \in Shards, RunStep(s),
         UNCHANGED <<requestVars, updateVars>>
  PROVE  Lifecycle!Next \/ UNCHANGED <<StatusSeen, AskedSeen>>
<1> DEFINE D == {d \in Domains : states'[d] # states[d]}
<1>1. UNCHANGED AskedSeen
  BY DEF AskedSeen, requestVars
<1>2. \A d \in D : /\ states'[d].status = "pending-automated-removal"
                   /\ states[d].status \notin NeverListed /\ states[d].status \in Statuses
  BY MarkedOnly DEF WorksUndisturbed, ScannedOnceKnown, IInv, TypeOK, DatastoreTypeOK,
                    DomainStates
<1>3. /\ \A d \in D : StatusSeen[d] \in Statuses \ {"unknown", "rejected"}
      /\ StatusSeen' = [d \in Domains |-> IF d \in D THEN "pending-automated-removal"
                                          ELSE StatusSeen[d]]
  BY <1>2 DEF StatusSeen, NeverListed
<1> HIDE DEF D
<1>4. D \in SUBSET Domains
  BY DEF D
<1>5. Lifecycle!AutomatedRemoval(D)
  BY <1>1, <1>3 DEF Lifecycle!AutomatedRemoval, Lifecycle!Move, Lifecycle!Statuses
<1> QED
  BY <1>4, <1>5 DEF Lifecycle!Next

\* While handlers do not overlap, each request, each batch of Update and each
\* batch of the scans is one step of the promised life of the domains.
THEOREM LivesAsPromised == SerialSpec => SerialLifecycle
<1>1. Init => Lifecycle!Init
  <2> SUFFICES ASSUME Init PROVE Lifecycle!Init
    OBVIOUS
  <2>1. /\ \A d \in Domains :
              states[d] \in {UnknownState, [UnknownState EXCEPT !.status = "rejected"]}
        /\ requests = [c \in Clients |-> Idle]
    BY DEF Init, DatastoreInit, UserRequestsInit
  <2>2. /\ UnknownState.status = "unknown"
        /\ [UnknownState EXCEPT !.status = "rejected"].status = "rejected"
    BY DEF UnknownState
  <2>3. StatusSeen \in [Domains -> {"unknown", "rejected"}]
    BY <2>1, <2>2 DEF StatusSeen
  <2>4. AskedSeen = {}
    BY <2>1 DEF AskedSeen, Idle
  <2> QED
    BY <2>3, <2>4 DEF Lifecycle!Init
<1>2. IInv /\ WorksUndisturbed /\ [Next /\ Serial']_vars
      => [Lifecycle!Next]_<<StatusSeen, AskedSeen>>
  <2> SUFFICES ASSUME IInv, WorksUndisturbed, [Next /\ Serial']_vars
               PROVE  Lifecycle!Next \/ UNCHANGED <<StatusSeen, AskedSeen>>
    OBVIOUS
  <2>1. CASE UNCHANGED <<states, requests, updates, runs, failedScans>>
    BY <2>1 DEF StatusSeen, AskedSeen
  <2> QED
    BY <2>1, StepOfOne, RequestsLive, UpdatesLive, RunsLive
<1> QED
  BY <1>1, <1>2, Undisturbed, PTL DEF SerialSpec, SerialLifecycle, Lifecycle!Spec
=============================================================================
