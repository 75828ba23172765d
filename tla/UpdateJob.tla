----------------------------- MODULE UpdateJob -----------------------------
(***************************************************************************)
(* Update (api/update.go) brings the database in line with the preload     *)
(* list in Chromium's source: it fetches the list, reads the domains of    *)
(* the three listed statuses with one query each, and writes the states    *)
(* that differ, in batches.  cron.yaml calls it every 12 hours and anybody *)
(* may call it at any time, so runs may overlap.                           *)
(***************************************************************************)
EXTENDS Datastore

CONSTANTS Updaters,     \* concurrent runs of Update
          ListEntries,  \* the entries the list may have for a domain
          MaxEdits      \* bound: changes made to the list

ASSUME UpdateJobAssumption == /\ ListEntries \subseteq Entries
                              /\ MaxEdits \in Nat

VARIABLES list,         \* list[d]: the entry of d in Chromium's source
          edits,        \* changes made to it so far
          updates       \* updates[u]: a run of Update

updateVars == <<list, edits, updates>>

(***************************************************************************)
(* A run: the entries of the list it fetched; the map domainStates of what *)
(* the queries found (an unknown state stands for a key that is not in the *)
(* map), which the comparison turns into the states to store; and the      *)
(* domains still to be written.  While it queries, pc is the status it     *)
(* asks for.                                                               *)
(***************************************************************************)
Updates == [pc           : {"idle", "put"} \cup ListedStatuses,
            entries      : [Domains -> Entries],
            domainStates : [Domains -> DomainStates],
            todo         : SUBSET Domains]

NotRunning == [pc           |-> "idle",
               entries      |-> [d \in Domains |-> ToEntry(UnknownState)],
               domainStates |-> [d \in Domains |-> UnknownState],
               todo         |-> {}]

\* The maintainers, helped by scripts/updatelist, change the list.
EditList(d) ==
    /\ edits < MaxEdits
    /\ edits' = edits + 1
    /\ \E e \in ListEntries \ {list[d]} : list' = [list EXCEPT ![d] = e]
    /\ UNCHANGED <<states, ineligible, failures, updates>>

\* preloadlist.NewFromLatest.
FetchList(u) ==
    /\ updates[u].pc = "idle"
    /\ updates' = [updates EXCEPT ![u].pc = "preloaded", ![u].entries = list]
    /\ UNCHANGED <<states, ineligible, failures, list, edits>>

\* The map after one more query: a domain found by two queries keeps the
\* state of the later one.
WithStatus(found, status) ==
    [d \in Domains |-> IF states[d].status = status THEN states[d] ELSE found[d]]

Query(u, status, next) ==
    /\ updates[u].pc = status
    /\ updates' = [updates EXCEPT ![u].pc = next,
                                  ![u].domainStates = WithStatus(@, status)]
    /\ UNCHANGED <<states, ineligible, failures, list, edits>>

\* Mutant: an entry found is not compared with what is stored.
ChangedIfNew(entries, found) ==
    {d \in Domains : IF entries[d].mode = ForceHTTPS
                     THEN found[d].status = "unknown"
                     ELSE found[d].status # "unknown"}

\* Mutant: the domains left in the map are not gone through.
ChangedIfListed(entries, found) ==
    {d \in Domains : entries[d].mode = ForceHTTPS /\ ToEntry(found[d]) # entries[d]}

\* The domains to write, given the entries and the states found: the list's
\* domains that were not found or differ, and the others that were found.
Changed(entries, found) ==
    {d \in Domains : IF entries[d].mode = ForceHTTPS
                     THEN ToEntry(found[d]) # entries[d]
                     ELSE found[d].status # "unknown"}

\* Mutant: an entry that differs is treated as one that was not found.
ReconciledAsNew(entry, s) ==
    IF entry.mode = ForceHTTPS
    THEN EntryToDomainState(entry, "preloaded")
    ELSE [s EXCEPT !.status = "removed", !.policy = ""]

\* Mutant: a domain gone from the list is forgotten.
ReconciledToUnknown(entry, s) ==
    IF entry.mode = ForceHTTPS
    THEN IF s.status = "unknown"
         THEN EntryToDomainState(entry, "preloaded")
         ELSE [s EXCEPT !.policy = entry.policy,
                        !.includeSubDomains = entry.includeSubDomains]
    ELSE UnknownState

\* The state to write for such a domain: added, removed or updated.
Reconciled(entry, s) ==
    IF entry.mode = ForceHTTPS
    THEN IF s.status = "unknown"
         THEN EntryToDomainState(entry, "preloaded")
         ELSE [s EXCEPT !.policy = entry.policy,
                        !.includeSubDomains = entry.includeSubDomains]
    ELSE [s EXCEPT !.status = "removed", !.policy = ""]

\* The last query and the comparison with the list.
QueryLast(u) ==
    LET entries == updates[u].entries
        found   == WithStatus(updates[u].domainStates, "pending-automated-removal")
        todo    == Changed(entries, found)
    IN  /\ updates[u].pc = "pending-automated-removal"
        /\ updates' = [updates EXCEPT ![u] =
              IF todo = {} THEN NotRunning
              ELSE [pc |-> "put", entries |-> entries, todo |-> todo,
                    domainStates |-> [d \in Domains |->
                       IF d \in todo THEN Reconciled(entries[d], found[d]) ELSE UnknownState]]]
        /\ UNCHANGED <<states, ineligible, failures, list, edits>>

\* One batch of PutStates, over whatever has been stored since the queries.
PutUpdates(u) ==
    LET job == updates[u]
    IN  /\ job.pc = "put"
        /\ \E B \in Batches(job.todo) :
              /\ PutStates(B, job.domainStates)
              /\ updates' = [updates EXCEPT ![u] =
                    IF B = job.todo THEN NotRunning ELSE [job EXCEPT !.todo = @ \ B]]
        /\ UNCHANGED <<ineligible, failures, list, edits>>

\* Fetching, querying or writing fails, which ends the run: a batch reported
\* as failed may have been applied in part, and later ones are not tried.
FailUpdate(u) ==
    LET job == updates[u]
    IN  /\ job.pc # "idle"
        /\ Fail
        /\ \/ UNCHANGED states
           \/ /\ job.pc = "put"
              /\ \E B \in Batches(job.todo) :
                    \E applied \in SUBSET B : PutStates(applied, job.domainStates)
        /\ updates' = [updates EXCEPT ![u] = NotRunning]
        /\ UNCHANGED <<ineligible, list, edits>>

UpdateStep(u) ==
    \/ FetchList(u)
    \/ Query(u, "preloaded", "pending-removal")
    \/ Query(u, "pending-removal", "pending-automated-removal")
    \/ QueryLast(u)
    \/ PutUpdates(u)

UpdateJobTypeOK == /\ list \in [Domains -> Entries]
                   /\ edits \in 0..MaxEdits
                   /\ updates \in [Updaters -> Updates]

UpdateJobInit == /\ list \in [Domains -> ListEntries]
                 /\ edits = 0
                 /\ updates = [u \in Updaters |-> NotRunning]

UpdateJobNext == \/ \E d \in Domains : EditList(d)
                 \/ \E u \in Updaters : UpdateStep(u) \/ FailUpdate(u)
=============================================================================
