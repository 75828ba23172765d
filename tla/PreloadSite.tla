---------------------------- MODULE PreloadSite ----------------------------
(***************************************************************************)
(* The whole site: the requests of site owners, the runs of Update and the *)
(* weekly runs of RemoveIneligibleDomains, all working on one database,    *)
(* and Chromium's list, which the maintainers change.  No handler excludes *)
(* another, so the steps interleave in every order.                        *)
(***************************************************************************)
EXTENDS UserRequests, UpdateJob, RemoveIneligible

vars == <<states, ineligible, failures, requestVars, updateVars, scanVars>>

Init == /\ DatastoreInit
        /\ UserRequestsInit
        /\ UpdateJobInit
        /\ RemoveIneligibleInit

Next == \/ UserRequestsNext /\ UNCHANGED <<updateVars, scanVars>>
        \/ UpdateJobNext /\ UNCHANGED <<requestVars, scanVars>>
        \/ RemoveIneligibleNext /\ UNCHANGED <<requestVars, updateVars>>

Spec == Init /\ [][Next]_vars

\* cron.yaml starts Update every 12 hours whatever became of the run before.
UpdatesKeepRunning ==
    \A u \in Updaters : WF_vars(UpdateStep(u) /\ UNCHANGED <<requestVars, scanVars>>)

FairSpec == Spec /\ UpdatesKeepRunning
-----------------------------------------------------------------------------
(* Invariants *)

\* The variables hold values of the kinds the code gives them.
TypeOK == /\ DatastoreTypeOK
          /\ UserRequestsTypeOK
          /\ UpdateJobTypeOK
          /\ RemoveIneligibleTypeOK

\* Two failed scans of d, more than 30 days apart.
Evidence(d) == \E a, b \in failedScans[d] : b - a > RemovalAge

\* A state of d that the site can account for.
Accounted(d, s) ==
    /\ s.status = "pending" => "submit" \in vetted[d] /\ s.submissionDate = "submission"
    /\ s.status = "pending-removal" => "remove" \in vetted[d]
    /\ s.status = "pending-automated-removal" => Evidence(d)

\* Whatever the interleaving of requests, Update runs and scans, and whatever
\* call fails: a domain is pending only after it passed PreloadableDomain, and
\* then carries the date of a submission, which Submit shows to the next
\* submitter; it is pending removal only after it passed RemovableDomain; and
\* it is pending automated removal only after two failed scans more than 30
\* days apart.
StatusIsAccountedFor == \A d \in Domains : Accounted(d, states[d])

\* A domain with recorded failed scans has a state.  SetPendingAutomatedRemoval
\* relies on it: its StatesForDomains fails for all domains if one is missing,
\* which would put an end to every automated removal.
IneligibleHasState ==
    \A d \in Domains : ineligible[d].scans > 0 => states[d].status # "unknown"

\* A scan that passes makes the site forget the failures before it, through
\* requests, other runs and failed calls: once the run that made it has deleted
\* the domain's entity, no recorded series of failures reaches back beyond the
\* pass.  A run that fails before it has deleted the entity leaves the series
\* as if the domain had not been scanned.
PassForgetsFailures ==
    \A s \in Shards : \A d \in InRange(s) :
        ineligible[d].scans > 0 /\ ~(runs[s].pc = "delete" /\ d \in runs[s].deletes)
        => \A p \in passedScans[d] : ineligible[d].first >= p
-----------------------------------------------------------------------------
(* The inductive invariant: StatusIsAccountedFor and IneligibleHasState hold *)
(* because the same is true of everything a handler has read or is about to  *)
(* write, however old it is by now.                                          *)

\* The times of a recorded series are those of failed scans of d, and d has a
\* state.
Recorded(d, r) == r.scans > 0 => /\ {r.first, r.last} \subseteq failedScans[d]
                                 /\ states[d].status # "unknown"

EntitiesAreAccountedFor ==
    \A d \in Domains : /\ Recorded(d, ineligible[d])
                       /\ states[d].status = "unknown" => states[d].policy = ""

RequestAccounted(r) ==
    /\ r.pc # "idle" => r.op \in vetted[r.domain]
    /\ r.pc = "put" => Accounted(r.domain, r.state) /\ r.state.status # "unknown"

UpdateAccounted(job) ==
    \A d \in Domains : /\ Accounted(d, job.domainStates[d])
                       /\ d \in job.todo => job.domainStates[d].status # "unknown"

RunAccounted(run) ==
    \A d \in Domains :
        /\ d \in run.policyStates \cup run.sets => states[d].status # "unknown"
        /\ Recorded(d, run.records[d])
        /\ d \in run.pendingRemoval => Evidence(d)
        /\ run.pc = "put" /\ d \in run.pendingRemoval
           => run.domainStates[d].status = "pending-automated-removal"

HandlersAreAccountedFor == /\ \A c \in Clients : RequestAccounted(requests[c])
                           /\ \A u \in Updaters : UpdateAccounted(updates[u])
                           /\ \A s \in Shards : RunAccounted(runs[s])

\* A run scans, deletes and stores within its range.
RunsStayInRange ==
    \A s \in Shards : runs[s].policyStates \cup runs[s].deletes \cup runs[s].sets
                       \subseteq InRange(s)

\* What the database holds, what each handler has read and what it will still
\* write are accounted for, and each run of the scans stays in its range.
IInv == /\ TypeOK
        /\ StatusIsAccountedFor
        /\ EntitiesAreAccountedFor
        /\ HandlersAreAccountedFor
        /\ RunsStayInRange

\* A series whose first scan does not come before any of the given passes.
BeginsAfter(r, passes) == r.scans > 0 => \A p \in passes : r.first >= p

\* The passes of d that run has not still to act on.
ActedOn(run, d) ==
    {p \in passedScans[d] : run.pc = "delete" /\ d \in run.deletes => p < run.started}

\* What is recorded of d reaches back only beyond the pass that the run for
\* its range still has to act on; what the run has read is what is recorded,
\* and what it will store reaches back beyond no pass.
PassesInOrder(s, d) ==
    LET run == runs[s]
    IN  /\ run.started <= now
        /\ \A p \in passedScans[d] : p <= now
        /\ BeginsAfter(ineligible[d], ActedOn(run, d))
        /\ run.pc = "scan" => run.records[d] = ineligible[d]
        /\ run.pc \in {"delete", "set"} /\ d \in run.sets
           => BeginsAfter(run.records[d], passedScans[d])

\* With IInv, the invariant that makes PassForgetsFailures inductive: each
\* recorded series, and each that a run will store, begins after the passes
\* that have been acted on.
NoSeriesAcrossPass == \A s \in Shards : \A d \in InRange(s) : PassesInOrder(s, d)
-----------------------------------------------------------------------------
(* Properties of steps *)

\* The recorded scans of a domain are only ever changed by the run for the
\* range the domain is in, so that runs for different ranges may overlap.
ScansKeptByOwnRange ==
    [][\A d \in Domains : ineligible'[d] # ineligible[d]
                          => runs'[ShardOf[d]] # runs[ShardOf[d]]]_vars

\* A state says of a domain what its entry in the list says.
Agrees(s, entry) == /\ ToEntry(s).mode = entry.mode
                    /\ entry.mode = ForceHTTPS => ToEntry(s) = entry

InSync(stored, entries) == \A d \in Domains : Agrees(stored[d], entries[d])
-----------------------------------------------------------------------------
(* Liveness *)

\* Whatever overlapped or failed before: once the list, the owners and the
\* scans leave the database alone, Update brings it in line with the list and
\* it stays so.  Every status a lost update left wrong is repaired if the list
\* contradicts it.
DatabaseFollowsList == <>[]InSync(states, list)
-----------------------------------------------------------------------------
(* What the documentation and the tests say, and the handlers do not keep *)

\* update_test.go: "pending removals stay pending when on list".
PendingRemovalStays ==
    [][\A u \in Updaters, d \in Domains :
          /\ updates[u] # updates'[u]
          /\ states[d].status = "pending-removal"
          /\ list[d].mode = ForceHTTPS
          => states'[d].status # "preloaded"]_vars

\* domain_handlers.go: Submit "attempts to submit it to the pending queue".
SubmissionIsQueued ==
    [][\A c \in Clients :
          /\ requests[c].pc = "put" /\ requests[c].op = "submit"
          /\ requests'[c].pc = "idle" /\ failures' = failures
          => LET d == requests[c].domain
             IN  states'[d].status = "pending" \/ list[d].mode = ForceHTTPS]_vars

\* domainstate.go: "Protected tells whether a domain is protected from
\* automated removal".
ProtectedFromAutomatedRemoval ==
    [][\A d \in Domains :
          /\ states[d].status = "preloaded"
          /\ IsProtected(states[d])
          => states'[d].status # "pending-automated-removal"]_vars
=============================================================================
