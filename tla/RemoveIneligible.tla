-------------------------- MODULE RemoveIneligible --------------------------
(***************************************************************************)
(* RemoveIneligibleDomains (api/domain_handlers.go) and the database calls *)
(* it ends with.  cron.yaml starts one run a week for each of four ranges  *)
(* of domain names, two hours apart.  A run scans the bulk-preloaded       *)
(* domains of its range, adds the failed scans to the IneligibleDomainState *)
(* entities, deletes the entities of domains that pass or that are not     *)
(* bulk-preloaded any more, and marks as pending automated removal the     *)
(* domains whose failed scans span more than 30 days.                      *)
(*                                                                         *)
(* All scans of a run take one step here; the pool of goroutines that      *)
(* makes them is the subject of module ScanPipeline.                       *)
(***************************************************************************)
EXTENDS Datastore

CONSTANTS Shards,       \* the ranges of domain names in cron.yaml
          ShardOf,      \* ShardOf[d]: the range d is in
          RemovalAge,   \* the 30 days, in weeks
          MaxTime       \* bound: weeks that pass

ASSUME RemoveIneligibleAssumption == /\ Shards # {} => ShardOf \in [Domains -> Shards]
                                     /\ RemovalAge \in Nat
                                     /\ MaxTime \in Nat

VARIABLES now,          \* weeks since the start
          runs,         \* runs[s]: the run for range s
          failedScans,  \* history: the times d was scanned and failed
          passedScans   \* history: the times d was scanned and passed, but for the
                        \* passes of a run that failed before it deleted d's entity

scanVars == <<now, runs, failedScans, passedScans>>

(***************************************************************************)
(* A run: the week of its last start; policyStates, the domains to scan;   *)
(* records, the entities of the range and then the ones to store; the      *)
(* domains whose entity is to be deleted (deletes) and stored (sets); and  *)
(* pendingRemoval with the states to store for them.                       *)
(***************************************************************************)
Runs == [pc             : {"idle", "getAll", "scan", "delete", "set", "getAllAgain",
                           "getStates", "put"},
         started        : Nat,
         policyStates   : SUBSET Domains,
         records        : [Domains -> IneligibleStates],
         deletes        : SUBSET Domains,
         sets           : SUBSET Domains,
         pendingRemoval : SUBSET Domains,
         domainStates   : [Domains -> DomainStates]]

Finished(started) == [pc             |-> "idle",
                      started        |-> started,
                      policyStates   |-> {},
                      records        |-> [d \in Domains |-> NoScans],
                      deletes        |-> {},
                      sets           |-> {},
                      pendingRemoval |-> {},
                      domainStates   |-> [d \in Domains |-> UnknownState]]

InRange(s) == {d \in Domains : ShardOf[d] = s}

\* Mutant: the age of the first scan is not looked at.
ShouldRemoveAtOnce(r) == r.scans = 2

\* More than one failed scan, more than 30 days apart.
ShouldRemove(r) == r.scans = 2 /\ r.last - r.first > RemovalAge

\* A week passes.
Tick == /\ now < MaxTime
        /\ now' = now + 1
        /\ UNCHANGED <<states, ineligible, failures, runs, failedScans, passedScans>>

\* DomainStatesInRange and the filter on the two policies that are scanned.
GetDomains(s) ==
    /\ runs[s].pc = "idle"
    /\ runs[s].started < now
    /\ runs' = [runs EXCEPT ![s].pc = "getAll", ![s].started = now,
          ![s].policyStates = {d \in InRange(s) :
                                  states[d].policy \in {"bulk-18-weeks", "bulk-1-year"}}]
    /\ UNCHANGED <<states, ineligible, failures, now, failedScans, passedScans>>

\* Mutant: the entities of other ranges are kept.
RecordsOfAll(s) == ineligible

\* The part of GetAllIneligibleDomainStates that is in the range.
RecordsInRange(s) == [d \in Domains |-> IF d \in InRange(s) THEN ineligible[d] ELSE NoScans]

\* The entities of the range; those of domains that are not scanned will go.
GetIneligible(s) ==
    LET records == RecordsInRange(s)
    IN  /\ runs[s].pc = "getAll"
        /\ runs' = [runs EXCEPT ![s].pc = "scan", ![s].records = records,
              ![s].deletes = {d \in Domains : records[d].scans > 0} \ runs[s].policyStates]
        /\ UNCHANGED <<states, ineligible, failures, now, failedScans, passedScans>>

\* Mutant: an entity is kept when its domain passes.
ForgivenNever(records, passing) == {}

\* The domains that pass and have failed before.
Forgiven(records, passing) == {d \in passing : records[d].scans > 0}

\* The run when its scans are collected: the domains of passing passed.
Scanned(run, passing) ==
    LET failing == run.policyStates \ passing
    IN  [run EXCEPT !.pc = "delete",
                    !.policyStates = {},
                    !.deletes = @ \cup Forgiven(run.records, passing),
                    !.sets = failing,
                    !.records = [d \in Domains |-> IF d \in failing
                                                   THEN AppendScan(@[d], now) ELSE @[d]]]

\* The history log with a scan of each domain of D, made now.
Logged(log, D) == [d \in Domains |-> IF d \in D THEN log[d] \cup {now} ELSE log[d]]

\* EligibleDomain on every domain of policyStates; some of them pass.
Scan(s) ==
    /\ runs[s].pc = "scan"
    /\ \E passing \in SUBSET runs[s].policyStates :
          /\ runs' = [runs EXCEPT ![s] = Scanned(runs[s], passing)]
          /\ failedScans' = Logged(failedScans, runs[s].policyStates \ passing)
          /\ passedScans' = Logged(passedScans, passing)
    /\ UNCHANGED <<states, ineligible, failures, now>>

\* A batch of DeleteIneligibleDomainStates.
DeleteBatch(s) ==
    /\ runs[s].pc = "delete"
    /\ \E B \in Batches(runs[s].deletes) :
          /\ DeleteIneligible(B)
          /\ runs' = [runs EXCEPT ![s].deletes = @ \ B,
                                  ![s].pc = IF B = runs[s].deletes THEN "set" ELSE @]
    /\ UNCHANGED <<states, failures, now, failedScans, passedScans>>

\* A batch of SetIneligibleDomainStates.
SetBatch(s) ==
    LET run == runs[s]
    IN  /\ run.pc = "set"
        /\ \E B \in Batches(run.sets) :
              /\ PutIneligible(B, run.records)
              /\ runs' = [runs EXCEPT ![s] =
                    IF B = run.sets THEN [Finished(run.started) EXCEPT !.pc = "getAllAgain"]
                    ELSE [run EXCEPT !.sets = @ \ B]]
        /\ UNCHANGED <<states, failures, now, failedScans, passedScans>>

\* GetAllIneligibleDomainStates again, of every range, and shouldRemove.
GetPendingRemoval(s) ==
    /\ runs[s].pc = "getAllAgain"
    /\ runs' = [runs EXCEPT ![s].pc = "getStates",
                            ![s].pendingRemoval = {d \in Domains : ShouldRemove(ineligible[d])}]
    /\ UNCHANGED <<states, ineligible, failures, now, failedScans, passedScans>>

\* StatesForDomains in SetPendingAutomatedRemoval, which gives up when one
\* entity is missing.
GetStates(s) ==
    LET run == runs[s]
    IN  /\ run.pc = "getStates"
        /\ runs' = [runs EXCEPT ![s] =
              IF run.pendingRemoval = {} \/ \E d \in run.pendingRemoval : states[d].status = "unknown"
              THEN Finished(run.started)
              ELSE [run EXCEPT !.pc = "put",
                               !.domainStates = [d \in Domains |->
                                  IF d \in run.pendingRemoval
                                  THEN [states[d] EXCEPT !.status = "pending-automated-removal"]
                                  ELSE UnknownState]]]
        /\ UNCHANGED <<states, ineligible, failures, now, failedScans, passedScans>>

\* A batch of PutStates, over whatever has been stored since the read.
PutPendingRemoval(s) ==
    LET run == runs[s]
    IN  /\ run.pc = "put"
        /\ \E B \in Batches(run.pendingRemoval) :
              /\ PutStates(B, run.domainStates)
              /\ runs' = [runs EXCEPT ![s] =
                    IF B = run.pendingRemoval THEN Finished(run.started)
                    ELSE [run EXCEPT !.pendingRemoval = @ \ B]]
        /\ UNCHANGED <<ineligible, failures, now, failedScans, passedScans>>

\* The history log without the passes that run did not come to act on.
Unlogged(log, run) == [d \in Domains |-> IF d \in run.deletes
                                         THEN {p \in log[d] : p < run.started} ELSE log[d]]

\* A call fails, or the instance ends: the rest of the run is not done, and a
\* batch that failed may have been applied in part.
FailRun(s) ==
    LET run == runs[s]
    IN  /\ run.pc # "idle"
        /\ Fail
        /\ \/ UNCHANGED <<states, ineligible>>
           \/ /\ run.pc = "delete"
              /\ \E B \in Batches(run.deletes) :
                    \E applied \in SUBSET B : DeleteIneligible(applied)
              /\ UNCHANGED states
           \/ /\ run.pc = "set"
              /\ \E B \in Batches(run.sets) :
                    \E applied \in SUBSET B : PutIneligible(applied, run.records)
              /\ UNCHANGED states
           \/ /\ run.pc = "put"
              /\ \E B \in Batches(run.pendingRemoval) :
                    \E applied \in SUBSET B : PutStates(applied, run.domainStates)
              /\ UNCHANGED ineligible
        /\ runs' = [runs EXCEPT ![s] = Finished(run.started)]
        /\ passedScans' = Unlogged(passedScans, run)
        /\ UNCHANGED <<now, failedScans>>

RemoveIneligibleTypeOK == /\ now \in 0..MaxTime
                          /\ runs \in [Shards -> Runs]
                          /\ failedScans \in [Domains -> SUBSET Nat]
                          /\ passedScans \in [Domains -> SUBSET Nat]

RemoveIneligibleInit == /\ now = 0
                        /\ runs = [s \in Shards |-> Finished(0)]
                        /\ failedScans = [d \in Domains |-> {}]
                        /\ passedScans = [d \in Domains |-> {}]

RemoveIneligibleNext ==
    \/ Tick
    \/ \E s \in Shards :
          \/ GetDomains(s) \/ GetIneligible(s) \/ Scan(s)
          \/ DeleteBatch(s) \/ SetBatch(s)
          \/ GetPendingRemoval(s) \/ GetStates(s) \/ PutPendingRemoval(s)
          \/ FailRun(s)
=============================================================================
