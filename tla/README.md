# Verification of hstspreload.org

TLA+ models of the server behind hstspreload.org, TLC configurations that
model-check them on small instances, and TLAPS proofs of their invariants, of what steps may
never do, and of the refinements between them.
Paths are relative to `src/`.

Contents: [the system](#the-system), [the modules](#the-modules),
[the runs](#the-runs), [bounds](#bounds), [fairness](#fairness),
[assumptions](#assumptions-and-abstractions), [proofs](#proofs),
[what is not modelled](#not-modelled), [plan](#plan).

## The system

The site lets owners of domains ask for their domain to be put on, or taken off,
the HSTS preload list compiled into Chromium. Its database is a work queue between
the owners and the maintainers of the list. Nothing in it excludes anything
else: every handler is a goroutine of an App Engine instance, of which there may be
several, and the only transactions are single datastore calls.

```
  owners ──Submit/Remove──▶ ┌───────────────────────┐ ◀──Update (12 h)────── Chromium's list
         ◀──Status/lists─── │ DomainState entities  │                          ▲
             (cache)        │ IneligibleDomainState │ ◀─RemoveIneligible (7 d) │
                            └───────────────────────┘ ──lists──▶ updatelist ──▶ maintainers
```

| component | state it keeps | operations | what is hard about it | what makes it correct |
|---|---|---|---|---|
| Domain states (`database/domainstate.go`, `ineligibledomainstate.go`) | per domain: status, policy, includeSubDomains, submission date; the times of failed scans | conversion to and from list entries, bulk and protected states | a state means "on the list" in three statuses | status, policy and date fit the way they were reached |
| Datastore access (`database/database.go`) | the entities | PutState, PutStates, StatesWithStatus, StatesForDomains, Set/DeleteIneligibleDomainStates, SetPendingAutomatedRemoval | batches of 450 that stop at the first error; no transactions | a partial write does no lasting harm |
| Submit, Remove (`api/domain_handlers.go`) | none between requests | check the live site, read, decide, write | the decision is old when it is written | pending only after a passed check, removal only after a passed check |
| Update (`api/update.go`) | none between runs | fetch the list, three queries, compare, write | queries at different times; overlap with requests and other runs | the database follows the list; a removal request survives |
| RemoveIneligibleDomains (`api/domain_handlers.go`, `cron.yaml`) | recorded failed scans | four weekly runs over ranges of names: scan, delete, set, mark | runs overlap; failures of one step skip the rest | removal only after more than 30 days of failures; a pass resets |
| Scan workers (`api/domain_handlers.go:489-529`) | goroutines, two unbuffered channels, a WaitGroup | send, scan, collect, close | order of close, Done and send | each domain one verdict, no panic, nothing left blocked |
| Status, Removable, lists, cache (`api/cache.go`, `api/pending.go`, `api/domain_handlers.go`) | one map per kind with expiry, one mutex | Status with its walk over the ancestors, Removable on top of it, three lists | mutex held over a datastore call, failing fetches | recent, never going back, always answered; nothing offered for removal that another domain or its protection keeps on the list |
| updatelist (`scripts/updatelist/main.go`) | the list file | fetch lists, re-scan with 500 goroutines, rewrite | lists fetched at different times, channels, duplicates | the list gains and loses exactly the queued domains |
| Web form (`frontend/static/js/form.js`, `view.js`, `base.js`) | the domain to submit, what is shown of it | check, edit, submit, show | answers long after the input was edited, a form sent twice, other users in between | what is shown belongs to the domain shown; no unfounded success |
| Redirects, CORS, set-up, debug, local datastore, mocks | none that matters at run time | | | |

How they interact: `Submit` and `Remove` put a domain in a queue (`pending`,
`pending-removal`); the maintainers read the queues and change the list; `Update` compares
the list with the database and moves domains to `preloaded` and `removed`;
`RemoveIneligibleDomains` puts domains that fail their scans into a third queue,
`pending-automated-removal`. `Status` and the lists read the same entities through the
cache, and so do the submission and the removal page, which talk to the handlers only. All of
them meet only in the datastore; the list closes the circle.

The hazards are listed in `PROJECT.json`, each at its line, with the properties
that would notice it going wrong.

## The modules

`Datastore`, `UserRequests`, `UpdateJob` and `RemoveIneligible` each hold one component;
`PreloadSite` interleaves their steps and states the properties, and `SerialSite` adds those of handlers that do not
overlap. `ScanPipeline`, `StatusCache` and `UpdateList` are models of their own. Two modules compose: `WebForm` puts pages in front of the site, and `ListCycle` puts the
roll of the list behind it, as `ListRoll` describes it and `UpdateList` implements it.

```
  WebForm ──extends──▶ PreloadSite ◀──extends── ListCycle ──instance──▶ ListRoll ◀──implements── UpdateList
                            ▲
                            │ extends
                        SerialSite ──implements──▶ Lifecycle

                        ScanPipeline ──implements──▶ ScanResults (a scan of PreloadSite)

  StatusCache
```

| module | models | correspondence |
|---|---|---|
| `DomainState` | `database/domainstate.go` and the list entries of the `preloadlist` library | records for `DomainState` and `Entry`; `ToEntry`, `EntryToDomainState`, `IsBulk`, `IsProtected` as in the code |
| `Datastore` | the entities and `database/database.go`'s writes | `states[d]`, `ineligible[d]`; no entity is `UnknownState`/`NoScans`, as `StateForDomain` answers; `Batches` is what one `PutMulti` of the batching loops takes; `Fail` is an error or the death of the instance |
| `UserRequests` | `Submit`, `Remove` | `requests[c]` is a handler's local state; `CheckSite`, `ReadState` (with the decision), `PutState` are its three calls. `SubmittedState`, `RemovalState` are what it writes |
| `UpdateJob` | `Update` | `updates[u]`: `FetchList`, `Query` for two statuses, `QueryLast` with the comparison, `PutUpdates` per batch; `EditList` is the maintainers |
| `RemoveIneligible` | `RemoveIneligibleDomains`, `SetPendingAutomatedRemoval` | `runs[s]`, one per range of `cron.yaml`: `GetDomains`, `GetIneligible`, `Scan`, `DeleteBatch`, `SetBatch`, `GetPendingRemoval`, `GetStates`, `PutPendingRemoval` |
| `Lifecycle` | abstract: what the site promises about statuses | one step per request, per Update, per automated removal; refined by `SerialSite` |
| `PreloadSite` | the site | `Next` interleaves the above |
| `SerialSite` | the site while its handlers happen not to overlap | `SerialSpec`: the same steps, at most one handler `AtWork` |
| `ScanPipeline` | the goroutines of one run's scan | `sender`, `workers[w]`, `handler`, the counter `wg`, the `open` channels; an unbuffered send is one step with its receive |
| `ScanResults` | abstract: one verdict per domain, in one step | refined by `ScanPipeline`; it is the step `Scan` of `RemoveIneligible` |
| `StatusCache` | `api/cache.go`, `Status`, `Removable`, `api/pending.go` | `Hit`, `Miss`, `Fetch`, `Store`, `FailFetch` are the parts of a lookup under the mutex `lock`; `Use` is what `Status` and the lists do with a value, `UseError` what they do with an error, which for an ancestor is to pass over it; `Issue` is what `Removable` adds to the site's check |
| `UpdateList` | `scripts/updatelist/main.go` and what the maintainer does with its output | `program` holds a run's locals; `Fetch` per queue, `StartScan`/`EndScan` for `filterParallel` with its slots `sem`, `Truncate`/`WriteFile` for `overwriteFile`, `Fatal` for every `log.Fatalf`; `Commit` and `Reset` are the maintainer |
| `ListRoll` | abstract: a roll of the list as the rest of the system sees it | one step per queue fetched, per round of scans, for the rewriting, an abort, a commit, a reset; refined by `UpdateList` |
| `ListCycle` | the site and the roll together | the queues of `ListRoll` are the statuses of the site, and a commit changes the list that `Update` fetches; `FairCycleSpec` is the maintainers who keep rolling |
| `WebForm` | `frontend/static/js/form.js` and `view.js`, with the site behind them | `pages[p]` is a page: `Load` is a check (the button loads the page anew with the domain as parameter), `EditInput` the `input` event, `StatusAnswer` and `EligibleAnswer` the two promises, `HandleResults` their outcome, `SubmitForm` the form, which is a request `CheckSite` of the site; `Answers` is what the handlers' JSON says when they end |
| `PreloadSiteProofs`, `SerialProofs`, `ScanPipelineProofs`, `StatusCacheProofs`, `UpdateListProofs`, `ListCycleProofs`, `WebFormProofs` | theorems about the module of that name | see [proofs](#proofs) |
| `MCPreloadSite`, `MCScanPipeline`, `MCStatusCache`, `MCUpdateList`, `MCListCycle`, `MCWebForm` | instances for TLC | |

History variables, which no action reads: `vetted` (checks passed), `failedScans` (every failed scan) and
`passedScans` (every passing one, but taken back by a run that fails before it has deleted what was recorded of the domain, as the code then
treats the domain as if it had not been scanned), `served` and `answer` (what the cache handed out), `evidence` (queues
and scans since the last commit), `grounds` of a page (its domain has been where a success says it is). They let
an invariant relate the database to the events it must come from.

A failing handler is an action `Fail...`: any call may fail, and the instance may end, at any step.
A write that is reported as failed may have been applied, in the whole or for a
part of its batch; the rest of the handler does not happen.

## The runs

Runs that pass:

| run | instance | shows |
|---|---|---|
| `Requests` | 1 domain, 2 requests at a time (3 in all), 2 runs of Update, 1 change of the list, 1 failure | `StatusIsAccountedFor`: pending and pending-removal states, even those rewritten from stale reads, go back to a passed check, and a pending one carries the date of a submission. `DatabaseFollowsList`: whatever overlapped or failed, once the list and the owners are quiet the database agrees with the list for good |
| `Scans` | 1 domain, 2 ranges, 3 weeks, Update, 1 change of the list, 1 failure | `StatusIsAccountedFor` for automated removal: two failed scans more than `RemovalAge` apart, where younger series occur and mark nothing. `IInv`, the inductive invariant of the proofs, says the same of what handlers hold. `PassForgetsFailures`: a series of recorded failures never reaches back beyond a pass that a run has acted on; `NoSeriesAcrossPass` is what makes it inductive. `ScansKeptByOwnRange`: overlapping runs never touch each other's recorded scans. `IneligibleHasState`: `SetPendingAutomatedRemoval` never misses a state, which would silently end all automated removals. `TypeOK` |
| `Serial` | 2 domains, batches of 1, 2 requests, 1 change, 2 weeks, 1 failure, no overlap | `WorksUndisturbed`: what the handler at work has read is what is stored. `UpdateInstallsList`: an Update that completes leaves the database as its list says, whatever partial writes preceded. `SerialLifecycle`: the handlers refine `Lifecycle`, so that, for instance, only a submission brings a domain that awaits removal back to preloaded |
| `ScanPool` | 4 domains, 3 workers | `PoolIInv` (the WaitGroup counts the domains on their way, each in one place), `NeverSendsOnClosed`, `CollectsEveryDomain` (refinement of `ScanResults`), `EverythingEnds` |
| `CacheAge` | 2 requests, a domain and a list, 2 changes, 1 failing read, 5 units of time | `ServesRecent`: a change is served once the cache duration and one datastore timeout have passed, which is later than the cache duration alone. `NeverServesOlder`: an instance never goes back. `CacheIInv`: only the holder of the mutex fetches, and versions and times are in order |
| `CacheAnswers` | 2 requests, a chain of 3 domains, every content of the datastore, 1 failing read | `AnswersFollowDatastore`: `Status` and `Removable` answer what follows from the datastore and the ancestors: a domain that is only listed as part of another one, or is protected, is never reported as removable. A read that fails can only hide ancestors that cover the domain, since `Status` passes over them, never the domain's own state or protection. `EveryRequestEnds`: the mutex is always released. `CacheIInv`: every request has got to a place in its chain to which the datastore led it |
| `ListRolls` | 3 domains, 2 scans at a time, 2 runs of the program, 1 change of a queue | `CommittedListIsSound`: what is committed after a SUCCESS has no domain twice and keeps its place for additions, also when a run repeats on its own output or another failed half-way. `CommitsOnlyWhatWasAskedFor`: each addition had been pending and passed the program's scan, each removal had been requested or failed it. `ImplementsListRoll`: the program, with its goroutines, slots and two-step write, is a roll of `ListRoll`. `EveryRunEnds`. `ListIInv`: never more scans than slots, and evidence for everything a run holds |
| `ListCycle` | 1 domain, 2 requests, Update, 1 change of the list by hand, 1 failure, any number of rolls | `RollsAreAccountedFor`: from the request through the queues, the scan, the checkout and the review, a roll adds only what passed a submission's check and removes only what a request or old enough failed scans account for. `CycleIInv`: the inductive invariant behind it. `QueuesDrain`: requests for domains that keep passing their scan are carried out in the end |
| `WebForm` | 1 page, 1 domain, 2 requests at a time, Update, 1 change of the list, 1 failure | `ShowsCurrentDomain`: what a page shows and offers is about the domain in its input, and what it awaits is for the domain it was loaded for. `SuccessIsFounded`: a page shows a success only if the domain has been, since the page was loaded, pending or preloaded, or, on the removal page, pending removal or off the list (where its notice says more, see below). `WebIInv`: the inductive invariant behind both |

Runs that end in a counterexample, each of a sentence in the repository:

| run | sentence | what happens |
|---|---|---|
| `LostRemoval` | `api/update_test.go:161` "pending removals stay pending when on list" | a listed domain that is still `pending` is found by none of Update's queries, so Update takes it for a new one; a removal request accepted after the query for `pending-removal` and before the write is overwritten with `preloaded`. (A `preloaded` state that differs from its entry is written back over a removal in the same way.) A removal accepted earlier, between the queries for `preloaded` and `pending-removal`, survives: the later answer replaces the earlier one |
| `NotQueued` | `api/domain_handlers.go:193` "attempts to submit it to the pending queue" | submit, remove, submit for a domain never on the list ends in `preloaded`: it is in no queue, and the next Update marks it `removed` |
| `ProtectedRemoval` | `database/domainstate.go:158` "whether a domain is protected from automated removal" | protection is looked at when a run starts; a policy that Update installs during the scan does not protect |

Some disagreements have no run, being visible in one definition. The comment at `api/domain_handlers.go:410`
speaks of domains that fail "for more than 2 crawls"; two failed scans that are far enough apart suffice (`ShouldRemove`). The comment at
`api/domain_handlers.go:467` says that a run ignores names outside its range, but the second read of the recorded scans is
not cut down to it (`GetPendingRemoval`): a run also marks domains of other ranges, from entities that their own run has
not revised yet. It marks none without old enough failures, as `StatusIsAccountedFor` shows. And `SubmissionDate` is, by its comment
(`database/domainstate.go:39`), when the domain "was last submitted", but `Remove` stores
the time of the removal request in it and `Update` zeroes it; `RemovalState` and
`Reconciled` show this directly. It does no harm where the date is shown: a
`pending` state, by `StatusIsAccountedFor`, has a submission's date. `PendingAdditions` "returns a sorted list of domain names"
(`scripts/updatelist/main.go:185`), but after the second scan the domains are in the order in which their scans ended
(`EndScan`). `Remove` answers an automated removal under way with "could not find domain status", and for a domain that is not on the list only with a
warning (`OnlyWarned`), so that the removal page, whose form was offered while the domain was still listed, says that it "is now pending removal"
(`frontend/removal/index.html:63`). The submission page says that the domain "is now pending
inclusion" (`frontend/index.html:218`) also when what was stored is `preloaded`, because a removal was cancelled, as in `NotQueued`. If a form is sent
twice, the page may show a failure beside the success, since nothing hides the one when the other comes.

## Bounds

Bounds are constants named `Max...` and occur in guards only.

* `Domains`: one domain for properties of one domain's interleavings (handlers treat
  domains independently but for the batches and the missing-state check); two domains with
  `BatchSize = 1` in `Serial`, where a partly written batch matters. `Scans` has a second range beside that of its
  one domain, which is what an overlapping run can do to a domain it does not own.
* `MaxRequests = 3` lets a domain be submitted, removed and submitted again; two `Clients`
  and two `Updaters` let any two handlers overlap, with a third kind in between.
* `MaxEdits = 1`: the list starts as anything, so one change gives both an addition and a
  removal, and both before, during and after an Update.
* `ListCycle`: one domain, since a roll treats domains alike and `ListRolls` has the interplay of several; the rolls
  themselves are not bounded. Weekly scans are left out of the instance (no ranges): in the theorems they are there.
* `WebForm`: its domain is a subdomain of one that may be preloaded, so that a status may be an ancestor's. One page at a time beside a second client that need not be a page; the page may be loaded anew any number of times, so
  that answers to requests of an earlier page arrive.
* `MaxTime` (weeks) with `RemovalAge`: time starts at 0 and the first run of a range is in week 1. In `Scans`, with `RemovalAge = 1` and runs
  in weeks 1 to 3, a series of two scans that is too young (weeks 1 and 2), one that is old enough and marks its domain (1 and 3), and a pass with
  a failure before and after it all occur. In `Serial`, with `RemovalAge = 0`, runs in weeks 1 and 2 are enough for a mark, which leaves room for a
  second domain. The 30 days of the code are between four and
  five weekly scans; only the comparison matters, not the number.
* `Scans` has no requests: they change no recorded scan, and what they write is the subject of `Requests` and, with the inductive invariant, of `ListCycle`; `Serial`
  has requests and scans together, and in the theorems all of them interleave.
* `MaxFailures = 1`: one failed call or dead instance at any step. The theorems hold for any number.
* `ScanPool`: with fewer workers than domains workers are used again, with one domain
  left over when all workers are busy the sender blocks.
* `CacheAge`: in units of 30 s the cache duration (one minute) is 2 and the datastore timeout
  (90 s, `database/database.go:15`) is 3; a timeout longer than the duration is the interesting
  case. Five units are the longest lag, from a write at the start to the lookup that must see it.
* `ListRolls`: three domains and two slots make the third wait; the list holds a bulk and a custom entry, so that
  a domain can be new, or pending though listed, or removed. Two runs are enough for a run on the first one's output.

`ScanPool` and `ListRolls` have no deadlock check: the pool ends, and so does the program once its runs are
used up. Elsewhere a terminal state is either excluded or would be reported. TLC finds none, because Update may
always run again and a Status request may always be made.

## Fairness

* `UpdatesKeepRunning` (`Requests`): weak fairness of Update's own steps. `cron.yaml` starts
  an Update every 12 hours whatever became of the last one, and each step is a call with a timeout. Failures
  are bounded: an Update that always fails repairs nothing. No fairness
  is assumed of owners, maintainers or scans.
* `ScanPipeline!FairSpec`: weak fairness per goroutine; the Go scheduler runs every
  goroutine that can run, and a scan ends by its own network timeouts.
* `UpdateList!FairSpec`: weak fairness of the program's steps; its goroutines run and its HTTP requests and scans return.
  Nothing is assumed of the maintainer.
* `ListCycle!FairCycleSpec`: the maintainers keep rolling. Weak fairness of the program's steps; strong fairness of
  a commit that is possible again and again, and of a reset, which is what the program's warning about duplicates tells them to do (`scripts/updatelist/main.go:313`); weak
  fairness of Update as above. A domain of `Sound` passes every scan that is to add it; nothing is assumed of the others, nor of the
  verdicts on automated removals.
* `WebForm` assumes no fairness: an answer that is not JSON never settles its promise, so nothing promises one.
* `StatusCache!FairSpec`: weak fairness of `Fetch` and `Store`, since a datastore call returns
  within its timeout; strong fairness of a lookup, since Go's mutex hands itself to a waiter that has
  waited too long (starvation mode), so a request cannot be passed over for ever.

## Assumptions and abstractions

* Reads within one datastore call see one state. `StatesForDomains` reads in batches; its reads are
  taken as one.
* A domain has at most one entry in the list: `CommittedListIsSound` shows that of every list `updatelist` leaves to be committed.
* In `ListCycle` the list has entries of mode force-https only, and is edited by hand only while no roll is under way. An entry of another mode (a pin) counts
  as unlisted for `Update` (`api/update.go:55`) but as an entry for `updatelist`, so its domain, once submitted, would be
  added by each roll and reported as a duplicate each time.
* In `WebForm` the answers of the checks are those of the datastore at that moment: the cache makes them older, but they are old anyway when the form is
  sent. The status of a subdomain (`Subdomains`) that has no state of its own may be `preloaded`, by an ancestor; ancestors have no other part in the instance. Wording, colours, the list of issues and the checkbox are left out.
* The order in which a batch takes its domains is any: it comes from Go maps and from the list. The alphabetical order of
  `updatelist` is some order that is always the same (`Sorted`), since nothing depends on which.
* A domain's ancestors are what `parentDomain` makes of its name: each is another name, and its own ancestors are the rest of
  the chain (`StatusCacheAssumption`). No stored entity is in status unknown but the one that stands for none.
* The checks of the `hstspreload` library depend on the live site: any outcome, each time. A
  request that fails its check changes nothing and is left out.
* In `UpdateList` the queues may change in any way while the program runs: the cache in front of them only makes its
  answers older, and `PreloadSite` says which changes there are. The maintainer resets the
  checkout after a run that failed while writing, and commits only after a SUCCESS; duplicates removed by hand are not modelled.
* A time is kept only as far as the code tells times apart: submission dates as zero, "submission" or
  "removal request"; scans by the week of their run (the code stamps all scans of a run with
  times minutes apart). A series of scans is its length up to two, its first and its last time, which is
  all that `shouldRemove` looks at.
* `Message` of a domain state and the `Issues` of a scan are left out: only pages for people use them.
* In `PreloadSite` all scans of a run are one step; `ScanPool` shows that the handler sees them so.
* A run of `RemoveIneligibleDomains` for a range starts at most once a week (`cron.yaml`), so two runs
  of one range do not overlap; the handler refuses requests that do not come from the schedule (`api/domain_handlers.go:417`).

## Proofs

Proved for every finite non-empty set of domains, every set of clients, Update runs, ranges, readers and pages, every finite set
of workers, every batch size, list, number of slots and duration, and every bound:

| module | theorem | statement |
|---|---|---|
| `PreloadSiteProofs` | `TypeCorrect` | `Spec => []TypeOK` |
| | `Inductive` | `Spec => []IInv` |
| | `StatusAccounted` | `Spec => []StatusIsAccountedFor` |
| | `IneligibleHaveStates` | `Spec => []IneligibleHasState` |
| | `OwnRangeKeepsScans` | `Spec => ScansKeptByOwnRange` |
| | `SeriesBeginAfterPass` | `Spec => []NoSeriesAcrossPass` |
| | `PassesForget` | `Spec => []PassForgetsFailures` |
| `SerialProofs` | `Undisturbed` | `SerialSpec => [](IInv /\ WorksUndisturbed)` |
| | `InstallsList` | `SerialSpec => UpdateInstallsList` |
| | `LivesAsPromised` | `SerialSpec => SerialLifecycle` (refinement of `Lifecycle`) |
| `ScanPipelineProofs` | `PoolCounts` | `Spec => []PoolIInv` |
| | `SendsWhileOpen` | `Spec => []NeverSendsOnClosed` |
| | `PoolImplementsScan` | `Spec => CollectsEveryDomain` (refinement of `ScanResults`) |
| `StatusCacheProofs` | `CacheInOrder` | `Spec => []CacheIInv` |
| | `AnswersRight` | `Spec => []AnswersFollowDatastore` |
| | `NeverOlder` | `Spec => NeverServesOlder` |
| | `RecentServed` | `Spec => ServesRecent` |
| `UpdateListProofs` | `ListAccounted` | `Spec => []ListIInv` |
| | `CommitsSoundLists` | `Spec => []CommittedListIsSound` |
| | `CommitsAccounted` | `Spec => CommitsOnlyWhatWasAskedFor` |
| | `ProgramRolls` | `Spec => ImplementsListRoll` (refinement of `ListRoll`) |
| `ListCycleProofs` | `CycleAccounted` | `CycleSpec => []CycleIInv` |
| | `RollsAccounted` | `CycleSpec => RollsAreAccountedFor` |
| `WebFormProofs` | `PagesInOrder` | `WebSpec => []WebIInv` |
| | `PagesShowCurrent` | `WebSpec => []ShowsCurrentDomain` |
| | `SuccessesFounded` | `WebSpec => []SuccessIsFounded` |

Every invariant, every property of steps and every refinement that a passing run checks is a theorem. The assumptions are those of the
modules that declare the constants (`DatastoreAssumption`, `UserRequestsAssumption`, `UpdateJobAssumption`,
`RemoveIneligibleAssumption`, `ScanPipelineAssumption`, `StatusCacheAssumption`, `UpdateListAssumption`, `ListCycleAssumption`,
`WebFormAssumption`), which TLC evaluates in each run. Each inductive invariant is checked by a run before it is proved.

**The site** (`PreloadSiteProofs`). `StatusIsAccountedFor` is not inductive: a handler may be about to write a state it computed long
ago. The invariant has to speak of what handlers hold:

* `HandlersAreAccountedFor`: the state a request will put, the states an Update has read and will put,
  and the domains a run will mark are accounted for;
* `EntitiesAreAccountedFor`: the times in a recorded series are times of failed scans of that domain, which has a
  state; a domain without a state has no policy, so it is never scanned;
* `RunsStayInRange`: what a run scans, deletes and stores lies in its range.

`IInv` is the conjunction with `TypeOK` and `StatusIsAccountedFor`. The argument that stale data is harmless is the lemma
`AccountsStay`: the accounts (`vetted`, `failedScans`, the set of domains with a state) only ever
grow (`Grows`), and everything above is monotonic in them, so what was accounted for when it was read still
is when it is written. `IInvKept` turns this into a rule for a step: if the accounts grow, what is
written is accounted for, and the handler that moves is, then `IInv` is kept. `RequestsKeepIInv`, `UpdatesKeepIInv` and
`RunsKeepIInv` apply it action by action.

`PassForgetsFailures` needs more, as the run that made the pass forgets in batches and stores what it read before.
`NoSeriesAcrossPass` says, for the run of a domain's own range, that what it has read is what is recorded until it has
scanned, that what it will store does not begin before a pass, and that what still does is among what it has to delete. A run that fails before it has deleted an entity leaves the domain as if it had not been scanned, which is why its passes are
taken out of the log (`Unlogged`); there is no other exception, and none for calls that fail elsewhere. Runs
of other ranges do not touch any of this (`RangeIsOwn`, which rests on `RunsStayInRange`), so the step of the own run
(`RunForgets`) is all there is to look at.

**Handlers that do not overlap** (`SerialProofs`). `WorksUndisturbed` is what the authors of a handler rely on: what it has
read is still stored, what remains to be written follows from it, and what has been written, or need not be, agrees with the list
(`UpdateInOrder`; that a reconciled state agrees with its entry is `ReconciledAgrees`). `WorksAlone` gives each step the
idleness of the others. At the end of an Update nothing remains to be written, hence `UpdateInstallsList`. For the refinement of
`Lifecycle`, a check that passes and the end of a request are where it is asked and granted, each batch of Update is the
reconciliation of some domains, each batch of marks an automated removal of some, and all other steps are stutters; without `WorksUndisturbed` the
state written would not be the successor of the state it replaces, and `LostRemoval` shows that it then is not.

**The pool** (`ScanPipelineProofs`). The counter of the WaitGroup is the number of domains in flight: offered by the sender, or with a
worker until it has called `Done`. They are in one hand at a time (`OneHolder`), or the count would be wrong, and each
has no verdict before its result is sent and one after (`OneVerdict`). So the counter is zero only when all results have been
collected, which is when the channels close (`ClosesInOrder`); with that `NeverSendsOnClosed`, and that the handler goes on
with one verdict on each domain.

**The cache** (`StatusCacheProofs`). Mutual exclusion (part of `TypeOK`) makes the fetching request's version at least as new as all in the
cache, and what was served at most as new as the entry (`VersionsInOrder`): nothing older is ever served. An entry misses only
changes made since its fetch began, and a fetch ends within its timeout (`EntriesAreRecent`), which gives the bound of
`ServesRecent`. The answers follow by `WalksInOrder`: as long as the datastore does not change, a request is at a domain's
i-th ancestor only if none before covers it, or if the read of each that does has failed. `FirstIsNearest` shows that the first that covers is the `Nearest` one.

**updatelist** (`UpdateListProofs`). The places in which a run keeps a domain (to scan, being scanned, kept) are disjoint and without
repetition (`ScansInOrder`), the file keeps one place for additions except while it is cut (`FileInOrder`), and everything held has its evidence
(`RunAccounted`, `ChangesAccounted`). What the rewriting of a list of any length produces is the lemma `OutputSets`:
its lines are those not removed and, once, the additions; repeated are those that were, and additions that are there
already. It is about a recursive function and is proved without an induction rule, from the shortest prefix of which it would be
false (`LeastNumber`, from the well-foundedness of strict subsets of an interval). Duplicates seen are duplicates written
(`DupesAreRepeated`), hence `CommittedListIsSound`. For the refinement the two fetching states, the scans and
the truncated file are mapped to the three states of a roll, action by action (`FetchSeen` to `MaintainerSeen`).

**The cycle** (`ListCycleProofs`). `RollsAreAccountedFor` speaks of the moment of a commit, when the queues may long have changed. What makes it true is
`RollAccounted`, a conjunct of `CycleIInv`: the program's lists of additions and removals are accounted for since they were
fetched (`StatusIsAccountedFor` of the site at that moment), the accounts only grow (`SiteGrows`, `AccountsGrow`), and the
checkout therefore differs from the list only by changes that are accounted for. A failed write leaves a checkout of which this is not
true, and which can only be reset. The site's own invariant is kept by the commit (`ListStepKeepsIInv`), as `IInvStays` already allows any
change of the list.

**The form** (`WebFormProofs`). `SuccessIsFounded` has to be carried through the server: `WebIInv` adds that a request about to write
will put its domain where a success says it is (`PutsAreGrounds`), and that a page awaits only requests for its own
domain, whose handlers are still at work. `SiteMovesOne` says what a step of the site can do to requests, and `AnswerIsFounded` that an answer without
errors then means what the page says.

Model-checked only: liveness (`DatabaseFollowsList`, `QueuesDrain`, `EverythingEnds`, `EveryRequestEnds`, `EveryRunEnds`), which is
out of the prover's reach. The three counterexamples are TLC's, too: they show that a step is possible.

## Not modelled

* `scripts/roll_preload_list.py`, which `updatelist` replaced: it takes the scan of the pending domains from a file and rewrites the list in one pass, without
  concurrency; nothing in the repository calls it.
* `tickLogger` in `updatelist`: progress output. Its goroutine returns at a tick if nothing has been logged, after which `Stop` would block, but
  five seconds would have to pass before the first domain is logged; `logLine` is read and written without synchronisation, for the log only.
* `GetIneligibleDomainStates` (tests only) and `AllDomainStates` (debug only).
* Update on a list with two entries of one domain (`api/update.go:68`), see the assumptions.
* Redirects, CORS, server set-up, opensearch, flags: decisions on one request, without state.
* Debug handlers, the emulator's start (`database/gcd`), mocks: not part of the served system. That a maintainer could once
  reject a domain is why `DatastoreInit` allows rejected states.

## Plan

Done: the core (`Datastore` to `PreloadSite`), the pool, the cache with `Status` and `Removable`, `UpdateList`, `ListRoll` and the refinement between them,
the two compositions `ListCycle` and `WebForm`, and the theorems about all of them. Left, in this order:

1. That the safe parts of the liveness arguments are invariants: that a pool that has not ended, a cache with a waiting request and a
   run with scans left always have a step to take.
2. `ListCycle` with the program in place of the roll it implements, which composes `ProgramRolls` with `CycleAccounted`.
