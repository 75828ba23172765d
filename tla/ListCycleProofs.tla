-------------------------- MODULE ListCycleProofs --------------------------
(* What a roll holds is accounted for, and so is what it changes, for       *)
(* every number of domains, requests, runs of Update and rolls.             *)
EXTENDS ListCycle, PreloadSiteProofs

\* The account of a request or of failed scans is never closed.
HistoryGrows == \A d \in Domains : /\ vetted[d] \subseteq vetted'[d]
                                   /\ failedScans[d] \subseteq failedScans'[d]

\* A step of the site only adds to the checks passed and the failed scans.
LEMMA SiteGrows ==
  ASSUME TypeOK, [Next]_vars
  PROVE  HistoryGrows
<1>1. /\ vetted \in [Domains -> SUBSET {"submit", "remove"}]
      /\ failedScans \in [Domains -> SUBSET Nat]
  BY DEF TypeOK, UserRequestsTypeOK, RemoveIneligibleTypeOK
<1>2. CASE UserRequestsNext /\ UNCHANGED <<updateVars, scanVars>>
  BY <1>1, <1>2 DEF UserRequestsNext, CheckSite, ReadState, PutState, FailRequest, scanVars,
                    HistoryGrows
<1>3. CASE UpdateJobNext /\ UNCHANGED <<requestVars, scanVars>>
  BY <1>3 DEF requestVars, scanVars, HistoryGrows
<1>4. CASE RemoveIneligibleNext /\ UNCHANGED <<requestVars, updateVars>>
  <2>1. UNCHANGED failedScans \/ \E D \in SUBSET Domains : failedScans' = Logged(failedScans, D)
    <3>1. CASE \E s \in Shards : Scan(s)
      <4>1. PICK s \in Shards : Scan(s)
        BY <3>1
      <4>2. runs[s].policyStates \subseteq Domains
        BY DEF TypeOK, RemoveIneligibleTypeOK, Runs
      <4>3. PICK passing : failedScans' = Logged(failedScans, runs[s].policyStates \ passing)
        BY <4>1 DEF Scan
      <4> QED
        BY <4>2, <4>3
    <3>2. CASE ~ \E s \in Shards : Scan(s)
      BY <1>4, <3>2 DEF RemoveIneligibleNext, Tick, GetDomains, GetIneligible, DeleteBatch,
                        SetBatch, GetPendingRemoval, GetStates, PutPendingRemoval, FailRun
    <3> QED
      BY <3>1, <3>2
  <2> QED
    BY <1>1, <1>4, <2>1 DEF requestVars, HistoryGrows, Logged
<1>5. CASE UNCHANGED vars
  BY <1>5 DEF vars, requestVars, scanVars, HistoryGrows
<1> QED
  BY <1>2, <1>3, <1>4, <1>5 DEF Next

\* An account that stands is not taken back.
LEMMA AccountsGrow ==
  ASSUME HistoryGrows
  PROVE  \A d \in Domains : /\ Submitted(d) => Submitted(d)'
                            /\ Removable(d) => Removable(d)'
  BY DEF HistoryGrows, Submitted, Removable, Evidence

\* A step that leaves the handlers and the database as they are, but for the
\* list and a failed call, keeps the site's invariant.
LEMMA ListStepKeepsIInv ==
  ASSUME IInv, list' \in [Domains -> Entries], failures' \in 0..MaxFailures,
         UNCHANGED <<states, ineligible, requestVars, edits, updates, scanVars>>
  PROVE  IInv'
<1>1. TypeOK'
  BY DEF IInv, TypeOK, DatastoreTypeOK, UserRequestsTypeOK, UpdateJobTypeOK,
         RemoveIneligibleTypeOK, requestVars, scanVars
<1>2. UNCHANGED <<states, ineligible, requests, vetted, updates, runs, failedScans>>
  BY DEF requestVars, scanVars
<1>3. Grows /\ RunsStayInRange'
  BY <1>2 DEF Grows, IInv, RunsStayInRange, InRange
<1> QED
  BY <1>1, <1>2, <1>3, IInvKept

\* The entries that come with a commit are entries.
LEMMA CommittedListType ==
  ASSUME list \in [Domains -> Entries], CommittedList
  PROVE  list' \in [Domains -> Entries]
<1>1. AddedEntry \in Entries
  BY DEF AddedEntry, Entries, Policies, BulkPolicies
<1> QED
  BY <1>1, UnknownStateType DEF CommittedList
-----------------------------------------------------------------------------
(* The invariant of the cycle: one lemma per kind of step.                  *)

\* A domain found in a queue is there on an account.
LEMMA QueuedIsAccountedFor ==
  ASSUME StatusIsAccountedFor, NEW d \in Domains
  PROVE  /\ states[d].status = "pending" => Submitted(d)
         /\ states[d].status \in {"pending-removal", "pending-automated-removal"} => Removable(d)
  BY DEF StatusIsAccountedFor, Accounted, Submitted, Removable

\* A step of the site leaves the roll alone, or moves its idle checkout along.
LEMMA SiteStepKeeps ==
  ASSUME CycleIInv, SiteStep
  PROVE  CycleIInv'
<1>1. IInv' /\ HistoryGrows
  BY IInvStays, SiteGrows DEF CycleIInv, SiteStep, IInv
<1>2. \A d \in Domains : /\ Submitted(d) => Submitted(d)'
                         /\ Removable(d) => Removable(d)'
  BY <1>1, AccountsGrow
<1>3. roll' = roll /\ roll \in Roll!Rolls
  BY DEF SiteStep, CycleIInv
<1>4. \A q \in Roll!Queues : roll.fetched[q] \subseteq Domains
  BY <1>3 DEF Roll!Rolls
<1>5. /\ roll.fetched["pending"] \subseteq Domains
      /\ Roll!Removals(roll) \subseteq Domains
  BY <1>4 DEF Roll!Queues, Roll!Removals
<1>6. /\ \A d \in roll'.fetched["pending"] : Submitted(d)'
      /\ \A d \in Roll!Removals(roll)' : Removable(d)'
  BY <1>2, <1>3, <1>5 DEF CycleIInv, RollAccounted, Roll!Removals
<1>7. CASE list' = list /\ UNCHANGED <<file, roll>>
  <2>1. Listed' = Listed /\ Listed \subseteq Domains /\ file.names \subseteq Domains
    BY <1>7 DEF Listed, CycleIInv, Roll!Files
  <2>2. RollAccounted'
    BY <1>2, <1>6, <1>7, <2>1 DEF CycleIInv, RollAccounted
  <2> QED
    BY <1>1, <1>7, <2>2 DEF CycleIInv
<1>8. CASE file' = Roll!CheckoutOf(Listed')
  <2>1. file'.names = Listed' /\ file'.dupes = {} /\ file' \in Roll!Files
    BY <1>8 DEF Roll!CheckoutOf, Roll!Files, Listed
  <2>2. RollAccounted'
    BY <1>6, <2>1 DEF RollAccounted
  <2> QED
    BY <1>1, <1>3, <2>1, <2>2 DEF CycleIInv, Roll!Files, Roll!Rolls
<1> QED
  BY <1>7, <1>8 DEF SiteStep

\* Where nothing of the site changes, neither does any account.
LEMMA NothingOfTheSite ==
  ASSUME IInv, UNCHANGED siteVars
  PROVE  /\ IInv' /\ Listed' = Listed
         /\ \A d : Submitted(d)' = Submitted(d) /\ Removable(d)' = Removable(d)
<1>1. UNCHANGED <<vetted, failedScans, list>>
  BY DEF siteVars, vars, requestVars, scanVars, updateVars
<1>2. Listed' = Listed
  BY <1>1 DEF Listed
<1>3. \A d : Submitted(d)' = Submitted(d) /\ Removable(d)' = Removable(d)
  BY <1>1 DEF Submitted, Removable, Evidence
<1> QED
  BY <1>2, <1>3, IInvStays DEF siteVars

\* The kinds of a run's fields.
LEMMA RollFields ==
  ASSUME roll \in Roll!Rolls
  PROVE  /\ roll.fetched \in [Roll!Queues -> SUBSET Domains]
         /\ roll.unfetched \subseteq Roll!Queues
         /\ Roll!Removals(roll) \subseteq Domains
  BY DEF Roll!Rolls, Roll!Removals, Roll!Queues

\* A run that has fetched nothing is a run.
LEMMA NoRollType ==
  /\ \A pc \in {"idle", "fetch", "done", "failed"} : [Roll!NoRoll EXCEPT !.pc = pc] \in Roll!Rolls
  /\ \A pc : Roll!Removals([Roll!NoRoll EXCEPT !.pc = pc]) = {}
  /\ \A pc : [Roll!NoRoll EXCEPT !.pc = pc].fetched["pending"] = {}
  /\ Roll!NoRoll = [Roll!NoRoll EXCEPT !.pc = "idle"]
  BY DEF Roll!NoRoll, Roll!Rolls, Roll!Removals, Roll!Queues

\* The answers of the queues and their scans: what is held has an account.
LEMMA HoldingKeeps ==
  ASSUME CycleIInv, UNCHANGED siteVars, UNCHANGED file,
         \/ \E q \in Roll!Queues : Roll!Fetch(q)
         \/ \E kept \in SUBSET Domains : Roll!KeepAdditions(kept) \/ Roll!KeepRemovals(kept)
  PROVE  CycleIInv'
<1>1. /\ IInv' /\ Listed' = Listed /\ file' \in Roll!Files
      /\ \A d : Submitted(d)' = Submitted(d) /\ Removable(d)' = Removable(d)
  BY NothingOfTheSite DEF CycleIInv
<1>2. /\ roll.fetched \in [Roll!Queues -> SUBSET Domains]
      /\ roll \in Roll!Rolls
  BY RollFields DEF CycleIInv
<1>3. /\ \A d \in roll.fetched["pending"] : Submitted(d)
      /\ \A d \in roll.fetched["pending-removal"] : Removable(d)
      /\ \A d \in roll.fetched["pending-automated-removal"] : Removable(d)
  BY DEF CycleIInv, RollAccounted, Roll!Removals
<1>4. PICK q \in Roll!Queues, D \in SUBSET Domains :
        /\ roll'.fetched = [roll.fetched EXCEPT ![q] = D]
        /\ roll' \in Roll!Rolls
        /\ roll.pc # "failed" /\ roll'.pc # "failed"
        /\ D \subseteq roll.fetched[q] \/ D = {d \in Domains : states[d].status = q}
  <2>1. CASE \E q \in Roll!Queues : Roll!Fetch(q)
    <3>1. PICK q \in Roll!Queues : Roll!Fetch(q)
      BY <2>1
    <3>2. roll.pc = "fetch"
          /\ roll' = [roll EXCEPT !.unfetched = @ \ {q},
                                  !.fetched[q] = {d \in Domains : states[d].status = q}]
      BY <3>1 DEF Roll!Fetch, Roll!Queues
    <3> DEFINE D == {d \in Domains : states[d].status = q}
    <3>3. /\ roll'.fetched = [roll.fetched EXCEPT ![q] = D]
          /\ roll'.pc = "fetch" /\ roll'.unfetched = roll.unfetched \ {q}
      BY <1>2, <3>2 DEF Roll!Rolls
    <3>4. roll' \in Roll!Rolls
      BY <1>2, <3>2 DEF Roll!Rolls
    <3> QED
      BY <3>2, <3>3, <3>4
  <2>2. CASE \E kept \in SUBSET Domains : Roll!KeepAdditions(kept) \/ Roll!KeepRemovals(kept)
    <3>1. PICK kept \in SUBSET Domains, q \in Roll!Queues, next \in {"filter", "write"} :
            /\ roll.pc \in {"fetch", "filter"}
            /\ kept \subseteq roll.fetched[q]
            /\ roll' = [roll EXCEPT !.pc = next, !.fetched[q] = kept]
      BY <2>2 DEF Roll!KeepAdditions, Roll!KeepRemovals, Roll!Keep, Roll!Queues
    <3>2. roll'.fetched = [roll.fetched EXCEPT ![q] = kept] /\ roll'.pc = next
      BY <1>2, <3>1 DEF Roll!Rolls
    <3>3. roll' \in Roll!Rolls
      BY <1>2, <3>1 DEF Roll!Rolls
    <3> QED
      BY <3>1, <3>2, <3>3
  <2> QED
    BY <2>1, <2>2
<1>5. \A d \in D : /\ q = "pending" => Submitted(d)
                   /\ q # "pending" => Removable(d)
  BY <1>3, <1>4, QueuedIsAccountedFor DEF Roll!Queues, CycleIInv, IInv
<1>6. /\ \A d \in roll'.fetched["pending"] : Submitted(d)'
      /\ \A d \in Roll!Removals(roll)' : Removable(d)'
  BY <1>1, <1>2, <1>3, <1>4, <1>5 DEF Roll!Removals, Roll!Queues
<1>7. RollAccounted'
  BY <1>1, <1>4, <1>6 DEF RollAccounted, CycleIInv
<1> QED
  BY <1>1, <1>4, <1>7 DEF CycleIInv

\* The checkout is rewritten: it differs from the list by what was held, and by
\* what it differed before.
LEMMA WriteKeeps ==
  ASSUME CycleIInv, UNCHANGED siteVars, Roll!Write
  PROVE  CycleIInv'
<1>1. /\ IInv' /\ Listed' = Listed
      /\ \A d : Submitted(d)' = Submitted(d) /\ Removable(d)' = Removable(d)
  BY NothingOfTheSite DEF CycleIInv
<1>2. /\ roll' = [Roll!NoRoll EXCEPT !.pc = "done"] /\ roll' \in Roll!Rolls
      /\ roll'.fetched["pending"] = {} /\ Roll!Removals(roll') = {}
  BY NoRollType DEF Roll!Write
<1>3. /\ file'.names = (file.names \ Roll!Removals(roll)) \cup roll.fetched["pending"]
      /\ file' \in Roll!Files
  BY RollFields DEF Roll!Write, Roll!Rewritten, Roll!Files, Roll!Queues, CycleIInv
<1>4. /\ \A d \in file'.names \ Listed : Submitted(d)
      /\ \A d \in Listed \ file'.names : Removable(d)
  BY <1>3 DEF CycleIInv, RollAccounted, Roll!Write
<1>5. RollAccounted'
  BY <1>1, <1>2, <1>4 DEF RollAccounted, Roll!Removals
<1> QED
  BY <1>1, <1>2, <1>3, <1>5 DEF CycleIInv

\* A run starts, or what it left is committed, reset, or cut short: nothing is
\* held, and the checkout is as before, or the list, or useless.
LEMMA EmptyHandsKeep ==
  ASSUME CycleIInv, IInv', NEW pc \in {"idle", "fetch", "done", "failed"},
         roll' = [Roll!NoRoll EXCEPT !.pc = pc],
         file' \in Roll!Files,
         \A d : Submitted(d)' = Submitted(d) /\ Removable(d)' = Removable(d),
         \/ pc = "failed"
         \/ file'.names = Listed'
         \/ roll.pc # "failed" /\ file' = file /\ Listed' = Listed
  PROVE  CycleIInv'
<1>1. /\ roll' \in Roll!Rolls /\ roll'.pc = pc
      /\ roll'.fetched["pending"] = {} /\ Roll!Removals(roll') = {}
  BY NoRollType DEF Roll!NoRoll
<1>2. RollAccounted'
  BY <1>1 DEF RollAccounted, CycleIInv, Roll!Removals
<1> QED
  BY <1>1, <1>2 DEF CycleIInv

\* The program's own steps.
LEMMA ProgramKeeps ==
  ASSUME CycleIInv, ProgramStep
  PROVE  CycleIInv'
<1>1. UNCHANGED siteVars
  BY DEF ProgramStep
<1>2. CASE Roll!Start
  <2>1. /\ IInv' /\ Listed' = Listed
        /\ \A d : Submitted(d)' = Submitted(d) /\ Removable(d)' = Removable(d)
    BY <1>1, NothingOfTheSite DEF CycleIInv
  <2>2. /\ roll.pc # "failed" /\ UNCHANGED file
        /\ roll' = [Roll!NoRoll EXCEPT !.pc = "fetch"]
    BY <1>2 DEF Roll!Start
  <2> QED
    BY <2>1, <2>2, EmptyHandsKeep DEF CycleIInv
<1>3. CASE \E q \in Roll!Queues : Roll!Fetch(q)
  BY <1>1, <1>3, HoldingKeeps DEF Roll!Fetch
<1>4. CASE \E kept \in SUBSET Domains : Roll!KeepAdditions(kept) \/ Roll!KeepRemovals(kept)
  BY <1>1, <1>4, HoldingKeeps DEF Roll!KeepAdditions, Roll!KeepRemovals, Roll!Keep
<1>5. CASE Roll!Write
  BY <1>1, <1>5, WriteKeeps
<1> QED
  BY <1>2, <1>3, <1>4, <1>5 DEF ProgramStep

\* A commit makes the list what the checkout is.
LEMMA CommitKeeps ==
  ASSUME CycleIInv, CommitRoll
  PROVE  CycleIInv'
<1>1. list \in [Domains -> Entries] /\ failures \in 0..MaxFailures
  BY DEF CycleIInv, IInv, TypeOK, DatastoreTypeOK, UpdateJobTypeOK
<1>2. IInv'
  BY <1>1, CommittedListType, ListStepKeepsIInv DEF CommitRoll, CycleIInv
<1>3. \A d : Submitted(d)' = Submitted(d) /\ Removable(d)' = Removable(d)
  BY DEF CommitRoll, requestVars, scanVars, Submitted, Removable, Evidence
<1>4. file' = file /\ Listed' = file.names /\ roll' = [Roll!NoRoll EXCEPT !.pc = "idle"]
  BY NoRollType DEF CommitRoll, Roll!Commit
<1> QED
  BY <1>2, <1>3, <1>4, EmptyHandsKeep DEF CycleIInv

\* A reset makes the checkout what the list is.
LEMMA ResetKeeps ==
  ASSUME CycleIInv, ResetCheckout
  PROVE  CycleIInv'
<1>1. /\ IInv' /\ Listed' = Listed
      /\ \A d : Submitted(d)' = Submitted(d) /\ Removable(d)' = Removable(d)
  BY NothingOfTheSite DEF CycleIInv, ResetCheckout
<1>2. roll' = [Roll!NoRoll EXCEPT !.pc = "idle"] /\ file' = Roll!CheckoutOf(Listed)
  BY NoRollType DEF ResetCheckout, Roll!Reset
<1>3. file'.names = Listed' /\ file' \in Roll!Files
  BY <1>1, <1>2 DEF Roll!CheckoutOf, Roll!Files, Listed
<1> QED
  BY <1>1, <1>2, <1>3, EmptyHandsKeep

\* A run that fails leaves the checkout as it was, or useless.
LEMMA AbortKeeps ==
  ASSUME CycleIInv, AbortRoll
  PROVE  CycleIInv'
<1>1. list \in [Domains -> Entries] /\ failures \in 0..MaxFailures
  BY DEF CycleIInv, IInv, TypeOK, DatastoreTypeOK, UpdateJobTypeOK
<1>2. IInv'
  BY <1>1, FailType, ListStepKeepsIInv DEF AbortRoll, CycleIInv, updateVars
<1>3. Listed' = Listed /\ \A d : Submitted(d)' = Submitted(d) /\ Removable(d)' = Removable(d)
  BY DEF AbortRoll, requestVars, scanVars, updateVars, Submitted, Removable, Evidence, Listed
<1>4. CASE roll' = Roll!NoRoll /\ UNCHANGED file
  <2>1. roll.pc # "failed" /\ roll' = [Roll!NoRoll EXCEPT !.pc = "idle"]
    BY <1>4, NoRollType DEF AbortRoll, Roll!Abort
  <2> QED
    BY <1>2, <1>3, <1>4, <2>1, EmptyHandsKeep DEF CycleIInv
<1>5. CASE roll' = [Roll!NoRoll EXCEPT !.pc = "failed"] /\ file' = Roll!CheckoutOf({})
  <2>1. file' \in Roll!Files
    BY <1>5 DEF Roll!CheckoutOf, Roll!Files
  <2> QED
    BY <1>2, <1>3, <1>5, <2>1, EmptyHandsKeep
<1> QED
  BY <1>4, <1>5 DEF AbortRoll, Roll!Abort
-----------------------------------------------------------------------------
\* At first nothing is held, and the checkout is the list.
LEMMA InitCycle == CycleInit => CycleIInv
<1> SUFFICES ASSUME CycleInit PROVE CycleIInv
  OBVIOUS
<1>1. IInv
  BY InitIInv DEF CycleInit
<1>2. roll = [Roll!NoRoll EXCEPT !.pc = "idle"] /\ file = Roll!CheckoutOf(Listed)
  BY NoRollType DEF CycleInit
<1>3. file.names = Listed /\ file \in Roll!Files
  BY <1>2 DEF Roll!CheckoutOf, Roll!Files, Listed
<1>4. roll \in Roll!Rolls /\ roll.fetched["pending"] = {} /\ Roll!Removals(roll) = {}
  BY <1>2, NoRollType
<1>5. RollAccounted
  BY <1>3, <1>4 DEF RollAccounted
<1> QED
  BY <1>1, <1>3, <1>4, <1>5 DEF CycleIInv

\* No step of the cycle breaks its invariant.
LEMMA CycleIInvStays == CycleIInv /\ [CycleNext]_cycleVars => CycleIInv'
<1>1. CycleIInv /\ CycleNext => CycleIInv'
  BY SiteStepKeeps, ProgramKeeps, CommitKeeps, ResetKeeps, AbortKeeps DEF CycleNext
<1>2. ASSUME CycleIInv, UNCHANGED cycleVars
      PROVE  CycleIInv'
  <2>1. UNCHANGED siteVars /\ UNCHANGED <<file, roll>>
    BY <1>2 DEF cycleVars
  <2>2. /\ IInv' /\ Listed' = Listed
        /\ \A d : Submitted(d)' = Submitted(d) /\ Removable(d)' = Removable(d)
    BY <1>2, <2>1, NothingOfTheSite DEF CycleIInv
  <2>3. RollAccounted'
    BY <1>2, <2>1, <2>2 DEF CycleIInv, RollAccounted, Roll!Removals
  <2> QED
    BY <1>2, <2>1, <2>2, <2>3 DEF CycleIInv
<1> QED
  BY <1>1, <1>2

\* Everything the site stores or will write, and everything a roll holds or its
\* checkout changes, is accounted for by a check passed or by failed scans.
THEOREM CycleAccounted == CycleSpec => []CycleIInv
  BY InitCycle, CycleIInvStays, PTL DEF CycleSpec

\* From the request to the list: a roll adds only what has been submitted after
\* a passed check and removes only what passed the check of a removal or failed
\* scans far enough apart.
THEOREM RollsAccounted == CycleSpec => RollsAreAccountedFor
<1> DEFINE Sanctioned == roll.pc = "done" /\ list' # list
                         => /\ \A d \in Listed' \ Listed : Submitted(d)
                            /\ \A d \in Listed \ Listed' : Removable(d)
<1>1. ASSUME CycleIInv, CycleNext, roll.pc = "done", list' # list
      PROVE  Sanctioned
  <2>1. CommitRoll
    BY <1>1 DEF CycleNext, SiteStep, ProgramStep, ResetCheckout, AbortRoll, siteVars, vars,
                updateVars
  <2>2. Listed' = file.names
    BY <2>1 DEF CommitRoll, Roll!Commit
  <2> QED
    BY <1>1, <2>2 DEF CycleIInv, RollAccounted
<1>2. CycleIInv /\ [CycleNext]_cycleVars => [Sanctioned]_cycleVars
  BY <1>1
<1> QED
  BY <1>2, CycleAccounted, PTL DEF CycleSpec, RollsAreAccountedFor
=============================================================================
