----------------------------- MODULE ListCycle -----------------------------
(***************************************************************************)
(* The whole way of a domain: an owner's request puts it in a queue of the *)
(* site, a roll takes it from the queue to the list, and Update takes it   *)
(* from the list back to the database.  The site is that of module         *)
(* PreloadSite; the roll is that of module ListRoll, which reads the       *)
(* queues the site serves and commits the list that Update fetches.  The   *)
(* maintainers also edit the list by hand, when no roll is under way.      *)
(***************************************************************************)
EXTENDS PreloadSite

CONSTANT Sound    \* the domains that pass the scan of a roll that is to add them

ASSUME ListCycleAssumption == Sound \subseteq Domains

VARIABLES file,   \* the maintainer's checkout of the list
          roll    \* a run of updatelist

siteVars == vars

cycleVars == <<siteVars, file, roll>>

Listed == {d \in Domains : list[d].mode = ForceHTTPS}

Roll == INSTANCE ListRoll WITH
    queue  <- [d \in Domains |-> IF states[d].status \in {"pending", "pending-removal",
                                                          "pending-automated-removal"}
                                 THEN states[d].status ELSE "none"],
    listed <- Listed

CycleInit == Init /\ file = Roll!CheckoutOf(Listed) /\ roll = Roll!NoRoll

\* A step of the site, or an edit of the list by hand.
SiteStep ==
    /\ Next
    /\ \/ list' = list /\ UNCHANGED <<file, roll>>
       \/ /\ list' # list
          /\ roll.pc = "idle" /\ file = Roll!CheckoutOf(Listed)
          /\ file' = Roll!CheckoutOf(Listed')
          /\ UNCHANGED roll

\* The entry updatelist writes for a domain it adds.
AddedEntry == [mode |-> ForceHTTPS, includeSubDomains |-> TRUE, policy |-> "bulk-1-year"]

\* The list when the checkout is committed.  An entry that one roll both
\* removed and added is a new one; the checkout does not tell which are.
CommittedList ==
    \E new \in SUBSET file.names :
       /\ file.names \ Listed \subseteq new
       /\ list' = [d \in Domains |-> CASE d \in new             -> AddedEntry
                                       [] d \notin file.names -> ToEntry(UnknownState)
                                       [] OTHER               -> list[d]]

CommitRoll == /\ CommittedList
              /\ UNCHANGED <<states, ineligible, failures, requestVars, edits, updates, scanVars>>
              /\ Roll!Commit

\* The program's own steps.
ProgramStep ==
    /\ UNCHANGED siteVars
    /\ \/ Roll!Start
       \/ \E q \in Roll!Queues : Roll!Fetch(q)
       \/ \E kept \in SUBSET Domains :
             /\ roll.fetched["pending"] \cap Sound \subseteq kept
             /\ Roll!KeepAdditions(kept)
       \/ \E kept \in SUBSET Domains : Roll!KeepRemovals(kept)
       \/ Roll!Write

ResetCheckout == UNCHANGED siteVars /\ Roll!Reset

AbortRoll == /\ Fail
             /\ UNCHANGED <<states, ineligible, requestVars, updateVars, scanVars>>
             /\ Roll!Abort

CycleNext == SiteStep \/ ProgramStep \/ CommitRoll \/ ResetCheckout \/ AbortRoll

CycleSpec == CycleInit /\ [][CycleNext]_cycleVars

(***************************************************************************)
(* The maintainers keep rolling the list: a run that can go on does, and   *)
(* whatever they try in between, output that can be committed time and     *)
(* again is in the end committed, and a checkout with duplicates or a cut  *)
(* file is in the end reset, as the program's warning advises.  Update     *)
(* runs every 12 hours.                                                    *)
(***************************************************************************)
FairCycleSpec ==
    /\ CycleSpec
    /\ WF_cycleVars(ProgramStep)
    /\ SF_cycleVars(CommitRoll)
    /\ SF_cycleVars(ResetCheckout)
    /\ \A u \in Updaters :
          WF_cycleVars(UpdateStep(u) /\ UNCHANGED <<requestVars, scanVars, file, roll>>)
-----------------------------------------------------------------------------
(* What the roll holds is accounted for: the inductive invariant of the     *)
(* cycle.                                                                   *)

Submitted(d) == "submit" \in vetted[d]

Removable(d) == "remove" \in vetted[d] \/ Evidence(d)

\* What the program fetched it fetched for a reason, and so the checkout
\* differs from the list, unless a failed run has cut it.
RollAccounted ==
    /\ \A d \in roll.fetched["pending"] : Submitted(d)
    /\ \A d \in Roll!Removals(roll) : Removable(d)
    /\ roll.pc # "failed" => /\ \A d \in file.names \ Listed : Submitted(d)
                             /\ \A d \in Listed \ file.names : Removable(d)

\* The site's invariant, the kinds of values of the roll, and what the roll
\* holds being accounted for.
CycleIInv == /\ IInv
             /\ file \in Roll!Files
             /\ roll \in Roll!Rolls
             /\ RollAccounted
-----------------------------------------------------------------------------
(* Properties *)

\* From the owner's request through the queues, a list of the site, the scan,
\* the checkout and the review: a roll adds a domain to Chromium's list only if
\* it passed PreloadableDomain in a submission, and removes one only if it
\* passed RemovableDomain in a request or failed scans more than 30 days
\* apart, whatever overlaps, fails or is run again.
RollsAreAccountedFor ==
    [][roll.pc = "done" /\ list' # list
       => /\ \A d \in Listed' \ Listed : Submitted(d)
          /\ \A d \in Listed \ Listed' : Removable(d)]_cycleVars

\* Once the owners are quiet, their requests for domains that keep passing their
\* scan are carried out: none is left waiting for good because of a roll that
\* failed, was reset, or met an entry that was there already.
QueuesDrain == <>[](\A d \in Sound : states[d].status \notin {"pending", "pending-removal"})
=============================================================================
