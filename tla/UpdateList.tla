----------------------------- MODULE UpdateList -----------------------------
(***************************************************************************)
(* scripts/updatelist, the program with which a maintainer brings the      *)
(* queues of the site into the file of the preload list: it reads the      *)
(* file, fetches the three queues with a goroutine each, scans the domains *)
(* to add and those to remove because of failed scans once more, up to     *)
(* Parallelism at a time, and writes the file anew.  The queues change     *)
(* meanwhile.  The maintainer then commits the file, resets the checkout,  *)
(* or runs the program again.                                              *)
(*                                                                         *)
(* A line of the file is the domain name of an entry or the comment at     *)
(* the end of the bulk entries, before which new ones go; other lines are  *)
(* copied and left out, and so is what else an entry says.                 *)
(***************************************************************************)
EXTENDS SequencesExt

CONSTANTS Domains,       \* the domain names
          InitialLists,  \* what the committed list may be at first
          EndOfBulk,     \* the comment that ends the bulk entries
          Parallelism,   \* scans at a time (500)
          MaxChanges,    \* bound: changes of the queues
          MaxRuns        \* bound: runs of the program

ASSUME UpdateListAssumption == /\ IsFiniteSet(Domains) /\ EndOfBulk \notin Domains
                               /\ InitialLists \subseteq Seq(Domains \cup {EndOfBulk})
                               /\ \A l \in InitialLists :
                                     IsInjective(l) /\ EndOfBulk \in ToSet(l)
                               /\ Parallelism \in Nat \ {0}
                               /\ {MaxChanges, MaxRuns} \subseteq Nat

VARIABLES queue,      \* queue[d]: the queue of the site that d is in
          changed,    \* changes of the queues so far
          committed,  \* the list in Chromium's source
          file,       \* the maintainer's copy
          program,    \* a run of the program
          runs,       \* runs so far
          evidence    \* history: queues and scans of each domain since the last commit

vars == <<queue, changed, committed, file, program, runs, evidence>>

Queues == {"pending", "pending-removal", "pending-automated-removal"}

(***************************************************************************)
(* A run: the contents of the file it read; the queues not fetched yet;    *)
(* pendingAdditions, in order, the other two queues, and the map removals  *)
(* that updateRemovals makes of them; for filterParallel the domains still *)
(* to scan, those being scanned, the slots taken, and the domains kept;    *)
(* and the contents to write with the duplicates found.                    *)
(***************************************************************************)
NoRun == [pc |-> "idle", contents |-> <<>>, unfetched |-> Queues,
          pendingAdditions |-> <<>>, pendingRemovals |-> {}, pendingAutomatedRemovals |-> {},
          removals |-> {}, todo |-> <<>>, scanning |-> {}, sem |-> 0, filtered |-> <<>>,
          output |-> <<>>, dupes |-> {}]

\* The domains of D in alphabetical order, of which nothing is kept but that
\* it is always the same.
Sorted(D) == SetToSeq(D)

Init == /\ queue \in [Domains -> Queues \cup {"none"}]
        /\ changed = 0
        /\ committed \in InitialLists
        /\ file = committed
        /\ program = NoRun
        /\ runs = 0
        /\ evidence = [d \in Domains |-> {queue[d]}]

\* A handler of the site moves d to another queue or out of its queue.
ChangeQueue(d) ==
    /\ changed < MaxChanges
    /\ changed' = changed + 1
    /\ \E q \in (Queues \cup {"none"}) \ {queue[d]} :
          /\ queue' = [queue EXCEPT ![d] = q]
          /\ evidence' = [evidence EXCEPT ![d] = @ \cup {q}]
    /\ UNCHANGED <<committed, file, program, runs>>

\* The program is started, perhaps a second time on its own output, and reads
\* the file.
ReadFile ==
    /\ program.pc \in {"idle", "done"}
    /\ runs < MaxRuns
    /\ runs' = runs + 1
    /\ program' = [NoRun EXCEPT !.pc = "fetch", !.contents = file]
    /\ UNCHANGED <<queue, changed, committed, file, evidence>>

\* The goroutine that fetches a queue has its answer.
Fetch(q) ==
    LET answer == {d \in Domains : queue[d] = q}
    IN  /\ program.pc = "fetch"
        /\ q \in program.unfetched
        /\ program' = [program EXCEPT
              !.unfetched = @ \ {q},
              !.pendingAdditions = IF q = "pending" THEN Sorted(answer) ELSE @,
              !.pendingRemovals = IF q = "pending-removal" THEN answer ELSE @,
              !.pendingAutomatedRemovals = IF q = "pending-automated-removal" THEN answer ELSE @]
        /\ UNCHANGED <<queue, changed, committed, file, runs, evidence>>

WithRemovals(p) == [p EXCEPT !.removals = p.pendingRemovals \cup p.pendingAutomatedRemovals]

\* All have theirs: updateRemovals, and on to the pending additions.
EndFetch ==
    /\ program.pc = "fetch"
    /\ program.unfetched = {}
    /\ program' = [WithRemovals(program) EXCEPT
          !.pc = "filterAdditions", !.todo = program.pendingAdditions]
    /\ UNCHANGED <<queue, changed, committed, file, runs, evidence>>

\* Mutant: there is no limit.
SlotFreeAlways == TRUE

\* sem, a buffered channel, takes another value.
SlotFree == program.sem < Parallelism

\* filterParallel starts the next scan.
StartScan ==
    /\ program.todo # <<>>
    /\ SlotFree
    /\ program' = [program EXCEPT !.todo = Tail(@),
                                  !.scanning = @ \cup {Head(program.todo)},
                                  !.sem = @ + 1]
    /\ UNCHANGED <<queue, changed, committed, file, runs, evidence>>

\* Mutant: the slot is not released.
KeptSlot(sem) == sem

Released(sem) == sem - 1

\* Additions are kept if the scan finds no errors, automated removals if it does.
Keeps(verdict) == IF program.pc = "filterAdditions" THEN verdict = "pass" ELSE verdict = "fail"

\* The scan of d ends: under mu, d is appended if it is kept; then wg.Done, and
\* the slot is free.
EndScan(d, verdict) ==
    /\ d \in program.scanning
    /\ program' = [program EXCEPT !.scanning = @ \ {d},
                                  !.sem = Released(@),
                                  !.filtered = IF Keeps(verdict) THEN Append(@, d) ELSE @]
    /\ evidence' = [evidence EXCEPT ![d] = @ \cup {verdict}]
    /\ UNCHANGED <<queue, changed, committed, file, runs>>

\* wg.Wait returns: every domain has been scanned.
Scanned == program.todo = <<>> /\ program.scanning = {}

EndFilterAdditions ==
    /\ program.pc = "filterAdditions" /\ Scanned
    /\ program' = [program EXCEPT !.pc = "filterRemovals",
                                  !.pendingAdditions = program.filtered,
                                  !.filtered = <<>>,
                                  !.todo = Sorted(program.pendingAutomatedRemovals)]
    /\ UNCHANGED <<queue, changed, committed, file, runs, evidence>>

\* Mutant: updateRemovals is not called again.
FilteredStale(p) ==
    [p EXCEPT !.pc = "update", !.pendingAutomatedRemovals = ToSet(p.filtered), !.filtered = <<>>]

\* The pending automated removals are those kept; updateRemovals once more.
Filtered(p) ==
    WithRemovals([p EXCEPT !.pc = "update", !.pendingAutomatedRemovals = ToSet(p.filtered),
                           !.filtered = <<>>])

EndFilterRemovals ==
    /\ program.pc = "filterRemovals" /\ Scanned
    /\ program' = Filtered(program)
    /\ UNCHANGED <<queue, changed, committed, file, runs, evidence>>

\* Mutant: the comment is not written again.
UpdatedOnce(p, line) == CASE line = EndOfBulk    -> p.pendingAdditions
                          [] line \in p.removals -> <<>>
                          [] OTHER               -> <<line>>

\* The lines updateList writes for a line it reads.
Updated(p, line) == CASE line = EndOfBulk      -> Append(p.pendingAdditions, line)
                      [] line \in p.removals   -> <<>>
                      [] OTHER                 -> <<line>>

\* Mutant: only the additions are observed.
DupesOfAdditions(p, lines) == {d \in Domains : Cardinality({i \in DOMAIN p.pendingAdditions :
                                                               p.pendingAdditions[i] = d}) > 1}

\* What dupeTracker has observed twice: every entry written is observed.
Dupes(p, lines) == {d \in Domains : Cardinality({i \in DOMAIN lines : lines[i] = d}) > 1}

\* What updateList has written after n lines, and in the end.
Output(p) ==
    LET written[n \in 0..Len(p.contents)] ==
            IF n = 0 THEN <<>> ELSE written[n - 1] \o Updated(p, p.contents[n])
    IN  written[Len(p.contents)]

\* updateList, and the first half of overwriteFile, which truncates the file.
Truncate ==
    LET output == Output(program)
    IN  /\ program.pc = "update"
        /\ program' = [program EXCEPT !.pc = "write", !.output = output,
                                      !.dupes = Dupes(program, output)]
        /\ file' = <<>>
        /\ UNCHANGED <<queue, changed, committed, runs, evidence>>

\* The contents are written and the duplicates, if any, printed.
WriteFile ==
    /\ program.pc = "write"
    /\ file' = program.output
    /\ program' = [NoRun EXCEPT !.pc = "done", !.dupes = program.dupes]
    /\ UNCHANGED <<queue, changed, committed, runs, evidence>>

\* The program ends with an error or is stopped: before it truncates the file
\* nothing is lost; after that some part of the contents may be written.
Fatal ==
    /\ program.pc \notin {"idle", "done", "failed"}
    /\ IF program.pc = "write"
       THEN /\ \E n \in 0..Len(program.output) : file' = SubSeq(program.output, 1, n)
            /\ program' = [NoRun EXCEPT !.pc = "failed"]
       ELSE /\ program' = NoRun
            /\ UNCHANGED file
    /\ UNCHANGED <<queue, changed, committed, runs, evidence>>

NewEvidence == evidence' = [d \in Domains |-> {queue[d]}]

\* The maintainer commits the file of a run that printed SUCCESS.
Commit ==
    /\ program.pc = "done"
    /\ program.dupes = {}
    /\ committed' = file
    /\ program' = NoRun
    /\ NewEvidence
    /\ UNCHANGED <<queue, changed, file, runs>>

\* Or resets the checkout, as the program advises if there are duplicates.
Reset ==
    /\ program.pc \in {"done", "failed"}
    /\ file' = committed
    /\ program' = NoRun
    /\ NewEvidence
    /\ UNCHANGED <<queue, changed, committed, runs>>

ProgramStep == \/ \E q \in Queues : Fetch(q)
               \/ EndFetch
               \/ StartScan
               \/ \E d \in Domains, verdict \in {"pass", "fail"} : EndScan(d, verdict)
               \/ EndFilterAdditions \/ EndFilterRemovals
               \/ Truncate \/ WriteFile

Next == \/ \E d \in Domains : ChangeQueue(d)
        \/ ReadFile \/ ProgramStep \/ Fatal
        \/ Commit \/ Reset

Spec == Init /\ [][Next]_vars

\* The program's goroutines run, and its HTTP requests and scans return.
FairSpec == Spec /\ WF_vars(ProgramStep)
-----------------------------------------------------------------------------
Lines == Seq(Domains \cup {EndOfBulk})

Programs == [pc : {"idle", "fetch", "filterAdditions", "filterRemovals", "update", "write",
                   "done", "failed"},
             contents : Lines, output : Lines, unfetched : SUBSET Queues,
             pendingAdditions : Seq(Domains), pendingRemovals : SUBSET Domains,
             pendingAutomatedRemovals : SUBSET Domains, removals : SUBSET Domains,
             todo : Seq(Domains), scanning : SUBSET Domains, sem : Nat,
             filtered : Seq(Domains), dupes : SUBSET Domains]

\* The variables hold values of the kinds the code gives them; no more domains
\* are scanned at a time than there are slots, each only once.
TypeOK == /\ queue \in [Domains -> Queues \cup {"none"}]
          /\ changed \in 0..MaxChanges
          /\ {committed, file} \subseteq Lines
          /\ program \in Programs
          /\ program.sem = Cardinality(program.scanning)
          /\ program.sem <= Parallelism
          /\ runs \in 0..MaxRuns
          /\ evidence \in [Domains -> SUBSET (Queues \cup {"none", "pass", "fail"})]

\* Whatever is committed after a SUCCESS has every domain at most once, and
\* still has the place for the next additions: neither a domain that is still
\* pending though listed, nor a second run on the program's own output, nor a
\* run that failed half-way leaves its mark on the list.
CommittedListIsSound == IsInjective(committed) /\ EndOfBulk \in ToSet(committed)

\* A commit adds only domains that have been pending, and removes only domains
\* whose removal has been requested or is due to failed scans, since the last
\* one; a scan made by the program itself agrees with every addition and every
\* automated removal.
CommitsOnlyWhatWasAskedFor ==
    [][\A d \in Domains :
          /\ d \in ToSet(committed') \ ToSet(committed) => {"pending", "pass"} \subseteq evidence[d]
          /\ d \in ToSet(committed) \ ToSet(committed')
             => \/ "pending-removal" \in evidence[d]
                \/ {"pending-automated-removal", "fail"} \subseteq evidence[d]]_vars

\* The lines that are there more than once.
Repeated(lines) == {l \in ToSet(lines) : \E i, j \in DOMAIN lines :
                                            i # j /\ lines[i] = l /\ lines[j] = l}

\* The names in lines, and those that are there more than once.
Checkout(lines) == [names |-> ToSet(lines) \cap Domains, dupes |-> Repeated(lines) \cap Domains]

\* What a run holds of each queue.
Fetched == [q \in Queues |->
              CASE q = "pending"                   -> ToSet(program.pendingAdditions)
                [] q = "pending-removal"           -> program.pendingRemovals
                [] q = "pending-automated-removal" -> program.pendingAutomatedRemovals]

\* What the rest of the system sees of the list, of the checkout and of a run:
\* a cut file counts as an empty one, once the run that cut it has failed.
ListSeen == Checkout(committed).names

CheckoutSeen == Checkout(CASE program.pc = "write"  -> program.contents
                           [] program.pc = "failed" -> <<>>
                           [] OTHER                 -> file)

PcSeen == CASE program.pc = "filterAdditions"     -> "fetch"
            [] program.pc = "filterRemovals"      -> "filter"
            [] program.pc \in {"update", "write"} -> "write"
            [] OTHER                              -> program.pc

RollSeen == [pc |-> PcSeen, unfetched |-> program.unfetched, fetched |-> Fetched]

ListRoll == INSTANCE ListRoll WITH
    listed <- ListSeen, file <- CheckoutSeen, roll <- RollSeen

\* The program, with its goroutines, its map of removals, its lines and the
\* truncated file, implements the roll that ListCycle composes with the site:
\* whatever order the scans end in and wherever a run fails, the checkout is
\* the old one without the removals and with the additions kept, a duplicate
\* is noticed, and a run on the output of another one adds and removes again.
ImplementsListRoll == ListRoll!Spec

-----------------------------------------------------------------------------
(* The inductive invariant. *)

\* There is one place for the next additions.
OnePlace(lines) == EndOfBulk \in ToSet(lines) \ Repeated(lines)

\* Scans are under way only in the two filters, which come after the fetches,
\* and the map of removals is the one that the filters leave.
RunsInOrder ==
    /\ program.pc \notin {"filterAdditions", "filterRemovals"}
       => program.todo = <<>> /\ program.scanning = {} /\ program.filtered = <<>>
    /\ program.pc \in {"filterAdditions", "filterRemovals", "update", "write"}
       => program.unfetched = {}
    /\ program.pc \in {"update", "write"}
       => program.removals = program.pendingRemovals \cup program.pendingAutomatedRemovals

\* A domain is scanned once, and kept once.
ScansInOrder ==
    LET scanned    == ToSet(program.todo) \cup program.scanning \cup ToSet(program.filtered)
        candidates == CASE program.pc = "filterAdditions" -> ToSet(program.pendingAdditions)
                        [] program.pc = "filterRemovals"  -> program.pendingAutomatedRemovals
                        [] OTHER                          -> {}
    IN  /\ \A s \in {program.todo, program.filtered, program.pendingAdditions} : IsInjective(s)
        /\ ToSet(program.todo) \cap program.scanning = {}
        /\ ToSet(program.filtered) \cap (ToSet(program.todo) \cup program.scanning) = {}
        /\ scanned \subseteq candidates

\* The contents of the file: it has the place for additions unless it is cut,
\* and what was read, what will be written and what has been are known.
FileInOrder ==
    /\ program.pc \notin {"write", "failed"} => OnePlace(file)
    /\ program.pc \in {"fetch", "filterAdditions", "filterRemovals", "update"}
       => program.contents = file
    /\ program.pc = "write" => /\ OnePlace(program.contents)
                               /\ program.output = Output(program)
                               /\ program.dupes = Repeated(program.output) \cap Domains
    /\ program.pc = "done" => program.dupes = Repeated(file) \cap Domains

Added(d) == {"pending", "pass"} \subseteq evidence[d]

Removed(d) == \/ "pending-removal" \in evidence[d]
              \/ {"pending-automated-removal", "fail"} \subseteq evidence[d]

\* What the checkout, or the copy of it that a run works on, has more than the
\* committed list and less.
ChangesAccounted(lines) ==
    \A d \in Domains : /\ d \in ToSet(lines) \ ToSet(committed) => Added(d)
                       /\ d \in ToSet(committed) \ ToSet(lines) => Removed(d)

\* There is evidence for what a run holds, as far as it has got.
RunAccounted ==
    \A d \in Domains :
        /\ queue[d] \in evidence[d]
        /\ d \in ToSet(program.pendingAdditions) => "pending" \in evidence[d]
        /\ d \in program.pendingRemovals => "pending-removal" \in evidence[d]
        /\ d \in program.pendingAutomatedRemovals => "pending-automated-removal" \in evidence[d]
        /\ d \in ToSet(program.filtered)
           => (IF program.pc = "filterAdditions" THEN "pass" ELSE "fail") \in evidence[d]
        /\ program.pc \in {"filterRemovals", "update", "write"}
           => (d \in ToSet(program.pendingAdditions) => "pass" \in evidence[d])
        /\ program.pc \in {"update", "write"}
           => (d \in program.pendingAutomatedRemovals => "fail" \in evidence[d])

\* The committed list is sound because the file of a run that printed SUCCESS
\* is; and it changes for good reasons because everything a run holds, and
\* everything by which the checkout differs from the list, has its evidence.
ListIInv == /\ TypeOK
            /\ RunsInOrder
            /\ ScansInOrder
            /\ FileInOrder
            /\ CommittedListIsSound
            /\ RunAccounted
            /\ program.pc \notin {"write", "failed"} => ChangesAccounted(file)
            /\ program.pc = "write" => ChangesAccounted(program.contents)
-----------------------------------------------------------------------------
\* Every run comes to an end: no scan waits for ever for a slot, nor the
\* program for a scan.
EveryRunEnds == []<>(program.pc \in {"idle", "done", "failed"})
=============================================================================
