------------------------------ MODULE ListRoll ------------------------------
(***************************************************************************)
(* A roll of the preload list, as the rest of the system sees it: the      *)
(* program scripts/updatelist is run on a checkout of the list, takes the  *)
(* domains of the site's three queues, one queue after the other, keeps    *)
(* those that its own scan confirms, and rewrites the checkout, which a    *)
(* maintainer then commits or resets.  Module UpdateList has the program   *)
(* itself and implements this one; module ListCycle puts this one and the  *)
(* site together.                                                          *)
(***************************************************************************)
CONSTANT Domains

VARIABLES queue,    \* queue[d]: the queue of the site that d is in
          listed,   \* the domains with an entry in Chromium's source
          file,     \* the checkout
          roll      \* a run of the program

Queues == {"pending", "pending-removal", "pending-automated-removal"}

\* The checkout: the domains with an entry and those with more than one.
Files == [names : SUBSET Domains, dupes : SUBSET Domains]

CheckoutOf(names) == [names |-> names, dupes |-> {}]

\* A run: the answers of the queues, cut down to what a scan confirmed.
Rolls == [pc        : {"idle", "fetch", "filter", "write", "done", "failed"},
          unfetched : SUBSET Queues,
          fetched   : [Queues -> SUBSET Domains]]

NoRoll == [pc |-> "idle", unfetched |-> Queues, fetched |-> [q \in Queues |-> {}]]

Init == /\ queue \in [Domains -> Queues \cup {"none"}]
        /\ listed \in SUBSET Domains
        /\ file = CheckoutOf(listed)
        /\ roll = NoRoll

\* The site moves domains from queue to queue.
ChangeQueues == /\ queue' \in [Domains -> Queues \cup {"none"}]
                /\ UNCHANGED <<listed, file, roll>>

\* A run starts, perhaps on the output of the one before.
Start == /\ roll.pc \in {"idle", "done"}
         /\ roll' = [NoRoll EXCEPT !.pc = "fetch"]
         /\ UNCHANGED <<queue, listed, file>>

\* Mutant: every goroutine sets the pending additions.
FetchAsAdditions(q) ==
    /\ roll.pc = "fetch"
    /\ q \in roll.unfetched
    /\ roll' = [roll EXCEPT !.unfetched = @ \ {q},
                            !.fetched["pending"] = {d \in Domains : queue[d] = q}]
    /\ UNCHANGED <<queue, listed, file>>

\* The answer for one queue.
Fetch(q) ==
    /\ roll.pc = "fetch"
    /\ q \in roll.unfetched
    /\ roll' = [roll EXCEPT !.unfetched = @ \ {q},
                            !.fetched[q] = {d \in Domains : queue[d] = q}]
    /\ UNCHANGED <<queue, listed, file>>

Keep(pc, q, kept, next) ==
    /\ roll.pc = pc
    /\ roll.unfetched = {}
    /\ kept \subseteq roll.fetched[q]
    /\ roll' = [roll EXCEPT !.pc = next, !.fetched[q] = kept]
    /\ UNCHANGED <<queue, listed, file>>

\* The scans of the pending domains: those of kept passed.
KeepAdditions(kept) == Keep("fetch", "pending", kept, "filter")

\* The scans of the pending automated removals: those of kept failed again.
KeepRemovals(kept) == Keep("filter", "pending-automated-removal", kept, "write")

Removals(r) == r.fetched["pending-removal"] \cup r.fetched["pending-automated-removal"]

\* The checkout after a run: entries are removed, then the additions written.
Rewritten(r) ==
    LET rest      == file.names \ Removals(r)
        additions == r.fetched["pending"]
    IN  [names |-> rest \cup additions,
         dupes |-> (file.dupes \ Removals(r)) \cup (rest \cap additions)]

Write == /\ roll.pc = "write"
         /\ file' = Rewritten(roll)
         /\ roll' = [NoRoll EXCEPT !.pc = "done"]
         /\ UNCHANGED <<queue, listed>>

\* Mutant: an error of the write passes unnoticed.
AbortUnnoticed == /\ roll.pc \in {"fetch", "filter", "write"}
                  /\ \/ roll' = NoRoll /\ UNCHANGED file
                     \/ /\ roll.pc = "write"
                        /\ roll' = [NoRoll EXCEPT !.pc = "done"]
                        /\ file' = CheckoutOf({})
                  /\ UNCHANGED <<queue, listed>>

\* The run ends with an error; if it had begun to write the checkout is
\* useless and stands as an empty one.
Abort == /\ roll.pc \in {"fetch", "filter", "write"}
         /\ \/ roll' = NoRoll /\ UNCHANGED file
            \/ /\ roll.pc = "write"
               /\ roll' = [NoRoll EXCEPT !.pc = "failed"]
               /\ file' = CheckoutOf({})
         /\ UNCHANGED <<queue, listed>>

\* The output of a SUCCESS is committed.
Commit == /\ roll.pc = "done"
          /\ file.dupes = {}
          /\ listed' = file.names
          /\ roll' = NoRoll
          /\ UNCHANGED <<queue, file>>

Reset == /\ roll.pc \in {"done", "failed"}
         /\ file' = CheckoutOf(listed)
         /\ roll' = NoRoll
         /\ UNCHANGED <<queue, listed>>

Next == \/ ChangeQueues
        \/ Start
        \/ \E q \in Queues : Fetch(q)
        \/ \E kept \in SUBSET Domains : KeepAdditions(kept) \/ KeepRemovals(kept)
        \/ Write \/ Abort \/ Commit \/ Reset

Spec == Init /\ [][Next]_<<queue, listed, file, roll>>
=============================================================================
