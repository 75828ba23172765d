---------------------------- MODULE StatusCache ----------------------------
(***************************************************************************)
(* The read side of the site: Status, which looks up a domain and, if it   *)
(* is unknown, its ancestors, and Removable, which decides on what Status  *)
(* says (api/domain_handlers.go); the lists of domains with a status       *)
(* (api/pending.go); and the cache they read through (api/cache.go).  One  *)
(* mutex guards the cache and is held while a missing or expired entry is  *)
(* fetched from the datastore, so a lookup is: take the mutex and look,    *)
(* fetch, store and release.  Requests are goroutines and the datastore    *)
(* changes at any moment.                                                  *)
(***************************************************************************)
EXTENDS DomainState, Integers, Sequences, Functions

CONSTANTS Domains,        \* domain names
          Ancestors,      \* Ancestors[d]: d's parent, its parent and so on
          Lists,          \* the statuses whose lists are asked for
          Readers,        \* concurrent requests
          StoredStates,   \* what the datastore may hold for a domain
          CacheDuration,  \* the lifetime of an entry (one minute)
          FetchTimeout,   \* the timeout of a datastore call
          NoReader,       \* not a request
          MaxTime,        \* bound: time that passes
          MaxWrites,      \* bound: changes of the datastore
          MaxFailures     \* bound: datastore reads that fail

ASSUME StatusCacheAssumption ==
    /\ Ancestors \in [Domains -> Seq(Domains)]
    /\ \A d \in Domains : \A i \in DOMAIN Ancestors[d] :
          \* each label less is another name, and its ancestors are d's from there
          /\ Ancestors[d][i] # d
          /\ Ancestors[Ancestors[d][i]] = SubSeq(Ancestors[d], i + 1, Len(Ancestors[d]))
    /\ Lists \subseteq Statuses /\ Lists \cap Domains = {}
    /\ StoredStates \subseteq DomainStates
    /\ {s \in StoredStates : s.status = "unknown"} = {UnknownState}
    /\ NoReader \notin Readers
    /\ {CacheDuration, FetchTimeout, MaxTime, MaxWrites, MaxFailures} \subseteq Nat
    /\ CacheDuration > 0

VARIABLES now,       \* the time
          states,    \* what the datastore holds
          writes,    \* the times at which it was changed
          failures,  \* datastore reads that failed
          cached,    \* the entries of the cache, a function of the keys it has
          lock,      \* the request that holds the mutex
          readers,   \* readers[r]: a request
          served,    \* history: the version of the last value served for a key
          answer     \* history: the last answer, until the next request

vars == <<now, states, writes, failures, cached, lock, readers, served, answer>>

\* The cache has a map for domains and one for lists: one function of both.
Keys == Domains \cup Lists

\* The datastore's answer for a key: StateForDomain or StatesWithStatus.
Stored(k) == IF k \in Domains THEN states[k] ELSE {d \in Domains : states[d].status = k}

(***************************************************************************)
(* A request: what it is for (op), the key it looks up now, the domain or  *)
(* list it was made for, the ancestors still to look up, what it fetched,  *)
(* and when it began to fetch.  An entry is a value with the time it was   *)
(* stored; version, the number of changes the value takes into account,    *)
(* is history.                                                             *)
(***************************************************************************)
NoRequest == [pc |-> "idle", op |-> "", asked |-> "", key |-> "", chain |-> <<>>,
              entry |-> [value |-> UnknownState, version |-> 0, time |-> 0], began |-> 0]

NoAnswer == [op |-> "", domain |-> "", status |-> "", issue |-> ""]

Init == /\ now = 0
        /\ states \in [Domains -> StoredStates]
        /\ writes = <<>>
        /\ failures = 0
        /\ cached = <<>>
        /\ lock = NoReader
        /\ readers = [r \in Readers |-> NoRequest]
        /\ served = [k \in Keys |-> 0]
        /\ answer = NoAnswer

\* Another handler stores a state.
Write(d) ==
    /\ Len(writes) < MaxWrites
    /\ \E s \in StoredStates \ {states[d]} : states' = [states EXCEPT ![d] = s]
    /\ writes' = Append(writes, now)
    /\ UNCHANGED <<now, failures, cached, lock, readers, served, answer>>

\* Time passes; a fetch that has reached its timeout ends first.
Tick == /\ now < MaxTime
        /\ lock # NoReader => now < readers[lock].began + FetchTimeout
        /\ now' = now + 1
        /\ UNCHANGED <<states, writes, failures, cached, lock, readers, served, answer>>

Start(r, op, k, chain) ==
    /\ readers[r].pc = "idle"
    /\ readers' = [readers EXCEPT ![r] =
          [NoRequest EXCEPT !.pc = "lookup", !.op = op, !.asked = k, !.key = k, !.chain = chain]]
    /\ answer' = NoAnswer
    /\ UNCHANGED <<now, states, writes, failures, cached, lock, served>>

\* A request to Status for d.
Status(r, d) == Start(r, "status", d, Ancestors[d])

\* A request to Removable for d.
Removable(r, d) == Start(r, "removable", d, Ancestors[d])

\* A request to Pending, PendingRemoval or PendingAutomatedRemoval.
ListDomainsWithStatus(r, status) == Start(r, "list", status, <<>>)

\* The issue Removable adds to those of the site's check: the domain is
\* preloaded because of another one, which may be a top-level domain, or it is
\* protected.
Issue(d, preloadedDomain, state) ==
    CASE preloadedDomain # d -> IF Ancestors[preloadedDomain] = <<>> THEN "preloaded_tld"
                                ELSE "subdomain"
      [] preloadedDomain = d /\ IsProtected(state) -> "protected"
      [] OTHER -> ""

\* The request is answered with a status, which may be due to preloadedDomain.
Answer(r, state, preloadedDomain) ==
    LET reader == readers[r]
    IN  /\ readers' = [readers EXCEPT ![r] = NoRequest]
        /\ answer' = [op     |-> reader.op,
                      domain |-> reader.asked,
                      status |-> IF preloadedDomain # reader.asked THEN "preloaded" ELSE state.status,
                      issue  |-> IF reader.op = "status" THEN ""
                                 ELSE Issue(reader.asked, preloadedDomain, state)]

\* Neither the domain nor the ancestors looked up so far decide: the next one.
NextAncestor(r) ==
    LET chain == readers[r].chain
    IN  IF chain = <<>> THEN Answer(r, UnknownState, readers[r].asked)
        ELSE /\ readers' = [readers EXCEPT ![r] =
                   [@ EXCEPT !.pc = "lookup", !.key = Head(chain), !.chain = Tail(chain)]]
             /\ UNCHANGED answer

\* Mutant: any preloaded ancestor counts.
CoversByStatus(s) == s.status = "preloaded"

\* An ancestor in state s makes its subdomains preloaded.
Covers(s) == s.status = "preloaded" /\ s.includeSubDomains

\* What the handler does with the value its lookup returned.
Use(r, value) ==
    LET reader == readers[r]
    IN  CASE reader.asked \in Lists ->
               readers' = [readers EXCEPT ![r] = NoRequest] /\ UNCHANGED answer
          [] reader.key = reader.asked /\ reader.asked \in Domains ->
               IF value.status # "unknown" THEN Answer(r, value, reader.asked) ELSE NextAncestor(r)
          [] OTHER -> IF Covers(value) THEN Answer(r, UnknownState, reader.key)
                      ELSE NextAncestor(r)

\* Mutant: an entry never expires.
FreshForever(k) == k \in DOMAIN cached

\* There is an entry for k and it has not expired.
Fresh(k) == k \in DOMAIN cached /\ now - cached[k].time < CacheDuration

Serve(k, entry) == served' = [served EXCEPT ![k] = entry.version]

\* Mutant: there is no mutex.
AvailableAlways == TRUE

\* The mutex can be taken.
Available == lock = NoReader

\* Under the mutex, the value is found in the cache.
Hit(r) ==
    LET k == readers[r].key
    IN  /\ readers[r].pc = "lookup" /\ Available
        /\ Fresh(k)
        /\ Serve(k, cached[k])
        /\ Use(r, cached[k].value)
        /\ UNCHANGED <<now, states, writes, failures, cached, lock>>

\* It is not: the mutex is kept for the fetch.
Miss(r) ==
    /\ readers[r].pc = "lookup" /\ Available
    /\ ~Fresh(readers[r].key)
    /\ lock' = r
    /\ readers' = [readers EXCEPT ![r] = [@ EXCEPT !.pc = "fetch", !.began = now]]
    /\ UNCHANGED <<now, states, writes, failures, cached, served, answer>>

\* The datastore reads the value.
Fetch(r) ==
    LET k == readers[r].key
    IN  /\ readers[r].pc = "fetch"
        /\ readers' = [readers EXCEPT ![r] =
              [@ EXCEPT !.pc = "store",
                        !.entry = [value |-> Stored(k), version |-> Len(writes), time |-> 0]]]
        /\ UNCHANGED <<now, states, writes, failures, cached, lock, served, answer>>

\* Its answer arrives: it is stored with the time of now, the mutex released.
Store(r) ==
    LET k     == readers[r].key
        entry == [readers[r].entry EXCEPT !.time = now]
    IN  /\ readers[r].pc = "store"
        /\ cached' = [m \in DOMAIN cached \cup {k} |-> IF m = k THEN entry ELSE cached[m]]
        /\ lock' = NoReader
        /\ Serve(k, entry)
        /\ Use(r, entry.value)
        /\ UNCHANGED <<now, states, writes, failures>>

\* Mutant: the mutex is not released when the datastore fails.
ReleaseNever == UNCHANGED lock

ReleaseOnError == lock' = NoReader

\* Mutant: the domain itself is passed over as its ancestors are.
PassOver(r) == NextAncestor(r)

\* What the handler does when its lookup returned an error: the one who asked
\* for this key is answered with it, but an ancestor that cannot be looked up
\* is passed over.
UseError(r) ==
    IF readers[r].key = readers[r].asked
    THEN readers' = [readers EXCEPT ![r] = NoRequest] /\ UNCHANGED answer
    ELSE NextAncestor(r)

\* The datastore fails or times out.
FailFetch(r) ==
    /\ readers[r].pc \in {"fetch", "store"}
    /\ failures < MaxFailures
    /\ failures' = failures + 1
    /\ ReleaseOnError
    /\ UseError(r)
    /\ UNCHANGED <<now, states, writes, cached, served>>

Lookup(r) == Hit(r) \/ Miss(r)

Next == \/ Tick
        \/ \E d \in Domains : Write(d)
        \/ \E r \in Readers : \/ \E d \in Domains : Status(r, d) \/ Removable(r, d)
                              \/ \E status \in Lists : ListDomainsWithStatus(r, status)
                              \/ Lookup(r) \/ Fetch(r) \/ Store(r) \/ FailFetch(r)

Spec == Init /\ [][Next]_vars

\* A datastore call returns, its context having a timeout, and a Go mutex
\* lets nobody starve.
FairSpec == /\ Spec
            /\ \A r \in Readers : WF_vars(Fetch(r)) /\ WF_vars(Store(r)) /\ SF_vars(Lookup(r))
-----------------------------------------------------------------------------
CacheEntries(values) == [value : values, version : Nat, time : Nat]

Requests(values) == [pc : {"idle", "lookup", "fetch", "store"},
                     op : {"", "status", "removable", "list"},
                     asked : Keys \cup {""}, key : Keys \cup {""}, chain : Seq(Domains),
                     entry : CacheEntries(values), began : Nat]

\* The variables hold values of the kinds the code gives them, and the mutex
\* is held by the request that fetches, if any.
TypeOK == /\ now \in 0..MaxTime
          /\ states \in [Domains -> StoredStates]
          /\ writes \in Seq(0..now) /\ Len(writes) <= MaxWrites
          /\ failures \in 0..MaxFailures
          /\ DOMAIN cached \subseteq Keys
          /\ \A k \in DOMAIN cached : cached[k] \in CacheEntries(IF k \in Domains THEN StoredStates
                                                            ELSE SUBSET Domains)
          /\ lock \in Readers \cup {NoReader}
          /\ DOMAIN readers = Readers
          /\ \A r \in Readers :
                readers[r] \in Requests(IF readers[r].pc = "store" /\ readers[r].key \in Lists
                                        THEN SUBSET Domains ELSE StoredStates)
          /\ \A r \in Readers : readers[r].pc \in {"fetch", "store"} <=> lock = r
          /\ served \in [Keys -> 0..Len(writes)]

\* An instance never serves, for a domain or a list, an older state than it
\* has served before: a slow fetch cannot put an old state over a newer one.
NeverServesOlder == [][\A k \in Keys : served'[k] >= served[k]]_vars

\* A lookup of r returns a value.
Returns(r) == /\ readers[r].pc \in {"lookup", "store"} /\ readers'[r] # readers[r]
              /\ readers'[r].pc # "fetch"
              /\ failures' = failures

\* A change is served at the latest when the cache duration and the time of
\* one datastore call have passed: the age of an entry counts from the answer
\* of the datastore, which had read the value up to a timeout earlier.
ServesRecent ==
    [][\A r \in Readers, i \in DOMAIN writes :
          Returns(r) /\ writes[i] + CacheDuration + FetchTimeout <= now
          => served'[readers[r].key] >= i]_vars

\* The ancestors whose preloading covers d, if d itself is unknown.
CoveredBy(d) ==
    {a \in Range(Ancestors[d]) : /\ states[d].status = "unknown"
                                 /\ states[a].status = "preloaded"
                                 /\ states[a].includeSubDomains}

\* The nearest of C, ancestors of one domain.
Nearest(C) == CHOOSE a \in C : Range(Ancestors[a]) \cap C = C \ {a}

\* The status of d if C are the ancestors that cover it: its own, or preloaded.
StatusOf(d, C) == IF C # {} THEN "preloaded" ELSE states[d].status

\* What then speaks against the removal of d, the site's check aside: that it
\* is listed as part of another domain, or its own protection.
ObstacleOf(d, C) ==
    IF C = {} THEN IF IsProtected(states[d]) THEN "protected" ELSE ""
    ELSE IF Ancestors[Nearest(C)] = <<>> THEN "preloaded_tld" ELSE "subdomain"

\* Through the cache, the mutex and the walk over the ancestors, Status and
\* Removable answer what the datastore holds, as long as that did not change: a
\* domain that is only listed as part of another one is preloaded, and not
\* reported as removable by itself.  Reads that fail can make the answer miss
\* some of the ancestors that cover the domain, and nothing else: never the
\* domain's own status or protection.
AnswersFollowDatastore ==
    LET d == answer.domain
    IN  writes = <<>> /\ d # ""
        => \E missed \in SUBSET CoveredBy(d) :
              /\ failures = 0 => missed = {}
              /\ answer.status = StatusOf(d, CoveredBy(d) \ missed)
              /\ answer.op = "removable" => answer.issue = ObstacleOf(d, CoveredBy(d) \ missed)

-----------------------------------------------------------------------------
(* The inductive invariant. *)

\* What was served is not newer than what the cache has, and what is being
\* stored is not older than anything in the cache.
VersionsInOrder ==
    /\ \A k \in Keys : served[k] <= IF k \in DOMAIN cached THEN cached[k].version ELSE 0
    /\ \A k \in DOMAIN cached : cached[k].version <= Len(writes)
    /\ \A r \in Readers : readers[r].pc = "store"
          => /\ readers[r].entry.version <= Len(writes)
             /\ \A k \in DOMAIN cached : cached[k].version <= readers[r].entry.version

\* Changes that an entry misses were made during its fetch or later.
EntriesAreRecent ==
    /\ \A k \in DOMAIN cached :
          /\ cached[k].time <= now
          /\ \A i \in DOMAIN writes : i > cached[k].version
                                      => cached[k].time <= writes[i] + FetchTimeout
    /\ \A r \in Readers : readers[r].pc \in {"fetch", "store"}
          => readers[r].began <= now /\ now <= readers[r].began + FetchTimeout
    /\ \A r \in Readers, i \in DOMAIN writes :
          readers[r].pc = "store" /\ i > readers[r].entry.version => readers[r].began <= writes[i]

\* As long as nothing has changed, all values are those of the datastore.
ValuesFollowDatastore ==
    writes = <<>> => /\ \A k \in DOMAIN cached : cached[k].value = Stored(k)
                     /\ \A r \in Readers : readers[r].pc = "store"
                           => readers[r].entry.value = Stored(readers[r].key)

\* A request has got to the i-th ancestor: d is unknown, and no nearer ancestor
\* covers it unless its read failed.
ReachedAncestor(r, d, i) ==
    /\ readers[r].key = Ancestors[d][i]
    /\ readers[r].chain = SubSeq(Ancestors[d], i + 1, Len(Ancestors[d]))
    /\ writes = <<>> => states[d].status = "unknown"
    /\ writes = <<>> /\ failures = 0
       => \A j \in 1..(i - 1) : ~Covers(states[Ancestors[d][j]])

\* A request is for a list, or looks up its domain, or is on its way up.
Walks(r) ==
    LET asked == readers[r].asked
    IN  \/ asked \in Lists /\ readers[r].key = asked
        \/ asked \in Domains /\ readers[r].key = asked /\ readers[r].chain = Ancestors[asked]
        \/ asked \in Domains /\ \E i \in DOMAIN Ancestors[asked] : ReachedAncestor(r, asked, i)

WalksInOrder == \A r \in Readers : readers[r].pc # "idle" => Walks(r)

CacheIInv == /\ TypeOK
             /\ VersionsInOrder
             /\ EntriesAreRecent
             /\ ValuesFollowDatastore
             /\ WalksInOrder
             /\ AnswersFollowDatastore
-----------------------------------------------------------------------------
\* Every request is answered, whichever fetches fail and however many requests
\* queue for the mutex.
EveryRequestEnds == \A r \in Readers : []<>(readers[r].pc = "idle")
=============================================================================
