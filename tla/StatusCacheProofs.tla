-------------------------- MODULE StatusCacheProofs --------------------------
(***************************************************************************)
(* Proofs about the read side, for all domains, lists, requests and        *)
(* durations: an instance never goes back to an older value, serves a      *)
(* change when the cache duration and one timeout have passed, and answers *)
(* what the datastore holds as long as that does not change.               *)
(***************************************************************************)
EXTENDS StatusCache, SequenceTheorems, TLAPS

-----------------------------------------------------------------------------
(* The ancestors of a domain. *)

\* The ancestors of d's i-th ancestor are d's from there on, and other names.
LEMMA FurtherAncestors ==
  ASSUME NEW d \in Domains, NEW i \in DOMAIN Ancestors[d]
  PROVE  /\ Ancestors[d] \in Seq(Domains) /\ Ancestors[d][i] \in Domains /\ i \in 1..Len(Ancestors[d])
         /\ Range(Ancestors[Ancestors[d][i]])
            = {Ancestors[d][j] : j \in (i + 1)..Len(Ancestors[d])}
         /\ Ancestors[Ancestors[d][i]] = <<>> <=> i = Len(Ancestors[d])
         /\ \A j \in (i + 1)..Len(Ancestors[d]) : Ancestors[d][j] # Ancestors[d][i]
<1> DEFINE A == Ancestors[d]
           n == Len(A)
<1>1. A \in Seq(Domains) /\ n \in Nat /\ DOMAIN A = 1..n /\ i \in 1..n /\ A[i] \in Domains
  BY StatusCacheAssumption
<1>2. Ancestors[A[i]] = SubSeq(A, i + 1, n)
  BY StatusCacheAssumption
<1> HIDE DEF A, n
<1>3. /\ DOMAIN SubSeq(A, i + 1, n) = 1..(n - i)
      /\ \A j \in 1..(n - i) : SubSeq(A, i + 1, n)[j] = A[i + j]
  BY <1>1
<1>4. \A j \in (i + 1)..n : j - i \in 1..(n - i) /\ i + (j - i) = j
  BY <1>1
<1>5. \A j \in 1..(n - i) : i + j \in (i + 1)..n
  BY <1>1
<1>6. Range(Ancestors[A[i]]) = {A[j] : j \in (i + 1)..n}
  <2>1. Range(Ancestors[A[i]]) = {SubSeq(A, i + 1, n)[j] : j \in 1..(n - i)}
    BY <1>2, <1>3 DEF Range
  <2>2. ASSUME NEW j \in 1..(n - i) PROVE SubSeq(A, i + 1, n)[j] \in {A[m] : m \in (i + 1)..n}
    BY <1>3, <1>5
  <2>3. ASSUME NEW m \in (i + 1)..n
        PROVE  A[m] \in {SubSeq(A, i + 1, n)[j] : j \in 1..(n - i)}
    <3>1. m - i \in 1..(n - i) /\ SubSeq(A, i + 1, n)[m - i] = A[m]
      BY <1>3, <1>4
    <3> QED
      BY <3>1
  <2> QED
    BY <2>1, <2>2, <2>3
<1>7. Ancestors[A[i]] = <<>> <=> i = n
  <2>1. SubSeq(A, i + 1, n) \in Seq(Domains) /\ Len(SubSeq(A, i + 1, n)) = n - i
    BY <1>1
  <2>2. \A s \in Seq(Domains) : s = <<>> <=> Len(s) = 0
    OBVIOUS
  <2>3. SubSeq(A, i + 1, n) = <<>> <=> n - i = 0
    BY <2>1, <2>2
  <2> QED
    BY <1>1, <1>2, <2>3
<1>8. \A j \in (i + 1)..n : A[j] # A[i]
  <2>1. \A a \in Range(Ancestors[A[i]]) : a # A[i]
    BY <1>1, StatusCacheAssumption DEF Range
  <2> QED
    BY <1>6, <2>1
<1> QED
  BY <1>1, <1>6, <1>7, <1>8 DEF A, n

\* The ancestors that cover d, from the i-th on.
CoveredFrom(d, i) ==
  {Ancestors[d][j] : j \in {m \in i..Len(Ancestors[d]) : Covers(states[Ancestors[d][m]])}}

\* The first of the ancestors that cover d is the nearest one.
LEMMA FirstIsNearest ==
  ASSUME NEW d \in Domains, NEW i \in DOMAIN Ancestors[d],
         states[d].status = "unknown", Covers(states[Ancestors[d][i]])
  PROVE  /\ CoveredFrom(d, i) \in SUBSET CoveredBy(d) /\ CoveredFrom(d, i) # {}
         /\ Nearest(CoveredFrom(d, i)) = Ancestors[d][i]
         /\ (\A j \in 1..(i - 1) : ~Covers(states[Ancestors[d][j]]))
            => CoveredFrom(d, i) = CoveredBy(d)
<1> DEFINE A == Ancestors[d]
           n == Len(A)
           C == CoveredFrom(d, i)
           IsNearest(a) == Range(Ancestors[a]) \cap C = C \ {a}
<1>1. /\ A \in Seq(Domains) /\ n \in Nat /\ DOMAIN A = 1..n /\ i \in 1..n
      /\ \A j \in 1..n : /\ Range(Ancestors[A[j]]) = {A[m] : m \in (j + 1)..n}
                         /\ \A m \in (j + 1)..n : A[m] # A[j]
  <2>1. A \in Seq(Domains) /\ n \in Nat /\ DOMAIN A = 1..n /\ i \in 1..n
    BY StatusCacheAssumption
  <2>2. ASSUME NEW j \in 1..n
        PROVE  /\ Range(Ancestors[A[j]]) = {A[m] : m \in (j + 1)..n}
               /\ \A m \in (j + 1)..n : A[m] # A[j]
    BY <2>1, FurtherAncestors
  <2> QED
    BY <2>1, <2>2
<1>2. /\ C = {A[j] : j \in {m \in i..n : Covers(states[A[m]])}}
      /\ CoveredBy(d) = {A[j] : j \in {m \in 1..n : Covers(states[A[m]])}}
  BY <1>1 DEF CoveredBy, CoveredFrom, Covers, Range
<1> HIDE DEF A, n, C
<1>3. A[i] \in C
  BY <1>1, <1>2 DEF A
<1>4. \A b \in C : b # A[i] => \E j \in (i + 1)..n : b = A[j]
  <2> SUFFICES ASSUME NEW j \in i..n, A[j] # A[i]
               PROVE  j \in (i + 1)..n
    BY <1>2
  <2>1. j # i
    OBVIOUS
  <2> QED
    BY <1>1, <2>1
<1>5. IsNearest(A[i])
  BY <1>1, <1>4
<1>6. ASSUME NEW b \in C, IsNearest(b), b # A[i] PROVE FALSE
  <2>1. PICK j \in (i + 1)..n : b = A[j]
    BY <1>4, <1>6
  <2>2. A[i] \in Range(Ancestors[b])
    BY <1>3, <1>6
  <2>3. j \in 1..n
    BY <1>1, <2>1
  <2>4. PICK m \in (j + 1)..n : A[i] = A[m]
    <3>1. Range(Ancestors[A[j]]) = {A[m] : m \in (j + 1)..n}
      BY <1>1, <2>3
    <3>2. A[i] \in {A[m] : m \in (j + 1)..n}
      BY <2>1, <2>2, <3>1
    <3> QED
      BY <3>2
  <2>5. m \in (i + 1)..n
    BY <1>1, <2>1, <2>4
  <2> QED
    BY <1>1, <2>4, <2>5
<1>7. Nearest(C) = CHOOSE a \in C : IsNearest(a)
  BY DEF Nearest
<1> HIDE DEF IsNearest
<1>8. Nearest(C) = A[i]
  BY <1>3, <1>5, <1>6, <1>7
<1>9. C \subseteq CoveredBy(d)
  <2>1. \A j \in i..n : j \in 1..n
    BY <1>1
  <2> QED
    BY <1>2, <2>1
<1>10. ASSUME \A j \in 1..(i - 1) : ~Covers(states[A[j]]) PROVE C = CoveredBy(d)
  <2>1. \A j \in 1..n : Covers(states[A[j]]) => j \in i..n
    BY <1>1, <1>10
  <2> QED
    BY <1>2, <1>9, <2>1
<1> QED
  BY <1>3, <1>8, <1>9, <1>10 DEF A, C

\* No ancestor covers d if none does on the way up, or if d is known.
LEMMA NothingCovers ==
  ASSUME NEW d \in Domains,
         states[d].status = "unknown"
         => \A j \in 1..Len(Ancestors[d]) : ~Covers(states[Ancestors[d][j]])
  PROVE  CoveredBy(d) = {}
<1>1. DOMAIN Ancestors[d] = 1..Len(Ancestors[d])
  BY StatusCacheAssumption
<1> QED
  BY <1>1 DEF CoveredBy, Covers, Range

-----------------------------------------------------------------------------
(* A request goes on: to its next ancestor, or to its answer. *)

\* r has gone on and the others have not; its next lookup is in order, or its
\* answer is.
Moved(r) ==
  /\ DOMAIN readers' = Readers
  /\ \A s \in Readers \ {r} : readers'[s] = readers[s]
  /\ readers'[r] \in Requests(StoredStates)
  /\ readers'[r].pc \in {"idle", "lookup"}
  /\ WalksInOrder'
  /\ AnswersFollowDatastore'

\* A lookup is for a domain or a list.
LEMMA KeyIsLookedUp ==
  ASSUME CacheIInv, NEW r \in Readers, readers[r].pc # "idle"
  PROVE  readers[r].key \in Keys
<1>1. Walks(r)
  BY DEF CacheIInv, WalksInOrder
<1>2. \A d \in Domains : \A i \in DOMAIN Ancestors[d] : Ancestors[d][i] \in Domains
  BY FurtherAncestors
<1> QED
  BY <1>1, <1>2 DEF Walks, ReachedAncestor, Keys

\* Other requests' walks are as they were.
LEMMA OthersInOrder ==
  ASSUME WalksInOrder, UNCHANGED <<states, writes>>, failures' = 0 => failures = 0,
         NEW r \in Readers,
         \A s \in Readers \ {r} : readers'[s] = readers[s],
         readers'[r].pc # "idle" => Walks(r)'
  PROVE  WalksInOrder'
<1> SUFFICES ASSUME NEW s \in Readers, s # r, readers'[s].pc # "idle" PROVE Walks(s)'
  BY DEF WalksInOrder
<1>1. \A d, i : ReachedAncestor(s, d, i) => ReachedAncestor(s, d, i)'
  BY DEF ReachedAncestor
<1>2. Walks(s)
  BY DEF WalksInOrder
<1> QED
  BY <1>1, <1>2 DEF Walks

\* What follows from the datastore does so until that changes.
LEMMA FollowsStates ==
  ASSUME UNCHANGED states
  PROVE  /\ \A d : CoveredBy(d)' = CoveredBy(d)
         /\ \A d, C : StatusOf(d, C)' = StatusOf(d, C) /\ ObstacleOf(d, C)' = ObstacleOf(d, C)
         /\ \A k : Stored(k)' = Stored(k)
<1>1. \A d : CoveredBy(d)' = CoveredBy(d)
  BY DEF CoveredBy
<1>2. \A k : Stored(k)' = Stored(k)
  BY DEF Stored
<1> QED
  BY <1>1, <1>2 DEF StatusOf, ObstacleOf

\* The last answer follows from the datastore until that or the answer changes.
LEMMA AnswerStays ==
  ASSUME AnswersFollowDatastore, UNCHANGED <<states, writes, answer>>, failures' = 0 => failures = 0
  PROVE  AnswersFollowDatastore'
BY FollowsStates DEF AnswersFollowDatastore

\* The answer to r's request for d.
LEMMA AnswerStep ==
  ASSUME CacheIInv, NEW r \in Readers, readers[r].asked \in Domains,
         NEW state, NEW preloadedDomain, Answer(r, state, preloadedDomain),
         UNCHANGED <<states, writes>>, failures' = 0 => failures = 0,
         LET d == readers[r].asked
         IN  writes = <<>>
             => \E C \in SUBSET CoveredBy(d) :
                   /\ failures' = 0 => C = CoveredBy(d)
                   /\ \/ preloadedDomain = d /\ C = {} /\ state = states[d]
                      \/ preloadedDomain # d /\ C # {} /\ preloadedDomain = Nearest(C)
  PROVE  Moved(r)
<1> DEFINE d == readers[r].asked
<1>1. /\ readers' = [readers EXCEPT ![r] = NoRequest]
      /\ answer' = [op     |-> readers[r].op, domain |-> d,
                    status |-> IF preloadedDomain # d THEN "preloaded" ELSE state.status,
                    issue  |-> IF readers[r].op = "status" THEN ""
                               ELSE Issue(d, preloadedDomain, state)]
  BY DEF Answer
<1>2. NoRequest \in Requests(StoredStates) /\ NoRequest.pc = "idle"
  BY StatusCacheAssumption DEF NoRequest, Requests, CacheEntries
<1>3. DOMAIN readers = Readers
  BY DEF CacheIInv, TypeOK
<1>4. /\ DOMAIN readers' = Readers /\ readers'[r] = NoRequest
      /\ \A s \in Readers \ {r} : readers'[s] = readers[s]
  BY <1>1, <1>3
<1>5. WalksInOrder'
  BY <1>2, <1>4, OthersInOrder DEF CacheIInv
<1>6. AnswersFollowDatastore'
  <2> DEFINE Right == \E missed \in SUBSET CoveredBy(d) :
                         /\ failures' = 0 => missed = {}
                         /\ answer'.status = StatusOf(d, CoveredBy(d) \ missed)
                         /\ answer'.op = "removable"
                            => answer'.issue = ObstacleOf(d, CoveredBy(d) \ missed)
  <2>1. ASSUME writes = <<>> PROVE Right
    <3>1. PICK C \in SUBSET CoveredBy(d) :
             /\ failures' = 0 => C = CoveredBy(d)
             /\ \/ preloadedDomain = d /\ C = {} /\ state = states[d]
                \/ preloadedDomain # d /\ C # {} /\ preloadedDomain = Nearest(C)
      BY <2>1
    <3>2. /\ answer'.status = StatusOf(d, C)
          /\ answer'.op = "removable" => answer'.issue = ObstacleOf(d, C)
      BY <1>1, <3>1 DEF StatusOf, ObstacleOf, Issue
    <3>3. C = CoveredBy(d) \ (CoveredBy(d) \ C)
      BY <3>1
    <3> WITNESS CoveredBy(d) \ C \in SUBSET CoveredBy(d)
    <3> QED
      BY <3>1, <3>2, <3>3
  <2>2. answer'.domain = d
    BY <1>1
  <2>3. /\ \A e : CoveredBy(e)' = CoveredBy(e)
        /\ \A e, C : StatusOf(e, C)' = StatusOf(e, C) /\ ObstacleOf(e, C)' = ObstacleOf(e, C)
    BY FollowsStates
  <2> HIDE DEF d
  <2> SUFFICES ASSUME writes = <<>>
               PROVE  (\E missed \in SUBSET CoveredBy(answer.domain) :
                         /\ failures = 0 => missed = {}
                         /\ answer.status = StatusOf(answer.domain, CoveredBy(answer.domain) \ missed)
                         /\ answer.op = "removable"
                            => answer.issue = ObstacleOf(answer.domain,
                                                         CoveredBy(answer.domain) \ missed))'
    BY DEF AnswersFollowDatastore
  <2> QED
    BY <2>1, <2>2, <2>3
<1> QED
  BY <1>2, <1>4, <1>5, <1>6 DEF Moved

\* Nothing up to the i-th ancestor has decided.
LEMMA NextAncestorStep ==
  ASSUME CacheIInv, NEW r \in Readers, NEW d \in Domains, NEW i \in 0..Len(Ancestors[d]),
         readers[r].asked = d, readers[r].key \in Domains, readers[r].pc # "idle",
         readers[r].chain = SubSeq(Ancestors[d], i + 1, Len(Ancestors[d])),
         UNCHANGED <<states, writes>>, failures' = 0 => failures = 0,
         writes = <<>> => states[d].status = "unknown",
         writes = <<>> /\ failures' = 0 => \A j \in 1..i : ~Covers(states[Ancestors[d][j]]),
         NextAncestor(r)
  PROVE  Moved(r)
<1> DEFINE A == Ancestors[d]
           n == Len(A)
<1>1. A \in Seq(Domains) /\ n \in Nat /\ DOMAIN A = 1..n /\ i \in 0..n
  BY StatusCacheAssumption
<1>2. CASE i = n
  <2>1. readers[r].chain = <<>>
    BY <1>1, <1>2
  <2>2. Answer(r, UnknownState, d)
    BY <2>1 DEF NextAncestor
  <2>3. ASSUME writes = <<>>
        PROVE  /\ {} \in SUBSET CoveredBy(d) /\ UnknownState = states[d]
               /\ failures' = 0 => {} = CoveredBy(d)
    <3>1. states[d].status = "unknown" /\ states[d] \in StoredStates
      BY <2>3 DEF CacheIInv, TypeOK
    <3>2. UnknownState = states[d]
      BY <3>1, StatusCacheAssumption
    <3> QED
      BY <1>2, <2>3, <3>2, NothingCovers
  <2> QED
    BY <2>2, <2>3, AnswerStep
<1>3. CASE i # n
  <2>1. i + 1 \in 1..n /\ (i + 1) + 1 = i + 2 /\ (i + 1) - 1 = i
    BY <1>1, <1>3
  <2>2. /\ SubSeq(A, i + 1, n) # <<>>
        /\ Head(SubSeq(A, i + 1, n)) = A[i + 1]
        /\ Tail(SubSeq(A, i + 1, n)) = SubSeq(A, i + 2, n)
    <3> HIDE DEF A, n
    <3>1. SubSeq(A, i + 1, n) \in Seq(Domains) /\ Len(SubSeq(A, i + 1, n)) = n - i
      BY <1>1
    <3>2. SubSeq(A, i + 1, n) # <<>> /\ SubSeq(A, i + 1, n)[1] = A[i + 1]
      <4>1. n - i \in Nat /\ n - i # 0 /\ 1 \in 1..(n - i)
        BY <1>1, <2>1
      <4>2. SubSeq(A, i + 1, n) # <<>>
        BY <3>1, <4>1
      <4> QED
        BY <1>1, <4>1, <4>2
    <3>3. Tail(SubSeq(A, i + 1, n)) = SubSeq(A, i + 2, n)
      BY <1>1, <2>1, <3>1, <3>2
    <3> QED
      BY <3>1, <3>2, <3>3
  <2>3. /\ readers' = [readers EXCEPT ![r] =
               [@ EXCEPT !.pc = "lookup", !.key = A[i + 1], !.chain = SubSeq(A, i + 2, n)]]
        /\ UNCHANGED answer
    BY <2>2 DEF NextAncestor
  <2>4. /\ readers[r] \in Requests(StoredStates) /\ DOMAIN readers = Readers
        /\ A[i + 1] \in Domains /\ SubSeq(A, i + 2, n) \in Seq(Domains)
    <3>1. readers[r].key \notin Lists
      BY StatusCacheAssumption
    <3>2. SubSeq(A, i + 2, n) \in Seq(Domains)
      BY <1>1, <2>1
    <3> QED
      BY <1>1, <2>1, <3>1, <3>2 DEF CacheIInv, TypeOK
  <2>5. /\ DOMAIN readers' = Readers
        /\ \A s \in Readers \ {r} : readers'[s] = readers[s]
        /\ readers'[r] \in Requests(StoredStates) /\ readers'[r].pc = "lookup"
        /\ readers'[r].asked = d /\ readers'[r].key = A[i + 1]
        /\ readers'[r].chain = SubSeq(A, i + 2, n)
    <3> HIDE DEF A, n
    <3> QED
      BY <2>3, <2>4 DEF Requests, Keys
  <2>6. ReachedAncestor(r, d, i + 1)'
    BY <2>1, <2>5 DEF ReachedAncestor
  <2>7. WalksInOrder'
    <3>1. Walks(r)'
      BY <1>1, <2>1, <2>5, <2>6 DEF Walks
    <3> QED
      BY <2>5, <3>1, OthersInOrder DEF CacheIInv
  <2>8. AnswersFollowDatastore'
    BY <2>3, AnswerStays DEF CacheIInv
  <2> QED
    BY <2>5, <2>7, <2>8 DEF Moved
<1> QED
  BY <1>2, <1>3

\* The handler uses a value that is the datastore's, if that has not changed.
LEMMA UseStep ==
  ASSUME CacheIInv, NEW r \in Readers, readers[r].pc \in {"lookup", "store"},
         NEW value, writes = <<>> => value = Stored(readers[r].key),
         Use(r, value), UNCHANGED <<states, writes, failures>>
  PROVE  Moved(r)
<1> DEFINE d == readers[r].asked
           A == Ancestors[d]
           n == Len(A)
<1>1. Walks(r) /\ readers[r].pc # "idle" /\ Lists \cap Domains = {}
  BY StatusCacheAssumption DEF CacheIInv, WalksInOrder
<1>2. CASE d \in Lists
  <2>1. readers' = [readers EXCEPT ![r] = NoRequest] /\ UNCHANGED answer
    BY <1>1, <1>2 DEF Use
  <2>2. NoRequest \in Requests(StoredStates) /\ NoRequest.pc = "idle"
    BY StatusCacheAssumption DEF NoRequest, Requests, CacheEntries
  <2>3. /\ DOMAIN readers' = Readers /\ readers'[r] = NoRequest
        /\ \A s \in Readers \ {r} : readers'[s] = readers[s]
    BY <2>1 DEF CacheIInv, TypeOK
  <2>4. WalksInOrder'
    BY <2>2, <2>3, OthersInOrder DEF CacheIInv
  <2>5. AnswersFollowDatastore'
    BY <2>1, AnswerStays DEF CacheIInv
  <2> QED
    BY <2>2, <2>3, <2>4, <2>5 DEF Moved
<1>3. CASE d \in Domains /\ readers[r].key = d
  <2>1. A \in Seq(Domains) /\ n \in Nat /\ DOMAIN A = 1..n
    BY <1>3, StatusCacheAssumption
  <2>2. readers[r].chain = A
    <3>1. \A i \in DOMAIN A : A[i] # d
      BY <1>3, StatusCacheAssumption
    <3> QED
      BY <1>1, <1>3, <3>1 DEF Walks, ReachedAncestor
  <2>3. writes = <<>> => value = states[d]
    BY <1>3 DEF Stored
  <2>4. CASE value.status # "unknown"
    <3>1. Answer(r, value, d)
      BY <1>1, <1>3, <2>4 DEF Use
    <3>2. writes = <<>> => CoveredBy(d) = {}
      BY <1>3, <2>3, <2>4, NothingCovers
    <3> QED
      BY <1>3, <2>3, <3>1, <3>2, AnswerStep
  <2>5. CASE value.status = "unknown"
    <3>1. NextAncestor(r)
      BY <1>1, <1>3, <2>5 DEF Use
    <3>2. readers[r].chain = SubSeq(A, 0 + 1, n)
      <4> HIDE DEF A
      <4> QED
        BY <2>1, <2>2, SubSeqFull
    <3>3. 0 \in 0..n /\ \A j \in 1..0 : FALSE
      BY <2>1
    <3> QED
      BY <1>1, <1>3, <2>3, <2>5, <3>1, <3>2, <3>3, NextAncestorStep
  <2> QED
    BY <2>4, <2>5
<1>4. CASE d \in Domains /\ readers[r].key # d
  <2>1. PICK i \in DOMAIN A : ReachedAncestor(r, d, i)
    BY <1>1, <1>4 DEF Walks
  <2>2. A \in Seq(Domains) /\ n \in Nat /\ i \in 1..n /\ A[i] \in Domains
    <3>1. A \in Seq(Domains)
      BY <1>4, StatusCacheAssumption
    <3> HIDE DEF A
    <3> QED
      BY <2>1, <3>1
  <2>3. /\ readers[r].key = A[i] /\ readers[r].chain = SubSeq(A, i + 1, n)
        /\ writes = <<>> => states[d].status = "unknown"
        /\ writes = <<>> /\ failures = 0
           => \A j \in 1..(i - 1) : ~Covers(states[A[j]])
    BY <2>1 DEF ReachedAncestor
  <2>4. writes = <<>> => value = states[A[i]]
    BY <2>2, <2>3 DEF Stored
  <2>5. CASE Covers(value)
    <3>1. Answer(r, UnknownState, A[i])
      BY <1>1, <1>4, <2>3, <2>5 DEF Use
    <3>2. ASSUME writes = <<>>
          PROVE  \E C \in SUBSET CoveredBy(d) :
                    /\ failures = 0 => C = CoveredBy(d)
                    /\ C # {} /\ A[i] = Nearest(C)
      BY <1>4, <2>3, <2>4, <2>5, <3>2, FirstIsNearest
    <3> QED
      BY <1>4, <2>3, <3>1, <3>2, AnswerStep
  <2>6. CASE ~Covers(value)
    <3>1. NextAncestor(r)
      BY <1>1, <1>4, <2>3, <2>6 DEF Use
    <3>2. i \in 0..n /\ \A j \in 1..i : j \in 1..(i - 1) \/ j = i
      BY <2>2
    <3>3. writes = <<>> /\ failures = 0 => \A j \in 1..i : ~Covers(states[A[j]])
      BY <2>3, <2>4, <2>6, <3>2
    <3> QED
      BY <1>1, <1>4, <2>2, <2>3, <3>1, <3>2, <3>3, NextAncestorStep
  <2> QED
    BY <2>5, <2>6
<1> QED
  BY <1>1, <1>2, <1>3, <1>4 DEF Walks

-----------------------------------------------------------------------------
(* Every step keeps the invariant. *)

LEMMA InitCache == Init => CacheIInv
<1> SUFFICES ASSUME Init PROVE CacheIInv
  OBVIOUS
<1>1. NoRequest \in Requests(StoredStates) /\ NoRequest.pc = "idle"
  BY StatusCacheAssumption DEF NoRequest, Requests, CacheEntries
<1>2. /\ readers = [r \in Readers |-> NoRequest] /\ writes = <<>> /\ DOMAIN cached = {}
      /\ Len(writes) = 0 /\ DOMAIN writes = {}
  BY DEF Init
<1>3. TypeOK
  <2>1. <<>> \in Seq(0..now) /\ 0 \in 0..0
    OBVIOUS
  <2> QED
    BY <1>1, <1>2, <2>1, StatusCacheAssumption DEF Init, TypeOK
<1>4. VersionsInOrder
  BY <1>1, <1>2 DEF VersionsInOrder, Init
<1>5. EntriesAreRecent
  BY <1>1, <1>2 DEF EntriesAreRecent
<1>6. ValuesFollowDatastore /\ WalksInOrder
  BY <1>1, <1>2 DEF ValuesFollowDatastore, WalksInOrder
<1>7. AnswersFollowDatastore
  BY DEF Init, NoAnswer, AnswersFollowDatastore
<1> QED
  BY <1>3, <1>4, <1>5, <1>6, <1>7 DEF CacheIInv

\* Time passes, but not beyond the timeout of a fetch.
LEMMA TickKeepsIInv ==
  ASSUME CacheIInv, Tick
  PROVE  CacheIInv'
<1> USE DEF CacheIInv
<1>1. /\ now' = now + 1 /\ now < MaxTime /\ now \in Nat
      /\ lock # NoReader => now < readers[lock].began + FetchTimeout
      /\ UNCHANGED <<states, writes, failures, cached, lock, readers, served, answer>>
  BY StatusCacheAssumption DEF Tick, TypeOK
<1>2. TypeOK'
  <2>1. now' \in 0..MaxTime
    BY <1>1, StatusCacheAssumption
  <2>2. writes \in Seq(0..now')
    <3>1. Len(writes) \in Nat /\ writes \in [1..Len(writes) -> 0..now]
      BY DEF TypeOK
    <3>2. writes \in [1..Len(writes) -> 0..now']
      BY <1>1, <3>1
    <3> QED
      BY <3>1, <3>2, SeqDef
  <2> QED
    BY <1>1, <2>1, <2>2 DEF TypeOK
<1>3. VersionsInOrder'
  BY <1>1 DEF VersionsInOrder
<1>4. EntriesAreRecent'
  <2>1. \A r \in Readers : readers[r].pc \in {"fetch", "store"} => lock = r /\ r # NoReader
    BY StatusCacheAssumption DEF TypeOK
  <2>2. ASSUME NEW r \in Readers, readers[r].pc \in {"fetch", "store"}
        PROVE  readers[r].began <= now' /\ now' <= readers[r].began + FetchTimeout
    <3>1. readers[r].began <= now /\ now < readers[r].began + FetchTimeout
      BY <1>1, <2>1, <2>2 DEF EntriesAreRecent
    <3>2. readers[r].began \in Nat
      BY DEF TypeOK, Requests
    <3> QED
      BY <1>1, <3>1, <3>2, StatusCacheAssumption
  <2>3. ASSUME NEW k \in DOMAIN cached PROVE cached[k].time <= now'
    <3>1. cached[k].time <= now
      BY DEF EntriesAreRecent
    <3>2. cached[k].time \in Nat
      BY DEF TypeOK, CacheEntries
    <3> QED
      BY <1>1, <3>1, <3>2
  <2> QED
    BY <1>1, <2>2, <2>3 DEF EntriesAreRecent
<1>5. ValuesFollowDatastore'
  BY <1>1 DEF ValuesFollowDatastore, Stored
<1>6. WalksInOrder'
  BY <1>1 DEF WalksInOrder, Walks, ReachedAncestor
<1>7. AnswersFollowDatastore'
  BY <1>1, AnswerStays
<1> QED
  BY <1>2, <1>3, <1>4, <1>5, <1>6, <1>7

\* The datastore changes now: no entry missed that before.
LEMMA WriteKeepsIInv ==
  ASSUME CacheIInv, NEW d \in Domains, Write(d)
  PROVE  CacheIInv'
<1> USE DEF CacheIInv
<1> DEFINE n == Len(writes)
<1>1. /\ writes' = Append(writes, now) /\ n < MaxWrites /\ now \in Nat
      /\ writes \in Seq(0..now) /\ n \in Nat
      /\ UNCHANGED <<now, failures, cached, lock, readers, served, answer>>
  BY DEF Write, TypeOK
<1>2. /\ writes' \in Seq(0..now) /\ Len(writes') = n + 1 /\ writes' # <<>>
      /\ DOMAIN writes' = 1..(n + 1) /\ DOMAIN writes = 1..n
      /\ \A i \in 1..n : writes'[i] = writes[i]
      /\ writes'[n + 1] = now
  BY <1>1
<1>3. TypeOK'
  <2>1. states' \in [Domains -> StoredStates]
    BY DEF Write, TypeOK
  <2>2. served \in [Keys -> 0..(n + 1)]
    <3>1. served \in [Keys -> 0..n] /\ 0..n \subseteq 0..(n + 1)
      BY <1>1 DEF TypeOK
    <3> QED
      BY <3>1
  <2>3. Len(writes') <= MaxWrites
    BY <1>1, <1>2, StatusCacheAssumption
  <2> QED
    BY <1>1, <1>2, <2>1, <2>2, <2>3 DEF TypeOK
<1>4. VersionsInOrder'
  <2>1. \A v \in Nat : v <= n => v <= n + 1
    BY <1>1
  <2>2. /\ \A k \in DOMAIN cached : cached[k].version \in Nat
        /\ \A r \in Readers : readers[r].entry.version \in Nat
    BY DEF TypeOK, CacheEntries, Requests
  <2> HIDE DEF n
  <2> QED
    BY <1>1, <1>2, <2>1, <2>2 DEF VersionsInOrder, n
<1>5. EntriesAreRecent'
  <2>1. ASSUME NEW k \in DOMAIN cached, NEW i \in 1..(n + 1), i > cached[k].version
        PROVE  cached[k].time <= writes'[i] + FetchTimeout
    <3>1. CASE i = n + 1
      <4>1. cached[k].time <= now /\ cached[k].time \in Nat
        BY DEF EntriesAreRecent, TypeOK, CacheEntries
      <4> QED
        BY <1>1, <1>2, <3>1, <4>1, StatusCacheAssumption
    <3>2. CASE i # n + 1
      BY <1>1, <1>2, <2>1, <3>2 DEF EntriesAreRecent
    <3> QED
      BY <3>1, <3>2
  <2>2. ASSUME NEW r \in Readers, NEW i \in 1..(n + 1),
               readers[r].pc = "store", i > readers[r].entry.version
        PROVE  readers[r].began <= writes'[i]
    <3>1. CASE i = n + 1
      BY <1>2, <2>2, <3>1 DEF EntriesAreRecent
    <3>2. CASE i # n + 1
      BY <1>1, <1>2, <2>2, <3>2 DEF EntriesAreRecent
    <3> QED
      BY <3>1, <3>2
  <2> QED
    BY <1>1, <1>2, <2>1, <2>2 DEF EntriesAreRecent
<1>6. ValuesFollowDatastore' /\ AnswersFollowDatastore'
  BY <1>2 DEF ValuesFollowDatastore, AnswersFollowDatastore
<1>7. WalksInOrder'
  <2>1. \A r, e, i : ReachedAncestor(r, e, i) => ReachedAncestor(r, e, i)'
    BY <1>1, <1>2 DEF ReachedAncestor
  <2> QED
    BY <1>1, <2>1 DEF WalksInOrder, Walks
<1> QED
  BY <1>3, <1>4, <1>5, <1>6, <1>7

\* A new request: its walk begins at its domain.
LEMMA StartKeepsIInv ==
  ASSUME CacheIInv, NEW r \in Readers, NEW op \in {"status", "removable", "list"}, NEW k \in Keys,
         NEW chain \in Seq(Domains), k \in Domains => chain = Ancestors[k],
         Start(r, op, k, chain)
  PROVE  CacheIInv'
<1> USE DEF CacheIInv
<1>1. /\ readers[r].pc = "idle"
      /\ readers' = [readers EXCEPT ![r] =
            [NoRequest EXCEPT !.pc = "lookup", !.op = op, !.asked = k, !.key = k, !.chain = chain]]
      /\ answer' = NoAnswer
      /\ UNCHANGED <<now, states, writes, failures, cached, lock, served>>
  BY DEF Start
<1>2. /\ DOMAIN readers' = Readers
      /\ \A s \in Readers \ {r} : readers'[s] = readers[s]
      /\ readers'[r].pc = "lookup" /\ readers'[r] \in Requests(StoredStates)
      /\ readers'[r].asked = k /\ readers'[r].key = k /\ readers'[r].chain = chain
  <2>1. [NoRequest EXCEPT !.pc = "lookup", !.op = op, !.asked = k, !.key = k, !.chain = chain]
           \in Requests(StoredStates)
    BY StatusCacheAssumption DEF NoRequest, Requests, CacheEntries
  <2> QED
    BY <1>1, <2>1 DEF TypeOK, NoRequest
<1>3. TypeOK'
  BY <1>1, <1>2 DEF TypeOK
<1>4. VersionsInOrder'
  BY <1>1, <1>2 DEF VersionsInOrder
<1>5. EntriesAreRecent'
  BY <1>1, <1>2 DEF EntriesAreRecent
<1>6. ValuesFollowDatastore'
  BY <1>1, <1>2 DEF ValuesFollowDatastore, Stored
<1>7. WalksInOrder'
  <2>1. Walks(r)'
    BY <1>2 DEF Walks, Keys
  <2> QED
    BY <1>1, <1>2, <2>1, OthersInOrder
<1>8. AnswersFollowDatastore'
  BY <1>1 DEF AnswersFollowDatastore, NoAnswer
<1> QED
  BY <1>3, <1>4, <1>5, <1>6, <1>7, <1>8

\* A request that finds a fresh entry goes on with it.
LEMMA HitMoves ==
  ASSUME CacheIInv, NEW r \in Readers, Hit(r)
  PROVE  Moved(r)
<1>1. writes = <<>> => cached[readers[r].key].value = Stored(readers[r].key)
  BY DEF CacheIInv, ValuesFollowDatastore, Hit, Fresh
<1> QED
  BY <1>1, UseStep DEF Hit

\* A request whose fetch has succeeded goes on with what it brought.
LEMMA StoreMoves ==
  ASSUME CacheIInv, NEW r \in Readers, Store(r)
  PROVE  Moved(r)
<1> DEFINE k == readers[r].key
           old == readers[r].entry
           entry == [old EXCEPT !.time = now]
<1>1. readers[r].pc = "store" /\ Use(r, entry.value) /\ UNCHANGED <<states, writes, failures>>
  BY DEF Store
<1>2. \E values : old \in CacheEntries(values)
  BY DEF CacheIInv, TypeOK, Requests
<1> HIDE DEF old
<1>3. entry.value = old.value
  BY <1>2 DEF CacheEntries
<1>4. writes = <<>> => entry.value = Stored(k)
  BY <1>1, <1>3 DEF CacheIInv, ValuesFollowDatastore, old
<1> QED
  BY <1>1, <1>4, UseStep

\* A fresh entry is served: its version is not lower than what was served.
LEMMA HitKeepsIInv ==
  ASSUME CacheIInv, NEW r \in Readers, Hit(r)
  PROVE  CacheIInv'
<1> USE DEF CacheIInv
<1> DEFINE k == readers[r].key
<1>1. /\ readers[r].pc = "lookup" /\ k \in DOMAIN cached /\ k \in Keys
      /\ served' = [served EXCEPT ![k] = cached[k].version]
      /\ UNCHANGED <<now, states, writes, failures, cached, lock>>
  BY DEF Hit, Fresh, Serve, TypeOK
<1>2. Moved(r)
  BY HitMoves
<1> HIDE DEF k
<1>3. /\ DOMAIN readers' = Readers
      /\ \A s \in Readers \ {r} : readers'[s] = readers[s]
      /\ readers'[r] \in Requests(StoredStates)
      /\ readers'[r].pc \in {"idle", "lookup"}
      /\ WalksInOrder' /\ AnswersFollowDatastore'
  BY <1>2 DEF Moved
<1>4. cached[k].version \in 0..Len(writes)
  <2>1. cached[k].version \in Nat /\ cached[k].version <= Len(writes) /\ Len(writes) \in Nat
    BY <1>1 DEF TypeOK, CacheEntries, VersionsInOrder
  <2> QED
    BY <2>1
<1>5. TypeOK'
  BY <1>1, <1>3, <1>4 DEF TypeOK
<1>6. VersionsInOrder'
  <2>1. \A m \in Keys : served'[m] <= IF m \in DOMAIN cached THEN cached[m].version ELSE 0
    BY <1>1, <1>4 DEF VersionsInOrder, TypeOK
  <2> QED
    BY <1>1, <1>3, <2>1 DEF VersionsInOrder
<1>7. EntriesAreRecent'
  BY <1>1, <1>3 DEF EntriesAreRecent
<1>8. ValuesFollowDatastore'
  BY <1>1, <1>3, FollowsStates DEF ValuesFollowDatastore
<1> QED
  BY <1>3, <1>5, <1>6, <1>7, <1>8

\* The mutex is taken for a fetch that begins now.
LEMMA MissKeepsIInv ==
  ASSUME CacheIInv, NEW r \in Readers, Miss(r)
  PROVE  CacheIInv'
<1> USE DEF CacheIInv
<1>1. /\ readers[r].pc = "lookup" /\ lock = NoReader /\ lock' = r
      /\ readers' = [readers EXCEPT ![r] = [@ EXCEPT !.pc = "fetch", !.began = now]]
      /\ UNCHANGED <<now, states, writes, failures, cached, served, answer>>
  BY DEF Miss, Available
<1>2. /\ DOMAIN readers' = Readers
      /\ \A s \in Readers \ {r} : readers'[s] = readers[s]
      /\ readers'[r].pc = "fetch" /\ readers'[r] \in Requests(StoredStates)
      /\ readers'[r].asked = readers[r].asked /\ readers'[r].key = readers[r].key
      /\ readers'[r].chain = readers[r].chain /\ readers'[r].began = now
  <2>1. readers[r] \in Requests(StoredStates) /\ now \in Nat
    BY <1>1 DEF TypeOK
  <2> QED
    BY <1>1, <2>1 DEF TypeOK, Requests
<1>3. \A s \in Readers : readers[s].pc \notin {"fetch", "store"}
  BY <1>1, StatusCacheAssumption DEF TypeOK
<1>4. TypeOK'
  BY <1>1, <1>2, <1>3 DEF TypeOK
<1>5. VersionsInOrder'
  BY <1>1, <1>2 DEF VersionsInOrder
<1>6. EntriesAreRecent'
  <2>1. now <= now /\ now <= now + FetchTimeout
    BY StatusCacheAssumption DEF TypeOK
  <2> QED
    BY <1>1, <1>2, <2>1 DEF EntriesAreRecent
<1>7. ValuesFollowDatastore'
  BY <1>1, <1>2 DEF ValuesFollowDatastore, Stored
<1>8. WalksInOrder'
  <2>1. Walks(r)'
    <3>1. Walks(r)
      BY <1>1 DEF WalksInOrder
    <3>2. \A d, i : ReachedAncestor(r, d, i) => ReachedAncestor(r, d, i)'
      BY <1>1, <1>2 DEF ReachedAncestor
    <3> QED
      BY <1>2, <3>1, <3>2 DEF Walks
  <2> QED
    BY <1>1, <1>2, <2>1, OthersInOrder
<1>9. AnswersFollowDatastore'
  BY <1>1, AnswerStays
<1> QED
  BY <1>4, <1>5, <1>6, <1>7, <1>8, <1>9

\* The value read is the newest there is.
LEMMA FetchKeepsIInv ==
  ASSUME CacheIInv, NEW r \in Readers, Fetch(r)
  PROVE  CacheIInv'
<1> USE DEF CacheIInv
<1> DEFINE k == readers[r].key
           n == Len(writes)
           entry == [value |-> Stored(k), version |-> n, time |-> 0]
<1>1. /\ readers[r].pc = "fetch"
      /\ readers' = [readers EXCEPT ![r] = [@ EXCEPT !.pc = "store", !.entry = entry]]
      /\ UNCHANGED <<now, states, writes, failures, cached, lock, served, answer>>
  BY DEF Fetch
<1>2. k \in Keys /\ n \in Nat
  <2>1. k \in Keys
    BY <1>1, KeyIsLookedUp
  <2> QED
    BY <2>1 DEF TypeOK
<1>3. entry \in CacheEntries(IF k \in Lists THEN SUBSET Domains ELSE StoredStates)
  <2>1. Stored(k) \in IF k \in Lists THEN SUBSET Domains ELSE StoredStates
    BY <1>2, StatusCacheAssumption DEF Stored, Keys, TypeOK
  <2> QED
    BY <1>2, <2>1 DEF CacheEntries
<1>4. entry.value = Stored(k) /\ entry.version = n
  OBVIOUS
<1> HIDE DEF k, entry
<1>5. /\ DOMAIN readers' = Readers
      /\ \A s \in Readers \ {r} : readers'[s] = readers[s]
      /\ readers'[r].pc = "store" /\ readers'[r].entry = entry
      /\ readers'[r].asked = readers[r].asked /\ readers'[r].key = k
      /\ readers'[r].chain = readers[r].chain /\ readers'[r].began = readers[r].began
      /\ readers'[r] \in Requests(IF k \in Lists THEN SUBSET Domains ELSE StoredStates)
  <2> DEFINE old == readers[r]
             new == [old EXCEPT !.pc = "store", !.entry = entry]
  <2>1. old \in Requests(StoredStates) /\ old.key = k
    BY <1>1 DEF TypeOK, k
  <2>2. readers' = [readers EXCEPT ![r] = new] /\ DOMAIN readers = Readers
    BY <1>1 DEF TypeOK
  <2> HIDE DEF old
  <2>3. /\ new.pc = "store" /\ new.entry = entry /\ new.asked = old.asked /\ new.key = k
        /\ new.chain = old.chain /\ new.began = old.began
        /\ new \in Requests(IF k \in Lists THEN SUBSET Domains ELSE StoredStates)
    BY <1>3, <2>1 DEF Requests
  <2> HIDE DEF new
  <2> QED
    BY <2>2, <2>3 DEF old
<1>6. TypeOK'
  BY <1>1, <1>5 DEF TypeOK
<1>7. VersionsInOrder'
  BY <1>1, <1>2, <1>4, <1>5 DEF VersionsInOrder
<1>8. EntriesAreRecent'
  <2>1. \A i \in DOMAIN writes : ~(i > n)
    BY <1>2 DEF TypeOK
  <2>2. ASSUME NEW s \in Readers, readers'[s].pc \in {"fetch", "store"}
        PROVE  readers'[s].began <= now /\ now <= readers'[s].began + FetchTimeout
    <3>1. readers[s].pc \in {"fetch", "store"} /\ readers'[s].began = readers[s].began
      BY <1>1, <1>5, <2>2
    <3> QED
      BY <3>1 DEF EntriesAreRecent
  <2>3. ASSUME NEW s \in Readers, NEW i \in DOMAIN writes, readers'[s].pc = "store",
               i > readers'[s].entry.version
        PROVE  readers'[s].began <= writes[i]
    <3>1. s # r
      BY <1>4, <1>5, <2>1, <2>3
    <3> QED
      BY <1>5, <2>3, <3>1 DEF EntriesAreRecent
  <2> QED
    BY <1>1, <2>2, <2>3 DEF EntriesAreRecent
<1>9. ValuesFollowDatastore'
  <2>1. \A m : Stored(m)' = Stored(m)
    BY <1>1, FollowsStates
  <2>2. \A s \in Readers : readers'[s].pc = "store" /\ s # r => readers[s].pc = "store"
    BY <1>5
  <2> QED
    BY <1>1, <1>4, <1>5, <2>1, <2>2 DEF ValuesFollowDatastore
<1>10. WalksInOrder'
  <2>1. Walks(r)'
    BY <1>1, <1>5 DEF WalksInOrder, Walks, ReachedAncestor, k
  <2> QED
    BY <1>1, <1>5, <2>1, OthersInOrder
<1>11. AnswersFollowDatastore'
  BY <1>1, AnswerStays
<1> QED
  BY <1>6, <1>7, <1>8, <1>9, <1>10, <1>11

\* What the fetch brought is stored, with an age counted from now, and served.
LEMMA StoreKeepsIInv ==
  ASSUME CacheIInv, NEW r \in Readers, Store(r)
  PROVE  CacheIInv'
<1> USE DEF CacheIInv
<1> DEFINE k == readers[r].key
           old == readers[r].entry
           entry == [old EXCEPT !.time = now]
<1>1. /\ readers[r].pc = "store" /\ lock = r /\ lock' = NoReader
      /\ cached' = [m \in DOMAIN cached \cup {k} |-> IF m = k THEN entry ELSE cached[m]]
      /\ served' = [served EXCEPT ![k] = entry.version]
      /\ UNCHANGED <<now, states, writes, failures>>
  BY DEF Store, Serve, TypeOK
<1>2. k \in Keys
  BY <1>1, KeyIsLookedUp
<1>3. /\ old \in CacheEntries(IF k \in Domains THEN StoredStates ELSE SUBSET Domains)
      /\ now \in Nat /\ readers[r].began \in Nat
  <2>1. k \in Domains <=> k \notin Lists
    BY <1>2, StatusCacheAssumption DEF Keys
  <2>2. readers[r] \in Requests(IF k \in Domains THEN StoredStates ELSE SUBSET Domains)
    BY <1>1, <2>1 DEF TypeOK
  <2> DEFINE values == IF k \in Domains THEN StoredStates ELSE SUBSET Domains
  <2> HIDE DEF values
  <2>3. readers[r].entry \in CacheEntries(values) /\ readers[r].began \in Nat
    BY <2>2 DEF Requests, values
  <2> QED
    BY <2>3 DEF TypeOK, values
<1> HIDE DEF old, k
<1>4. /\ entry \in CacheEntries(IF k \in Domains THEN StoredStates ELSE SUBSET Domains)
      /\ entry.value = old.value /\ entry.version = old.version /\ entry.time = now
  BY <1>3 DEF CacheEntries
<1> HIDE DEF entry
<1>5. /\ DOMAIN cached' = DOMAIN cached \cup {k}
      /\ cached'[k] = entry
      /\ \A m \in DOMAIN cached : m # k => cached'[m] = cached[m]
  BY <1>1
<1>6. Moved(r)
  BY StoreMoves
<1>7. /\ DOMAIN readers' = Readers
      /\ \A s \in Readers \ {r} : readers'[s] = readers[s]
      /\ readers'[r] \in Requests(StoredStates)
      /\ readers'[r].pc \in {"idle", "lookup"}
      /\ WalksInOrder' /\ AnswersFollowDatastore'
  BY <1>6 DEF Moved
<1>8. \A s \in Readers : readers'[s].pc \notin {"fetch", "store"}
  BY <1>1, <1>7 DEF TypeOK
<1>9. entry.version \in 0..Len(writes)
  <2>1. entry.version \in Nat /\ entry.version <= Len(writes) /\ Len(writes) \in Nat
    BY <1>1, <1>3, <1>4 DEF TypeOK, CacheEntries, VersionsInOrder, old
  <2> QED
    BY <2>1
<1>10. TypeOK'
  <2>1. /\ DOMAIN cached' \subseteq Keys
        /\ \A m \in DOMAIN cached' :
              cached'[m] \in CacheEntries(IF m \in Domains THEN StoredStates ELSE SUBSET Domains)
    BY <1>2, <1>4, <1>5 DEF TypeOK
  <2>2. \A s \in Readers : readers'[s] \in Requests(StoredStates)
    <3>1. \A s \in Readers \ {r} : readers[s].pc \notin {"fetch", "store"}
      BY <1>1 DEF TypeOK
    <3> QED
      BY <1>7, <3>1 DEF TypeOK
  <2>3. \A s \in Readers : readers'[s].pc \in {"fetch", "store"} <=> lock' = s
    BY <1>1, <1>8, StatusCacheAssumption
  <2>4. served' \in [Keys -> 0..Len(writes)]
    BY <1>1, <1>2, <1>9 DEF TypeOK
  <2> QED
    BY <1>1, <1>7, <1>8, <2>1, <2>2, <2>3, <2>4 DEF TypeOK
<1>11. VersionsInOrder'
  <2>1. \A m \in Keys : served'[m] <= IF m \in DOMAIN cached' THEN cached'[m].version ELSE 0
    <3>1. served'[k] = entry.version /\ \A m \in Keys : m # k => served'[m] = served[m]
      BY <1>1, <1>2 DEF TypeOK
    <3>2. entry.version <= entry.version
      BY <1>9
    <3> QED
      BY <1>5, <3>1, <3>2 DEF VersionsInOrder
  <2>2. \A m \in DOMAIN cached' : cached'[m].version <= Len(writes)
    BY <1>5, <1>9 DEF VersionsInOrder
  <2> QED
    BY <1>1, <1>8, <2>1, <2>2 DEF VersionsInOrder
<1>12. EntriesAreRecent'
  <2>1. readers[r].began <= now /\ now <= readers[r].began + FetchTimeout
    BY <1>1 DEF EntriesAreRecent
  <2>2. ASSUME NEW i \in DOMAIN writes, i > entry.version
        PROVE  now <= writes[i] + FetchTimeout
    <3>1. readers[r].began <= writes[i]
      BY <1>1, <1>4, <2>2 DEF EntriesAreRecent, old
    <3>2. writes[i] \in Nat
      BY DEF TypeOK
    <3> QED
      BY <1>3, <2>1, <3>1, <3>2, StatusCacheAssumption
  <2>3. now <= now
    BY <1>3
  <2> QED
    BY <1>1, <1>4, <1>5, <1>8, <2>2, <2>3 DEF EntriesAreRecent
<1>13. ValuesFollowDatastore'
  <2>1. \A m : Stored(m)' = Stored(m)
    BY <1>1, FollowsStates
  <2>2. writes = <<>> => entry.value = Stored(k)
    BY <1>1, <1>4 DEF ValuesFollowDatastore, old, k
  <2> QED
    BY <1>1, <1>5, <1>8, <2>1, <2>2 DEF ValuesFollowDatastore
<1> QED
  BY <1>7, <1>10, <1>11, <1>12, <1>13

\* A fetch fails: the mutex is released and the cache stays as it was.
LEMMA FailFetchKeepsIInv ==
  ASSUME CacheIInv, NEW r \in Readers, FailFetch(r)
  PROVE  CacheIInv'
<1> USE DEF CacheIInv
<1>1. /\ readers[r].pc \in {"fetch", "store"} /\ lock = r /\ lock' = NoReader
      /\ failures < MaxFailures /\ failures' = failures + 1 /\ failures \in Nat
      /\ UNCHANGED <<now, states, writes, cached, served>>
  BY DEF FailFetch, ReleaseOnError, TypeOK
<1>2. failures' \in 0..MaxFailures /\ failures' # 0
  BY <1>1, StatusCacheAssumption
<1>3. /\ DOMAIN readers' = Readers
      /\ \A s \in Readers \ {r} : readers'[s] = readers[s]
      /\ readers'[r] \in Requests(StoredStates)
      /\ readers'[r].pc \in {"idle", "lookup"}
      /\ WalksInOrder' /\ AnswersFollowDatastore'
  <2>1. CASE readers[r].key = readers[r].asked
    <3>1. readers' = [readers EXCEPT ![r] = NoRequest] /\ UNCHANGED answer
      BY <2>1 DEF FailFetch, UseError
    <3>2. NoRequest \in Requests(StoredStates) /\ NoRequest.pc = "idle"
      BY StatusCacheAssumption DEF NoRequest, Requests, CacheEntries
    <3>3. /\ DOMAIN readers' = Readers /\ readers'[r] = NoRequest
          /\ \A s \in Readers \ {r} : readers'[s] = readers[s]
      BY <3>1 DEF TypeOK
    <3>4. WalksInOrder'
      BY <1>1, <1>2, <3>2, <3>3, OthersInOrder
    <3>5. AnswersFollowDatastore'
      BY <1>1, <1>2, <3>1, AnswerStays
    <3> QED
      BY <3>2, <3>3, <3>4, <3>5
  <2>2. CASE readers[r].key # readers[r].asked
    <3> DEFINE d == readers[r].asked
    <3>1. d \in Domains /\ \E i \in DOMAIN Ancestors[d] : ReachedAncestor(r, d, i)
      BY <1>1, <2>2 DEF WalksInOrder, Walks
    <3>2. PICK i \in DOMAIN Ancestors[d] : ReachedAncestor(r, d, i)
      BY <3>1
    <3>3. i \in 0..Len(Ancestors[d]) /\ Ancestors[d][i] \in Domains
      BY <3>1, FurtherAncestors
    <3>4. /\ readers[r].key \in Domains
          /\ readers[r].chain = SubSeq(Ancestors[d], i + 1, Len(Ancestors[d]))
      BY <3>2, <3>3 DEF ReachedAncestor
    <3>5. NextAncestor(r)
      BY <2>2 DEF FailFetch, UseError
    <3>6. writes = <<>> => states[d].status = "unknown"
      BY <3>2 DEF ReachedAncestor
    <3>7. Moved(r)
      BY <1>1, <1>2, <3>1, <3>3, <3>4, <3>5, <3>6, NextAncestorStep
    <3> QED
      BY <3>7 DEF Moved
  <2> QED
    BY <2>1, <2>2
<1>4. \A s \in Readers : readers'[s].pc \notin {"fetch", "store"}
  BY <1>1, <1>3 DEF TypeOK
<1>5. TypeOK'
  BY <1>1, <1>2, <1>3, <1>4, StatusCacheAssumption DEF TypeOK
<1>6. VersionsInOrder'
  BY <1>1, <1>4 DEF VersionsInOrder
<1>7. EntriesAreRecent'
  BY <1>1, <1>4 DEF EntriesAreRecent
<1>8. ValuesFollowDatastore'
  BY <1>2, <1>1, <1>4 DEF ValuesFollowDatastore, Stored
<1> QED
  BY <1>3, <1>5, <1>6, <1>7, <1>8

LEMMA StepKeepsIInv == CacheIInv /\ [Next]_vars => CacheIInv'
<1> SUFFICES ASSUME CacheIInv, [Next]_vars PROVE CacheIInv'
  OBVIOUS
<1>1. CASE UNCHANGED vars
  <2>1. UNCHANGED <<now, states, writes, failures, cached, lock, readers, served, answer>>
    BY <1>1 DEF vars
  <2>2. TypeOK' /\ VersionsInOrder' /\ EntriesAreRecent'
    BY <2>1 DEF CacheIInv, TypeOK, VersionsInOrder, EntriesAreRecent
  <2>3. ValuesFollowDatastore' /\ WalksInOrder'
    BY <2>1 DEF CacheIInv, ValuesFollowDatastore, Stored, WalksInOrder, Walks, ReachedAncestor
  <2>4. AnswersFollowDatastore'
    BY <2>1, AnswerStays DEF CacheIInv
  <2> QED
    BY <2>2, <2>3, <2>4 DEF CacheIInv
<1>2. CASE Tick
  BY <1>2, TickKeepsIInv
<1>3. ASSUME NEW d \in Domains, Write(d) PROVE CacheIInv'
  BY <1>3, WriteKeepsIInv
<1>4. ASSUME NEW r \in Readers, NEW d \in Domains, Status(r, d) \/ Removable(r, d) PROVE CacheIInv'
  <2>1. Ancestors[d] \in Seq(Domains) /\ d \in Keys
    BY StatusCacheAssumption DEF Keys
  <2> QED
    BY <1>4, <2>1, StartKeepsIInv DEF Status, Removable
<1>5. ASSUME NEW r \in Readers, NEW status \in Lists, ListDomainsWithStatus(r, status) PROVE CacheIInv'
  <2>1. <<>> \in Seq(Domains) /\ status \in Keys /\ status \notin Domains
    BY StatusCacheAssumption DEF Keys
  <2> QED
    BY <1>5, <2>1, StartKeepsIInv DEF ListDomainsWithStatus
<1>6. ASSUME NEW r \in Readers, Lookup(r) \/ Fetch(r) \/ Store(r) \/ FailFetch(r) PROVE CacheIInv'
  BY <1>6, HitKeepsIInv, MissKeepsIInv, FetchKeepsIInv, StoreKeepsIInv, FailFetchKeepsIInv DEF Lookup
<1> QED
  BY <1>1, <1>2, <1>3, <1>4, <1>5, <1>6 DEF Next

\* The mutex is held by the request that fetches; no entry and no value served
\* is newer than the datastore's, nothing fetched is older than an entry, an
\* entry misses only changes made during its fetch or later, and a request's
\* walk and the answers agree with a datastore that does not change.
THEOREM CacheInOrder == Spec => []CacheIInv
<1>1. Init => CacheIInv
  BY InitCache
<1>2. CacheIInv /\ [Next]_vars => CacheIInv'
  BY StepKeepsIInv
<1> QED
  BY <1>1, <1>2, PTL DEF Spec

\* Status and Removable answer what the datastore holds, as long as it stays
\* as it is; a read that fails can only hide an ancestor that covers the domain.
THEOREM AnswersRight == Spec => []AnswersFollowDatastore
<1>1. CacheIInv => AnswersFollowDatastore
  BY DEF CacheIInv
<1> QED
  BY <1>1, CacheInOrder, PTL
-----------------------------------------------------------------------------
(* What is served. *)

\* A lookup serves nothing older than the cache has, which is not older than
\* what was served.
LEMMA StepServesNothingOlder ==
  CacheIInv /\ [Next]_vars => [\A k \in Keys : served'[k] >= served[k]]_vars
<1> SUFFICES ASSUME CacheIInv, Next, NEW k \in Keys PROVE served'[k] >= served[k]
  OBVIOUS
<1>1. DOMAIN served = Keys /\ served[k] \in Nat
  BY DEF CacheIInv, TypeOK
<1>2. CASE UNCHANGED served
  BY <1>1, <1>2
<1>3. ASSUME NEW r \in Readers, Hit(r) PROVE served'[k] >= served[k]
  <2> DEFINE key == readers[r].key
  <2>1. key \in DOMAIN cached /\ served' = [served EXCEPT ![key] = cached[key].version]
    BY <1>3 DEF Hit, Fresh, Serve
  <2> HIDE DEF key
  <2>2. CASE k = key
    <3>1. served[k] <= cached[key].version /\ cached[key].version \in Nat
      BY <2>1, <2>2 DEF CacheIInv, VersionsInOrder, TypeOK, CacheEntries
    <3> QED
      BY <1>1, <2>1, <2>2, <3>1
  <2> QED
    BY <1>1, <2>1, <2>2
<1>4. ASSUME NEW r \in Readers, Store(r) PROVE served'[k] >= served[k]
  <2> DEFINE key == readers[r].key
             old == readers[r].entry
             entry == [old EXCEPT !.time = now]
  <2>1. readers[r].pc = "store" /\ served' = [served EXCEPT ![key] = entry.version]
    BY <1>4 DEF Store, Serve
  <2>2. \E values : old \in CacheEntries(values)
    BY DEF CacheIInv, TypeOK, Requests
  <2> HIDE DEF old, key
  <2>3. entry.version = old.version /\ old.version \in Nat
    BY <2>2 DEF CacheEntries
  <2> HIDE DEF entry
  <2>4. CASE k = key
    <3>1. served[k] <= old.version
      <4>1. \A m \in DOMAIN cached : cached[m].version <= old.version
        BY <2>1 DEF CacheIInv, VersionsInOrder, old
      <4>2. CASE k \in DOMAIN cached
        <5>1. served[k] <= cached[k].version /\ cached[k].version \in Nat
          BY <4>2 DEF CacheIInv, VersionsInOrder, TypeOK, CacheEntries
        <5> QED
          BY <1>1, <2>3, <4>1, <4>2, <5>1
      <4>3. CASE k \notin DOMAIN cached
        <5>1. served[k] <= 0
          BY <4>3 DEF CacheIInv, VersionsInOrder
        <5> QED
          BY <1>1, <2>3, <5>1
      <4> QED
        BY <4>2, <4>3
    <3> QED
      BY <1>1, <2>1, <2>3, <2>4, <3>1
  <2> QED
    BY <1>1, <2>1, <2>4
<1>5. (\A r \in Readers : ~Hit(r) /\ ~Store(r)) => UNCHANGED served
  BY DEF Next, Tick, Write, Status, Removable, ListDomainsWithStatus, Start,
         Lookup, Miss, Fetch, FailFetch
<1> QED
  BY <1>2, <1>3, <1>4, <1>5

\* Only a hit and the end of a fetch return a value to a lookup.
LEMMA ReturnsWithValue ==
  ASSUME CacheIInv, Next, NEW r \in Readers, Returns(r)
  PROVE  Hit(r) \/ Store(r)
<1>1. /\ readers[r].pc \in {"lookup", "store"} /\ readers'[r] # readers[r]
      /\ readers'[r].pc # "fetch" /\ failures' = failures /\ failures \in Nat
      /\ DOMAIN readers = Readers
  BY DEF Returns, CacheIInv, TypeOK
<1>2. ~Tick /\ \A d \in Domains : ~Write(d)
  BY <1>1 DEF Tick, Write
<1>3. \A s \in Readers : \A op, k, chain : ~Start(s, op, k, chain)
  BY <1>1 DEF Start
<1>4. \A s \in Readers \ {r} : ~Hit(s) /\ ~Store(s)
  BY <1>1, HitMoves, StoreMoves DEF Moved
<1>5. ASSUME NEW s \in Readers, Miss(s) PROVE FALSE
  <2>1. readers' = [readers EXCEPT ![s] = [@ EXCEPT !.pc = "fetch", !.began = now]]
    BY <1>5 DEF Miss
  <2>2. \E values : readers[s] \in Requests(values)
    BY DEF CacheIInv, TypeOK
  <2> QED
    BY <1>1, <2>1, <2>2 DEF Requests
<1>6. \A s \in Readers : ~Fetch(s) /\ ~FailFetch(s)
  BY <1>1 DEF Fetch, FailFetch
<1> QED
  BY <1>2, <1>3, <1>4, <1>5, <1>6 DEF Next, Status, Removable, ListDomainsWithStatus, Lookup

\* What a lookup returns misses only changes younger than the lifetime of an
\* entry and one timeout.
LEMMA StepServesRecent ==
  CacheIInv /\ [Next]_vars
  => [\A r \in Readers, i \in DOMAIN writes :
         Returns(r) /\ writes[i] + CacheDuration + FetchTimeout <= now
         => served'[readers[r].key] >= i]_vars
<1> SUFFICES ASSUME CacheIInv, Next, NEW r \in Readers, NEW i \in DOMAIN writes, Returns(r),
                    writes[i] + CacheDuration + FetchTimeout <= now
             PROVE  served'[readers[r].key] >= i
  OBVIOUS
<1> DEFINE k == readers[r].key
<1>1. /\ i \in Nat /\ now \in Nat /\ writes[i] \in Nat
      /\ CacheDuration \in Nat \ {0} /\ FetchTimeout \in Nat
  BY StatusCacheAssumption DEF CacheIInv, TypeOK
<1>2. CASE Hit(r)
  <2>1. /\ k \in DOMAIN cached /\ now - cached[k].time < CacheDuration
        /\ served' = [served EXCEPT ![k] = cached[k].version]
    BY <1>2 DEF Hit, Fresh, Serve
  <2>2. served'[k] = cached[k].version /\ cached[k].version \in Nat /\ cached[k].time \in Nat
    BY <2>1 DEF CacheIInv, TypeOK, CacheEntries
  <2>3. i > cached[k].version => cached[k].time <= writes[i] + FetchTimeout
    BY <2>1 DEF CacheIInv, EntriesAreRecent
  <2> QED
    BY <1>1, <2>1, <2>2, <2>3
<1>3. CASE Store(r)
  <2> DEFINE old == readers[r].entry
             entry == [old EXCEPT !.time = now]
  <2>1. readers[r].pc = "store" /\ served' = [served EXCEPT ![k] = entry.version]
    BY <1>3 DEF Store, Serve
  <2>2. k \in Keys
    BY <2>1, KeyIsLookedUp
  <2>3. readers[r].began \in Nat /\ \E values : old \in CacheEntries(values)
    BY DEF CacheIInv, TypeOK, Requests
  <2>4. now <= readers[r].began + FetchTimeout
        /\ (i > old.version => readers[r].began <= writes[i])
    BY <2>1 DEF CacheIInv, EntriesAreRecent
  <2> HIDE DEF old, k
  <2>5. entry.version = old.version /\ old.version \in Nat
    BY <2>3 DEF CacheEntries
  <2> HIDE DEF entry
  <2>6. served'[k] = old.version
    BY <2>1, <2>2, <2>5 DEF CacheIInv, TypeOK
  <2>7. old.version >= i
    BY <1>1, <2>3, <2>4, <2>5
  <2> QED
    BY <2>6, <2>7 DEF k
<1> QED
  BY <1>2, <1>3, ReturnsWithValue

\* An instance never serves an older value of a domain or list than before.
THEOREM NeverOlder == Spec => NeverServesOlder
<1>1. CacheIInv /\ [Next]_vars => [\A k \in Keys : served'[k] >= served[k]]_vars
  BY StepServesNothingOlder
<1> QED
  BY <1>1, CacheInOrder, PTL DEF Spec, NeverServesOlder

\* A change is served when the lifetime of an entry and one timeout are over.
THEOREM RecentServed == Spec => ServesRecent
<1>1. CacheIInv /\ [Next]_vars
      => [\A r \in Readers, i \in DOMAIN writes :
             Returns(r) /\ writes[i] + CacheDuration + FetchTimeout <= now
             => served'[readers[r].key] >= i]_vars
  BY StepServesRecent
<1> QED
  BY <1>1, CacheInOrder, PTL DEF Spec, ServesRecent
=============================================================================
