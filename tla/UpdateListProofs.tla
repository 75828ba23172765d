-------------------------- MODULE UpdateListProofs --------------------------
(***************************************************************************)
(* Proofs about UpdateList, for every finite set of domains, every list to *)
(* begin with, every number of scans at a time and every bound: what is    *)
(* committed is sound and accounted for, and the program implements the    *)
(* abstract roll of the list.                                              *)
(***************************************************************************)
EXTENDS UpdateList, SequenceTheorems, FiniteSetTheorems, WellFoundedInduction, TLAPS

-----------------------------------------------------------------------------
(* Sequences: their elements and the ones they have more than once. *)

\* A set of numbers has a least one; an induction on the length of a sequence
\* takes the set of the lengths for which the claim fails.
LEMMA LeastNumber ==
  ASSUME NEW T \in SUBSET Nat, T # {}
  PROVE  \E n \in T : \A m \in T : n <= m
<1> DEFINE Intervals == {1..n : n \in T}
<1>1. \A n \in Nat : 1..n \in FiniteSubsetsOf(Nat)
  BY FS_Interval DEF FiniteSubsetsOf
<1>2. Intervals \subseteq FiniteSubsetsOf(Nat) /\ Intervals # {}
  BY <1>1
<1>3. PICK I \in Intervals : \A J \in Intervals : ~(<<J, I>> \in StrictSubsetOrdering(Nat))
  <2> HIDE DEF Intervals
  <2> QED
    BY <1>2, WFMin, FS_StrictSubsetOrderingWellFounded
<1>4. PICK n \in T : I = 1..n
  BY <1>3
<1>5. ASSUME NEW m \in T, m < n PROVE FALSE
  <2>1. 1..m \subseteq 1..n /\ 1..m # 1..n
    BY <1>5
  <2>2. <<1..m, 1..n>> \in StrictSubsetOrdering(Nat)
    BY <2>1, <1>1 DEF StrictSubsetOrdering, FiniteSubsetsOf
  <2> QED
    BY <1>3, <1>4, <2>2
<1> QED
  BY <1>5

\* The elements of a sequence, and the repeated ones among them.
LEMMA SequenceSets ==
  ASSUME NEW S, NEW s \in Seq(S)
  PROVE  /\ ToSet(s) \subseteq S
         /\ Repeated(s) \subseteq ToSet(s)
         /\ IsInjective(s) <=> Repeated(s) = {}
  BY DEF ToSet, Repeated, IsInjective

\* No line, and one line.
LEMMA ShortSequences ==
  /\ ToSet(<<>>) = {} /\ Repeated(<<>>) = {}
  /\ \A l : ToSet(<<l>>) = {l} /\ Repeated(<<l>>) = {}
  BY DEF ToSet, Repeated

\* Two sequences one after the other.
LEMMA ConcatSets ==
  ASSUME NEW S, NEW s \in Seq(S), NEW t \in Seq(S)
  PROVE  /\ s \o t \in Seq(S)
         /\ ToSet(s \o t) = ToSet(s) \cup ToSet(t)
         /\ Repeated(s \o t) = Repeated(s) \cup Repeated(t) \cup (ToSet(s) \cap ToSet(t))
<1> DEFINE u == s \o t
           k == Len(s)
           n == Len(t)
<1>1. /\ k \in Nat /\ n \in Nat /\ u \in Seq(S) /\ Len(u) = k + n
      /\ DOMAIN s = 1..k /\ DOMAIN t = 1..n /\ DOMAIN u = 1..(k + n)
  OBVIOUS
<1>2. /\ \A i \in 1..k : u[i] = s[i]
      /\ \A i \in 1..n : u[k + i] = t[i]
      /\ \A i \in 1..(k + n) : i \in 1..k \/ \E j \in 1..n : i = k + j
  <2>1. \A i \in 1..(k + n) : u[i] = IF i <= k THEN s[i] ELSE t[i - k]
    BY ConcatProperties
  <2>2. \A i \in 1..n : k + i \in 1..(k + n) /\ ~(k + i <= k) /\ (k + i) - k = i
    BY <1>1
  <2>3. ASSUME NEW i \in 1..(k + n), i \notin 1..k
        PROVE  i - k \in 1..n /\ i = k + (i - k)
    BY <1>1, <2>3
  <2> QED
    BY <1>1, <2>1, <2>2, <2>3
<1> HIDE DEF u, k, n
<1>3. \A l : /\ l \in ToSet(s) <=> \E i \in 1..k : s[i] = l
             /\ l \in ToSet(t) <=> \E i \in 1..n : t[i] = l
             /\ l \in ToSet(u) <=> \E i \in 1..(k + n) : u[i] = l
  BY <1>1 DEF ToSet
<1>4. \A l : /\ l \in Repeated(s) <=> \E i, j \in 1..k : i # j /\ s[i] = l /\ s[j] = l
             /\ l \in Repeated(t) <=> \E i, j \in 1..n : i # j /\ t[i] = l /\ t[j] = l
             /\ l \in Repeated(u) <=> \E i, j \in 1..(k + n) : i # j /\ u[i] = l /\ u[j] = l
  BY <1>1, <1>3 DEF Repeated
<1>5. /\ \A i \in 1..k : i \in 1..(k + n)
      /\ \A i \in 1..n : k + i \in 1..(k + n) /\ k + i \notin 1..k
      /\ \A i, j \in 1..n : k + i = k + j <=> i = j
  BY <1>1
<1>6. ToSet(u) = ToSet(s) \cup ToSet(t)
  <2> SUFFICES ASSUME NEW l PROVE l \in ToSet(u) <=> l \in ToSet(s) \/ l \in ToSet(t)
    OBVIOUS
  <2>1. ASSUME l \in ToSet(u) PROVE l \in ToSet(s) \/ l \in ToSet(t)
    <3>1. PICK i \in 1..(k + n) : u[i] = l
      BY <1>3, <2>1
    <3>2. CASE i \in 1..k
      BY <1>2, <1>3, <3>1, <3>2
    <3>3. CASE i \notin 1..k
      <4>1. PICK j \in 1..n : i = k + j
        BY <1>2, <3>3
      <4> QED
        BY <1>2, <1>3, <3>1, <4>1
    <3> QED
      BY <3>2, <3>3
  <2>2. ASSUME l \in ToSet(s) PROVE l \in ToSet(u)
    BY <1>2, <1>3, <1>5, <2>2
  <2>3. ASSUME l \in ToSet(t) PROVE l \in ToSet(u)
    <3>1. PICK i \in 1..n : t[i] = l
      BY <1>3, <2>3
    <3>2. u[k + i] = l /\ k + i \in 1..(k + n)
      BY <1>2, <1>5, <3>1
    <3> QED
      BY <1>3, <3>2
  <2> QED
    BY <2>1, <2>2, <2>3
<1>7. ASSUME NEW l \in Repeated(u)
      PROVE  l \in Repeated(s) \cup Repeated(t) \cup (ToSet(s) \cap ToSet(t))
  <2>1. PICK i \in 1..(k + n), j \in 1..(k + n) : i # j /\ u[i] = l /\ u[j] = l
    BY <1>4, <1>7
  <2>2. CASE i \in 1..k /\ j \in 1..k
    <3>1. s[i] = l /\ s[j] = l
      BY <1>2, <2>1, <2>2
    <3> QED
      BY <1>4, <2>1, <2>2, <3>1
  <2>3. CASE i \notin 1..k /\ j \notin 1..k
    <3>1. PICK a \in 1..n, b \in 1..n : i = k + a /\ j = k + b
      BY <1>2, <2>3
    <3>2. t[a] = l /\ t[b] = l /\ a # b
      BY <1>2, <2>1, <3>1
    <3> QED
      BY <1>4, <3>2
  <2>4. CASE ~(i \in 1..k <=> j \in 1..k)
    <3>1. PICK x \in 1..k, y \in 1..(k + n) : y \notin 1..k /\ u[x] = l /\ u[y] = l
      BY <2>1, <2>4
    <3>2. PICK b \in 1..n : y = k + b
      BY <1>2, <3>1
    <3>3. s[x] = l /\ t[b] = l
      BY <1>2, <3>1, <3>2
    <3> QED
      BY <1>3, <3>3
  <2> QED
    BY <2>2, <2>3, <2>4
<1>8. ASSUME NEW l \in Repeated(s) \cup Repeated(t) \cup (ToSet(s) \cap ToSet(t))
      PROVE  l \in Repeated(u)
  <2>1. CASE l \in Repeated(s)
    <3>1. PICK i \in 1..k, j \in 1..k : i # j /\ s[i] = l /\ s[j] = l
      BY <1>4, <2>1
    <3> QED
      BY <1>2, <1>4, <1>5, <3>1
  <2>2. CASE l \in Repeated(t)
    <3>1. PICK i \in 1..n, j \in 1..n : i # j /\ t[i] = l /\ t[j] = l
      BY <1>4, <2>2
    <3>2. k + i \in 1..(k + n) /\ k + j \in 1..(k + n) /\ k + i # k + j
      BY <1>5, <3>1
    <3> QED
      BY <1>2, <1>4, <3>1, <3>2
  <2>3. CASE l \in ToSet(s) \cap ToSet(t)
    <3>1. PICK i \in 1..k, j \in 1..n : s[i] = l /\ t[j] = l
      BY <1>3, <2>3
    <3>2. i \in 1..(k + n) /\ k + j \in 1..(k + n) /\ i # k + j
      BY <1>5, <3>1
    <3> QED
      BY <1>2, <1>4, <3>1, <3>2
  <2> QED
    BY <1>8, <2>1, <2>2, <2>3
<1> QED
  BY <1>1, <1>6, <1>7, <1>8 DEF u

\* A sequence with one more element.
LEMMA AppendSets ==
  ASSUME NEW S, NEW s \in Seq(S), NEW e \in S
  PROVE  /\ Append(s, e) \in Seq(S)
         /\ ToSet(Append(s, e)) = ToSet(s) \cup {e}
         /\ Repeated(Append(s, e)) = Repeated(s) \cup (ToSet(s) \cap {e})
<1>1. Append(s, e) = s \o <<e>> /\ <<e>> \in Seq(S)
  BY AppendIsConcat
<1>2. ToSet(<<e>>) = {e} /\ Repeated(<<e>>) = {}
  BY ShortSequences
<1>3. /\ s \o <<e>> \in Seq(S)
      /\ ToSet(s \o <<e>>) = ToSet(s) \cup ToSet(<<e>>)
      /\ Repeated(s \o <<e>>) = Repeated(s) \cup Repeated(<<e>>) \cup (ToSet(s) \cap ToSet(<<e>>))
  <2> DEFINE t == <<e>>
  <2>1. t \in Seq(S)
    BY <1>1
  <2> HIDE DEF t
  <2>2. /\ s \o t \in Seq(S)
        /\ ToSet(s \o t) = ToSet(s) \cup ToSet(t)
        /\ Repeated(s \o t) = Repeated(s) \cup Repeated(t) \cup (ToSet(s) \cap ToSet(t))
    BY <2>1, ConcatSets
  <2> QED
    BY <2>2 DEF t
<1> QED
  BY <1>1, <1>2, <1>3

\* The first element and the others.
LEMMA TailSets ==
  ASSUME NEW S, NEW s \in Seq(S), s # <<>>, IsInjective(s)
  PROVE  /\ Head(s) \in ToSet(s)
         /\ Tail(s) \in Seq(S)
         /\ ToSet(Tail(s)) = ToSet(s) \ {Head(s)}
         /\ IsInjective(Tail(s))
<1>1. /\ Tail(s) \in Seq(S) /\ Len(s) \in Nat \ {0} /\ Len(Tail(s)) = Len(s) - 1
      /\ Head(s) = s[1]
      /\ \A i \in 1..Len(Tail(s)) : Tail(s)[i] = s[i + 1]
  BY HeadTailProperties, EmptySeq
<1>2. DOMAIN s = 1..Len(s) /\ DOMAIN Tail(s) = 1..(Len(s) - 1)
  BY <1>1
<1>3. \A i \in 1..Len(s) : i = 1 \/ \E j \in 1..(Len(s) - 1) : i = j + 1
  <2>1. ASSUME NEW i \in 1..Len(s), i # 1 PROVE i - 1 \in 1..(Len(s) - 1) /\ i = (i - 1) + 1
    BY <1>1, <2>1
  <2> QED
    BY <2>1
<1>4. \A j \in 1..(Len(s) - 1) : j + 1 \in 1..Len(s) /\ j + 1 # 1
  BY <1>1
<1>5. 1 \in 1..Len(s)
  BY <1>1
<1>6. IsInjective(Tail(s))
  <2> SUFFICES ASSUME NEW a \in 1..(Len(s) - 1), NEW b \in 1..(Len(s) - 1), Tail(s)[a] = Tail(s)[b]
               PROVE  a = b
    BY <1>2 DEF IsInjective
  <2>1. s[a + 1] = s[b + 1] /\ a + 1 \in 1..Len(s) /\ b + 1 \in 1..Len(s)
    BY <1>1, <1>4
  <2>2. a + 1 = b + 1
    BY <1>2, <2>1 DEF IsInjective
  <2> QED
    BY <2>2
<1>7. ToSet(Tail(s)) \subseteq ToSet(s) \ {Head(s)}
  BY <1>1, <1>2, <1>4, <1>5 DEF ToSet, IsInjective
<1>8. ToSet(s) \ {Head(s)} \subseteq ToSet(Tail(s))
  <2> SUFFICES ASSUME NEW i \in 1..Len(s), s[i] # Head(s) PROVE s[i] \in ToSet(Tail(s))
    BY <1>2 DEF ToSet
  <2>1. PICK j \in 1..(Len(s) - 1) : i = j + 1
    BY <1>1, <1>3
  <2>2. Tail(s)[j] = s[i] /\ j \in DOMAIN Tail(s)
    BY <1>1, <1>2, <2>1
  <2> QED
    BY <2>2 DEF ToSet
<1> QED
  BY <1>1, <1>2, <1>5, <1>6, <1>7, <1>8 DEF ToSet

\* The sorted names of D are those of D, each once.
LEMMA SortedSets ==
  ASSUME NEW D \in SUBSET Domains
  PROVE  Sorted(D) \in Seq(Domains) /\ IsInjective(Sorted(D)) /\ ToSet(Sorted(D)) = D
<1> DEFINE n == Cardinality(D)
<1>1. IsFiniteSet(D)
  BY UpdateListAssumption, FS_Subset
<1>2. n \in Nat /\ ExistsBijection(1..n, D)
  BY <1>1, FS_CardinalityType
<1>3. \E f \in [1..n -> D] : IsInjective(f)
  BY <1>2 DEF ExistsBijection, Bijection, Injection, Surjection, IsInjective
<1>4. Sorted(D) \in [1..n -> D] /\ IsInjective(Sorted(D))
  BY <1>3 DEF Sorted, SetToSeq
<1>5. Sorted(D) \in Injection(1..n, D)
  BY <1>4 DEF Injection, IsInjective
<1>6. Cardinality(1..n) = n
  BY <1>2, FS_Interval
<1>7. Sorted(D) \in Surjection(1..n, D)
  BY <1>1, <1>5, <1>6, FS_Injection
<1> QED
  BY <1>2, <1>4, <1>7 DEF Surjection, ToSet

\* What dupeTracker has counted twice is what is there more than once.
LEMMA DupesAreRepeated ==
  ASSUME NEW p, NEW lines \in Lines
  PROVE  Dupes(p, lines) = Repeated(lines) \cap Domains
<1> SUFFICES ASSUME NEW d \in Domains
             PROVE  d \in Dupes(p, lines) <=> d \in Repeated(lines)
  BY DEF Dupes
<1> DEFINE I == {i \in DOMAIN lines : lines[i] = d}
<1>1. IsFiniteSet(I) /\ Cardinality(I) \in Nat
  <2>1. DOMAIN lines = 1..Len(lines) /\ Len(lines) \in Nat
    BY DEF Lines
  <2>2. I \in SUBSET (1..Len(lines)) /\ IsFiniteSet(1..Len(lines))
    BY <2>1, FS_Interval
  <2> HIDE DEF I
  <2>3. IsFiniteSet(I)
    BY <2>2, FS_Subset
  <2> QED
    BY <2>3, FS_CardinalityType
<1>2. Cardinality(I) > 1 <=> Cardinality(I) # 0 /\ Cardinality(I) # 1
  BY <1>1
<1>3. Cardinality(I) > 1 <=> \E i, j \in I : i # j
  <2> HIDE DEF I
  <2>1. Cardinality(I) = 0 <=> I = {}
    BY <1>1, FS_EmptySet
  <2>2. Cardinality(I) = 1 <=> \E x : I = {x}
    BY <1>1, FS_Singleton
  <2> QED
    BY <1>2, <2>1, <2>2
<1> QED
  BY <1>3 DEF Dupes, Repeated, ToSet

-----------------------------------------------------------------------------
(* What updateList writes. *)

\* What is written after n lines, if f says it for all numbers of lines.
IsWritten(f, p) ==
  f = [n \in 0..Len(p.contents) |->
          IF n = 0 THEN <<>> ELSE f[n - 1] \o Updated(p, p.contents[n])]

\* The lines are written one after the other: Output is well defined.
LEMMA OutputIsDefined ==
  ASSUME NEW p, p.contents \in Lines
  PROVE  \E f : IsWritten(f, p) /\ Output(p) = f[Len(p.contents)]
<1> DEFINE N == Len(p.contents)
           Step(x, n) == x \o Updated(p, p.contents[n])
           UpTo(f, m) == f = [n \in 0..m |-> IF n = 0 THEN <<>> ELSE Step(f[n - 1], n)]
           Bad == {m \in 0..N : ~ \E f : UpTo(f, m)}
<1>1. N \in Nat
  BY DEF Lines
<1>2. Bad = {}
  <2> HIDE DEF N, Step
  <2> SUFFICES ASSUME Bad # {} PROVE FALSE
    OBVIOUS
  <2>1. Bad \in SUBSET Nat
    BY <1>1
  <2>2. PICK m \in Bad : \A i \in Bad : m <= i
    <3> HIDE DEF Bad
    <3> QED
      BY <2>1, LeastNumber
  <2>3. m \in 0..N /\ ~ \E f : UpTo(f, m)
    BY <2>2
  <2>4. CASE m = 0
    <3>1. UpTo([n \in 0..0 |-> <<>>], 0)
      OBVIOUS
    <3> QED
      BY <2>3, <2>4, <3>1
  <2>5. CASE m # 0
    <3>1. m - 1 \in 0..N /\ m - 1 < m /\ m \in Nat
      BY <1>1, <2>3, <2>5
    <3>2. m - 1 \notin Bad
      BY <2>2, <3>1
    <3>3. PICK g : UpTo(g, m - 1)
      BY <3>1, <3>2
    <3> DEFINE f == [n \in 0..m |-> IF n = m THEN Step(g[m - 1], m) ELSE g[n]]
    <3>4. \A n \in 0..m : f[n] = IF n = 0 THEN <<>> ELSE Step(f[n - 1], n)
      <4> SUFFICES ASSUME NEW n \in 0..m
                   PROVE  f[n] = IF n = 0 THEN <<>> ELSE Step(f[n - 1], n)
        OBVIOUS
      <4>1. CASE n = m
        <5>1. f[n] = Step(g[m - 1], m) /\ f[m - 1] = g[m - 1]
          BY <3>1, <4>1
        <5> QED
          BY <2>5, <4>1, <5>1
      <4>2. CASE n # m /\ n # 0
        <5>1. n \in 0..(m - 1) /\ n - 1 \in 0..m /\ n - 1 # m
          BY <3>1, <4>2
        <5>2. g[n] = Step(g[n - 1], n)
          BY <3>3, <4>2, <5>1
        <5>3. f[n] = g[n] /\ f[n - 1] = g[n - 1]
          BY <4>2, <5>1
        <5> QED
          BY <4>2, <5>2, <5>3
      <4>3. CASE n # m /\ n = 0
        <5>1. g[n] = <<>> /\ f[n] = g[n]
          BY <3>1, <3>3, <4>3
        <5> QED
          BY <4>3, <5>1
      <4> QED
        BY <4>1, <4>2, <4>3
    <3>5. UpTo(f, m)
      BY <3>4
    <3> QED
      BY <2>3, <3>5
  <2> QED
    BY <2>4, <2>5
<1>3. \E f : UpTo(f, N)
  <2> HIDE DEF UpTo
  <2> QED
    BY <1>1, <1>2
<1>4. UpTo(CHOOSE f : UpTo(f, N), N)
  <2> HIDE DEF UpTo
  <2> QED
    BY <1>3
<1>5. Output(p) = (CHOOSE f : UpTo(f, N))[N]
  BY DEF Output
<1> QED
  BY <1>4, <1>5 DEF IsWritten

\* The lines written for one line.
LEMMA UpdatedSets ==
  ASSUME NEW p, p.pendingAdditions \in Seq(Domains), IsInjective(p.pendingAdditions),
         p.removals \subseteq Domains, NEW line \in Domains \cup {EndOfBulk}
  PROVE  /\ Updated(p, line) \in Lines
         /\ Repeated(Updated(p, line)) = {}
         /\ ToSet(Updated(p, line)) = IF line = EndOfBulk
                                      THEN ToSet(p.pendingAdditions) \cup {EndOfBulk}
                                      ELSE {line} \ p.removals
<1>1. EndOfBulk \notin Domains
  BY UpdateListAssumption
<1>2. CASE line = EndOfBulk
  <2>1. p.pendingAdditions \in Lines
    BY DEF Lines
  <2>2. ToSet(p.pendingAdditions) \subseteq Domains /\ Repeated(p.pendingAdditions) = {}
    BY SequenceSets
  <2>3. Updated(p, line) = Append(p.pendingAdditions, EndOfBulk)
    BY <1>1, <1>2 DEF Updated
  <2> DEFINE s == p.pendingAdditions
  <2>4. /\ Append(s, EndOfBulk) \in Seq(Domains \cup {EndOfBulk})
        /\ ToSet(Append(s, EndOfBulk)) = ToSet(s) \cup {EndOfBulk}
        /\ Repeated(Append(s, EndOfBulk)) = Repeated(s) \cup (ToSet(s) \cap {EndOfBulk})
    <3> HIDE DEF s
    <3>1. s \in Seq(Domains \cup {EndOfBulk})
      BY <2>1 DEF Lines, s
    <3> QED
      BY <3>1, AppendSets
  <2> QED
    BY <1>1, <1>2, <2>2, <2>3, <2>4 DEF Lines
<1>3. CASE line # EndOfBulk /\ line \in p.removals
  <2>1. Updated(p, line) = <<>>
    BY <1>3 DEF Updated
  <2> QED
    BY <1>3, <2>1, ShortSequences DEF Lines
<1>4. CASE line # EndOfBulk /\ line \notin p.removals
  <2>1. Updated(p, line) = <<line>>
    BY <1>4 DEF Updated
  <2>2. ToSet(<<line>>) = {line} /\ Repeated(<<line>>) = {} /\ <<line>> \in Lines
    BY ShortSequences DEF Lines
  <2> QED
    BY <1>4, <2>1, <2>2
<1> QED
  BY <1>2, <1>3, <1>4

\* The contents after an update: removed domains are gone, additions are there,
\* and a domain is there twice if it was and stays, or if it stays and is added
\* nevertheless.
LEMMA OutputSets ==
  ASSUME NEW p, p.contents \in Lines, OnePlace(p.contents),
         p.pendingAdditions \in Seq(Domains), IsInjective(p.pendingAdditions),
         p.removals \subseteq Domains
  PROVE  /\ Output(p) \in Lines
         /\ ToSet(Output(p)) = (ToSet(p.contents) \ p.removals) \cup ToSet(p.pendingAdditions)
         /\ Repeated(Output(p)) = (Repeated(p.contents) \ p.removals)
                         \cup ((ToSet(p.contents) \ p.removals) \cap ToSet(p.pendingAdditions))
<1> DEFINE c == p.contents
           N == Len(c)
           adds == ToSet(p.pendingAdditions)
           rem == p.removals
           Prefix(n) == SubSeq(c, 1, n)
           Rest(n) == ToSet(Prefix(n)) \ rem
           Placed(n) == EndOfBulk \in ToSet(Prefix(n))
           Claim(w, n) ==
              /\ w \in Lines
              /\ EndOfBulk \notin Repeated(Prefix(n))
                 => /\ ToSet(w) = Rest(n) \cup (IF Placed(n) THEN adds ELSE {})
                    /\ Repeated(w) = (Repeated(Prefix(n)) \ rem)
                                     \cup (IF Placed(n) THEN Rest(n) \cap adds ELSE {})
<1>1. N \in Nat /\ c \in Seq(Domains \cup {EndOfBulk}) /\ EndOfBulk \notin Domains
  BY UpdateListAssumption DEF Lines
<1>2. PICK f : IsWritten(f, p) /\ Output(p) = f[N]
  BY OutputIsDefined
<1>3. /\ f[0] = <<>>
      /\ \A n \in 1..N : f[n] = f[n - 1] \o Updated(p, c[n])
  <2>1. \A n \in 0..N : f[n] = IF n = 0 THEN <<>> ELSE f[n - 1] \o Updated(p, c[n])
    BY <1>2 DEF IsWritten
  <2>2. 0 \in 0..N /\ \A n \in 1..N : n \in 0..N /\ n # 0
    BY <1>1
  <2> HIDE DEF N, c
  <2> QED
    BY <2>1, <2>2
<1>4. adds \subseteq Domains
  BY SequenceSets
<1>5. Claim(f[0], 0)
  <2>1. Prefix(0) = <<>>
    BY SubSeqEmpty
  <2>2. ToSet(Prefix(0)) = {} /\ Repeated(Prefix(0)) = {}
    BY <2>1, ShortSequences
  <2>3. f[0] \in Lines /\ ToSet(f[0]) = {} /\ Repeated(f[0]) = {}
    BY <1>3, ShortSequences DEF Lines
  <2> HIDE DEF Prefix
  <2> QED
    BY <2>2, <2>3
<1>6. ASSUME NEW n \in 1..N, Claim(f[n - 1], n - 1)
      PROVE  Claim(f[n], n)
  <2> DEFINE line == c[n]
             w == f[n - 1]
             new == Updated(p, line)
  <2>1. line \in Domains \cup {EndOfBulk} /\ n - 1 \in 0..N /\ n \in Nat
    BY <1>1, <1>6
  <2>2. /\ Prefix(n) = Append(Prefix(n - 1), line)
        /\ Prefix(n - 1) \in Seq(Domains \cup {EndOfBulk})
    <3>1. Prefix(n - 1) \in Seq(Domains \cup {EndOfBulk})
      BY <1>1, <1>6, <2>1
    <3>2. 1 \in 1..Len(c) /\ n \in 1..Len(c)
      BY <1>1, <1>6
    <3>3. Prefix(n) = Prefix(n - 1) \o <<line>>
      <4> HIDE DEF c
      <4> QED
        BY <1>1, <3>2, SubSeqRecursiveSecond
    <3>4. Append(Prefix(n - 1), line) = Prefix(n - 1) \o <<line>>
      <4> HIDE DEF Prefix, line
      <4> QED
        BY <2>1, <3>1, AppendIsConcat
    <3> QED
      BY <3>1, <3>3, <3>4
  <2>3. /\ ToSet(Prefix(n)) = ToSet(Prefix(n - 1)) \cup {line}
        /\ Repeated(Prefix(n)) = Repeated(Prefix(n - 1)) \cup (ToSet(Prefix(n - 1)) \cap {line})
    <3> HIDE DEF Prefix, line
    <3> QED
      BY <2>1, <2>2, AppendSets
  <2>4. /\ new \in Lines /\ Repeated(new) = {}
        /\ ToSet(new) = IF line = EndOfBulk THEN adds \cup {EndOfBulk} ELSE {line} \ rem
    BY <2>1, UpdatedSets
  <2>5. /\ f[n] = w \o new
        /\ w \in Seq(Domains \cup {EndOfBulk}) /\ new \in Seq(Domains \cup {EndOfBulk})
    BY <1>3, <1>6, <2>4 DEF Lines
  <2>6. /\ f[n] \in Lines
        /\ ToSet(f[n]) = ToSet(w) \cup ToSet(new)
        /\ Repeated(f[n]) = Repeated(w) \cup (ToSet(w) \cap ToSet(new))
    <3> HIDE DEF w, new
    <3>1. /\ w \o new \in Seq(Domains \cup {EndOfBulk})
          /\ ToSet(w \o new) = ToSet(w) \cup ToSet(new)
          /\ Repeated(w \o new) = Repeated(w) \cup Repeated(new) \cup (ToSet(w) \cap ToSet(new))
      BY <2>5, ConcatSets
    <3> QED
      BY <2>4, <2>5, <3>1 DEF Lines
  <2>7. ASSUME EndOfBulk \notin Repeated(Prefix(n))
        PROVE  /\ ToSet(f[n]) = Rest(n) \cup (IF Placed(n) THEN adds ELSE {})
               /\ Repeated(f[n]) = (Repeated(Prefix(n)) \ rem)
                                   \cup (IF Placed(n) THEN Rest(n) \cap adds ELSE {})
    <3> DEFINE seen == ToSet(Prefix(n - 1))
               twice == Repeated(Prefix(n - 1))
    <3>1. /\ EndOfBulk \notin twice
          /\ line = EndOfBulk => EndOfBulk \notin seen
      BY <2>3, <2>7
    <3>2. /\ ToSet(w) = (seen \ rem) \cup (IF EndOfBulk \in seen THEN adds ELSE {})
          /\ Repeated(w) = (twice \ rem)
                           \cup (IF EndOfBulk \in seen THEN (seen \ rem) \cap adds ELSE {})
      BY <1>6, <3>1
    <3>3. /\ Rest(n) = (seen \cup {line}) \ rem
          /\ Placed(n) <=> EndOfBulk \in seen \cup {line}
          /\ Repeated(Prefix(n)) = twice \cup (seen \cap {line})
      BY <2>3
    <3> HIDE DEF seen, twice, Rest, Placed, Prefix, w, new, adds, line, rem
    <3>4. CASE line = EndOfBulk
      <4>1. EndOfBulk \notin rem /\ EndOfBulk \notin adds
        BY <1>1, <1>4 DEF rem
      <4> QED
        BY <2>4, <2>6, <3>1, <3>2, <3>3, <3>4, <4>1
    <3>5. CASE line # EndOfBulk
      BY <2>4, <2>6, <3>1, <3>2, <3>3, <3>5
    <3> QED
      BY <3>4, <3>5
  <2> QED
    BY <2>6, <2>7
<1>7. \A n \in 0..N : Claim(f[n], n)
  <2> HIDE DEF Claim, N
  <2> DEFINE Bad == {n \in 0..N : ~Claim(f[n], n)}
  <2> SUFFICES ASSUME Bad # {} PROVE FALSE
    OBVIOUS
  <2>1. Bad \in SUBSET Nat
    BY <1>1
  <2>2. PICK m \in Bad : \A i \in Bad : m <= i
    <3> HIDE DEF Bad
    <3> QED
      BY <2>1, LeastNumber
  <2>3. m \in 1..N /\ m - 1 \in 0..N /\ m - 1 < m
    BY <1>1, <1>5, <2>2
  <2>4. Claim(f[m - 1], m - 1)
    BY <2>2, <2>3
  <2> QED
    BY <1>6, <2>2, <2>3, <2>4
<1>8. Prefix(N) = c
  BY <1>1, SubSeqFull
<1>9. Claim(Output(p), N)
  <2> HIDE DEF Claim, N
  <2> QED
    BY <1>1, <1>2, <1>7
<1> QED
  BY <1>8, <1>9 DEF OnePlace
LEMMA OutputOf ==
  ASSUME NEW p, NEW q, p.contents = q.contents, p.pendingAdditions = q.pendingAdditions, p.removals = q.removals
  PROVE Output(p) = Output(q)
  BY DEF Output, Updated

LEMMA InitList == Init => ListIInv
<1> SUFFICES ASSUME Init PROVE ListIInv
  OBVIOUS
<1>1. /\ file \in Lines /\ committed = file /\ program = NoRun
      /\ IsInjective(file) /\ EndOfBulk \in ToSet(file)
  BY UpdateListAssumption DEF Init, Lines
<1>2. Repeated(file) = {}
  BY <1>1, SequenceSets DEF Lines
<1>3. /\ ToSet(<<>>) = {} /\ <<>> \in Seq(Domains) /\ <<>> \in Lines
      /\ IsInjective(<<>>)
  BY ShortSequences DEF Lines, IsInjective
<1>4. Cardinality({}) = 0
  BY FS_EmptySet
<1>5. TypeOK
  <2>1. NoRun \in Programs
    BY <1>3 DEF NoRun, Programs
  <2> QED
    BY <1>1, <1>4, <2>1, UpdateListAssumption DEF Init, TypeOK, NoRun
<1>6. RunsInOrder
  BY <1>1 DEF RunsInOrder, NoRun
<1>7. ScansInOrder
  BY <1>1, <1>3 DEF ScansInOrder, NoRun
<1>8. FileInOrder
  BY <1>1, <1>2 DEF FileInOrder, OnePlace, NoRun
<1>9. RunAccounted
  BY <1>1, <1>3 DEF RunAccounted, NoRun, Init
<1>10. ChangesAccounted(file)
  BY <1>1 DEF ChangesAccounted
<1> QED
  BY <1>1, <1>5, <1>6, <1>7, <1>8, <1>9, <1>10 DEF ListIInv, CommittedListIsSound, NoRun

\* Nothing is held when there is no run.
LEMMA NothingHeld ==
  /\ ToSet(<<>>) = {} /\ IsInjective(<<>>)
  /\ <<>> \in Seq(Domains) /\ <<>> \in Lines
  /\ Cardinality({}) = 0
  /\ NoRun \in Programs
<1>1. /\ ToSet(<<>>) = {} /\ IsInjective(<<>>)
      /\ <<>> \in Seq(Domains) /\ <<>> \in Lines
  BY ShortSequences DEF Lines, IsInjective
<1>2. NoRun \in Programs
  BY <1>1 DEF NoRun, Programs
<1> QED
  BY <1>1, <1>2, FS_EmptySet

\* No domain is held, from a queue or for a scan.
HoldsNothing(p) ==
  /\ p.todo = <<>> /\ p.scanning = {} /\ p.sem = 0 /\ p.filtered = <<>>
  /\ p.pendingAdditions = <<>> /\ p.pendingRemovals = {} /\ p.pendingAutomatedRemovals = {}

\* The runs that have not begun, have only read the file, or are over.
LEMMA RunsHoldNothing ==
  ASSUME NEW pc \in {"idle", "fetch", "done", "failed"}, NEW D \in SUBSET Domains,
         NEW lines \in Lines,
         NEW p \in {NoRun, [NoRun EXCEPT !.pc = pc, !.contents = lines],
                    [NoRun EXCEPT !.pc = pc, !.dupes = D], [NoRun EXCEPT !.pc = pc]}
  PROVE  p \in Programs /\ HoldsNothing(p)
<1>1. CASE p = NoRun
  BY <1>1, NothingHeld DEF NoRun, HoldsNothing
<1>2. CASE p = [NoRun EXCEPT !.pc = pc, !.contents = lines]
  BY <1>2, NothingHeld DEF NoRun, HoldsNothing, Programs
<1>3. CASE p = [NoRun EXCEPT !.pc = pc, !.dupes = D]
  BY <1>3, NothingHeld DEF NoRun, HoldsNothing, Programs
<1>4. CASE p = [NoRun EXCEPT !.pc = pc]
  BY <1>4, NothingHeld DEF NoRun, HoldsNothing, Programs
<1> QED
  BY <1>1, <1>2, <1>3, <1>4

\* A step after which nothing is held.
LEMMA RunOver ==
  ASSUME program'.pc \in {"idle", "fetch", "done", "failed"}, HoldsNothing(program)',
         \A d \in Domains : queue'[d] \in evidence'[d]
  PROVE  /\ program'.sem = Cardinality(program'.scanning) /\ program'.sem = 0
         /\ RunsInOrder' /\ ScansInOrder' /\ RunAccounted'
<1>1. program'.sem = Cardinality(program'.scanning) /\ program'.sem = 0
  BY NothingHeld DEF HoldsNothing
<1>2. RunsInOrder'
  BY DEF RunsInOrder, HoldsNothing
<1>3. ScansInOrder'
  BY NothingHeld DEF ScansInOrder, HoldsNothing
<1>4. RunAccounted'
  BY NothingHeld DEF RunAccounted, HoldsNothing
<1> QED
  BY <1>1, <1>2, <1>3, <1>4

\* The site moves a domain to another queue: there is more evidence.
LEMMA ChangeQueueKeepsIInv ==
  ASSUME ListIInv, NEW d \in Domains, ChangeQueue(d)
  PROVE  ListIInv'
<1> USE DEF ListIInv
<1>1. /\ UNCHANGED <<committed, file, program, runs>>
      /\ queue' \in [Domains -> Queues \cup {"none"}]
      /\ evidence' \in [Domains -> SUBSET (Queues \cup {"none", "pass", "fail"})]
      /\ \A e \in Domains : evidence[e] \subseteq evidence'[e] /\ queue'[e] \in evidence'[e]
      /\ changed' \in 0..MaxChanges
  BY UpdateListAssumption DEF ChangeQueue, TypeOK, RunAccounted
<1>2. TypeOK'
  BY <1>1 DEF TypeOK
<1>3. RunsInOrder' /\ ScansInOrder' /\ CommittedListIsSound'
  BY <1>1 DEF RunsInOrder, ScansInOrder, CommittedListIsSound
<1>4. FileInOrder'
  BY <1>1 DEF FileInOrder
<1>5. RunAccounted'
  BY <1>1 DEF RunAccounted
<1>6. \A lines : ChangesAccounted(lines) => ChangesAccounted(lines)'
  BY <1>1 DEF ChangesAccounted, Added, Removed
<1>7. /\ program'.pc \notin {"write", "failed"} => ChangesAccounted(file)'
      /\ program'.pc = "write" => ChangesAccounted(program.contents)'
  BY <1>1, <1>6
<1> QED
  BY <1>2, <1>3, <1>4, <1>5, <1>7

\* A run reads a file in which every change is accounted for.
LEMMA ReadFileKeepsIInv ==
  ASSUME ListIInv, ReadFile
  PROVE  ListIInv'
<1> USE DEF ListIInv
<1>1. /\ UNCHANGED <<queue, changed, committed, file, evidence>>
      /\ program' = [NoRun EXCEPT !.pc = "fetch", !.contents = file]
      /\ program.pc \in {"idle", "done"}
      /\ runs' \in 0..MaxRuns
      /\ file \in Lines
  BY UpdateListAssumption DEF ReadFile, TypeOK
<1>2. program' \in Programs /\ program'.pc = "fetch" /\ program'.contents = file
  BY <1>1, RunsHoldNothing DEF NoRun
<1>3. /\ program'.sem = Cardinality(program'.scanning) /\ program'.sem = 0
      /\ RunsInOrder' /\ ScansInOrder' /\ RunAccounted'
  <2>1. \A d \in Domains : queue'[d] \in evidence'[d]
    BY <1>1 DEF RunAccounted
  <2>2. HoldsNothing(program)'
    BY <1>1, RunsHoldNothing
  <2> QED
    BY <1>2, <2>1, <2>2, RunOver
<1>4. TypeOK'
  BY <1>1, <1>2, <1>3, UpdateListAssumption DEF TypeOK
<1>5. FileInOrder'
  BY <1>1, <1>2 DEF FileInOrder
<1>6. ChangesAccounted(file)'
  BY <1>1 DEF ChangesAccounted, Added, Removed
<1>7. CommittedListIsSound'
  BY <1>1 DEF CommittedListIsSound
<1> QED
  BY <1>2, <1>3, <1>4, <1>5, <1>6, <1>7

\* A run holds the domains that are in the queue it fetches.
LEMMA FetchKeepsIInv ==
  ASSUME ListIInv, NEW q \in Queues, Fetch(q)
  PROVE  ListIInv'
<1> USE DEF ListIInv
<1> DEFINE answer == {d \in Domains : queue[d] = q}
<1>1. /\ UNCHANGED <<queue, changed, committed, file, runs, evidence>>
      /\ program.pc = "fetch" /\ program \in Programs
      /\ program' = [program EXCEPT
              !.unfetched = @ \ {q},
              !.pendingAdditions = IF q = "pending" THEN Sorted(answer) ELSE @,
              !.pendingRemovals = IF q = "pending-removal" THEN answer ELSE @,
              !.pendingAutomatedRemovals = IF q = "pending-automated-removal" THEN answer ELSE @]
  BY DEF Fetch, TypeOK
<1>2. Sorted(answer) \in Seq(Domains) /\ IsInjective(Sorted(answer)) /\ ToSet(Sorted(answer)) = answer
  BY SortedSets
<1>3. /\ program'.pc = "fetch" /\ program' \in Programs
      /\ program'.contents = program.contents
      /\ program'.sem = program.sem /\ program'.scanning = program.scanning
      /\ program'.todo = program.todo /\ program'.filtered = program.filtered
      /\ program'.pendingAdditions = IF q = "pending" THEN Sorted(answer)
                                     ELSE program.pendingAdditions
      /\ program'.pendingRemovals = IF q = "pending-removal" THEN answer
                                    ELSE program.pendingRemovals
      /\ program'.pendingAutomatedRemovals = IF q = "pending-automated-removal" THEN answer
                                             ELSE program.pendingAutomatedRemovals
  <2> HIDE DEF answer
  <2>1. answer \in SUBSET Domains
    BY DEF answer
  <2> QED
    BY <1>1, <1>2, <2>1 DEF Programs
<1>4. TypeOK'
  BY <1>1, <1>3 DEF TypeOK
<1>5. RunsInOrder'
  BY <1>1, <1>3 DEF RunsInOrder
<1>6. ScansInOrder'
  BY <1>1, <1>2, <1>3 DEF ScansInOrder
<1>7. FileInOrder'
  BY <1>1, <1>3 DEF FileInOrder
<1>8. RunAccounted'
  BY <1>1, <1>2, <1>3 DEF RunAccounted, RunsInOrder
<1>9. ChangesAccounted(file)' /\ CommittedListIsSound'
  BY <1>1 DEF ChangesAccounted, Added, Removed, CommittedListIsSound
<1> QED
  BY <1>3, <1>4, <1>5, <1>6, <1>7, <1>8, <1>9

\* updateRemovals, and the scans of the additions begin.
LEMMA EndFetchKeepsIInv ==
  ASSUME ListIInv, EndFetch
  PROVE  ListIInv'
<1> USE DEF ListIInv
<1>1. /\ UNCHANGED <<queue, changed, committed, file, runs, evidence>>
      /\ program.pc = "fetch" /\ program.unfetched = {} /\ program \in Programs
      /\ program' = [program EXCEPT
            !.removals = program.pendingRemovals \cup program.pendingAutomatedRemovals,
            !.pc = "filterAdditions", !.todo = program.pendingAdditions]
  BY DEF EndFetch, TypeOK, WithRemovals
<1>2. /\ program'.pc = "filterAdditions" /\ program' \in Programs
      /\ program'.contents = program.contents /\ program'.unfetched = {}
      /\ program'.sem = program.sem /\ program'.scanning = program.scanning
      /\ program'.todo = program.pendingAdditions /\ program'.filtered = program.filtered
      /\ program'.pendingAdditions = program.pendingAdditions
      /\ program'.pendingRemovals = program.pendingRemovals
      /\ program'.pendingAutomatedRemovals = program.pendingAutomatedRemovals
  BY <1>1 DEF Programs
<1>3. program.scanning = {} /\ program.filtered = <<>>
  BY <1>1 DEF RunsInOrder
<1>4. TypeOK'
  BY <1>1, <1>2 DEF TypeOK
<1>5. RunsInOrder'
  BY <1>1, <1>2 DEF RunsInOrder
<1>6. ScansInOrder'
  BY <1>2, <1>3, NothingHeld DEF ScansInOrder
<1>7. FileInOrder'
  BY <1>1, <1>2 DEF FileInOrder
<1>8. RunAccounted'
  BY <1>1, <1>2, <1>3, NothingHeld DEF RunAccounted
<1>9. ChangesAccounted(file)' /\ CommittedListIsSound'
  BY <1>1 DEF ChangesAccounted, Added, Removed, CommittedListIsSound
<1> QED
  BY <1>2, <1>4, <1>5, <1>6, <1>7, <1>8, <1>9

\* The next domain takes a slot and is being scanned.
LEMMA StartScanKeepsIInv ==
  ASSUME ListIInv, StartScan
  PROVE  ListIInv'
<1> USE DEF ListIInv
<1> DEFINE d == Head(program.todo)
<1>1. /\ UNCHANGED <<queue, changed, committed, file, runs, evidence>>
      /\ program.todo # <<>> /\ program.sem < Parallelism /\ program \in Programs
      /\ program' = [program EXCEPT !.todo = Tail(@), !.scanning = @ \cup {d}, !.sem = @ + 1]
  BY DEF StartScan, SlotFree, TypeOK
<1>2. program.todo \in Seq(Domains) /\ IsInjective(program.todo)
  BY <1>1 DEF ScansInOrder, Programs
<1>3. /\ d \in ToSet(program.todo) /\ d \in Domains
      /\ Tail(program.todo) \in Seq(Domains)
      /\ ToSet(Tail(program.todo)) = ToSet(program.todo) \ {d}
      /\ IsInjective(Tail(program.todo))
  BY <1>1, <1>2, TailSets, SequenceSets
<1> HIDE DEF d
<1>4. /\ program' \in Programs /\ program'.pc = program.pc
      /\ program'.contents = program.contents /\ program'.unfetched = program.unfetched
      /\ program'.sem = program.sem + 1 /\ program'.scanning = program.scanning \cup {d}
      /\ program'.todo = Tail(program.todo) /\ program'.filtered = program.filtered
      /\ program'.pendingAdditions = program.pendingAdditions
      /\ program'.pendingRemovals = program.pendingRemovals
      /\ program'.pendingAutomatedRemovals = program.pendingAutomatedRemovals
  <2>1. program.sem + 1 \in Nat
    BY <1>1 DEF Programs
  <2> QED
    BY <1>1, <1>3, <2>1 DEF Programs
<1>5. program.pc \in {"filterAdditions", "filterRemovals"}
  BY <1>1 DEF RunsInOrder
<1>6. program'.sem = Cardinality(program'.scanning) /\ program'.sem <= Parallelism
  <2>1. IsFiniteSet(program.scanning) /\ program.scanning \subseteq Domains
    BY <1>1, UpdateListAssumption, FS_Subset DEF Programs
  <2>2. d \notin program.scanning
    BY <1>3 DEF ScansInOrder
  <2>3. Cardinality(program.scanning \cup {d}) = Cardinality(program.scanning) + 1
    BY <2>1, <2>2, FS_AddElement
  <2> QED
    BY <1>1, <1>4, <2>3, UpdateListAssumption DEF TypeOK, Programs
<1>7. TypeOK'
  BY <1>1, <1>4, <1>6 DEF TypeOK
<1>8. RunsInOrder'
  BY <1>4, <1>5 DEF RunsInOrder
<1>9. ScansInOrder'
  BY <1>3, <1>4 DEF ScansInOrder
<1>10. FileInOrder'
  BY <1>1, <1>4, <1>5 DEF FileInOrder
<1>11. RunAccounted'
  BY <1>1, <1>4 DEF RunAccounted
<1>12. ChangesAccounted(file)' /\ CommittedListIsSound'
  BY <1>1, <1>5 DEF ChangesAccounted, Added, Removed, CommittedListIsSound
<1> QED
  BY <1>4, <1>5, <1>7, <1>8, <1>9, <1>10, <1>11, <1>12

\* A scan ends: its slot is free, and a domain that is kept has its evidence.
LEMMA EndScanKeepsIInv ==
  ASSUME ListIInv, NEW d \in Domains, NEW verdict \in {"pass", "fail"}, EndScan(d, verdict)
  PROVE  ListIInv'
<1> USE DEF ListIInv
<1> DEFINE filtered == IF Keeps(verdict) THEN Append(program.filtered, d) ELSE program.filtered
<1>1. /\ UNCHANGED <<queue, changed, committed, file, runs>>
      /\ d \in program.scanning /\ program \in Programs
      /\ program' = [program EXCEPT !.scanning = @ \ {d}, !.sem = @ - 1, !.filtered = filtered]
      /\ evidence' = [evidence EXCEPT ![d] = @ \cup {verdict}]
  BY DEF EndScan, Released, TypeOK
<1>2. /\ program.filtered \in Seq(Domains) /\ IsInjective(program.filtered)
      /\ d \notin ToSet(program.filtered)
  BY <1>1 DEF ScansInOrder, Programs
<1>3. /\ filtered \in Seq(Domains) /\ IsInjective(filtered)
      /\ ToSet(filtered) = ToSet(program.filtered) \cup (IF Keeps(verdict) THEN {d} ELSE {})
  <2>1. Repeated(program.filtered) = {}
    BY <1>2, SequenceSets
  <2>2. /\ Append(program.filtered, d) \in Seq(Domains)
        /\ ToSet(Append(program.filtered, d)) = ToSet(program.filtered) \cup {d}
        /\ Repeated(Append(program.filtered, d)) = {}
    BY <1>2, <2>1, AppendSets
  <2>3. IsInjective(Append(program.filtered, d))
    BY <2>2, SequenceSets
  <2> QED
    BY <1>2, <2>2, <2>3
<1> HIDE DEF filtered
<1>4. /\ IsFiniteSet(program.scanning)
      /\ Cardinality(program.scanning \ {d}) = Cardinality(program.scanning) - 1
      /\ Cardinality(program.scanning \ {d}) \in Nat
  <2>1. IsFiniteSet(program.scanning)
    BY <1>1, UpdateListAssumption, FS_Subset DEF Programs
  <2>2. IsFiniteSet(program.scanning \ {d})
    BY <2>1, FS_RemoveElement
  <2> QED
    BY <1>1, <2>1, <2>2, FS_RemoveElement, FS_CardinalityType
<1>5. /\ program' \in Programs /\ program'.pc = program.pc
      /\ program'.contents = program.contents /\ program'.unfetched = program.unfetched
      /\ program'.sem = program.sem - 1 /\ program'.scanning = program.scanning \ {d}
      /\ program'.todo = program.todo /\ program'.filtered = filtered
      /\ program'.pendingAdditions = program.pendingAdditions
      /\ program'.pendingRemovals = program.pendingRemovals
      /\ program'.pendingAutomatedRemovals = program.pendingAutomatedRemovals
  <2>1. program.sem - 1 \in Nat
    BY <1>4 DEF TypeOK
  <2> QED
    BY <1>1, <1>3, <2>1 DEF Programs
<1>6. program.pc \in {"filterAdditions", "filterRemovals"}
  BY <1>1 DEF RunsInOrder
<1>7. /\ \A e \in Domains : evidence[e] \subseteq evidence'[e]
      /\ verdict \in evidence'[d]
      /\ evidence' \in [Domains -> SUBSET (Queues \cup {"none", "pass", "fail"})]
  BY <1>1 DEF TypeOK
<1>8. TypeOK'
  <2>1. program'.sem = Cardinality(program'.scanning) /\ program'.sem <= Parallelism
    <3>1. program.sem = Cardinality(program.scanning) /\ program.sem <= Parallelism
      BY DEF TypeOK
    <3>2. program.sem \in Nat
      BY <1>1 DEF Programs
    <3> QED
      BY <1>4, <1>5, <3>1, <3>2, UpdateListAssumption
  <2> QED
    BY <1>1, <1>5, <1>7, <2>1 DEF TypeOK
<1>9. RunsInOrder'
  BY <1>5, <1>6 DEF RunsInOrder
<1>10. ScansInOrder'
  BY <1>1, <1>3, <1>5 DEF ScansInOrder
<1>11. FileInOrder'
  BY <1>1, <1>5, <1>6 DEF FileInOrder
<1>12. RunAccounted'
  <2> SUFFICES ASSUME NEW e \in Domains, e \in ToSet(filtered)
               PROVE  (IF program.pc = "filterAdditions" THEN "pass" ELSE "fail") \in evidence'[e]
    BY <1>1, <1>5, <1>7 DEF RunAccounted
  <2>1. CASE e \in ToSet(program.filtered)
    BY <1>7, <2>1 DEF RunAccounted
  <2>2. CASE e = d /\ Keeps(verdict)
    BY <1>6, <1>7, <2>2 DEF Keeps
  <2> QED
    BY <1>3, <2>1, <2>2
<1>13. ChangesAccounted(file)' /\ CommittedListIsSound'
  BY <1>1, <1>6, <1>7 DEF ChangesAccounted, Added, Removed, CommittedListIsSound
<1> QED
  BY <1>5, <1>6, <1>8, <1>9, <1>10, <1>11, <1>12, <1>13

\* The additions that passed are kept; the automated removals are scanned next.
LEMMA EndFilterAdditionsKeepsIInv ==
  ASSUME ListIInv, EndFilterAdditions
  PROVE  ListIInv'
<1> USE DEF ListIInv
<1> DEFINE auto == program.pendingAutomatedRemovals
<1>1. /\ UNCHANGED <<queue, changed, committed, file, runs, evidence>>
      /\ program.pc = "filterAdditions" /\ program \in Programs
      /\ program.todo = <<>> /\ program.scanning = {}
      /\ program' = [program EXCEPT !.pc = "filterRemovals",
                                    !.pendingAdditions = program.filtered,
                                    !.filtered = <<>>, !.todo = Sorted(auto)]
  BY DEF EndFilterAdditions, Scanned, TypeOK
<1>2. auto \in SUBSET Domains
  BY <1>1 DEF Programs
<1>3. Sorted(auto) \in Seq(Domains) /\ IsInjective(Sorted(auto)) /\ ToSet(Sorted(auto)) = auto
  BY <1>2, SortedSets
<1> HIDE DEF auto
<1>4. /\ program' \in Programs /\ program'.pc = "filterRemovals"
      /\ program'.contents = program.contents /\ program'.unfetched = program.unfetched
      /\ program'.sem = program.sem /\ program'.scanning = program.scanning
      /\ program'.todo = Sorted(auto) /\ program'.filtered = <<>>
      /\ program'.pendingAdditions = program.filtered
      /\ program'.pendingRemovals = program.pendingRemovals
      /\ program'.pendingAutomatedRemovals = program.pendingAutomatedRemovals
  BY <1>1, <1>3 DEF Programs
<1>5. TypeOK'
  BY <1>1, <1>4 DEF TypeOK
<1>6. RunsInOrder'
  BY <1>1, <1>4 DEF RunsInOrder
<1>7. ScansInOrder'
  BY <1>1, <1>3, <1>4, NothingHeld DEF ScansInOrder, auto
<1>8. FileInOrder'
  BY <1>1, <1>4 DEF FileInOrder
<1>9. RunAccounted'
  <2>1. ToSet(program.filtered) \subseteq ToSet(program.pendingAdditions)
    BY <1>1 DEF ScansInOrder
  <2> QED
    BY <1>1, <1>4, <2>1, NothingHeld DEF RunAccounted
<1>10. ChangesAccounted(file)' /\ CommittedListIsSound'
  BY <1>1 DEF ChangesAccounted, Added, Removed, CommittedListIsSound
<1> QED
  BY <1>4, <1>5, <1>6, <1>7, <1>8, <1>9, <1>10

\* The automated removals that failed again are kept; updateRemovals once more.
LEMMA EndFilterRemovalsKeepsIInv ==
  ASSUME ListIInv, EndFilterRemovals
  PROVE  ListIInv'
<1> USE DEF ListIInv
<1> DEFINE kept == ToSet(program.filtered)
<1>1. /\ UNCHANGED <<queue, changed, committed, file, runs, evidence>>
      /\ program.pc = "filterRemovals" /\ program \in Programs
      /\ program.todo = <<>> /\ program.scanning = {}
      /\ program' = [program EXCEPT !.pc = "update", !.pendingAutomatedRemovals = kept,
                                    !.filtered = <<>>,
                                    !.removals = program.pendingRemovals \cup kept]
  BY DEF EndFilterRemovals, Scanned, TypeOK, Filtered, WithRemovals, Programs
<1>2. kept \in SUBSET Domains /\ kept \subseteq program.pendingAutomatedRemovals
  BY <1>1 DEF Programs, ScansInOrder
<1> HIDE DEF kept
<1>3. /\ program' \in Programs /\ program'.pc = "update"
      /\ program'.contents = program.contents /\ program'.unfetched = program.unfetched
      /\ program'.sem = program.sem /\ program'.scanning = program.scanning
      /\ program'.todo = program.todo /\ program'.filtered = <<>>
      /\ program'.removals = program'.pendingRemovals \cup program'.pendingAutomatedRemovals
      /\ program'.pendingAdditions = program.pendingAdditions
      /\ program'.pendingRemovals = program.pendingRemovals
      /\ program'.pendingAutomatedRemovals = kept
  BY <1>1, <1>2, NothingHeld DEF Programs
<1>4. TypeOK'
  BY <1>1, <1>3 DEF TypeOK
<1>5. RunsInOrder'
  BY <1>1, <1>3 DEF RunsInOrder
<1>6. ScansInOrder'
  BY <1>1, <1>3, NothingHeld DEF ScansInOrder
<1>7. FileInOrder'
  BY <1>1, <1>3 DEF FileInOrder
<1>8. RunAccounted'
  BY <1>1, <1>2, <1>3, NothingHeld DEF RunAccounted, kept
<1>9. ChangesAccounted(file)' /\ CommittedListIsSound'
  BY <1>1 DEF ChangesAccounted, Added, Removed, CommittedListIsSound
<1> QED
  BY <1>3, <1>4, <1>5, <1>6, <1>7, <1>8, <1>9

\* What updateList writes for the run of a state.
LEMMA OutputOfRun ==
  ASSUME ListIInv, program.pc \in {"update", "write"}, OnePlace(program.contents)
  PROVE  LET output  == Output(program)
             removed == program.pendingRemovals \cup program.pendingAutomatedRemovals
             added   == ToSet(program.pendingAdditions)
             read    == program.contents
         IN  /\ output \in Lines
             /\ ToSet(output) = (ToSet(read) \ removed) \cup added
             /\ Repeated(output) = (Repeated(read) \ removed)
                                   \cup ((ToSet(read) \ removed) \cap added)
             /\ removed \subseteq Domains /\ added \subseteq Domains
             /\ Dupes(program, output) = Repeated(output) \cap Domains
             /\ OnePlace(output)
<1> USE DEF ListIInv
<1>1. /\ program.contents \in Lines
      /\ program.pendingAdditions \in Seq(Domains)
      /\ program.removals \subseteq Domains
  BY DEF TypeOK, Programs
<1>2. IsInjective(program.pendingAdditions)
  BY DEF ScansInOrder
<1>3. program.removals = program.pendingRemovals \cup program.pendingAutomatedRemovals
  BY DEF RunsInOrder
<1>4. /\ Output(program) \in Lines
      /\ ToSet(Output(program)) = (ToSet(program.contents) \ program.removals)
                                  \cup ToSet(program.pendingAdditions)
      /\ Repeated(Output(program)) = (Repeated(program.contents) \ program.removals)
             \cup ((ToSet(program.contents) \ program.removals) \cap ToSet(program.pendingAdditions))
  BY <1>1, <1>2, OutputSets
<1>5. ToSet(program.pendingAdditions) \subseteq Domains
  BY <1>1, SequenceSets
<1>6. Dupes(program, Output(program)) = Repeated(Output(program)) \cap Domains
  BY <1>4, DupesAreRepeated
<1>7. OnePlace(Output(program))
  BY <1>1, <1>4, <1>5, UpdateListAssumption DEF OnePlace
<1> QED
  BY <1>1, <1>3, <1>4, <1>5, <1>6, <1>7

\* The file is truncated; the lines to write, and what is there twice, are known.
LEMMA TruncateKeepsIInv ==
  ASSUME ListIInv, Truncate
  PROVE  ListIInv'
<1> USE DEF ListIInv
<1> DEFINE output == Output(program)
<1>1. /\ UNCHANGED <<queue, changed, committed, runs, evidence>>
      /\ program.pc = "update" /\ program \in Programs
      /\ program' = [program EXCEPT !.pc = "write", !.output = output,
                                    !.dupes = Dupes(program, output)]
      /\ file' = <<>>
  BY DEF Truncate, TypeOK
<1>2. program.contents = file /\ OnePlace(file)
  BY <1>1 DEF FileInOrder
<1>3. output \in Lines /\ Dupes(program, output) = Repeated(output) \cap Domains
  BY <1>1, <1>2, OutputOfRun
<1> HIDE DEF output
<1>4. /\ program' \in Programs /\ program'.pc = "write"
      /\ program'.contents = program.contents /\ program'.unfetched = program.unfetched
      /\ program'.sem = program.sem /\ program'.scanning = program.scanning
      /\ program'.todo = program.todo /\ program'.filtered = program.filtered
      /\ program'.removals = program.removals
      /\ program'.pendingAdditions = program.pendingAdditions
      /\ program'.pendingRemovals = program.pendingRemovals
      /\ program'.pendingAutomatedRemovals = program.pendingAutomatedRemovals
      /\ program'.output = output /\ program'.dupes = Repeated(output) \cap Domains
  BY <1>1, <1>3 DEF Programs
<1>5. Output(program') = output
  BY <1>4, OutputOf DEF output
<1>6. TypeOK'
  BY <1>1, <1>4, NothingHeld DEF TypeOK
<1>7. RunsInOrder'
  BY <1>1, <1>4 DEF RunsInOrder
<1>8. ScansInOrder'
  BY <1>1, <1>4 DEF ScansInOrder, RunsInOrder
<1>9. FileInOrder'
  BY <1>2, <1>4, <1>5 DEF FileInOrder
<1>10. RunAccounted'
  BY <1>1, <1>4 DEF RunAccounted
<1>11. ChangesAccounted(program.contents)' /\ CommittedListIsSound'
  BY <1>1, <1>2, <1>4 DEF ChangesAccounted, Added, Removed, CommittedListIsSound
<1> QED
  BY <1>4, <1>6, <1>7, <1>8, <1>9, <1>10, <1>11

\* The new lines differ from the committed ones by what is accounted for.
LEMMA WriteFileKeepsIInv ==
  ASSUME ListIInv, WriteFile
  PROVE  ListIInv'
<1> USE DEF ListIInv
<1> DEFINE D == program.dupes
<1>1. /\ UNCHANGED <<queue, changed, committed, runs, evidence>>
      /\ program.pc = "write" /\ program \in Programs
      /\ program' = [NoRun EXCEPT !.pc = "done", !.dupes = D]
      /\ file' = program.output
  BY DEF WriteFile, TypeOK
<1>2. /\ D \in SUBSET Domains /\ D = Repeated(file') \cap Domains
      /\ file' = Output(program) /\ OnePlace(program.contents)
      /\ ChangesAccounted(program.contents)
  BY <1>1 DEF FileInOrder, Programs
<1>3. /\ file' \in Lines /\ OnePlace(file')
      /\ ToSet(file') = (ToSet(program.contents)
                           \ (program.pendingRemovals \cup program.pendingAutomatedRemovals))
                        \cup ToSet(program.pendingAdditions)
  BY <1>1, <1>2, OutputOfRun
<1>4. program' \in Programs /\ program'.pc = "done" /\ program'.dupes = D
  BY <1>1, <1>2, RunsHoldNothing, NothingHeld DEF NoRun
<1>5. /\ program'.sem = Cardinality(program'.scanning) /\ program'.sem = 0
      /\ RunsInOrder' /\ ScansInOrder' /\ RunAccounted'
  <2>1. \A d \in Domains : queue'[d] \in evidence'[d]
    BY <1>1 DEF RunAccounted
  <2>2. HoldsNothing(program)'
    BY <1>1, <1>2, RunsHoldNothing, NothingHeld
  <2> QED
    BY <1>4, <2>1, <2>2, RunOver
<1>6. TypeOK'
  BY <1>1, <1>3, <1>4, <1>5, UpdateListAssumption DEF TypeOK
<1>7. FileInOrder'
  BY <1>2, <1>3, <1>4 DEF FileInOrder
<1>8. ChangesAccounted(file)'
  <2> SUFFICES ASSUME NEW d \in Domains
               PROVE  /\ d \in ToSet(file') \ ToSet(committed) => Added(d)
                      /\ d \in ToSet(committed) \ ToSet(file') => Removed(d)
    BY <1>1 DEF ChangesAccounted, Added, Removed
  <2>1. d \in ToSet(program.pendingAdditions) => Added(d)
    BY <1>1 DEF RunAccounted, Added
  <2>2. d \in program.pendingRemovals \cup program.pendingAutomatedRemovals => Removed(d)
    BY <1>1 DEF RunAccounted, Removed
  <2>3. /\ d \in ToSet(program.contents) \ ToSet(committed) => Added(d)
        /\ d \in ToSet(committed) \ ToSet(program.contents) => Removed(d)
    BY <1>2 DEF ChangesAccounted
  <2> QED
    BY <1>3, <2>1, <2>2, <2>3
<1>9. CommittedListIsSound'
  BY <1>1 DEF CommittedListIsSound
<1> QED
  BY <1>4, <1>5, <1>6, <1>7, <1>8, <1>9

\* A run that ends early leaves the file as it was, or cut.
LEMMA FatalKeepsIInv ==
  ASSUME ListIInv, Fatal
  PROVE  ListIInv'
<1> USE DEF ListIInv
<1>1. UNCHANGED <<queue, changed, committed, runs, evidence>>
  BY DEF Fatal
<1>2. \A d \in Domains : queue'[d] \in evidence'[d]
  BY <1>1 DEF RunAccounted
<1>3. CommittedListIsSound'
  BY <1>1 DEF CommittedListIsSound
<1>4. CASE program.pc = "write"
  <2>1. PICK n \in 0..Len(program.output) : file' = SubSeq(program.output, 1, n)
    BY <1>4 DEF Fatal
  <2>2. program' = [NoRun EXCEPT !.pc = "failed"]
    BY <1>4 DEF Fatal
  <2>3. file' \in Lines
    <3>1. program.output \in Seq(Domains \cup {EndOfBulk})
      BY DEF TypeOK, Programs, Lines
    <3> QED
      BY <2>1, <3>1 DEF Lines
  <2>4. program' \in Programs /\ HoldsNothing(program)' /\ program'.pc = "failed"
    BY <2>2, RunsHoldNothing, NothingHeld DEF NoRun
  <2>5. /\ program'.sem = Cardinality(program'.scanning) /\ program'.sem = 0
        /\ RunsInOrder' /\ ScansInOrder' /\ RunAccounted'
    BY <1>2, <2>4, RunOver
  <2>6. TypeOK'
    BY <1>1, <2>3, <2>4, <2>5, UpdateListAssumption DEF TypeOK
  <2>7. FileInOrder'
    BY <2>4 DEF FileInOrder
  <2> QED
    BY <1>3, <2>4, <2>5, <2>6, <2>7
<1>5. CASE program.pc # "write"
  <2>1. program' = NoRun /\ UNCHANGED file /\ program.pc # "failed"
    BY <1>5 DEF Fatal
  <2>2. program' \in Programs /\ HoldsNothing(program)' /\ program'.pc = "idle"
    BY <2>1, RunsHoldNothing, NothingHeld DEF NoRun
  <2>3. /\ program'.sem = Cardinality(program'.scanning) /\ program'.sem = 0
        /\ RunsInOrder' /\ ScansInOrder' /\ RunAccounted'
    BY <1>2, <2>2, RunOver
  <2>4. TypeOK'
    BY <1>1, <2>1, <2>2, <2>3, UpdateListAssumption DEF TypeOK
  <2>5. FileInOrder'
    BY <1>5, <2>1, <2>2 DEF FileInOrder
  <2>6. ChangesAccounted(file)'
    BY <1>1, <1>5, <2>1 DEF ChangesAccounted, Added, Removed
  <2> QED
    BY <1>3, <2>2, <2>3, <2>4, <2>5, <2>6
<1> QED
  BY <1>4, <1>5

\* The maintainer commits a file without duplicates, or resets the checkout.
LEMMA MaintainerKeepsIInv ==
  ASSUME ListIInv, Commit \/ Reset
  PROVE  ListIInv'
<1> USE DEF ListIInv
<1>1. /\ UNCHANGED <<queue, changed, runs>> /\ program' = NoRun
      /\ evidence' = [d \in Domains |-> {queue[d]}]
      /\ file' = committed'
  BY DEF Commit, Reset, NewEvidence
<1>2. /\ \A d \in Domains : queue'[d] \in evidence'[d]
      /\ evidence' \in [Domains -> SUBSET (Queues \cup {"none", "pass", "fail"})]
  BY <1>1 DEF TypeOK
<1>3. committed' \in Lines /\ IsInjective(committed') /\ EndOfBulk \in ToSet(committed')
  <2>1. CASE Commit
    <3>1. committed' = file /\ program.pc = "done" /\ program.dupes = {}
      BY <2>1 DEF Commit
    <3>2. OnePlace(file) /\ Repeated(file) \cap Domains = {} /\ file \in Lines
      BY <3>1 DEF FileInOrder, TypeOK
    <3>3. Repeated(file) \subseteq ToSet(file) /\ ToSet(file) \subseteq Domains \cup {EndOfBulk}
      BY <3>2, SequenceSets DEF Lines
    <3>4. Repeated(file) = {}
      BY <3>2, <3>3 DEF OnePlace
    <3>5. IsInjective(file)
      BY <3>2, <3>4, SequenceSets DEF Lines
    <3> QED
      BY <3>1, <3>2, <3>5 DEF OnePlace
  <2>2. CASE Reset
    BY <2>2 DEF Reset, TypeOK, CommittedListIsSound
  <2> QED
    BY <2>1, <2>2
<1>4. OnePlace(file')
  <2>1. Repeated(file') = {}
    BY <1>1, <1>3, SequenceSets DEF Lines
  <2> QED
    BY <1>1, <1>3, <2>1 DEF OnePlace
<1>5. program' \in Programs /\ HoldsNothing(program)' /\ program'.pc = "idle"
  BY <1>1, RunsHoldNothing, NothingHeld DEF NoRun
<1>6. /\ program'.sem = Cardinality(program'.scanning) /\ program'.sem = 0
      /\ RunsInOrder' /\ ScansInOrder' /\ RunAccounted'
  BY <1>2, <1>5, RunOver
<1>7. TypeOK'
  BY <1>1, <1>2, <1>3, <1>5, <1>6, UpdateListAssumption DEF TypeOK
<1>8. FileInOrder'
  BY <1>4, <1>5 DEF FileInOrder
<1>9. ChangesAccounted(file)'
  BY <1>1 DEF ChangesAccounted
<1>10. CommittedListIsSound'
  BY <1>3 DEF CommittedListIsSound
<1> QED
  BY <1>5, <1>6, <1>7, <1>8, <1>9, <1>10

\* Every step keeps the invariant, one that changes nothing too.
LEMMA StepKeepsIInv == ListIInv /\ [Next]_vars => ListIInv'
<1> SUFFICES ASSUME ListIInv, [Next]_vars PROVE ListIInv'
  OBVIOUS
<1>1. CASE UNCHANGED vars
  <2>1. UNCHANGED <<queue, changed, committed, file, program, runs, evidence>>
    BY <1>1 DEF vars
  <2>2. TypeOK' /\ RunsInOrder' /\ ScansInOrder' /\ FileInOrder'
    BY <2>1 DEF ListIInv, TypeOK, RunsInOrder, ScansInOrder, FileInOrder
  <2>3. CommittedListIsSound' /\ RunAccounted'
    BY <2>1 DEF ListIInv, CommittedListIsSound, RunAccounted
  <2>4. \A lines : ChangesAccounted(lines) => ChangesAccounted(lines)'
    BY <2>1 DEF ChangesAccounted, Added, Removed
  <2> QED
    BY <2>1, <2>2, <2>3, <2>4 DEF ListIInv
<1>2. CASE \E d \in Domains : ChangeQueue(d)
  BY <1>2, ChangeQueueKeepsIInv
<1>3. CASE ReadFile
  BY <1>3, ReadFileKeepsIInv
<1>4. CASE ProgramStep
  BY <1>4, FetchKeepsIInv, EndFetchKeepsIInv, StartScanKeepsIInv, EndScanKeepsIInv,
     EndFilterAdditionsKeepsIInv, EndFilterRemovalsKeepsIInv, TruncateKeepsIInv,
     WriteFileKeepsIInv DEF ProgramStep
<1>5. CASE Fatal
  BY <1>5, FatalKeepsIInv
<1>6. CASE Commit \/ Reset
  BY <1>6, MaintainerKeepsIInv
<1> QED
  BY <1>1, <1>2, <1>3, <1>4, <1>5, <1>6 DEF Next

\* Every run, whenever it is started and wherever it ends, has what it holds
\* from the queues and from its own scans, and so has the checkout what it
\* differs by from the committed list (getPreloadListDomains, filterParallel,
\* updateList and overwriteFile together).
THEOREM ListAccounted == Spec => []ListIInv
<1>1. Init => ListIInv
  BY InitList
<1>2. ListIInv /\ [Next]_vars => ListIInv'
  BY StepKeepsIInv
<1> QED
  BY <1>1, <1>2, PTL DEF Spec

\* What is committed has every domain once and the place for the next
\* additions: dupeTracker misses no duplicate, whatever the queues were.
THEOREM CommitsSoundLists == Spec => []CommittedListIsSound
<1>1. ListIInv => CommittedListIsSound
  BY DEF ListIInv
<1> QED
  BY <1>1, ListAccounted, PTL

-----------------------------------------------------------------------------
(* The changes a commit brings, and the refinement of ListRoll. *)

\* Only a commit changes the committed list, and it brings the checkout of a
\* run that is over.
LEMMA CommitStep ==
  ASSUME ListIInv, [Next]_vars, NEW d \in Domains
  PROVE  /\ d \in ToSet(committed') \ ToSet(committed) => {"pending", "pass"} \subseteq evidence[d]
         /\ d \in ToSet(committed) \ ToSet(committed')
            => \/ "pending-removal" \in evidence[d]
               \/ {"pending-automated-removal", "fail"} \subseteq evidence[d]
<1>1. CASE Commit
  <2>1. committed' = file /\ program.pc = "done"
    BY <1>1 DEF Commit
  <2>2. ChangesAccounted(file)
    BY <2>1 DEF ListIInv
  <2> QED
    BY <2>1, <2>2 DEF ChangesAccounted, Added, Removed
<1>2. CASE ~Commit
  <2>1. committed' = committed
    BY <1>2 DEF Next, ProgramStep, ChangeQueue, ReadFile, Fetch, EndFetch, StartScan, EndScan,
                EndFilterAdditions, EndFilterRemovals, Truncate, WriteFile, Fatal, Reset, vars
  <2> QED
    BY <2>1
<1> QED
  BY <1>1, <1>2

\* A commit adds and removes only what the queues and the program's own scans
\* have asked for since the last one, however many runs, failed runs and
\* resets come before it.
THEOREM CommitsAccounted == Spec => CommitsOnlyWhatWasAskedFor
<1> DEFINE Asked == \A d \in Domains :
              /\ d \in ToSet(committed') \ ToSet(committed)
                 => {"pending", "pass"} \subseteq evidence[d]
              /\ d \in ToSet(committed) \ ToSet(committed')
                 => \/ "pending-removal" \in evidence[d]
                    \/ {"pending-automated-removal", "fail"} \subseteq evidence[d]
<1>1. ListIInv /\ [Next]_vars => [Asked]_vars
  BY CommitStep
<1> QED
  BY <1>1, ListAccounted, PTL DEF Spec, CommitsOnlyWhatWasAskedFor

\* What is seen of a state, field by field.
LEMMA Seen ==
  /\ RollSeen.pc = PcSeen
  /\ RollSeen.unfetched = program.unfetched
  /\ RollSeen.fetched["pending"] = ToSet(program.pendingAdditions)
  /\ RollSeen.fetched["pending-removal"] = program.pendingRemovals
  /\ RollSeen.fetched["pending-automated-removal"] = program.pendingAutomatedRemovals
  BY DEF RollSeen, Fetched, Queues

\* What is seen of a run has the type of a roll.
LEMMA SeenType ==
  program \in Programs => RollSeen \in ListRoll!Rolls
<1> SUFFICES ASSUME program \in Programs PROVE RollSeen \in ListRoll!Rolls
  OBVIOUS
<1>1. PcSeen \in {"idle", "fetch", "filter", "write", "done", "failed"}
  BY DEF PcSeen, Programs
<1>2. Fetched \in [Queues -> SUBSET Domains]
  BY SequenceSets DEF Fetched, Queues, Programs
<1> QED
  BY <1>1, <1>2 DEF RollSeen, Programs, ListRoll!Rolls, ListRoll!Queues, Queues

\* Before a step and after it.
LEMMA SeenTypes ==
  ASSUME ListIInv, [Next]_vars
  PROVE  RollSeen \in ListRoll!Rolls /\ RollSeen' \in ListRoll!Rolls
<1>1. (program \in Programs => RollSeen \in ListRoll!Rolls)'
  BY SeenType, PTL
<1>2. program \in Programs /\ program' \in Programs
  BY StepKeepsIInv DEF ListIInv, TypeOK
<1> QED
  BY <1>1, <1>2, SeenType

\* A roll is told by its fields.
LEMMA SameRoll ==
  ASSUME NEW r \in ListRoll!Rolls, NEW s \in ListRoll!Rolls,
         r.pc = s.pc, r.unfetched = s.unfetched, r.fetched = s.fetched
  PROVE  r = s
  BY DEF ListRoll!Rolls

\* A step after which nothing is held is seen as a beginning or an end.
LEMMA SeenNoRun ==
  ASSUME HoldsNothing(program)', program'.unfetched = Queues,
         program'.pc \in {"idle", "fetch", "done", "failed"}
  PROVE  /\ RollSeen' = [ListRoll!NoRoll EXCEPT !.pc = program'.pc]
         /\ program'.pc = "idle" => RollSeen' = ListRoll!NoRoll
<1>1. Fetched' = [q \in Queues |-> {}]
  BY NothingHeld DEF HoldsNothing, Fetched, Queues
<1> QED
  BY <1>1 DEF RollSeen, PcSeen, ListRoll!NoRoll, ListRoll!Queues, Queues

\* A list without duplicates is seen as a checkout of its names.
LEMMA SeenCheckout ==
  ASSUME NEW lines \in Lines, IsInjective(lines)
  PROVE  Checkout(lines) = ListRoll!CheckoutOf(Checkout(lines).names)
  BY SequenceSets DEF Checkout, ListRoll!CheckoutOf, Lines

LEMMA InitSeen == Init => ListRoll!Init
<1> SUFFICES ASSUME Init PROVE ListRoll!Init
  OBVIOUS
<1>1. committed \in Lines /\ IsInjective(committed) /\ file = committed /\ program = NoRun
  BY UpdateListAssumption DEF Init, Lines
<1>2. RollSeen = ListRoll!NoRoll
  <2>1. Fetched = [q \in Queues |-> {}]
    BY <1>1, NothingHeld DEF Fetched, Queues, NoRun
  <2> QED
    BY <1>1, <2>1 DEF RollSeen, PcSeen, NoRun, ListRoll!NoRoll, ListRoll!Queues, Queues
<1>3. CheckoutSeen = Checkout(committed)
  BY <1>1 DEF CheckoutSeen, NoRun
<1>4. ListSeen \in SUBSET Domains
  BY DEF ListSeen, Checkout
<1> QED
  BY <1>1, <1>2, <1>3, <1>4, SeenCheckout
  DEF ListRoll!Init, ListRoll!Queues, Queues, Init, ListSeen

\* What a step that leaves the run and the file alone does not change is seen
\* unchanged.
LEMMA SeenUnchanged ==
  /\ UNCHANGED committed => UNCHANGED ListSeen
  /\ UNCHANGED program => UNCHANGED RollSeen
  /\ UNCHANGED <<file, program>> => UNCHANGED CheckoutSeen
<1>1. UNCHANGED committed => UNCHANGED ListSeen
  BY DEF ListSeen, Checkout
<1>2. UNCHANGED program => UNCHANGED RollSeen
  BY DEF RollSeen, PcSeen, Fetched
<1>3. UNCHANGED <<file, program>> => UNCHANGED CheckoutSeen
  BY DEF CheckoutSeen, Checkout
<1> QED
  BY <1>1, <1>2, <1>3

\* Neither writing nor failed, the run before the step and after it: the
\* checkout is the file.
LEMMA SeenFile ==
  program.pc \notin {"write", "failed"} => CheckoutSeen = Checkout(file)
  BY DEF CheckoutSeen

\* A run that begins.
LEMMA ReadFileSeen ==
  ASSUME ListIInv, ReadFile
  PROVE  ListRoll!Start
<1>1. /\ UNCHANGED <<queue, committed, file>> /\ program.pc \in {"idle", "done"}
      /\ program' = [NoRun EXCEPT !.pc = "fetch", !.contents = file] /\ file \in Lines
  BY DEF ReadFile, ListIInv, TypeOK
<1>2. HoldsNothing(program)' /\ program'.unfetched = Queues /\ program'.pc = "fetch"
  BY <1>1, RunsHoldNothing DEF NoRun
<1>3. RollSeen' = [ListRoll!NoRoll EXCEPT !.pc = "fetch"]
  BY <1>2, SeenNoRun
<1>4. CheckoutSeen' = CheckoutSeen
  BY <1>1, <1>2 DEF CheckoutSeen, Checkout
<1>5. RollSeen.pc = program.pc
  BY <1>1, Seen DEF PcSeen
<1> QED
  BY <1>1, <1>3, <1>4, <1>5, SeenUnchanged DEF ListRoll!Start

\* The answer for a queue.
LEMMA FetchSeen ==
  ASSUME ListIInv, NEW q \in Queues, Fetch(q)
  PROVE  ListRoll!Fetch(q)
<1> DEFINE answer == {d \in Domains : queue[d] = q}
<1>1. /\ UNCHANGED <<queue, committed, file>>
      /\ program.pc = "fetch" /\ q \in program.unfetched /\ program \in Programs
      /\ program' = [program EXCEPT
              !.unfetched = @ \ {q},
              !.pendingAdditions = IF q = "pending" THEN Sorted(answer) ELSE @,
              !.pendingRemovals = IF q = "pending-removal" THEN answer ELSE @,
              !.pendingAutomatedRemovals = IF q = "pending-automated-removal" THEN answer ELSE @]
  BY DEF Fetch, ListIInv, TypeOK
<1>2. ToSet(Sorted(answer)) = answer
  BY SortedSets
<1> HIDE DEF answer
<1>3. /\ program'.pc = "fetch" /\ program'.unfetched = program.unfetched \ {q}
      /\ Fetched' = [Fetched EXCEPT ![q] = answer]
  BY <1>1, <1>2 DEF Fetched, Queues, Programs
<1>4. RollSeen' = [RollSeen EXCEPT !.unfetched = @ \ {q}, !.fetched[q] = answer]
  <2>1. PcSeen = "fetch" /\ PcSeen' = "fetch"
    BY <1>1, <1>3 DEF PcSeen
  <2>2. RollSeen \in ListRoll!Rolls /\ RollSeen' \in ListRoll!Rolls
    BY SeenTypes DEF Next, ProgramStep
  <2>3. /\ RollSeen'.fetched = [RollSeen.fetched EXCEPT ![q] = answer]
        /\ RollSeen.pc = "fetch" /\ RollSeen'.pc = "fetch"
        /\ RollSeen'.unfetched = program'.unfetched /\ RollSeen.unfetched = program.unfetched
    BY <1>3, <2>1 DEF RollSeen
  <2>4. answer \in SUBSET Domains /\ q \in Queues
    BY DEF Queues, answer
  <2>5. RollSeen'.unfetched = RollSeen.unfetched \ {q} /\ RollSeen'.pc = RollSeen.pc
    BY <1>3, <2>3
  <2> DEFINE roll == [RollSeen EXCEPT !.unfetched = @ \ {q}, !.fetched[q] = answer]
  <2>6. /\ roll \in ListRoll!Rolls /\ roll.pc = RollSeen.pc
        /\ roll.unfetched = RollSeen.unfetched \ {q}
        /\ roll.fetched = [RollSeen.fetched EXCEPT ![q] = answer]
    BY <2>2, <2>4 DEF ListRoll!Rolls, ListRoll!Queues, Queues
  <2> HIDE DEF roll
  <2>7. RollSeen' = roll
    BY <2>2, <2>3, <2>5, <2>6, SameRoll
  <2> QED
    BY <2>7 DEF roll
<1>5. CheckoutSeen' = CheckoutSeen
  BY <1>1, <1>3 DEF CheckoutSeen, Checkout
<1> QED
  BY <1>1, <1>4, <1>5, Seen, SeenUnchanged DEF PcSeen, ListRoll!Fetch, answer

\* A filter begins, or one of its scans does or ends: nothing is seen of it.
LEMMA ScanSeen ==
  ASSUME ListIInv,
         EndFetch \/ StartScan \/ \E d \in Domains, verdict \in {"pass", "fail"} : EndScan(d, verdict)
  PROVE  UNCHANGED <<queue, ListSeen, CheckoutSeen, RollSeen>>
<1>1. /\ UNCHANGED <<queue, committed, file>> /\ program \in Programs
      /\ program.pc \notin {"write", "failed"}
  BY DEF EndFetch, StartScan, EndScan, ListIInv, TypeOK, RunsInOrder
<1>2. /\ \/ program'.pc = program.pc
         \/ program.pc = "fetch" /\ program'.pc = "filterAdditions"
      /\ program'.unfetched = program.unfetched
      /\ program'.pendingAdditions = program.pendingAdditions
      /\ program'.pendingRemovals = program.pendingRemovals
      /\ program'.pendingAutomatedRemovals = program.pendingAutomatedRemovals
  BY <1>1 DEF EndFetch, StartScan, EndScan, WithRemovals, Programs
<1>3. RollSeen' = RollSeen
  <2>1. PcSeen' = PcSeen
    BY <1>1, <1>2 DEF PcSeen
  <2>2. Fetched' = Fetched
    BY <1>2 DEF Fetched
  <2> QED
    BY <1>2, <2>1, <2>2 DEF RollSeen
<1>4. CheckoutSeen' = CheckoutSeen
  BY <1>1, <1>2 DEF CheckoutSeen, Checkout
<1> QED
  BY <1>1, <1>3, <1>4, SeenUnchanged

\* The additions kept are some of those fetched, and every queue has answered.
LEMMA EndFilterAdditionsSeen ==
  ASSUME ListIInv, EndFilterAdditions
  PROVE  \E kept \in SUBSET Domains : ListRoll!KeepAdditions(kept)
<1> DEFINE kept == ToSet(program.filtered)
<1>1. /\ UNCHANGED <<queue, committed, file>> /\ program \in Programs
      /\ program.pc = "filterAdditions" /\ program.unfetched = {}
      /\ program'.pc = "filterRemovals" /\ program'.unfetched = program.unfetched
      /\ program'.pendingAdditions = program.filtered
      /\ program'.pendingRemovals = program.pendingRemovals
      /\ program'.pendingAutomatedRemovals = program.pendingAutomatedRemovals
  BY DEF EndFilterAdditions, ListIInv, TypeOK, RunsInOrder, Programs
<1>2. kept \in SUBSET Domains /\ kept \subseteq ToSet(program.pendingAdditions)
  <2>1. kept \subseteq ToSet(program.pendingAdditions)
    BY <1>1 DEF ListIInv, ScansInOrder
  <2>2. ToSet(program.filtered) \subseteq Domains
    BY <1>1, SequenceSets DEF Programs
  <2> QED
    BY <2>1, <2>2
<1>3. Fetched' = [Fetched EXCEPT !["pending"] = kept]
  BY <1>1 DEF Fetched, Queues
<1> HIDE DEF kept
<1>4. RollSeen' = [RollSeen EXCEPT !.pc = "filter", !.fetched["pending"] = kept]
  <2>1. PcSeen = "fetch" /\ PcSeen' = "filter"
    BY <1>1, <1>3 DEF PcSeen
  <2>2. RollSeen \in ListRoll!Rolls /\ RollSeen' \in ListRoll!Rolls
    BY SeenTypes DEF Next, ProgramStep
  <2>3. /\ RollSeen'.fetched = [RollSeen.fetched EXCEPT !["pending"] = kept]
        /\ RollSeen.pc = "fetch" /\ RollSeen'.pc = "filter"
        /\ RollSeen'.unfetched = program'.unfetched /\ RollSeen.unfetched = program.unfetched
    BY <1>3, <2>1 DEF RollSeen
  <2>4. kept \in SUBSET Domains /\ "pending" \in Queues
    BY <1>2 DEF Queues
  <2>5. RollSeen'.unfetched = RollSeen.unfetched
    BY <1>1, <2>3
  <2> DEFINE roll == [RollSeen EXCEPT !.pc = "filter", !.fetched["pending"] = kept]
  <2>6. /\ roll \in ListRoll!Rolls /\ roll.pc = "filter"
        /\ roll.unfetched = RollSeen.unfetched
        /\ roll.fetched = [RollSeen.fetched EXCEPT !["pending"] = kept]
    BY <2>2, <2>4 DEF ListRoll!Rolls, ListRoll!Queues, Queues
  <2> HIDE DEF roll
  <2>7. RollSeen' = roll
    BY <2>2, <2>3, <2>5, <2>6, SameRoll
  <2> QED
    BY <2>7 DEF roll
<1>5. CheckoutSeen' = CheckoutSeen
  BY <1>1 DEF CheckoutSeen, Checkout
<1>6. ListRoll!KeepAdditions(kept)
  BY <1>1, <1>2, <1>4, <1>5, Seen, SeenUnchanged DEF PcSeen, ListRoll!KeepAdditions, ListRoll!Keep
<1> QED
  BY <1>2, <1>6

\* Likewise the automated removals; pendingRemovals stay as they are.
LEMMA EndFilterRemovalsSeen ==
  ASSUME ListIInv, EndFilterRemovals
  PROVE  \E kept \in SUBSET Domains : ListRoll!KeepRemovals(kept)
<1> DEFINE kept == ToSet(program.filtered)
<1>1. /\ UNCHANGED <<queue, committed, file>> /\ program \in Programs
      /\ program.pc = "filterRemovals" /\ program.unfetched = {}
      /\ program'.pc = "update" /\ program'.unfetched = program.unfetched
      /\ program'.pendingAdditions = program.pendingAdditions
      /\ program'.pendingRemovals = program.pendingRemovals
      /\ program'.pendingAutomatedRemovals = kept
  BY DEF EndFilterRemovals, Filtered, WithRemovals, ListIInv, TypeOK, RunsInOrder, Programs
<1>2. kept \in SUBSET Domains /\ kept \subseteq program.pendingAutomatedRemovals
  BY <1>1 DEF ListIInv, ScansInOrder, Programs
<1>3. Fetched' = [Fetched EXCEPT !["pending-automated-removal"] = kept]
  BY <1>1 DEF Fetched, Queues
<1> HIDE DEF kept
<1>4. RollSeen' = [RollSeen EXCEPT !.pc = "write", !.fetched["pending-automated-removal"] = kept]
  <2>1. PcSeen = "filter" /\ PcSeen' = "write"
    BY <1>1, <1>3 DEF PcSeen
  <2>2. RollSeen \in ListRoll!Rolls /\ RollSeen' \in ListRoll!Rolls
    BY SeenTypes DEF Next, ProgramStep
  <2>3. /\ RollSeen'.fetched = [RollSeen.fetched EXCEPT !["pending-automated-removal"] = kept]
        /\ RollSeen.pc = "filter" /\ RollSeen'.pc = "write"
        /\ RollSeen'.unfetched = program'.unfetched /\ RollSeen.unfetched = program.unfetched
    BY <1>3, <2>1 DEF RollSeen
  <2>4. kept \in SUBSET Domains /\ "pending-automated-removal" \in Queues
    BY <1>2 DEF Queues
  <2>5. RollSeen'.unfetched = RollSeen.unfetched
    BY <1>1, <2>3
  <2> DEFINE roll == [RollSeen EXCEPT !.pc = "write", !.fetched["pending-automated-removal"] = kept]
  <2>6. /\ roll \in ListRoll!Rolls /\ roll.pc = "write"
        /\ roll.unfetched = RollSeen.unfetched
        /\ roll.fetched = [RollSeen.fetched EXCEPT !["pending-automated-removal"] = kept]
    BY <2>2, <2>4 DEF ListRoll!Rolls, ListRoll!Queues, Queues
  <2> HIDE DEF roll
  <2>7. RollSeen' = roll
    BY <2>2, <2>3, <2>5, <2>6, SameRoll
  <2> QED
    BY <2>7 DEF roll
<1>5. CheckoutSeen' = CheckoutSeen
  BY <1>1 DEF CheckoutSeen, Checkout
<1>6. ListRoll!KeepRemovals(kept)
  BY <1>1, <1>2, <1>4, <1>5, Seen, SeenUnchanged DEF PcSeen, ListRoll!KeepRemovals, ListRoll!Keep
<1> QED
  BY <1>2, <1>6

\* The truncated file is still seen as it was read.
LEMMA TruncateSeen ==
  ASSUME ListIInv, Truncate
  PROVE  UNCHANGED <<queue, ListSeen, CheckoutSeen, RollSeen>>
<1> DEFINE output == Output(program)
           dupes == Dupes(program, output)
<1>1. /\ UNCHANGED <<queue, committed>> /\ program \in Programs
      /\ program.pc = "update" /\ program.contents = file
      /\ program' = [program EXCEPT !.pc = "write", !.output = output, !.dupes = dupes]
  BY DEF Truncate, ListIInv, TypeOK, FileInOrder
<1> HIDE DEF output, dupes
<1>2. /\ program'.pc = "write"  /\ program'.contents = program.contents
      /\ program'.unfetched = program.unfetched
      /\ program'.pendingAdditions = program.pendingAdditions
      /\ program'.pendingRemovals = program.pendingRemovals
      /\ program'.pendingAutomatedRemovals = program.pendingAutomatedRemovals
  BY <1>1 DEF Programs
<1>3. RollSeen' = RollSeen
  <2>1. PcSeen' = PcSeen
    BY <1>1, <1>2 DEF PcSeen
  <2>2. Fetched' = Fetched
    BY <1>2 DEF Fetched
  <2> QED
    BY <1>2, <2>1, <2>2 DEF RollSeen
<1>4. CheckoutSeen' = CheckoutSeen
  BY <1>1, <1>2 DEF CheckoutSeen, Checkout
<1> QED
  BY <1>1, <1>3, <1>4, SeenUnchanged

\* The lines written are the checkout rewritten.
LEMMA WriteFileSeen ==
  ASSUME ListIInv, WriteFile
  PROVE  ListRoll!Write
<1> DEFINE D == program.dupes
           read == program.contents
           removed == program.pendingRemovals \cup program.pendingAutomatedRemovals
           added == ToSet(program.pendingAdditions)
<1>1. /\ UNCHANGED <<queue, committed>> /\ program.pc = "write"
      /\ program' = [NoRun EXCEPT !.pc = "done", !.dupes = D] /\ D \in SUBSET Domains
      /\ file' = Output(program) /\ OnePlace(read)
  BY DEF WriteFile, ListIInv, TypeOK, FileInOrder, Programs
<1>2. HoldsNothing(program)' /\ program'.unfetched = Queues /\ program'.pc = "done"
  BY <1>1, RunsHoldNothing, NothingHeld DEF NoRun
<1>3. RollSeen' = [ListRoll!NoRoll EXCEPT !.pc = "done"]
  BY <1>2, SeenNoRun
<1>4. /\ ToSet(file') = (ToSet(read) \ removed) \cup added
      /\ Repeated(file') = (Repeated(read) \ removed) \cup ((ToSet(read) \ removed) \cap added)
      /\ removed \subseteq Domains /\ added \subseteq Domains
  BY <1>1, OutputOfRun
<1>5. CheckoutSeen = Checkout(read) /\ CheckoutSeen' = Checkout(file')
  BY <1>1, <1>2 DEF CheckoutSeen, Checkout
<1>6. /\ RollSeen.pc = "write" /\ ListRoll!Removals(RollSeen) = removed
      /\ RollSeen.fetched["pending"] = added
  BY <1>1, Seen DEF PcSeen, ListRoll!Removals
<1> HIDE DEF read, removed, added
<1>7. Checkout(file') = ListRoll!Rewritten(RollSeen)
  <2>1. /\ Checkout(file').names = (Checkout(read).names \ removed) \cup added
        /\ Checkout(file').dupes = (Checkout(read).dupes \ removed)
                                   \cup ((Checkout(read).names \ removed) \cap added)
    BY <1>4 DEF Checkout
  <2>2. Checkout(file') = [names |-> Checkout(file').names, dupes |-> Checkout(file').dupes]
    BY DEF Checkout
  <2> HIDE DEF Checkout
  <2> QED
    BY <1>5, <1>6, <2>1, <2>2 DEF ListRoll!Rewritten
<1> QED
  BY <1>1, <1>3, <1>5, <1>6, <1>7, SeenUnchanged DEF ListRoll!Write

\* A run that ends early.
LEMMA FatalSeen ==
  ASSUME ListIInv, Fatal
  PROVE  ListRoll!Abort
<1>1. UNCHANGED <<queue, committed>>
  BY DEF Fatal
<1>2. RollSeen.pc \in {"fetch", "filter", "write"}
  BY Seen DEF PcSeen, Fatal, ListIInv, TypeOK, Programs
<1>3. CASE program.pc = "write"
  <2>1. program' = [NoRun EXCEPT !.pc = "failed"]
    BY <1>3 DEF Fatal
  <2>2. HoldsNothing(program)' /\ program'.unfetched = Queues /\ program'.pc = "failed"
    BY <2>1, RunsHoldNothing, NothingHeld DEF NoRun
  <2>3. RollSeen' = [ListRoll!NoRoll EXCEPT !.pc = "failed"]
    BY <2>2, SeenNoRun
  <2>4. CheckoutSeen' = ListRoll!CheckoutOf({})
    BY <2>2, ShortSequences DEF CheckoutSeen, Checkout, ListRoll!CheckoutOf
  <2>5. RollSeen.pc = "write"
    BY <1>3, Seen DEF PcSeen
  <2> QED
    BY <1>1, <1>2, <2>3, <2>4, <2>5, SeenUnchanged DEF ListRoll!Abort
<1>4. CASE program.pc # "write"
  <2>1. program' = NoRun /\ UNCHANGED file /\ program.pc # "failed"
    BY <1>4 DEF Fatal
  <2>2. HoldsNothing(program)' /\ program'.unfetched = Queues /\ program'.pc = "idle"
    BY <2>1, RunsHoldNothing, NothingHeld DEF NoRun
  <2>3. RollSeen' = ListRoll!NoRoll
    BY <2>2, SeenNoRun
  <2>4. CheckoutSeen' = CheckoutSeen
    BY <1>4, <2>1, <2>2 DEF CheckoutSeen, Checkout
  <2> QED
    BY <1>1, <1>2, <2>3, <2>4, SeenUnchanged DEF ListRoll!Abort
<1> QED
  BY <1>3, <1>4

\* The maintainer's commit and reset.
LEMMA MaintainerSeen ==
  ASSUME ListIInv, Commit \/ Reset
  PROVE  ListRoll!Commit \/ ListRoll!Reset
<1>1. UNCHANGED queue /\ program' = NoRun /\ file' = committed'
  BY DEF Commit, Reset
<1>2. HoldsNothing(program)' /\ program'.unfetched = Queues /\ program'.pc = "idle"
  BY <1>1, RunsHoldNothing, NothingHeld DEF NoRun
<1>3. RollSeen' = ListRoll!NoRoll
  BY <1>2, SeenNoRun
<1>4. CheckoutSeen' = Checkout(file')
  BY <1>2 DEF CheckoutSeen, Checkout
<1>5. CASE Commit
  <2>1. /\ program.pc = "done" /\ program.dupes = {} /\ committed' = file /\ UNCHANGED file
        /\ program.dupes = Repeated(file) \cap Domains
    BY <1>5 DEF Commit, ListIInv, FileInOrder
  <2>2. CheckoutSeen = Checkout(file) /\ RollSeen.pc = "done"
    BY <2>1, Seen DEF PcSeen, CheckoutSeen
  <2>3. CheckoutSeen.dupes = {} /\ ListSeen' = CheckoutSeen.names /\ CheckoutSeen' = CheckoutSeen
    BY <1>4, <2>1, <2>2 DEF Checkout, ListSeen
  <2> QED
    BY <1>1, <1>3, <2>2, <2>3 DEF ListRoll!Commit
<1>6. CASE Reset
  <2>1. /\ program.pc \in {"done", "failed"} /\ file' = committed /\ UNCHANGED committed
        /\ committed \in Lines /\ IsInjective(committed)
    BY <1>6 DEF Reset, ListIInv, TypeOK, CommittedListIsSound
  <2>2. CheckoutSeen' = ListRoll!CheckoutOf(ListSeen)
    BY <1>4, <2>1, SeenCheckout DEF ListSeen
  <2>3. RollSeen.pc = program.pc
    BY <2>1, Seen DEF PcSeen
  <2> QED
    BY <1>1, <1>3, <2>1, <2>2, <2>3, SeenUnchanged DEF ListRoll!Reset
<1> QED
  BY <1>5, <1>6

\* Every step of the program, the maintainer and the site is one of the roll.
LEMMA StepSeen ==
  ASSUME ListIInv, [Next]_vars
  PROVE  [ListRoll!Next]_<<queue, ListSeen, CheckoutSeen, RollSeen>>
<1>1. CASE UNCHANGED vars
  BY <1>1, SeenUnchanged DEF vars
<1>2. ASSUME NEW d \in Domains, ChangeQueue(d) PROVE ListRoll!ChangeQueues
  <2>1. queue' \in [Domains -> Queues \cup {"none"}] /\ UNCHANGED <<committed, file, program>>
    BY <1>2 DEF ChangeQueue, ListIInv, TypeOK
  <2> QED
    BY <2>1, SeenUnchanged DEF ListRoll!ChangeQueues, ListRoll!Queues, Queues
<1>3. CASE ReadFile
  BY <1>3, ReadFileSeen DEF ListRoll!Next
<1>4. CASE \E q \in Queues : Fetch(q)
  <2>1. Queues = ListRoll!Queues
    BY DEF Queues, ListRoll!Queues
  <2> QED
    BY <1>4, <2>1, FetchSeen DEF ListRoll!Next
<1>5. CASE \/ EndFetch \/ StartScan \/ Truncate
           \/ \E d \in Domains, verdict \in {"pass", "fail"} : EndScan(d, verdict)
  BY <1>5, ScanSeen, TruncateSeen
<1>6. CASE EndFilterAdditions
  BY <1>6, EndFilterAdditionsSeen DEF ListRoll!Next
<1>7. CASE EndFilterRemovals
  BY <1>7, EndFilterRemovalsSeen DEF ListRoll!Next
<1>8. CASE WriteFile
  BY <1>8, WriteFileSeen DEF ListRoll!Next
<1>9. CASE Fatal
  BY <1>9, FatalSeen DEF ListRoll!Next
<1>10. CASE Commit \/ Reset
  BY <1>10, MaintainerSeen DEF ListRoll!Next
<1> QED
  BY <1>1, <1>2, <1>3, <1>4, <1>5, <1>6, <1>7, <1>8, <1>9, <1>10 DEF Next, ProgramStep, ListRoll!Next

\* The program implements the roll that ListCycle composes with the site.
THEOREM ProgramRolls == Spec => ImplementsListRoll
<1>1. Init => ListRoll!Init
  BY InitSeen
<1>2. ListIInv /\ [Next]_vars => [ListRoll!Next]_<<queue, ListSeen, CheckoutSeen, RollSeen>>
  BY StepSeen
<1> QED
  BY <1>1, <1>2, ListAccounted, PTL DEF Spec, ImplementsListRoll, ListRoll!Spec
=============================================================================
