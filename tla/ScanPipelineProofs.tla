------------------------- MODULE ScanPipelineProofs -------------------------
(***************************************************************************)
(* Proofs about the pool of workers, for every finite set of domains and   *)
(* every finite set of workers: no send on a closed channel, no negative   *)
(* counter, and one verdict on every domain when the handler goes on.      *)
(***************************************************************************)
EXTENDS ScanPipeline, FiniteSetTheorems, TLAPS

\* The states of a worker that has a domain.
HasDomain == {"scan", "send", "done"}

\* Domains in flight are domains of the run, so they can be counted.
LEMMA InFlightCounts ==
  ASSUME TypeOK, OneHolder, ClosesInOrder
  PROVE  /\ InFlight \subseteq PolicyStates
         /\ IsFiniteSet(InFlight)
         /\ Cardinality(InFlight) \in 0..Cardinality(PolicyStates)
<1>1. InFlight \subseteq PolicyStates
  BY DEF OneHolder, ClosesInOrder, InFlight, Offered, Held
<1>2. IsFiniteSet(PolicyStates)
  BY ScanPipelineAssumption
<1>3. IsFiniteSet(InFlight) /\ Cardinality(InFlight) <= Cardinality(PolicyStates)
  BY <1>1, <1>2, FS_Subset
<1>4. Cardinality(InFlight) \in Nat /\ Cardinality(PolicyStates) \in Nat
  BY <1>2, <1>3, FS_CardinalityType
<1> QED
  BY <1>1, <1>3, <1>4

\* Nothing is in flight at first.
LEMMA InitPool == Init => PoolIInv
<1> SUFFICES ASSUME Init PROVE PoolIInv
  OBVIOUS
<1>1. Offered = {} /\ \A pcs \in SUBSET HasDomain : Held(pcs) = {}
  BY DEF Init, Offered, Held, Receiving, HasDomain
<1>2. InFlight = {} /\ Held({"scan", "send"}) = {}
  BY <1>1 DEF InFlight, HasDomain
<1>3. OneHolder /\ ClosesInOrder
  BY <1>1, <1>2 DEF Init, OneHolder, ClosesInOrder, Receiving
<1>4. OneVerdict
  BY <1>1, <1>2 DEF Init, OneVerdict
<1>5. wg = Cardinality(InFlight) /\ Cardinality(InFlight) = 0
  BY <1>2, FS_EmptySet DEF Init
<1>6. Cardinality(PolicyStates) \in Nat
  BY ScanPipelineAssumption, FS_CardinalityType
<1>7. <<>> \in Seq(Verdicts)
  OBVIOUS
<1>8. TypeOK
  <2>1. sender \in Senders
    BY DEF Init, Senders
  <2>2. Receiving \in WorkerStates
    BY DEF Receiving, WorkerStates
  <2>3. collected \in [PolicyStates -> Seq(Verdicts)]
    BY <1>7 DEF Init
  <2> QED
    BY <1>6, <2>1, <2>2, <2>3 DEF Init, TypeOK
<1> QED
  BY <1>3, <1>4, <1>5, <1>8 DEF PoolIInv

\* A step that leaves the domains in flight, the counter and the results alone.
LEMMA CountKept ==
  ASSUME PoolIInv, InFlight' = InFlight, UNCHANGED wg
  PROVE  wg' = Cardinality(InFlight') /\ wg' \in 0..Cardinality(PolicyStates)
  BY DEF PoolIInv, TypeOK

\* wg.Add(1): one more domain is in flight.
LEMMA AddKeepsIInv ==
  ASSUME PoolIInv, NEW d \in PolicyStates, AddDomain(d)
  PROVE  PoolIInv'
<1> USE DEF PoolIInv
<1>1. /\ Offered = {} /\ Offered' = {d}
      /\ \A pcs \in SUBSET HasDomain : Held(pcs)' = Held(pcs)
      /\ d \in unsent
  BY DEF AddDomain, Offered, Held
<1>2. InFlight' = InFlight \cup {d} /\ Held({"scan", "send"})' = Held({"scan", "send"})
  BY <1>1 DEF InFlight, HasDomain
<1>3. d \notin InFlight
  BY <1>1 DEF InFlight, OneHolder, Held
<1>4. OneHolder'
  BY <1>1 DEF OneHolder, AddDomain
<1>5. OneVerdict'
  <2>1. unsent' \cup Offered' = unsent \cup Offered
    BY <1>1 DEF AddDomain
  <2> QED
    BY <1>2, <2>1 DEF OneVerdict, AddDomain
<1>6. ClosesInOrder'
  BY <1>1 DEF ClosesInOrder, AddDomain
<1>7. [pc |-> "send", domain |-> d] \in Senders
  BY DEF Senders
<1>8. wg' = Cardinality(InFlight')
  BY <1>2, <1>3, InFlightCounts, FS_AddElement DEF AddDomain
<1>9. TypeOK'
  <2>1. sender' \in Senders /\ unsent' \subseteq PolicyStates
    BY <1>7 DEF TypeOK, AddDomain
  <2>2. wg' \in 0..Cardinality(PolicyStates)
    <3>1. IsFiniteSet(InFlight \cup {d}) /\ InFlight \cup {d} \subseteq PolicyStates
      BY InFlightCounts, FS_AddElement
    <3>2. Cardinality(InFlight') \in Nat /\ Cardinality(InFlight') <= Cardinality(PolicyStates)
      BY <1>2, <3>1, ScanPipelineAssumption, FS_Subset, FS_CardinalityType
    <3>3. Cardinality(PolicyStates) \in Nat
      BY ScanPipelineAssumption, FS_CardinalityType
    <3> QED
      BY <1>8, <3>2, <3>3
  <2> QED
    BY <2>1, <2>2 DEF TypeOK, AddDomain
<1> QED
  BY <1>4, <1>5, <1>6, <1>8, <1>9

\* A domain goes from the sender to a worker.
LEMMA SendDomainKeepsIInv ==
  ASSUME PoolIInv, NEW w \in Workers, SendDomain(w)
  PROVE  PoolIInv'
<1> USE DEF PoolIInv
<1> DEFINE d == sender.domain
<1>1. /\ Offered = {d} /\ Offered' = {}
      /\ d \in PolicyStates \ unsent
      /\ workers' \in [Workers -> WorkerStates]
      /\ workers'[w].pc = "scan" /\ workers'[w].domain = d
      /\ workers[w].pc = "receive"
      /\ \A x \in Workers \ {w} : workers'[x] = workers[x]
  BY DEF SendDomain, Offered, TypeOK, ClosesInOrder, WorkerStates
<1>2. /\ Held({"scan", "send"})' = Held({"scan", "send"}) \cup {d}
      /\ Held({"scan", "send", "done"})' = Held({"scan", "send", "done"}) \cup {d}
  BY <1>1 DEF Held
<1>3. /\ InFlight' = InFlight
      /\ Offered' \cup Held({"scan", "send"})' = Offered \cup Held({"scan", "send"})
  BY <1>1, <1>2 DEF InFlight
<1>4. OneHolder'
  BY <1>1 DEF OneHolder, SendDomain
<1>5. OneVerdict'
  BY <1>3 DEF OneVerdict, SendDomain
<1>6. ClosesInOrder'
  BY <1>1, <1>3 DEF ClosesInOrder, SendDomain
<1>7. TypeOK'
  BY <1>1 DEF TypeOK, SendDomain, Senders
<1> QED
  BY <1>3, <1>4, <1>5, <1>6, <1>7, CountKept DEF SendDomain

\* The scan ends.
LEMMA ScanDomainKeepsIInv ==
  ASSUME PoolIInv, NEW w \in Workers, NEW v \in Verdicts, ScanDomain(w, v)
  PROVE  PoolIInv'
<1> USE DEF PoolIInv
<1>1. /\ Offered' = Offered
      /\ workers' \in [Workers -> WorkerStates]
      /\ workers[w].pc = "scan" /\ workers'[w].pc = "send"
      /\ workers'[w].domain = workers[w].domain /\ workers'[w].verdict = v
      /\ \A x \in Workers \ {w} : workers'[x] = workers[x]
  BY DEF ScanDomain, Offered, TypeOK, WorkerStates
<1>2. /\ Held({"scan", "send"})' = Held({"scan", "send"})
      /\ Held({"scan", "send", "done"})' = Held({"scan", "send", "done"})
  BY <1>1 DEF Held
<1>3. InFlight' = InFlight
  BY <1>1, <1>2 DEF InFlight
<1>4. OneHolder'
  BY <1>1 DEF OneHolder, ScanDomain
<1>5. OneVerdict'
  BY <1>1, <1>2 DEF OneVerdict, ScanDomain
<1>6. ClosesInOrder'
  BY <1>1, <1>3 DEF ClosesInOrder, ScanDomain
<1>7. TypeOK'
  BY <1>1 DEF TypeOK, ScanDomain
<1> QED
  BY <1>3, <1>4, <1>5, <1>6, <1>7, CountKept DEF ScanDomain

\* The handler takes a result: the domain has its verdict, its first.
LEMMA SendResultKeepsIInv ==
  ASSUME PoolIInv, NEW w \in Workers, SendResult(w)
  PROVE  PoolIInv'
<1> USE DEF PoolIInv
<1> DEFINE d == workers[w].domain
           v == workers[w].verdict
<1>1. /\ Offered' = Offered
      /\ workers' \in [Workers -> WorkerStates]
      /\ workers[w].pc = "send" /\ workers'[w].pc = "done"
      /\ workers'[w].domain = d /\ workers'[w].verdict = v
      /\ \A x \in Workers \ {w} : workers'[x] = workers[x]
  BY DEF SendResult, Offered, TypeOK, WorkerStates
<1>2. /\ d \in PolicyStates \ (unsent \cup Offered)
      /\ v \in Verdicts
      /\ \A x \in Workers \ {w} : workers[x].pc \in HasDomain => workers[x].domain # d
  BY <1>1 DEF OneHolder, HasDomain
<1>3. /\ Held({"scan", "send"})' = Held({"scan", "send"}) \ {d}
      /\ Held({"scan", "send", "done"})' = Held({"scan", "send", "done"})
      /\ d \in Held({"scan", "send"})
  BY <1>1, <1>2 DEF Held, HasDomain
<1>4. InFlight' = InFlight
  BY <1>1, <1>3 DEF InFlight
<1>5. collected[d] = <<>>
  BY <1>2, <1>3 DEF OneVerdict
<1>6. collected' = [collected EXCEPT ![d] = <<v>>]
  <2>1. Append(<<>>, v) = <<v>>
    OBVIOUS
  <2> QED
    BY <1>5, <2>1 DEF SendResult
<1>7. OneHolder'
  BY <1>1 DEF OneHolder, SendResult
<1>8. OneVerdict'
  <2>1. collected'[d] = <<v>> /\ \A x \in PolicyStates \ {d} : collected'[x] = collected[x]
    BY <1>2, <1>6 DEF TypeOK
  <2>2. unsent' \cup Offered' \cup Held({"scan", "send"})'
        = (unsent \cup Offered \cup Held({"scan", "send"})) \ {d}
    BY <1>1, <1>2, <1>3 DEF SendResult
  <2> QED
    BY <1>2, <2>1, <2>2 DEF OneVerdict
<1>9. ClosesInOrder'
  BY <1>1, <1>4 DEF ClosesInOrder, SendResult
<1>10. TypeOK'
  <2>1. <<v>> \in Seq(Verdicts)
    BY <1>2
  <2> QED
    BY <1>1, <1>2, <1>6, <2>1 DEF TypeOK, SendResult
<1> QED
  BY <1>4, <1>7, <1>8, <1>9, <1>10, CountKept DEF SendResult

\* wg.Done: the domain is not in flight any more, and the counter was not zero.
LEMMA DoneKeepsIInv ==
  ASSUME PoolIInv, NEW w \in Workers, Done(w)
  PROVE  PoolIInv'
<1> USE DEF PoolIInv
<1> DEFINE d == workers[w].domain
<1>1. /\ Offered' = Offered
      /\ Receiving \in WorkerStates
      /\ workers' \in [Workers -> WorkerStates]
      /\ workers[w].pc = "done" /\ workers'[w].pc = "receive"
      /\ \A x \in Workers \ {w} : workers'[x] = workers[x]
  BY DEF Done, Offered, TypeOK, WorkerStates, Receiving
<1>2. /\ d \in PolicyStates \ (unsent \cup Offered)
      /\ \A x \in Workers \ {w} : workers[x].pc \in HasDomain => workers[x].domain # d
  BY <1>1 DEF OneHolder, HasDomain
<1>3. /\ Held({"scan", "send"})' = Held({"scan", "send"})
      /\ Held({"scan", "send", "done"})' = Held({"scan", "send", "done"}) \ {d}
      /\ d \in Held({"scan", "send", "done"})
  BY <1>1, <1>2 DEF Held, HasDomain
<1>4. InFlight' = InFlight \ {d} /\ d \in InFlight
  BY <1>1, <1>2, <1>3 DEF InFlight
<1>5. OneHolder'
  BY <1>1 DEF OneHolder, Done
<1>6. OneVerdict'
  BY <1>1, <1>3 DEF OneVerdict, Done
<1>7. ClosesInOrder'
  BY <1>1, <1>4 DEF ClosesInOrder, Done
<1>8. /\ wg' = Cardinality(InFlight')
      /\ wg' \in 0..Cardinality(PolicyStates)
  <2>1. /\ IsFiniteSet(InFlight)
        /\ Cardinality(InFlight) \in 0..Cardinality(PolicyStates)
        /\ Cardinality(PolicyStates) \in Nat
    BY InFlightCounts, ScanPipelineAssumption, FS_CardinalityType
  <2>2. /\ Cardinality(InFlight \ {d}) = Cardinality(InFlight) - 1
        /\ Cardinality(InFlight \ {d}) \in Nat
    BY <1>4, <2>1, FS_RemoveElement, FS_CardinalityType
  <2> QED
    BY <1>4, <2>1, <2>2 DEF Done
<1>9. TypeOK'
  BY <1>1, <1>8 DEF TypeOK, Done
<1> QED
  BY <1>5, <1>6, <1>7, <1>8, <1>9

\* wg.Wait returns when nothing is in flight.
LEMMA WaitKeepsIInv ==
  ASSUME PoolIInv, Wait
  PROVE  PoolIInv'
<1> USE DEF PoolIInv
<1>1. InFlight = {}
  BY InFlightCounts, FS_EmptySet DEF Wait, Waited
<1>2. /\ Offered' = Offered /\ InFlight' = InFlight
      /\ Held({"scan", "send"})' = Held({"scan", "send"})
  BY DEF Wait, Offered, InFlight, Held
<1>3. OneHolder' /\ OneVerdict'
  BY <1>2 DEF OneHolder, OneVerdict, Wait
<1>4. ClosesInOrder'
  BY <1>1, <1>2 DEF ClosesInOrder, Wait, TypeOK, Senders
<1>5. TypeOK'
  BY DEF TypeOK, Wait, Senders
<1> QED
  BY <1>2, <1>3, <1>4, <1>5, CountKept DEF Wait

\* The channels are closed with nothing in flight.
LEMMA CloseKeepsIInv ==
  ASSUME PoolIInv,
         \/ Close("closeStates", "domainStates", "closeResults")
         \/ Close("closeResults", "statesAndIssues", "ended")
  PROVE  PoolIInv'
<1> USE DEF PoolIInv
<1>1. /\ Offered' = Offered /\ InFlight' = InFlight
      /\ Held({"scan", "send"})' = Held({"scan", "send"})
  BY DEF Close, Offered, InFlight, Held, TypeOK, Senders
<1>2. OneHolder' /\ OneVerdict'
  BY <1>1 DEF OneHolder, OneVerdict, Close
<1>3. ClosesInOrder'
  BY <1>1 DEF ClosesInOrder, Close, TypeOK, Senders
<1>4. TypeOK'
  BY DEF TypeOK, Close, Senders
<1> QED
  BY <1>1, <1>2, <1>3, <1>4, CountKept DEF Close

\* A worker ends, which has no domain, or the handler goes on.
LEMMA EndKeepsIInv ==
  ASSUME PoolIInv, (\E w \in Workers : EndWorker(w)) \/ EndCollecting
  PROVE  PoolIInv'
<1> USE DEF PoolIInv
<1>1. CASE \E w \in Workers : EndWorker(w)
  <2>1. PICK w \in Workers : EndWorker(w)
    BY <1>1
  <2>2. /\ Offered' = Offered
        /\ workers' \in [Workers -> WorkerStates]
        /\ workers[w].pc = "receive" /\ workers'[w].pc = "ended"
        /\ \A x \in Workers \ {w} : workers'[x] = workers[x]
    BY <2>1 DEF EndWorker, Offered, TypeOK, WorkerStates
  <2>3. /\ Held({"scan", "send"})' = Held({"scan", "send"})
        /\ InFlight' = InFlight
    BY <2>2 DEF Held, InFlight
  <2>4. OneHolder' /\ OneVerdict' /\ ClosesInOrder' /\ TypeOK'
    BY <2>1, <2>2, <2>3 DEF OneHolder, OneVerdict, ClosesInOrder, TypeOK, EndWorker
  <2> QED
    BY <2>1, <2>3, <2>4, CountKept DEF EndWorker
<1>2. CASE EndCollecting
  <2>1. /\ Offered' = Offered /\ InFlight' = InFlight
        /\ Held({"scan", "send"})' = Held({"scan", "send"})
    BY <1>2 DEF EndCollecting, Offered, InFlight, Held
  <2>2. OneHolder' /\ OneVerdict' /\ ClosesInOrder' /\ TypeOK'
    BY <1>2, <2>1 DEF OneHolder, OneVerdict, ClosesInOrder, TypeOK, EndCollecting
  <2> QED
    BY <1>2, <2>1, <2>2, CountKept DEF EndCollecting
<1> QED
  BY <1>1, <1>2

\* Every step keeps the inductive invariant.
LEMMA NextKeepsIInv == PoolIInv /\ [Next]_vars => PoolIInv'
<1> SUFFICES ASSUME PoolIInv, [Next]_vars PROVE PoolIInv'
  OBVIOUS
<1>1. CASE SenderStep
  BY <1>1, AddKeepsIInv, WaitKeepsIInv, CloseKeepsIInv DEF SenderStep
<1>2. CASE \E w \in Workers : WorkerStep(w)
  BY <1>2, SendDomainKeepsIInv, ScanDomainKeepsIInv, SendResultKeepsIInv, DoneKeepsIInv,
     EndKeepsIInv DEF WorkerStep
<1>3. CASE EndCollecting
  BY <1>3, EndKeepsIInv
<1>4. CASE UNCHANGED vars
  <2>1. /\ Offered' = Offered /\ InFlight' = InFlight
        /\ Held({"scan", "send"})' = Held({"scan", "send"})
    BY <1>4 DEF vars, InFlight, Held, Offered
  <2>2. OneHolder' /\ OneVerdict' /\ ClosesInOrder' /\ TypeOK'
    BY <1>4, <2>1 DEF vars, PoolIInv, OneHolder, OneVerdict, ClosesInOrder, TypeOK
  <2> QED
    BY <1>4, <2>1, <2>2 DEF vars, PoolIInv
<1> QED
  BY <1>1, <1>2, <1>3, <1>4 DEF Next

\* The counter is the number of domains in flight, which are in one hand each;
\* every other domain has its one verdict or waits to be sent.
THEOREM PoolCounts == Spec => []PoolIInv
<1>1. Init => PoolIInv
  BY InitPool
<1>2. PoolIInv /\ [Next]_vars => PoolIInv'
  BY NextKeepsIInv
<1> QED
  BY <1>1, <1>2, PTL DEF Spec

\* No goroutine panics: a worker never has a result to send on the closed
\* channel statesAndIssues.
THEOREM SendsWhileOpen == Spec => []NeverSendsOnClosed
<1>1. PoolIInv => NeverSendsOnClosed
  BY DEF PoolIInv, ClosesInOrder, InFlight, Held, NeverSendsOnClosed
<1> QED
  BY <1>1, PoolCounts, PTL

-----------------------------------------------------------------------------
(* The refinement of ScanResults. *)

\* What the handler has seen of the results: nothing until it goes on.
Seen == IF handler = "proceed" THEN collected ELSE [d \in PolicyStates |-> <<>>]

\* When the handler goes on, every domain has its verdict.
LEMMA AllCollected ==
  ASSUME PoolIInv, "statesAndIssues" \notin open
  PROVE  /\ collected \in [PolicyStates -> {<<v>> : v \in Verdicts}]
         /\ \A w \in Workers : workers[w].pc # "send"
<1>1. unsent = {} /\ Offered = {} /\ Held({"scan", "send", "done"}) = {}
  BY DEF PoolIInv, ClosesInOrder, InFlight
<1>2. Held({"scan", "send"}) = {}
  BY <1>1 DEF Held
<1>3. \A d \in PolicyStates : collected[d] \in {<<v>> : v \in Verdicts}
  BY <1>1, <1>2 DEF PoolIInv, OneVerdict
<1> QED
  BY <1>1, <1>3 DEF PoolIInv, TypeOK, Held

\* A step of the pool is a step of ScanResults or leaves the results alone.
LEMMA StepCollects ==
  ASSUME PoolIInv, [Next]_vars
  PROVE  [ScanResults!Collect]_Seen
<1>1. CASE EndCollecting
  <2>1. Seen = [d \in PolicyStates |-> <<>>] /\ Seen' = collected
    BY <1>1 DEF EndCollecting, Seen
  <2>2. collected \in [PolicyStates -> {<<v>> : v \in Verdicts}]
    BY <1>1, AllCollected DEF EndCollecting
  <2> QED
    BY <2>1, <2>2 DEF ScanResults!Collect, ScanResults!NoResults, Seen
<1>2. CASE ~EndCollecting
  <2>1. handler' = handler /\ (handler = "proceed" => collected' = collected)
    BY <1>2 DEF Next, SenderStep, WorkerStep, AddDomain, Wait, Close, SendDomain, ScanDomain,
                SendResult, Done, EndWorker, vars
  <2> QED
    BY <2>1 DEF Seen
<1> QED
  BY <1>1, <1>2

\* The pool, with its channels and its counter, implements one step that finds
\* one verdict on every domain: what RemoveIneligible takes for granted.
THEOREM PoolImplementsScan == Spec => CollectsEveryDomain
<1>1. Init => ScanResults!Init
  BY DEF Init, ScanResults!Init, ScanResults!NoResults
<1>2. PoolIInv /\ [Next]_vars => [ScanResults!Collect]_Seen
  BY StepCollects
<1> QED
  BY <1>1, <1>2, PoolCounts, PTL DEF Spec, CollectsEveryDomain, ScanResults!Spec, Seen
=============================================================================
