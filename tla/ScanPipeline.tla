---------------------------- MODULE ScanPipeline ----------------------------
(***************************************************************************)
(* The goroutines with which RemoveIneligibleDomains                       *)
(* (api/domain_handlers.go) scans its domains: workers that receive a      *)
(* domain from the channel domainStates, scan it and send the result on    *)
(* the channel statesAndIssues; a goroutine that sends the domains, waits  *)
(* on the WaitGroup wg and closes both channels; and the handler, which    *)
(* collects results until statesAndIssues is closed.  Both channels are    *)
(* unbuffered, so a send is one step with the receive that takes it.       *)
(***************************************************************************)
EXTENDS Integers, Sequences, FiniteSets

CONSTANTS PolicyStates,  \* the domains to scan
          Workers,       \* the goroutines that scan (500)
          NoDomain       \* not a domain

ASSUME ScanPipelineAssumption == /\ IsFiniteSet(PolicyStates)
                                 /\ IsFiniteSet(Workers) /\ Workers # {}
                                 /\ NoDomain \notin PolicyStates

VARIABLES sender,     \* the goroutine that sends the domains
          unsent,     \* the domains it has still to go through
          wg,         \* the counter of the WaitGroup
          workers,    \* workers[w]: a goroutine that scans
          open,       \* the channels that are open
          handler,    \* what the handler does: it collects, or it went on
          collected   \* collected[d]: the verdicts on d collected, in order

vars == <<sender, unsent, wg, workers, open, handler, collected>>

\* The Issues of a scan have no errors, or some.
Verdicts == {"pass", "fail"}

Senders == [pc : {"next", "send", "closeStates", "closeResults", "ended"},
            domain : PolicyStates \cup {NoDomain}]

WorkerStates == [pc      : {"receive", "scan", "send", "done", "ended"},
                 domain  : PolicyStates \cup {NoDomain},
                 verdict : Verdicts \cup {""}]

Receiving == [pc |-> "receive", domain |-> NoDomain, verdict |-> ""]

Init == /\ sender = [pc |-> "next", domain |-> NoDomain]
        /\ unsent = PolicyStates
        /\ wg = 0
        /\ workers = [w \in Workers |-> Receiving]
        /\ open = {"domainStates", "statesAndIssues"}
        /\ handler = "collect"
        /\ collected = [d \in PolicyStates |-> <<>>]

\* The next domain of the map: wg.Add(1), before the domain is sent.
AddDomain(d) ==
    /\ sender.pc = "next"
    /\ d \in unsent
    /\ unsent' = unsent \ {d}
    /\ sender' = [pc |-> "send", domain |-> d]
    /\ wg' = wg + 1
    /\ UNCHANGED <<workers, open, handler, collected>>

\* domainStates <- d, received by w.
SendDomain(w) ==
    /\ sender.pc = "send"
    /\ workers[w].pc = "receive"
    /\ workers' = [workers EXCEPT ![w].pc = "scan", ![w].domain = sender.domain]
    /\ sender' = [pc |-> "next", domain |-> NoDomain]
    /\ UNCHANGED <<unsent, wg, open, handler, collected>>

\* Mutant: the channels are closed once the last domain is sent.
WaitForNothing == TRUE

\* wg.Wait() lets the sender go on.
Waited == wg = 0

\* All domains are sent and wg.Wait() returns.
Wait == /\ sender.pc = "next"
        /\ unsent = {}
        /\ Waited
        /\ sender' = [sender EXCEPT !.pc = "closeStates"]
        /\ UNCHANGED <<unsent, wg, workers, open, handler, collected>>

Close(pc, channel, next) ==
    /\ sender.pc = pc
    /\ sender' = [sender EXCEPT !.pc = next]
    /\ open' = open \ {channel}
    /\ UNCHANGED <<unsent, wg, workers, handler, collected>>

\* Mutant: wg.Done() is called as soon as the scan ends, and again later.
ScanDomainDone(w, v) ==
    /\ workers[w].pc = "scan"
    /\ workers' = [workers EXCEPT ![w].pc = "send", ![w].verdict = v]
    /\ wg' = wg - 1
    /\ UNCHANGED <<sender, unsent, open, handler, collected>>

\* EligibleDomain finds v; its own timeouts bound how long it takes.
ScanDomain(w, v) ==
    /\ workers[w].pc = "scan"
    /\ workers' = [workers EXCEPT ![w].pc = "send", ![w].verdict = v]
    /\ UNCHANGED <<sender, unsent, wg, open, handler, collected>>

\* statesAndIssues <- the result, received by the handler.
SendResult(w) ==
    LET d == workers[w].domain
    IN  /\ workers[w].pc = "send"
        /\ "statesAndIssues" \in open
        /\ handler = "collect"
        /\ collected' = [collected EXCEPT ![d] = Append(@, workers[w].verdict)]
        /\ workers' = [workers EXCEPT ![w].pc = "done"]
        /\ UNCHANGED <<sender, unsent, wg, open, handler>>

\* Mutant: wg.Done() is forgotten.
DoneForgotten(w) ==
    /\ workers[w].pc = "done"
    /\ workers' = [workers EXCEPT ![w] = Receiving]
    /\ UNCHANGED <<sender, unsent, wg, open, handler, collected>>

\* wg.Done(), after the result is sent.
Done(w) ==
    /\ workers[w].pc = "done"
    /\ wg' = wg - 1
    /\ workers' = [workers EXCEPT ![w] = Receiving]
    /\ UNCHANGED <<sender, unsent, open, handler, collected>>

\* The range over domainStates ends when it is closed.
EndWorker(w) ==
    /\ workers[w].pc = "receive"
    /\ "domainStates" \notin open
    /\ workers' = [workers EXCEPT ![w].pc = "ended"]
    /\ UNCHANGED <<sender, unsent, wg, open, handler, collected>>

\* So does the handler's range over statesAndIssues.
EndCollecting ==
    /\ handler = "collect"
    /\ "statesAndIssues" \notin open
    /\ handler' = "proceed"
    /\ UNCHANGED <<sender, unsent, wg, workers, open, collected>>

SenderStep == \/ \E d \in PolicyStates : AddDomain(d)
              \/ Wait
              \/ Close("closeStates", "domainStates", "closeResults")
              \/ Close("closeResults", "statesAndIssues", "ended")

WorkerStep(w) == \/ SendDomain(w)
                 \/ \E v \in Verdicts : ScanDomain(w, v)
                 \/ SendResult(w)
                 \/ Done(w)
                 \/ EndWorker(w)

Next == \/ SenderStep
        \/ \E w \in Workers : WorkerStep(w)
        \/ EndCollecting

Spec == Init /\ [][Next]_vars

\* The Go scheduler runs every goroutine that can run.
FairSpec == /\ Spec
            /\ WF_vars(SenderStep)
            /\ \A w \in Workers : WF_vars(WorkerStep(w))
            /\ WF_vars(EndCollecting)
-----------------------------------------------------------------------------
\* The variables hold values of the kinds the code gives them; a WaitGroup
\* whose counter falls below zero panics.
TypeOK == /\ sender \in Senders
          /\ unsent \subseteq PolicyStates
          /\ wg \in 0..Cardinality(PolicyStates)
          /\ workers \in [Workers -> WorkerStates]
          /\ open \subseteq {"domainStates", "statesAndIssues"}
          /\ handler \in {"collect", "proceed"}
          /\ collected \in [PolicyStates -> Seq(Verdicts)]

\* A worker never sends on statesAndIssues when it is closed, and none waits
\* to send while it is closed: either would panic and end the server.
NeverSendsOnClosed ==
    "statesAndIssues" \notin open => \A w \in Workers : workers[w].pc # "send"

-----------------------------------------------------------------------------
(* The inductive invariant: what the counter counts and what is collected.   *)

\* The domain counted by wg that no worker has received yet.
Offered == IF sender.pc = "send" THEN {sender.domain} ELSE {}

\* The domains that workers in one of the states pcs have.
Held(pcs) == {workers[w].domain : w \in {w \in Workers : workers[w].pc \in pcs}}

\* The domains added to wg for which no worker has called wg.Done.
InFlight == Offered \cup Held({"scan", "send", "done"})

\* A domain is in one hand at a time.
OneHolder ==
    \A w \in Workers : workers[w].pc \in {"scan", "send", "done"} =>
        /\ workers[w].domain \in PolicyStates \ (unsent \cup Offered)
        /\ workers[w].pc # "scan" => workers[w].verdict \in Verdicts
        /\ \A x \in Workers \ {w} : workers[x].pc \in {"scan", "send", "done"}
                                   => workers[x].domain # workers[w].domain

\* A domain has its verdict once its result is sent, and none before.
OneVerdict ==
    \A d \in PolicyStates : IF d \in unsent \cup Offered \cup Held({"scan", "send"})
                            THEN collected[d] = <<>>
                            ELSE \E v \in Verdicts : collected[d] = <<v>>

\* The sender offers domains it has taken from the map, closes the channels
\* one after the other when all results are collected, and the handler goes
\* on after that.
ClosesInOrder ==
    /\ sender.pc = "send" => sender.domain \in PolicyStates \ unsent
    /\ sender.pc \in {"closeStates", "closeResults", "ended"} => unsent = {} /\ InFlight = {}
    /\ "statesAndIssues" \notin open => sender.pc = "ended"
    /\ handler = "proceed" => "statesAndIssues" \notin open

\* The counter of the WaitGroup is the number of domains in flight, so that
\* wg.Wait returns neither too early nor never; each of them is in one hand,
\* and the others have one verdict or are still to be sent.
PoolIInv == /\ TypeOK
            /\ wg = Cardinality(InFlight)
            /\ OneHolder
            /\ OneVerdict
            /\ ClosesInOrder
-----------------------------------------------------------------------------
ScanResults == INSTANCE ScanResults WITH
    results <- IF handler = "proceed" THEN collected ELSE [d \in PolicyStates |-> <<>>]

\* However the goroutines interleave, when the handler goes on it has exactly
\* one verdict on every domain of the run: none is lost by closing early, none
\* scanned twice.
CollectsEveryDomain == ScanResults!Spec

\* The handler gets to the end of the results, and no goroutine is left behind
\* blocked on a channel.
EverythingEnds == <>[](/\ handler = "proceed"
                       /\ sender.pc = "ended"
                       /\ \A w \in Workers : workers[w].pc = "ended")
=============================================================================
