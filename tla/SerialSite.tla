----------------------------- MODULE SerialSite -----------------------------
(***************************************************************************)
(* The site while its handlers happen not to overlap.  Nothing in the code *)
(* ensures that; it is what the handlers are written for, and what they    *)
(* keep then they lose only by their interleaving.                         *)
(***************************************************************************)
EXTENDS PreloadSite

\* The handlers at work.
AtWork ==      {<<"request", c>> : c \in {c \in Clients : requests[c].pc # "idle"}}
          \cup {<<"update", u>> : u \in {u \in Updaters : updates[u].pc # "idle"}}
          \cup {<<"scan", s>> : s \in {s \in Shards : runs[s].pc # "idle"}}

\* At most one handler is at work.
Serial == \A h, i \in AtWork : h = i

SerialSpec == Init /\ [][Next /\ Serial']_vars
-----------------------------------------------------------------------------
(* Properties of steps *)

\* A run of Update that nothing overlaps, and of which no call fails, leaves
\* the database as the list it fetched says: however many batches it took, a
\* domain is marked as listed, with the list's policy, exactly if it is.
UpdateInstallsList ==
    [][\A u \in Updaters :
          /\ updates[u].pc # "idle" /\ updates'[u].pc = "idle"
          /\ failures' = failures
          => InSync(states', updates[u].entries)]_vars

StatusSeen == [d \in Domains |-> states[d].status]

AskedSeen == {<<requests[c].op, requests[c].domain>> :
                 c \in {c \in Clients : requests[c].pc # "idle"}}

Lifecycle == INSTANCE Lifecycle WITH status <- StatusSeen, asked <- AskedSeen

\* When handlers do not overlap, the three steps of a request, the steps and
\* batches of Update and those of the scans implement Lifecycle, where each is
\* one step: for one, only an owner's submission, never Update, takes a domain
\* that awaits its removal back to preloaded.
SerialLifecycle == Lifecycle!Spec
-----------------------------------------------------------------------------
(* The inductive invariant: what a handler has read is what is stored, until *)
(* it writes itself.                                                         *)

\* What a run of Update has found when it has asked for some statuses.
FoundWith(asked) ==
    [d \in Domains |-> IF states[d].status \in asked THEN states[d] ELSE UnknownState]

RequestInOrder(r) ==
    r.pc = "put" => \/ /\ r.op = "submit" /\ CanSubmit(states[r.domain])
                       /\ r.state = SubmittedState(states[r.domain])
                    \/ /\ r.op = "remove" /\ CanRemove(states[r.domain])
                       /\ r.state = RemovalState

\* What is still to be written follows from what is stored, and what has been
\* written, or need not be, agrees with the list.
UpdateInOrder(job) ==
    /\ job.pc \in {"idle", "preloaded"} => job.domainStates = FoundWith({})
    /\ job.pc = "pending-removal" => job.domainStates = FoundWith({"preloaded"})
    /\ job.pc = "pending-automated-removal"
       => job.domainStates = FoundWith({"preloaded", "pending-removal"})
    /\ job.pc = "put"
       => \A d \in Domains :
             IF d \in job.todo
             THEN /\ d \in Changed(job.entries, FoundWith(ListedStatuses))
                  /\ job.domainStates[d] = Reconciled(job.entries[d], FoundWith(ListedStatuses)[d])
             ELSE Agrees(states[d], job.entries[d])

NeverListed == {"unknown", "rejected"}

\* A domain that has been scanned, or is to be, has been listed or queued.
ScannedOnceKnown ==
    \A d \in Domains :
        /\ states[d].status \in NeverListed => states[d].policy = "" /\ failedScans[d] = {}
        /\ \A s \in Shards : d \in runs[s].policyStates => states[d].status \notin NeverListed

\* Nobody changes what the handler at work has read.
WorksUndisturbed == /\ Serial
                    /\ \A c \in Clients : RequestInOrder(requests[c])
                    /\ \A u \in Updaters : UpdateInOrder(updates[u])
                    /\ ScannedOnceKnown
=============================================================================
