--------------------------- MODULE WebFormProofs ---------------------------
(* What a page shows is about the domain in its input, and no success that  *)
(* it shows is unfounded, for every number of pages, domains, requests and  *)
(* runs of the site.                                                        *)
EXTENDS WebForm, PreloadSiteProofs

\* What a step of the site does with the request of a client c: nothing; or it
\* accepts a new one; or decides what to write; or ends, and then, unless a call
\* failed, what it was to write is stored, or nothing was changed.
Accepts(c) == requests[c].pc = "idle" /\ requests'[c].pc = "read"

Decides(c) == /\ requests[c].pc = "read" /\ requests'[c].pc = "put"
              /\ requests'[c].op = requests[c].op
              /\ requests'[c].domain = requests[c].domain
              /\ requests'[c].state.status \in Grounds(requests[c].op)

Ends(c) == /\ requests[c].pc # "idle" /\ requests'[c].pc = "idle"
           /\ failures' = failures =>
                IF requests[c].pc = "put"
                THEN states'[requests[c].domain] = requests[c].state
                ELSE states' = states

\* One request moves, or none.
OneMoves == \/ requests' = requests
            \/ \E c \in Clients : /\ Accepts(c) \/ Decides(c) \/ Ends(c)
                                  /\ \A other \in Clients \ {c} : requests'[other] = requests[other]

\* A step of the site moves at most one request.
LEMMA SiteMovesOne ==
  ASSUME TypeOK, Next
  PROVE  OneMoves
<1>1. /\ requests \in [Clients -> Requests]
      /\ states \in [Domains -> DomainStates]
      /\ failures \in Nat
      /\ MaxFailures \in Nat
  BY DatastoreAssumption DEF TypeOK, UserRequestsTypeOK, DatastoreTypeOK
<1>2. CASE UNCHANGED requestVars
  BY <1>2 DEF requestVars, OneMoves
<1>3. CASE UserRequestsNext
  <2>1. PICK c \in Clients :
          \/ \E op \in {"submit", "remove"}, d \in Domains : CheckSite(c, op, d)
          \/ ReadState(c)
          \/ PutState(c)
          \/ FailRequest(c)
    BY <1>3 DEF UserRequestsNext
  <2>2. Idle.pc = "idle"
    BY DEF Idle
  <2>3. \A other \in Clients \ {c} : requests'[other] = requests[other]
    BY <1>1, <2>1 DEF CheckSite, ReadState, PutState, FailRequest
  <2>4. CASE \E op \in {"submit", "remove"}, d \in Domains : CheckSite(c, op, d)
    <3>1. Accepts(c)
      BY <1>1, <2>4 DEF CheckSite, Accepts, Idle
    <3> QED
      BY <2>3, <3>1 DEF OneMoves
  <2>5. CASE ReadState(c)
    <3> DEFINE r == requests[c]
               s == states[r.domain]
    <3>1. r \in Requests /\ r.pc = "read" /\ UNCHANGED <<states, failures>>
      BY <1>1, <2>5 DEF ReadState
    <3>2. CASE r.op = "submit" /\ requests' = [requests EXCEPT ![c].pc = "put",
                                                             ![c].state = SubmittedState(s)]
      <4>1. SubmittedState(s).status \in Grounds("submit")
        BY DEF SubmittedState, Grounds
      <4> QED
        BY <1>1, <2>3, <3>1, <3>2, <4>1 DEF OneMoves, Decides, Requests
    <3>3. CASE r.op = "remove" /\ requests' = [requests EXCEPT ![c].pc = "put",
                                                             ![c].state = RemovalState]
      <4>1. RemovalState.status \in Grounds("remove")
        BY DEF RemovalState, Grounds
      <4> QED
        BY <1>1, <2>3, <3>1, <3>3, <4>1 DEF OneMoves, Decides, Requests
    <3>4. CASE requests' = [requests EXCEPT ![c] = Idle]
      BY <1>1, <2>2, <2>3, <3>1, <3>4 DEF OneMoves, Ends
    <3> QED
      BY <2>5, <3>2, <3>3, <3>4 DEF ReadState
  <2>6. CASE PutState(c)
    <3>1. /\ requests[c].pc = "put" /\ requests[c].domain \in Domains
          /\ requests'[c].pc = "idle"
      BY <1>1, <2>2, <2>6 DEF PutState, Requests
    <3>2. states'[requests[c].domain] = requests[c].state
      BY <2>6, <3>1 DEF PutState, PutStates
    <3> QED
      BY <2>3, <3>1, <3>2 DEF OneMoves, Ends
  <2>7. CASE FailRequest(c)
    <3>1. failures' # failures
      BY <1>1, <2>7 DEF FailRequest, Fail
    <3>2. requests[c].pc # "idle" /\ requests'[c].pc = "idle"
      BY <1>1, <2>2, <2>7 DEF FailRequest
    <3> QED
      BY <2>3, <3>1, <3>2 DEF OneMoves, Ends
  <2> QED
    BY <2>1, <2>4, <2>5, <2>6, <2>7
<1> QED
  BY <1>2, <1>3 DEF Next
-----------------------------------------------------------------------------
(* The page's own steps.                                                    *)

\* What a page shows, awaits and claims is in order.
PageInOrder(page) ==
    /\ page \in PageStates
    /\ {page.results, page.form} \subseteq {NoDomain, page.input}
    /\ {page.results, page.form} \subseteq {NoDomain, page.domain}
    /\ page.open => page.domain # NoDomain
    /\ page.success => page.grounds
    /\ \A c \in page.awaits : /\ requests[c].pc # "idle"
                              /\ requests[c].op = page.op
                              /\ requests[c].domain = page.domain

\* What is about to be written is what a success will say.
PutsAreGrounds == \A c \in Clients :
    requests[c].pc = "put" => requests[c].state.status \in Grounds(requests[c].op)

\* The invariant, page by page.
LEMMA WebIInvParts ==
  WebIInv <=> /\ TypeOK
              /\ pages = [p \in Pages |-> pages[p]]
              /\ \A p \in Pages : PageInOrder(pages[p])
              /\ PutsAreGrounds
  BY DEF WebIInv, WebTypeOK, ShowsCurrentDomain, SuccessIsFounded, PageInOrder, PutsAreGrounds

\* The same after a step.
LEMMA WebIInvNext ==
  ASSUME TypeOK', pages' = [p \in Pages |-> pages'[p]],
         \A p \in Pages : PageInOrder(pages[p])', PutsAreGrounds'
  PROVE  WebIInv'
  BY DEF WebIInv, WebTypeOK, ShowsCurrentDomain, SuccessIsFounded, PageInOrder, PutsAreGrounds

\* A new value for one page, the requests being as they were.
LEMMA OnePageKeeps ==
  ASSUME WebIInv, NEW p \in Pages, NEW page, PageInOrder(page),
         pages' = [pages EXCEPT ![p] = page], UNCHANGED vars
  PROVE  WebIInv'
<1>1. TypeOK'
  BY TypeKept DEF WebIInv
<1>2. UNCHANGED requests
  BY DEF vars, requestVars
<1>3. \A q \in Pages : PageInOrder(pages[q])'
  <2> SUFFICES ASSUME NEW q \in Pages PROVE PageInOrder(pages[q])'
    OBVIOUS
  <2>1. PageInOrder(pages'[q])
    BY WebIInvParts
  <2> QED
    BY <1>2, <2>1 DEF PageInOrder
<1>4. PutsAreGrounds' /\ pages' = [q \in Pages |-> pages'[q]]
  BY <1>2, WebIInvParts DEF PutsAreGrounds
<1> QED
  BY <1>1, <1>3, <1>4, WebIInvNext

\* The handling of the results keeps a page in order.
LEMMA HandleResultsInOrder ==
  ASSUME NEW page, PageInOrder(page), page.domain # NoDomain
  PROVE  PageInOrder(HandleResults(page))
<1>1. CASE page.status = "" \/ page.eligible = ""
  BY <1>1 DEF HandleResults
<1>2. CASE ~(page.status = "" \/ page.eligible = "")
  <2>1. PICK results \in {page.results, page.domain}, form \in {page.form, page.domain} :
          /\ HandleResults(page) = [page EXCEPT !.open = FALSE, !.status = "", !.eligible = "",
                                               !.results = results, !.form = form]
          /\ results # page.results => page.domain = page.input
          /\ form # page.form => page.domain = page.input
    BY <1>2 DEF HandleResults, Current
  <2>2. page \in PageStates
    BY DEF PageInOrder
  <2>3. results \in Inputs /\ form \in Inputs
    BY <2>2 DEF PageStates
  <2>4. HandleResults(page) \in PageStates
    BY <2>1, <2>2, <2>3 DEF PageStates
  <2> DEFINE handled == HandleResults(page)
  <2>5. /\ handled.domain = page.domain /\ handled.input = page.input
        /\ handled.results = results /\ handled.form = form
        /\ handled.open = FALSE /\ handled.op = page.op
        /\ handled.success = page.success /\ handled.grounds = page.grounds
        /\ handled.awaits = page.awaits
    BY <2>1, <2>2 DEF PageStates
  <2> HIDE DEF handled
  <2>6. PageInOrder(handled)
    BY <2>1, <2>4, <2>5 DEF PageInOrder, handled
  <2> QED
    BY <2>6 DEF handled
<1> QED
  BY <1>1, <1>2

\* Loads, edits and answers to the check: the steps that leave the site alone.
LEMMA PageStepKeeps ==
  ASSUME WebIInv, NEW p \in Pages, UNCHANGED siteVars,
         \/ \E op \in {"submit", "remove"}, d \in Domains : Load(p, op, d)
         \/ \E d \in Inputs : EditInput(p, d)
         \/ StatusAnswer(p) \/ EligibleAnswer(p) \/ CheckFails(p)
  PROVE  WebIInv'
<1> DEFINE page == pages[p]
<1>1. PageInOrder(page) /\ UNCHANGED vars
  BY WebIInvParts DEF siteVars
<1>2. states \in [Domains -> DomainStates]
  BY DEF WebIInv, TypeOK, DatastoreTypeOK
<1>3. CASE \E op \in {"submit", "remove"}, d \in Domains : Load(p, op, d)
  <2>1. PICK op \in {"submit", "remove"}, d \in Domains : Load(p, op, d)
    BY <1>3
  <2> DEFINE loaded(g) == [NoPage EXCEPT !.op = op, !.domain = d, !.input = d, !.open = TRUE,
                                         !.grounds = g]
  <2>2. \A g \in BOOLEAN : PageInOrder(loaded(g))
    <3> SUFFICES ASSUME NEW g \in BOOLEAN PROVE PageInOrder(loaded(g))
      OBVIOUS
    <3>1. loaded(g) \in PageStates
      BY DEF NoPage, PageStates, Inputs
    <3>2. /\ loaded(g).results = NoDomain /\ loaded(g).form = NoDomain
          /\ loaded(g).domain = d /\ loaded(g).success = FALSE /\ loaded(g).awaits = {}
      BY DEF NoPage
    <3> HIDE DEF loaded
    <3> QED
      BY <3>1, <3>2, WebFormAssumption DEF PageInOrder
  <2>3. CASE states[d].status \in Grounds(op)
    <3>1. pages' = [pages EXCEPT ![p] = loaded(TRUE)]
      BY <2>1, <2>3 DEF Load
    <3> QED
      BY <1>1, <2>2, <3>1, OnePageKeeps
  <2>4. CASE states[d].status \notin Grounds(op)
    <3>1. (states[d].status \in Grounds(op)) = FALSE
      BY <2>4, SMT
    <3>2. pages' = [pages EXCEPT ![p] = loaded(FALSE)]
      BY <2>1, <3>1, Zenon DEF Load
    <3> QED
      BY <1>1, <2>2, <3>2, OnePageKeeps
  <2> QED
    BY <2>3, <2>4
<1>4. CASE \E d \in Inputs : EditInput(p, d)
  <2>1. PICK d \in Inputs : EditInput(p, d)
    BY <1>4
  <2> DEFINE edited == [page EXCEPT !.input = d, !.results = NoDomain, !.form = NoDomain,
                                    !.success = FALSE, !.failure = FALSE]
  <2>2. pages' = [pages EXCEPT ![p] = edited]
    BY <2>1 DEF EditInput
  <2>3. PageInOrder(edited)
    BY <1>1 DEF PageInOrder, PageStates, Inputs
  <2> QED
    BY <1>1, <2>2, <2>3, OnePageKeeps
<1>5. CASE StatusAnswer(p)
  <2>1. PICK status \in StatusesOf(page.domain) :
          pages' = [pages EXCEPT ![p] = HandleResults([page EXCEPT !.status = status])]
    BY <1>5 DEF StatusAnswer
  <2> DEFINE answered == [page EXCEPT !.status = status]
  <2>2. page.open /\ page.domain \in Domains
    BY <1>1, <1>5 DEF StatusAnswer, PageInOrder, PageStates, Inputs
  <2>3. status \in Statuses
    BY <1>2, <2>1, <2>2 DEF StatusesOf, DomainStates, Statuses
  <2>4. PageInOrder(answered) /\ answered.domain # NoDomain
    BY <1>1, <2>2, <2>3 DEF PageInOrder, PageStates
  <2> QED
    BY <1>1, <2>1, <2>4, HandleResultsInOrder, OnePageKeeps
<1>6. CASE EligibleAnswer(p)
  <2>1. PICK eligible \in {"yes", "no"} :
          pages' = [pages EXCEPT ![p] = HandleResults([page EXCEPT !.eligible = eligible])]
    BY <1>6 DEF EligibleAnswer
  <2> DEFINE answered == [page EXCEPT !.eligible = eligible]
  <2>2. page.open
    BY <1>6 DEF EligibleAnswer
  <2>3. PageInOrder(answered) /\ answered.domain # NoDomain
    BY <1>1, <2>2 DEF PageInOrder, PageStates
  <2> QED
    BY <1>1, <2>1, <2>3, HandleResultsInOrder, OnePageKeeps
<1>7. CASE CheckFails(p)
  <2> DEFINE failed == [page EXCEPT !.open = FALSE, !.status = "", !.eligible = ""]
  <2>1. pages' = [pages EXCEPT ![p] = failed]
    BY <1>7 DEF CheckFails
  <2>2. PageInOrder(failed)
    BY <1>1 DEF PageInOrder, PageStates
  <2> QED
    BY <1>1, <2>1, <2>2, OnePageKeeps
<1> QED
  BY <1>3, <1>4, <1>5, <1>6, <1>7

\* The form is sent: the handler that accepts it is one that no page awaits.
LEMMA SubmitFormKeeps ==
  ASSUME WebIInv, NEW p \in Pages, NEW c \in Clients, SubmitForm(p, c)
  PROVE  WebIInv'
<1> DEFINE page == pages[p]
<1>1. PageInOrder(page) /\ page.form # NoDomain
  BY WebIInvParts DEF SubmitForm
<1>2. page.form = page.domain /\ page.form \in Domains /\ page.op \in {"submit", "remove"}
  BY <1>1 DEF PageInOrder, PageStates, Inputs
<1>3. CASE /\ CheckSite(c, page.op, page.form)
           /\ pages' = [pages EXCEPT ![p].awaits = @ \cup {c}]
  <2>1. TypeOK'
    BY <1>2, <1>3, TypeKept DEF WebIInv, SubmitForm, Next, UserRequestsNext
  <2>2. requests \in [Clients -> Requests]
    BY DEF WebIInv, TypeOK, UserRequestsTypeOK
  <2>3. /\ requests[c].pc = "idle" /\ requests'[c].pc = "read"
        /\ requests'[c].op = page.op /\ requests'[c].domain = page.domain
        /\ \A other \in Clients \ {c} : requests'[other] = requests[other]
    BY <1>2, <1>3, <2>2 DEF CheckSite, Idle
  <2>4. \A q \in Pages : PageInOrder(pages[q]) /\ c \notin pages[q].awaits
                         /\ pages[q].awaits \subseteq Clients
    BY <2>3, WebIInvParts DEF PageInOrder, PageStates
  <2>5. \A q \in Pages : PageInOrder(pages[q])'
    <3> SUFFICES ASSUME NEW q \in Pages PROVE PageInOrder(pages[q])'
      OBVIOUS
    <3>1. CASE q # p
      <4>1. pages'[q] = pages[q]
        BY <1>3, <3>1, WebIInvParts
      <4>2. \A a \in pages[q].awaits : requests'[a] = requests[a] /\ requests[a].pc # "idle"
        BY <2>3, <2>4 DEF PageInOrder
      <4> QED
        BY <2>4, <4>1, <4>2 DEF PageInOrder
    <3>2. CASE q = p
      <4>1. pages'[p] = [page EXCEPT !.awaits = @ \cup {c}]
        BY <1>3, WebIInvParts
      <4>2. \A a \in page.awaits : requests'[a] = requests[a]
        BY <2>3, <2>4
      <4> HIDE DEF page
      <4>3. page \in PageStates
        BY <1>1 DEF PageInOrder
      <4>4. page.awaits \cup {c} \in SUBSET Clients
        BY <4>3 DEF PageStates
      <4>5. pages'[p] \in PageStates
        BY <4>1, <4>3, <4>4 DEF PageStates
      <4>6. /\ pages'[p].op = page.op /\ pages'[p].domain = page.domain
            /\ pages'[p].input = page.input /\ pages'[p].open = page.open
            /\ pages'[p].results = page.results /\ pages'[p].form = page.form
            /\ pages'[p].success = page.success /\ pages'[p].grounds = page.grounds
            /\ pages'[p].awaits = page.awaits \cup {c}
        BY <4>1, <4>3 DEF PageStates
      <4> QED
        BY <1>1, <2>3, <3>2, <4>2, <4>5, <4>6 DEF PageInOrder
    <3> QED
      BY <3>1, <3>2
  <2>6. PutsAreGrounds'
    BY <2>3, WebIInvParts DEF PutsAreGrounds
  <2>7. pages' = [q \in Pages |-> pages'[q]]
    BY <1>3, WebIInvParts
  <2> QED
    BY <2>1, <2>5, <2>6, <2>7, WebIInvNext
<1>4. CASE /\ UNCHANGED <<states, ineligible, failures, requestVars>>
           /\ pages' = [pages EXCEPT ![p].failure = TRUE]
  <2>1. UNCHANGED vars
    BY <1>4 DEF SubmitForm, vars
  <2>2. PageInOrder([page EXCEPT !.failure = TRUE])
    BY <1>1 DEF PageInOrder, PageStates
  <2> QED
    BY <1>4, <2>1, <2>2, OnePageKeeps
<1> QED
  BY <1>3, <1>4 DEF SubmitForm
-----------------------------------------------------------------------------
(* The site's steps, and the theorems.                                      *)

\* A page that observes a step of the site stays as it is, but that it may have
\* found its grounds.
LEMMA ObservedInOrder ==
  ASSUME NEW page, PageInOrder(page)
  PROVE  /\ PageInOrder(Observed(page))
         /\ Observed(page).awaits = page.awaits /\ Observed(page).op = page.op
         /\ Observed(page).domain = page.domain /\ Observed(page).success = page.success
  BY DEF PageInOrder, PageStates, Observed

\* An answer without errors is founded: the handler stored what it was to store,
\* or found the domain there already.
LEMMA AnswerIsFounded ==
  ASSUME TypeOK, PutsAreGrounds, NEW page, PageInOrder(page), NEW c \in page.awaits,
         Ends(c), "no errors" \in Answers(requests[c], failures' # failures)
  PROVE  Observed(page).grounds
<1>1. /\ requests[c].op = page.op /\ requests[c].domain = page.domain
      /\ page \in PageStates /\ c \in Clients
  BY DEF PageInOrder, PageStates
<1>2. requests[c] \in Requests
  BY <1>1 DEF TypeOK, UserRequestsTypeOK
<1>3. /\ page.domain \in Domains /\ page.domain # NoDomain
      /\ page.op \in {"submit", "remove"}
  BY <1>1, <1>2, WebFormAssumption DEF Requests
<1>4. failures' = failures /\ (requests[c].pc = "put" \/ OnlyWarned(requests[c]))
  BY DEF Answers
<1>5. states'[page.domain].status \in Grounds(page.op)
  <2>1. CASE requests[c].pc = "put"
    BY <1>1, <1>3, <1>4, <2>1 DEF Ends, PutsAreGrounds
  <2>2. CASE requests[c].pc # "put" /\ OnlyWarned(requests[c])
    BY <1>1, <1>3, <1>4, <2>2 DEF Ends, OnlyWarned, Grounds
  <2> QED
    BY <1>4, <2>1, <2>2
<1> QED
  BY <1>1, <1>3, <1>5 DEF Observed, PageStates

\* A step of the site keeps every page in order: it moves one request at most,
\* and if that ends, the page that awaits it learns what it may.
LEMMA SiteStepKeepsPages ==
  ASSUME WebIInv, SiteStep
  PROVE  WebIInv'
<1> DEFINE ended == {c \in Clients : requests[c].pc # "idle" /\ requests'[c].pc = "idle"}
<1>1. TypeOK /\ TypeOK' /\ Next /\ PutsAreGrounds /\ OneMoves
  BY TypeKept, SiteMovesOne, WebIInvParts DEF SiteStep
<1>2. PICK answer \in {"no errors", "errors", "none"} :
        /\ \A c \in ended : answer \in Answers(requests[c], failures' # failures)
        /\ ended = {} => answer = "none"
        /\ pages' = [p \in Pages |->
              LET page == Observed(pages[p])
              IN  IF pages[p].awaits \cap ended = {} THEN page
                  ELSE Notice(page, CHOOSE c \in ended : TRUE, answer)]
  BY DEF SiteStep
<1>3. \A c \in Clients \ ended : \/ requests'[c] = requests[c]
                                 \/ Accepts(c)
                                 \/ Decides(c)
  BY <1>1 DEF OneMoves, Ends
<1>4. PutsAreGrounds'
  BY <1>1, <1>3 DEF PutsAreGrounds, Accepts, Decides
<1>5. \A p \in Pages : PageInOrder(pages[p])'
  <2> SUFFICES ASSUME NEW p \in Pages PROVE PageInOrder(pages[p])'
    OBVIOUS
  <2> DEFINE page == Observed(pages[p])
  <2>1. /\ PageInOrder(pages[p]) /\ PageInOrder(page)
        /\ page.awaits = pages[p].awaits /\ page.awaits \subseteq Clients
        /\ page.success = pages[p].success
    BY WebIInvParts, ObservedInOrder DEF PageInOrder, PageStates
  <2> HIDE DEF page
  <2>2. \A c \in page.awaits \ ended : /\ requests'[c].pc # "idle"
                                       /\ requests'[c].op = requests[c].op
                                       /\ requests'[c].domain = requests[c].domain
    BY <1>3, <2>1 DEF PageInOrder, Accepts, Decides
  <2>3. CASE pages[p].awaits \cap ended = {}
    <3>1. pages'[p] = page
      BY <1>2, <2>3 DEF page
    <3> QED
      BY <2>1, <2>2, <2>3, <3>1 DEF PageInOrder
  <2>4. CASE pages[p].awaits \cap ended # {}
    <3>1. PICK c \in pages[p].awaits : c \in ended
      BY <2>4
    <3>2. Ends(c) /\ ended = {c}
      BY <1>1, <3>1 DEF OneMoves, Accepts, Decides, Ends
    <3>3. pages'[p] = Notice(page, c, answer)
      <4>1. (CHOOSE a \in ended : TRUE) = c
        BY <3>2
      <4> QED
        BY <1>2, <2>4, <4>1 DEF page
    <3>4. answer = "no errors" => page.grounds
      BY <1>1, <1>2, <2>1, <3>1, <3>2, AnswerIsFounded DEF page
    <3>5. pages'[p] = [page EXCEPT !.awaits = @ \ {c},
                                   !.success = @ \/ answer = "no errors",
                                   !.failure = @ \/ answer = "errors"]
      BY <3>3 DEF Notice
    <3>6. page \in PageStates
      BY <2>1 DEF PageInOrder
    <3>7. PICK success \in BOOLEAN, failure \in BOOLEAN :
            /\ pages'[p] = [page EXCEPT !.awaits = @ \ {c}, !.success = success,
                                        !.failure = failure]
            /\ success = (page.success \/ answer = "no errors")
      BY <3>5
    <3>8. page.awaits \ {c} \in SUBSET Clients
      BY <2>1
    <3>9. /\ pages'[p] \in PageStates
          /\ pages'[p].op = page.op /\ pages'[p].domain = page.domain
          /\ pages'[p].input = page.input /\ pages'[p].open = page.open
          /\ pages'[p].results = page.results /\ pages'[p].form = page.form
          /\ pages'[p].success = success /\ pages'[p].grounds = page.grounds
          /\ pages'[p].awaits = page.awaits \ {c}
      <4>1. pages'[p] \in PageStates
        BY <3>6, <3>7, <3>8 DEF PageStates
      <4>2. /\ pages'[p].op = page.op /\ pages'[p].domain = page.domain
            /\ pages'[p].input = page.input /\ pages'[p].open = page.open
            /\ pages'[p].results = page.results /\ pages'[p].form = page.form
            /\ pages'[p].success = success /\ pages'[p].grounds = page.grounds
            /\ pages'[p].awaits = page.awaits \ {c}
        BY <3>6, <3>7 DEF PageStates
      <4> QED
        BY <4>1, <4>2
    <3>10. pages'[p].success => pages'[p].grounds
      BY <2>1, <3>4, <3>7, <3>9 DEF PageInOrder
    <3>11. \A a \in pages'[p].awaits : a \in page.awaits \ ended
      BY <3>2, <3>9
    <3>12. \A a \in pages'[p].awaits : /\ requests'[a].pc # "idle"
                                       /\ requests'[a].op = pages'[p].op
                                       /\ requests'[a].domain = pages'[p].domain
      <4> SUFFICES ASSUME NEW a \in pages'[p].awaits
                   PROVE  /\ requests'[a].pc # "idle"
                          /\ requests'[a].op = pages'[p].op
                          /\ requests'[a].domain = pages'[p].domain
        OBVIOUS
      <4>1. a \in page.awaits \ ended
        BY <3>11
      <4>2. /\ requests'[a].pc # "idle"
            /\ requests'[a].op = requests[a].op
            /\ requests'[a].domain = requests[a].domain
        BY <2>2, <4>1
      <4>3. requests[a].op = page.op /\ requests[a].domain = page.domain
        BY <2>1, <4>1 DEF PageInOrder
      <4> QED
        BY <3>9, <4>2, <4>3
    <3>13. /\ {pages'[p].results, pages'[p].form} \subseteq {NoDomain, pages'[p].input}
           /\ {pages'[p].results, pages'[p].form} \subseteq {NoDomain, pages'[p].domain}
           /\ pages'[p].open => pages'[p].domain # NoDomain
      BY <2>1, <3>9 DEF PageInOrder
    <3> QED
      BY <3>9, <3>10, <3>12, <3>13 DEF PageInOrder
  <2> QED
    BY <2>3, <2>4
<1>6. pages' = [p \in Pages |-> pages'[p]]
  BY <1>2
<1> QED
  BY <1>1, <1>4, <1>5, <1>6, WebIInvNext

\* No page is loaded at first.
LEMMA WebInitIInv == WebInit => WebIInv
<1> SUFFICES ASSUME WebInit PROVE WebIInv
  OBVIOUS
<1>1. TypeOK /\ \A c \in Clients : requests[c].pc = "idle"
  BY InitType DEF WebInit, Init, UserRequestsInit, Idle
<1>2. PageInOrder(NoPage)
  BY DEF PageInOrder, NoPage, PageStates, Inputs
<1> QED
  BY <1>1, <1>2, WebIInvParts DEF WebInit, PutsAreGrounds

\* No step breaks the invariant.
LEMMA WebIInvStays == WebIInv /\ [WebNext]_webVars => WebIInv'
<1>1. WebIInv /\ SiteStep => WebIInv'
  BY SiteStepKeepsPages
<1>2. \A p \in Pages : WebIInv /\ PageStep(p) => WebIInv'
  BY PageStepKeeps, SubmitFormKeeps DEF PageStep
<1>3. ASSUME WebIInv, UNCHANGED webVars
      PROVE  WebIInv'
  <2>1. UNCHANGED vars /\ UNCHANGED pages
    BY <1>3 DEF webVars, siteVars
  <2>2. TypeOK' /\ UNCHANGED requests
    BY <1>3, <2>1, TypeKept DEF WebIInv, vars, requestVars
  <2> QED
    BY <1>3, <2>1, <2>2 DEF WebIInv, WebTypeOK, ShowsCurrentDomain, SuccessIsFounded
<1> QED
  BY <1>1, <1>2, <1>3 DEF WebNext

\* Everything a page shows, awaits and has learned is in order at all times.
THEOREM PagesInOrder == WebSpec => []WebIInv
  BY WebInitIInv, WebIInvStays, PTL DEF WebSpec

\* What a page shows of a domain, and offers to send, is about the domain in its
\* input, and a request it awaits is for the domain whose results it shows.
THEOREM PagesShowCurrent == WebSpec => []ShowsCurrentDomain
  BY PagesInOrder, PTL DEF WebIInv

\* No failure, no request sent twice and no late answer makes a page show an
\* unfounded success.
THEOREM SuccessesFounded == WebSpec => []SuccessIsFounded
  BY PagesInOrder, PTL DEF WebIInv
=============================================================================
