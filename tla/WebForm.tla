------------------------------ MODULE WebForm ------------------------------
(***************************************************************************)
(* The submission page and the removal page (frontend/static/js), together *)
(* with the site they talk to.  A page checks the one domain it was loaded *)
(* for: it asks for the status and the eligibility, and shows the results  *)
(* and perhaps a form if its input still names that domain by then.  The   *)
(* form can be sent any number of times, and tells success from failure    *)
(* by the errors in the answer.  Everybody else uses the site meanwhile,   *)
(* and the user may edit the input or load the page anew at any moment.    *)
(*                                                                         *)
(* The page calls status and removable, which go through the cache: what   *)
(* the user sees is old by the time the form is sent in any case, so the   *)
(* cache is left out.  Of the ancestors it is kept that they can make an   *)
(* unknown domain preloaded; removable, which then objects, may miss them  *)
(* when its reads fail.  An answer that is not JSON never settles a        *)
(* promise, so nothing says that an answer comes.                          *)
(***************************************************************************)
EXTENDS PreloadSite

CONSTANTS Pages,       \* pages open in browsers
          Subdomains,  \* domains of which an ancestor may be preloaded
          NoDomain     \* not a domain

ASSUME WebFormAssumption == Subdomains \subseteq Domains /\ NoDomain \notin Domains

VARIABLE pages       \* pages[p]: a page

siteVars == vars

webVars == <<siteVars, pages>>

Inputs == Domains \cup {NoDomain}

(***************************************************************************)
(* A page: what it is for, "submit" or "remove"; the domain it was loaded  *)
(* for; what the input says now; whether the check is open, and the        *)
(* answers to it; the domain named in the results and in the form, if they *)
(* can be seen; the handlers whose answers it awaits; and whether the      *)
(* notices of success and failure are unhidden.  grounds is history: that  *)
(* the domain has been in one of the statuses of Grounds since the load.   *)
(***************************************************************************)
PageStates == [op : {"submit", "remove"}, domain : Inputs, input : Inputs,
               open : BOOLEAN, status : Statuses \cup {""}, eligible : {"", "yes", "no"},
               results : Inputs, form : Inputs, awaits : SUBSET Clients,
               success : BOOLEAN, failure : BOOLEAN, grounds : BOOLEAN]

NoPage == [op |-> "submit", domain |-> NoDomain, input |-> NoDomain,
           open |-> FALSE, status |-> "", eligible |-> "",
           results |-> NoDomain, form |-> NoDomain, awaits |-> {},
           success |-> FALSE, failure |-> FALSE, grounds |-> FALSE]

\* The statuses of a domain that is to be added, or not to stay on the list.
Grounds(op) == IF op = "submit" THEN {"pending", "preloaded"}
               ELSE {"unknown", "rejected", "removed", "pending-removal"}

WebInit == Init /\ pages = [p \in Pages |-> NoPage]

\* A page is loaded, as it is when the button that checks a domain is pressed.
Load(p, op, d) ==
    pages' = [pages EXCEPT ![p] =
       [NoPage EXCEPT !.op = op, !.domain = d, !.input = d, !.open = TRUE,
                      !.grounds = states[d].status \in Grounds(op)]]

\* Mutant: the form is not hidden with the results.
EditInputKeepingForm(p, d) ==
    pages' = [pages EXCEPT ![p].input = d, ![p].results = NoDomain,
                           ![p].success = FALSE, ![p].failure = FALSE]

\* Every edit of the input hides what the page shows of a domain.
EditInput(p, d) ==
    pages' = [pages EXCEPT ![p].input = d, ![p].results = NoDomain, ![p].form = NoDomain,
                           ![p].success = FALSE, ![p].failure = FALSE]

\* Mutant: outdated results are shown.
CurrentAlways(page) == page.domain # NoDomain

\* The input still names the domain that was checked.
Current(page) == page.domain = page.input

\* The statuses for which the page offers its form to an eligible domain.
Offers(op) == IF op = "submit" THEN Statuses \ {"pending", "preloaded"}
              ELSE {"pending", "preloaded"}

\* handleResults, called once both answers are there.
HandleResults(page) ==
    IF page.status = "" \/ page.eligible = "" THEN page
    ELSE [page EXCEPT
            !.open = FALSE, !.status = "", !.eligible = "",
            !.results = IF Current(page) THEN page.domain ELSE @,
            !.form = IF Current(page) /\ page.eligible = "yes" /\ page.status \in Offers(page.op)
                     THEN page.domain ELSE @]

\* The domain's own status, or, if that is unknown, perhaps an ancestor's.
StatusesOf(d) ==
    {states[d].status} \cup
    {s \in {"preloaded"} : d \in Subdomains /\ states[d].status = "unknown"}

\* The answer to the status request.
StatusAnswer(p) ==
    LET page == pages[p]
    IN  /\ page.open /\ page.status = ""
        /\ \E status \in StatusesOf(page.domain) :
              pages' = [pages EXCEPT ![p] = HandleResults([page EXCEPT !.status = status])]

\* The answer to preloadable or removable: the check of the site says either,
\* and removable adds an error if the domain is protected.
EligibleAnswer(p) ==
    LET page == pages[p]
    IN  /\ page.open /\ page.eligible = ""
        /\ \E eligible \in {"yes", "no"} :
              /\ page.op = "remove" /\ IsProtected(states[page.domain]) => eligible = "no"
              /\ pages' = [pages EXCEPT ![p] = HandleResults([page EXCEPT !.eligible = eligible])]

\* One of the requests fails: an empty result is shown, whatever comes later.
CheckFails(p) ==
    /\ pages[p].open
    /\ pages' = [pages EXCEPT ![p].open = FALSE, ![p].status = "", ![p].eligible = ""]

\* The form is sent, perhaps once more, and the handler's own check of the
\* site passes, or fails and is answered with its errors.
SubmitForm(p, c) ==
    /\ pages[p].form # NoDomain
    /\ \/ /\ CheckSite(c, pages[p].op, pages[p].form)
          /\ pages' = [pages EXCEPT ![p].awaits = @ \cup {c}]
       \/ /\ UNCHANGED <<states, ineligible, failures, requestVars>>
          /\ pages' = [pages EXCEPT ![p].failure = TRUE]
    /\ UNCHANGED <<updateVars, scanVars>>

\* A domain in the queue already, or not on the list it is to be removed from,
\* is only worth a warning.
OnlyWarned(r) ==
    states[r.domain].status \in IF r.op = "submit" THEN {"pending"} ELSE Grounds("remove")

\* Mutant: the error of PutState is not reported.
AnswersWithoutPutError(r, failed) ==
    {answer \in {"no errors", "errors", "none"} :
        CASE answer = "no errors" -> r.pc = "put" \/ (~failed /\ OnlyWarned(r))
          [] answer = "errors"    -> ~failed /\ r.pc = "read" /\ ~OnlyWarned(r)
          [] answer = "none"      -> failed}

\* What the page may get from the handler that r described when it ended.  Of
\* its failures only that of PutState is answered with JSON.
Answers(r, failed) ==
    {answer \in {"no errors", "errors", "none"} :
        CASE answer = "no errors" -> ~failed /\ (r.pc = "put" \/ OnlyWarned(r))
          [] answer = "errors"    -> IF r.pc = "put" THEN failed ELSE ~failed /\ ~OnlyWarned(r)
          [] answer = "none"      -> failed}

\* The page gets the answer of c.
Notice(page, c, answer) == [page EXCEPT !.awaits = @ \ {c},
                                        !.success = @ \/ answer = "no errors",
                                        !.failure = @ \/ answer = "errors"]

Observed(page) ==
    [page EXCEPT !.grounds = @ \/ /\ page.domain # NoDomain
                                  /\ states'[page.domain].status \in Grounds(page.op)]

\* A step of the site, whose answer, if there is one, reaches its page.
SiteStep ==
    /\ Next
    /\ LET ended == {c \in Clients : requests[c].pc # "idle" /\ requests'[c].pc = "idle"}
       IN  \E answer \in {"no errors", "errors", "none"} :
              /\ \A c \in ended : answer \in Answers(requests[c], failures' # failures)
              /\ ended = {} => answer = "none"
              /\ pages' = [p \in Pages |->
                    LET page == Observed(pages[p])
                    IN  IF pages[p].awaits \cap ended = {} THEN page
                        ELSE Notice(page, CHOOSE c \in ended : TRUE, answer)]

PageStep(p) ==
    \/ /\ \/ \E op \in {"submit", "remove"}, d \in Domains : Load(p, op, d)
          \/ \E d \in Inputs : EditInput(p, d)
          \/ StatusAnswer(p) \/ EligibleAnswer(p) \/ CheckFails(p)
       /\ UNCHANGED siteVars
    \/ \E c \in Clients : SubmitForm(p, c)

WebNext == SiteStep \/ \E p \in Pages : PageStep(p)

WebSpec == WebInit /\ [][WebNext]_webVars
-----------------------------------------------------------------------------
\* The pages are of the kinds the code makes them.
WebTypeOK == pages \in [Pages -> PageStates]

\* However edits of the input and the answers to a check and to the form
\* interleave, what a page shows of a domain, and offers to send, is about the
\* domain in its input; and a request that it awaits is for the domain whose
\* results it was loaded to show.
ShowsCurrentDomain ==
    \A p \in Pages :
        /\ {pages[p].results, pages[p].form} \subseteq {NoDomain, pages[p].input}
        /\ \A c \in pages[p].awaits : /\ requests[c].pc # "idle"
                                      /\ requests[c].op = pages[p].op
                                      /\ requests[c].domain = pages[p].domain

\* A notice of success is never unfounded: since the page was loaded, the
\* domain has been pending or preloaded, or, on the removal page, pending
\* removal or off the list.  No error, no request sent twice, no answer to a
\* request made on an earlier page leads to one.
SuccessIsFounded == \A p \in Pages : pages[p].success => pages[p].grounds

\* The inductive invariant: SuccessIsFounded holds because a request that is
\* about to be written will put its domain where a success says it is, and
\* because what a page shows and awaits is about the domain it was loaded for.
WebIInv ==
    /\ TypeOK /\ WebTypeOK
    /\ ShowsCurrentDomain /\ SuccessIsFounded
    /\ \A p \in Pages : /\ {pages[p].results, pages[p].form} \subseteq {NoDomain, pages[p].domain}
                        /\ pages[p].open => pages[p].domain # NoDomain
    /\ \A c \in Clients :
          requests[c].pc = "put" => requests[c].state.status \in Grounds(requests[c].op)
=============================================================================
