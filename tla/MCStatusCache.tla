--------------------------- MODULE MCStatusCache ---------------------------
(* Small instances of StatusCache for TLC. *)
EXTENDS StatusCache

CONSTANTS sub, site, tld, r1, r2

\* sub is a subdomain of site, which is one of the top-level domain tld; a
\* smaller instance has some of them.
Chain(d) == CASE d = sub -> <<site, tld>> [] d = site -> <<tld>> [] d = tld -> <<>>

MCAncestors == [d \in Domains |-> SelectSeq(Chain(d), LAMBDA a : a \in Domains)]

\* With subdomains by the site itself, without them by a custom entry.
Preloaded(subs) == [UnknownState EXCEPT !.status = "preloaded", !.includeSubDomains = subs,
                                        !.policy = IF subs THEN "bulk-1-year" ELSE "custom"]
Pending         == [UnknownState EXCEPT !.status = "pending", !.submissionDate = "submission"]

PreloadedOrNot == {UnknownState, Preloaded(TRUE), Preloaded(FALSE)}
PendingOrNot   == {UnknownState, Pending}
=============================================================================
