--------------------------- MODULE MCPreloadSite ---------------------------
(* Small instances of PreloadSite and SerialSite for TLC. *)
EXTENDS SerialSite

CONSTANTS d1, d2, c1, c2, u1, u2, range1, range2

\* Entries the list may have: none, a bulk entry, one of custom policy.
NoEntry     == [mode |-> "", includeSubDomains |-> FALSE, policy |-> ""]
BulkEntry   == [mode |-> ForceHTTPS, includeSubDomains |-> TRUE, policy |-> "bulk-1-year"]
CustomEntry == [mode |-> ForceHTTPS, includeSubDomains |-> FALSE, policy |-> "custom"]

BulkOnly      == {NoEntry, BulkEntry}
BulkAndCustom == {NoEntry, BulkEntry, CustomEntry}

\* d1 is in the first range; a second range holds the other domains, if any.
MCShardOf == [d \in Domains |-> IF d = d1 THEN range1 ELSE range2]

\* Every domain is in one range.
OneRange == [d \in Domains |-> range1]
=============================================================================
