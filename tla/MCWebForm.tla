----------------------------- MODULE MCWebForm -----------------------------
(* Small instances of WebForm for TLC. *)
EXTENDS WebForm

CONSTANTS d1, c1, c2, u1, p1

\* Entries the list may have: none, or a bulk or a custom entry.
BulkAndCustom ==
    {ToEntry(UnknownState)} \cup
    {[mode |-> ForceHTTPS, includeSubDomains |-> TRUE, policy |-> p] : p \in {"bulk-1-year", "custom"}}

NoShards == [d \in Domains |-> "none"]
=============================================================================
