---------------------------- MODULE MCListCycle ----------------------------
(* Small instances of ListCycle for TLC. *)
EXTENDS ListCycle

CONSTANTS d1, c1, c2, u1

\* Entries the list may have: none, or a bulk entry.
BulkOnly == {ToEntry(UnknownState), AddedEntry}

NoShards == [d \in Domains |-> "none"]
=============================================================================
