---------------------------- MODULE MCUpdateList ----------------------------
(* Small instances of UpdateList for TLC. *)
EXTENDS UpdateList

CONSTANTS d1, d2, d3

\* A list with a bulk and a custom entry; d3 is not on it.
SmallLists == {<<d2, EndOfBulk, d1>>}
=============================================================================
