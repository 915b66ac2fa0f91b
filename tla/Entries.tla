-------------------------------- MODULE Entries --------------------------------
(***************************************************************************)
(* The entries of dicts (PyDictKeyEntry): a key and a value, both NULL     *)
(* where an item was deleted.                                              *)
(***************************************************************************)
EXTENDS Hashing, Sequences

CONSTANTS
  Values,         (* objects                                               *)
  Sources         (* bound: the entries of dicts merged into this one      *)

DictItems   == [key : Keys, value : Values]
DictMembers == Keys \cup Values

Entry(k, v) == [key |-> k, value |-> v]
Gone        == Entry("NULL", "NULL")

ASSUME SourcesAssumption == Sources \subseteq Seq(DictItems \cup {Gone})
=============================================================================
