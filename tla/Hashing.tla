------------------------------- MODULE Hashing -------------------------------
(***************************************************************************)
(* What dict.rs and set.rs share: hashes and equality of keys, and index   *)
(* tables with linear probing that are resized before they fill up.  A     *)
(* string's cached hash is KeyHash of the string.                          *)
(***************************************************************************)
EXTENDS Integers, FiniteSets

CONSTANTS
  Keys,           (* objects used as keys                                  *)
  KeyHash,        (* hash_object of each key                               *)
  EqualTo,        (* of a key, what keys_equal compares                    *)
  Sizes           (* sizes of tables, all powers of two                    *)

ASSUME KeyAssumption ==
  /\ Keys \subseteq DOMAIN KeyHash /\ \A k \in Keys : KeyHash[k] \in Nat
  /\ \A j, k \in Keys : EqualTo[j] = EqualTo[k] => KeyHash[j] = KeyHash[k]
ASSUME NullAssumption == Keys \cap {"NULL", "null", "dummy"} = {}
ASSUME SizeAssumption == IsFiniteSet(Sizes) /\ Sizes \subseteq Nat \ {0, 1} /\ Sizes # {}

EqualKeys(j, k) == EqualTo[j] = EqualTo[k]

Home(size, k) == KeyHash[k] % size

(* The slot that probing for k comes to after i others.                    *)
SlotAfter(size, k, i) ==
  IF Home(size, k) + i < size THEN Home(size, k) + i ELSE Home(size, k) + i - size

(* dk_usable_for_size, and the set's bound on fill.                        *)
Usable(size) == (size * 2) \div 3

(* The sizes with room for n; both resize to the smallest.                 *)
Fits(n) == {s \in Sizes : Usable(s) >= n}
=============================================================================
