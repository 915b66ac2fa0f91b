---------------------------------- MODULE Set ----------------------------------
(***************************************************************************)
(* The set (src/types/set.rs): a table of keys with open addressing, first *)
(* inside the object and then on the heap, with dummies for discarded      *)
(* keys.  Each call is one action: it runs with the lock held and calls    *)
(* nothing back.  set_resize's loop is an action per slot; nothing else    *)
(* touches the set until it has ended.                                     *)
(***************************************************************************)
EXTENDS Hashing, Sequences, FiniteSetsExt

VARIABLES
  table,          (* table and mask: [size, slots]                         *)
  inline,         (* table points to smalltable                            *)
  heapTables,     (* tables allocated and not freed                        *)
  fill,
  active,         (* used                                                  *)
  setHeld,        (* references the set owns, by its increfs and decrefs   *)
  old,            (* in set_resize: <<the table it replaces>>, else <<>>   *)
  scanned,        (* its slots that were gone over                         *)
  adding          (* the key that PySet_Add resizes for                    *)

(* With two slots a table would fill up; set.rs starts with eight.         *)
ASSUME SetSizeAssumption == 2 \notin Sizes

resizeVars == <<old, scanned, adding>>
setVars       == <<table, inline, heapTables, fill, active, setHeld, resizeVars>>

NoKey  == "null"
DummyKey == "dummy"

Small == Min(Sizes)    (* SMALLTABLE_SIZE *)

EmptyTable(size) == [size |-> size, slots |-> [s \in 0..size - 1 |-> NoKey]]

IsActive(x) == x \notin {NoKey, DummyKey}
Slots(t)    == 0..t.size - 1
Active(t)   == {s \in Slots(t) : IsActive(t.slots[s])}

SetSeen(t, k, i) == t.slots[SlotAfter(t.size, k, i)]

(* set_lookup stops at an empty slot or at k.                              *)
SetStop(t, k) ==
  Min({i \in Slots(t) : SetSeen(t, k, i) = NoKey \/ (IsActive(SetSeen(t, k, i)) /\ EqualKeys(SetSeen(t, k, i), k))})

(* The slot of k, or the first dummy on the way to an empty slot, or that. *)
Lookup(t, k) ==
  LET dummies == {i \in 0..SetStop(t, k) - 1 : SetSeen(t, k, i) = DummyKey}
  IN  SlotAfter(t.size, k, IF SetSeen(t, k, SetStop(t, k)) = NoKey /\ dummies # {} THEN Min(dummies) ELSE SetStop(t, k))

(* set_resize puts a key in the first empty slot.                          *)
Place(t, k) ==
  LET free == Min({i \in Slots(t) : SetSeen(t, k, i) = NoKey})
  IN  [t EXCEPT !.slots[SlotAfter(t.size, k, free)] = k]

IsHeap(size) == IF size = Small THEN 0 ELSE 1

-----------------------------------------------------------------------------

SetInit ==
  /\ table = EmptyTable(Small) /\ inline = TRUE /\ heapTables = 0
  /\ fill = 0 /\ active = 0
  /\ setHeld = [k \in Keys |-> 0]
  /\ old = <<>> /\ scanned = 0 /\ adding = <<>>

SetIdle == old = <<>>

Crowded == fill * 3 >= table.size * 2

(* The key goes to the slot the search ends at, unless it is there.        *)
AddKey(k) ==
  LET slot  == Lookup(table, k)
      found == table.slots[slot]
  IN  \/ IsActive(found) /\ UNCHANGED <<table, fill, active, setHeld>>
      \/ /\ ~IsActive(found)
         /\ table' = [table EXCEPT !.slots[slot] = k]
         /\ fill' = fill + (IF found = DummyKey THEN 0 ELSE 1)
         /\ active' = active + 1
         /\ setHeld' = [setHeld EXCEPT ![k] = @ + 1]

(* set_resize(s, used + 1): the smallest table that fits; the active keys  *)
(* are copied first, since the new table may be the old one's memory.      *)
SetStartResize(k) ==
  /\ Fits(active + 1) # {}
  /\ table' = EmptyTable(Min(Fits(active + 1)))
  /\ inline' = (table'.size = Small)
  /\ heapTables' = heapTables + IsHeap(table'.size)
  /\ fill' = 0 /\ active' = 0
  /\ old' = <<[table |-> table, inline |-> inline]>> /\ scanned' = 0 /\ adding' = <<k>>
  /\ UNCHANGED setHeld

MoveKey ==
  /\ old # <<>> /\ scanned < old[1].table.size
  /\ LET x == old[1].table.slots[scanned]
     IN  IF IsActive(x)
         THEN table' = Place(table, x) /\ fill' = fill + 1 /\ active' = active + 1
         ELSE UNCHANGED <<table, fill, active>>
  /\ scanned' = scanned + 1
  /\ UNCHANGED <<inline, heapTables, setHeld, old, adding>>

(* Mutant: the old table is not freed.                                     *)
SetEndResizeLeaky ==
  /\ old # <<>> /\ scanned = old[1].table.size
  /\ AddKey(adding[1])
  /\ old' = <<>> /\ scanned' = 0 /\ adding' = <<>>
  /\ UNCHANGED <<inline, heapTables>>

SetEndResize ==
  /\ old # <<>> /\ scanned = old[1].table.size
  /\ heapTables' = heapTables - (IF old[1].inline THEN 0 ELSE 1)
  /\ AddKey(adding[1])
  /\ old' = <<>> /\ scanned' = 0 /\ adding' = <<>>
  /\ UNCHANGED inline

(* The resize comes before the question whether the key is there.          *)
PySet_Add(k) ==
  /\ SetIdle
  /\ \/ ~Crowded /\ AddKey(k) /\ UNCHANGED <<inline, heapTables, resizeVars>>
     \/ Crowded /\ SetStartResize(k)

(* Mutant: the reference of the key asked for is given up, not that of the *)
(* member.                                                                 *)
PySet_DiscardWrong(k) ==
  LET slot == Lookup(table, k)
  IN  /\ SetIdle /\ IsActive(table.slots[slot])
      /\ setHeld' = [setHeld EXCEPT ![k] = @ - 1]
      /\ table' = [table EXCEPT !.slots[slot] = DummyKey]
      /\ active' = active - 1
      /\ UNCHANGED <<inline, heapTables, fill, resizeVars>>

PySet_Discard(k) ==
  LET slot == Lookup(table, k)
  IN  /\ SetIdle /\ IsActive(table.slots[slot])
      /\ setHeld' = [setHeld EXCEPT ![table.slots[slot]] = @ - 1]
      /\ table' = [table EXCEPT !.slots[slot] = DummyKey]
      /\ active' = active - 1
      /\ UNCHANGED <<inline, heapTables, fill, resizeVars>>

(* What set_dealloc, set_clear_tp and PySet_Clear give up.                 *)
Released ==
  [k \in Keys |-> setHeld[k] - Cardinality({s \in Active(table) : table.slots[s] = k})]

(* After set_dealloc the state is that of another set.                     *)
PySet_Clear ==
  /\ SetIdle
  /\ setHeld' = Released
  /\ heapTables' = heapTables - (IF inline THEN 0 ELSE 1)
  /\ table' = EmptyTable(Small) /\ inline' = TRUE
  /\ fill' = 0 /\ active' = 0
  /\ UNCHANGED resizeVars

SetNext == PySet_Clear \/ MoveKey \/ SetEndResize \/ \E k \in Keys : PySet_Add(k) \/ PySet_Discard(k)

SetSpec == SetInit /\ [][SetNext]_setVars

-----------------------------------------------------------------------------

SetTableType(t) ==
  t \in [size : Sizes, slots : [Slots(t) -> Keys \cup {NoKey, DummyKey}]]

SetTypeOK ==
  /\ SetTableType(table)
  /\ inline \in BOOLEAN /\ heapTables \in Nat
  /\ fill \in Nat /\ active \in Nat
  /\ setHeld \in [Keys -> Nat]
  /\ \/ old = <<>> /\ scanned = 0 /\ adding = <<>>
     \/ /\ Len(old) = 1 /\ SetTableType(old[1].table) /\ old[1].inline \in BOOLEAN
        /\ scanned \in 0..old[1].table.size
        /\ Len(adding) = 1 /\ adding \in Seq(Keys)

(* set_lookup and set_resize, which have no other end, come to an empty    *)
(* slot.                                                                   *)
SetProbingEnds == \E s \in Slots(table) : table.slots[s] = NoKey

(* Each member is found under its key, whatever was discarded before it.   *)
SetEntriesFound == \A s \in Active(table) : Lookup(table, table.slots[s]) = s

(* fill counts the slots that are not empty, used the members; the resize  *)
(* and len() rely on them.  The tables on the heap are the one in use and, *)
(* in a resize, the one it replaces.                                       *)
SetCountsExact ==
  /\ fill = Cardinality({s \in Slots(table) : table.slots[s] # NoKey})
  /\ active = Cardinality(Active(table))
  /\ inline = (table.size = Small)
  /\ heapTables = (IF inline THEN 0 ELSE 1) + (IF old = <<>> \/ old[1].inline THEN 0 ELSE 1)

(* The slots of the old table that a resize has yet to come to.            *)
Left == IF old = <<>> THEN {} ELSE {s \in Active(old[1].table) : s >= scanned}

(* One reference per member, to the object that is in the table and not to *)
(* an equal one; a resize moves them.                                      *)
SetHoldsItsMembers ==
  \A k \in Keys :
    setHeld[k] = Cardinality({s \in Active(table) : table.slots[s] = k})
                 + Cardinality({s \in Left : old[1].table.slots[s] = k})

(* The table is a set.                                                     *)
Members  == {table.slots[s] : s \in Active(table)} \cup {old[1].table.slots[s] : s \in Left}
FiniteSet == INSTANCE SetContract WITH members <- Members
ImplementsSet == FiniteSet!Spec
=============================================================================
