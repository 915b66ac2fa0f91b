--------------------------------- MODULE Dict ---------------------------------
(***************************************************************************)
(* The dict (src/types/dict.rs): entries in the order of insertion, and an *)
(* index table with open addressing that maps hashes to entries.  A        *)
(* deleted entry leaves a hole in the entries and DUMMY in the table.      *)
(*                                                                         *)
(* Loops are actions of one iteration each (dict_resize, PyDict_Update,    *)
(* PyDict_Copy); nothing else touches the dict until a loop has ended,     *)
(* since the lock is held and RawPyObject::decref calls nothing back.      *)
(* me_hash is KeyHash of the key.  ma_version_tag is left out.             *)
(***************************************************************************)
EXTENDS Entries, Integers, Sequences, SequencesExt, FiniteSets, FiniteSetsExt

CONSTANT DictKeys (* bound: the keys that calls on a dict are given        *)

ASSUME DictKeysAssumption == DictKeys \subseteq Keys

VARIABLES
  keys,           (* ma_keys: size, indices, entries, usable               *)
  used,           (* ma_used                                               *)
  grown,          (* in dict_resize: <<new_keys>>, else <<>>               *)
  moved,          (* its loop variable                                     *)
  pending,        (* the item that PyDict_SetItem resizes for              *)
  merge,          (* entries PyDict_Update or PyDict_Copy have to go over  *)
  copying,        (* it is PyDict_Copy that goes over them                 *)
  held,           (* references the dict owns, by its increfs and decrefs  *)
  pos,            (* of an iteration with PyDict_Next, or NoIter           *)
  due             (* the keys it has to come to                            *)

loopVars == <<grown, moved, pending, merge, copying>>
iterVars == <<pos, due>>
dictVars     == <<keys, used, held, loopVars, iterVars>>

EMPTY  == -1
DUMMY  == -2
NoIter == -1

-----------------------------------------------------------------------------
(* Tables.                                                                 *)

NewKeys(size) ==
  [size |-> size, indices |-> [s \in 0..size - 1 |-> EMPTY], entries |-> <<>>, usable |-> Usable(size)]

LiveIn(t) == {i \in DOMAIN t.entries : t.entries[i] # Gone}

(* The slot that probing for k looks at after i others.                    *)
Probe(t, k, i) == SlotAfter(t.size, k, i)
Seen(t, k, i)  == t.indices[Probe(t, k, i)]

Matches(t, k, ix) ==
  /\ ix >= 0
  /\ t.entries[ix + 1] # Gone
  /\ EqualKeys(t.entries[ix + 1].key, k)

(* find_slot: it stops at an empty slot or at k's entry; a new entry goes  *)
(* to the first dummy on the way.                                          *)
Stops(t, k)   == {i \in 0..t.size - 1 : Seen(t, k, i) = EMPTY \/ Matches(t, k, Seen(t, k, i))}
Stop(t, k)    == Min(Stops(t, k))
Dummies(t, k) == {i \in 0..Stop(t, k) : Seen(t, k, i) = DUMMY}

(* Mutant: it stops at a dummy, too.                                       *)
FindAtDummy(t, k) ==
  LET i == Min({j \in 0..t.size - 1 : Seen(t, k, j) < 0 \/ Matches(t, k, Seen(t, k, j))})
  IN  Seen(t, k, i)

Find(t, k) == Seen(t, k, Stop(t, k))

FreeSlot(t, k) ==
  Probe(t, k, IF Dummies(t, k) = {} THEN Stop(t, k) ELSE Min(Dummies(t, k)))

(* Mutant: dk_usable is not counted down.                                  *)
PutUncounted(t, k, v) ==
  [t EXCEPT !.indices[FreeSlot(t, k)] = Len(t.entries), !.entries = Append(@, Entry(k, v))]

(* A new entry.                                                            *)
Put(t, k, v) ==
  [t EXCEPT !.indices[FreeSlot(t, k)] = Len(t.entries),
            !.entries = Append(@, Entry(k, v)),
            !.usable = @ - 1]

Same(o, x) == IF o = x THEN 1 ELSE 0

Idle == grown = <<>> /\ merge = <<>>

-----------------------------------------------------------------------------

DictInit ==
  /\ keys = NewKeys(Min(Sizes))
  /\ used = 0
  /\ grown = <<>> /\ moved = 0 /\ pending = <<>>
  /\ merge = <<>> /\ copying = FALSE
  /\ held = [o \in DictMembers |-> 0]
  /\ pos = NoIter /\ due = {}

(* PyDict_SetItem on a key that is there: the first key object stays.      *)
Replace(k, v) ==
  LET old == keys.entries[Find(keys, k) + 1].value
  IN  /\ keys' = [keys EXCEPT !.entries[Find(keys, k) + 1].value = v]
      /\ held' = [o \in DictMembers |-> held[o] + Same(o, v) - Same(o, old)]
      /\ UNCHANGED <<used, grown, moved, pending, iterVars>>

(* On a new key.  The caller's iteration is over.                          *)
Insert(t, k, v) ==
  /\ keys' = Put(t, k, v)
  /\ used' = used + 1
  /\ held' = [o \in DictMembers |-> held[o] + Same(o, k) + Same(o, v)]
  /\ grown' = <<>> /\ moved' = 0 /\ pending' = <<>>
  /\ pos' = NoIter /\ due' = {}

(* dict_resize(d, ma_used + 1): the smallest table that fits.              *)
StartResize(k, v) ==
  /\ Fits(used + 1) # {}
  /\ grown' = <<NewKeys(Min(Fits(used + 1)))>>
  /\ moved' = 0
  /\ pending' = <<Entry(k, v)>>
  /\ pos' = NoIter /\ due' = {}
  /\ UNCHANGED <<keys, used, held>>

MoveEntry ==
  /\ grown # <<>> /\ moved < Len(keys.entries)
  /\ LET e == keys.entries[moved + 1]
     IN  grown' = IF e = Gone THEN grown ELSE <<Put(grown[1], e.key, e.value)>>
  /\ moved' = moved + 1
  /\ UNCHANGED <<keys, used, held, pending, merge, copying, iterVars>>

EndResize ==
  /\ grown # <<>> /\ moved = Len(keys.entries)
  /\ Insert(grown[1], pending[1].key, pending[1].value)
  /\ copying' = (copying /\ merge # <<>>)
  /\ UNCHANGED merge

SetItem(k, v) ==
  \/ Find(keys, k) >= 0 /\ Replace(k, v)
  \/ Find(keys, k) < 0 /\ keys.usable > 0 /\ Insert(keys, k, v)
  \/ Find(keys, k) < 0 /\ keys.usable <= 0 /\ StartResize(k, v)

PyDict_SetItem(k, v) == Idle /\ SetItem(k, v) /\ UNCHANGED <<merge, copying>>

PyDict_SetDefault(k, v) == Find(keys, k) < 0 /\ PyDict_SetItem(k, v)

(* Mutant: the slot is emptied.                                            *)
DelItemEmpties(k) ==
  LET ix == Find(keys, k)
      e  == keys.entries[ix + 1]
  IN  /\ Idle /\ ix >= 0
      /\ keys' = [keys EXCEPT !.indices[Probe(keys, k, Stop(keys, k))] = EMPTY,
                              !.entries[ix + 1] = Gone]
      /\ used' = used - 1
      /\ held' = [o \in DictMembers |-> held[o] - Same(o, e.key) - Same(o, e.value)]
      /\ due' = due \ {e.key}
      /\ UNCHANGED <<loopVars, pos>>

(* PyDict_DelItem; _PyDict_Pop takes a reference to the value first.       *)
DelItem(k) ==
  LET ix == Find(keys, k)
      e  == keys.entries[ix + 1]
  IN  /\ Idle /\ ix >= 0
      /\ keys' = [keys EXCEPT !.indices[Probe(keys, k, Stop(keys, k))] = DUMMY,
                              !.entries[ix + 1] = Gone]
      /\ used' = used - 1
      /\ held' = [o \in DictMembers |-> held[o] - Same(o, e.key) - Same(o, e.value)]
      /\ due' = due \ {e.key}
      /\ UNCHANGED <<loopVars, pos>>

PyDict_Clear ==
  /\ Idle
  /\ keys' = NewKeys(Min(Sizes))
  /\ used' = 0
  /\ held' = [o \in DictMembers |->
                held[o] - Cardinality({i \in LiveIn(keys) : keys.entries[i].key = o})
                        - Cardinality({i \in LiveIn(keys) : keys.entries[i].value = o})]
  /\ pos' = NoIter /\ due' = {}
  /\ UNCHANGED loopVars

(* PyDict_Update(d, other), PyDict_Merge: SetItem for each entry of other  *)
(* that is not a hole.                                                     *)
PyDict_Update ==
  /\ Idle
  /\ merge' \in Sources
  /\ copying' = FALSE
  /\ UNCHANGED <<keys, used, held, grown, moved, pending, iterVars>>

MergeOne ==
  /\ grown = <<>> /\ merge # <<>>
  /\ \/ Head(merge) # Gone /\ SetItem(Head(merge).key, Head(merge).value)
     \/ Head(merge) = Gone /\ UNCHANGED <<keys, used, held, grown, moved, pending, iterVars>>
  /\ merge' = Tail(merge)
  /\ copying' = (copying /\ (merge' # <<>> \/ grown' # <<>>))

(* PyDict_Copy; from here on the dict is the copy.                         *)
PyDict_Copy ==
  /\ Idle
  /\ keys' = NewKeys(Min(Sizes))
  /\ used' = 0
  /\ held' = [o \in DictMembers |-> 0]
  /\ merge' = keys.entries
  /\ copying' = (merge' # <<>>)
  /\ pos' = NoIter /\ due' = {}
  /\ UNCHANGED <<grown, moved, pending>>

StartIter ==
  /\ Idle
  /\ pos' = 0
  /\ due' = {keys.entries[i].key : i \in LiveIn(keys)}
  /\ UNCHANGED <<keys, used, held, loopVars>>

(* Mutant: a hole ends the iteration.                                      *)
PyDict_NextToHole ==
  /\ Idle /\ pos # NoIter
  /\ IF pos < Len(keys.entries) /\ keys.entries[pos + 1] # Gone
     THEN pos' = pos + 1 /\ due' = due \ {keys.entries[pos + 1].key}
     ELSE pos' = Len(keys.entries) /\ due' = due
  /\ UNCHANGED <<keys, used, held, loopVars>>

(* PyDict_Next: the next entry that is not a hole, if there is one.        *)
PyDict_Next ==
  /\ Idle /\ pos # NoIter
  /\ LET rest == {i \in LiveIn(keys) : i > pos}
     IN  /\ rest # {}
         /\ pos' = Min(rest)
         /\ due' = due \ {keys.entries[Min(rest)].key}
  /\ UNCHANGED <<keys, used, held, loopVars>>

DictNext ==
  \/ \E k \in DictKeys :
       \/ DelItem(k)
       \/ \E v \in Values : PyDict_SetItem(k, v) \/ PyDict_SetDefault(k, v)
  \/ MoveEntry \/ EndResize
  \/ PyDict_Clear \/ PyDict_Update \/ MergeOne \/ PyDict_Copy
  \/ StartIter \/ PyDict_Next

DictSpec == DictInit /\ [][DictNext]_dictVars

-----------------------------------------------------------------------------
(* Properties.                                                             *)

TableType(t) ==
  /\ t \in [size    : Sizes,
           indices : [0..t.size - 1 -> {EMPTY, DUMMY} \cup 0..Len(t.entries) - 1],
           entries : Seq(DictItems \cup {Gone}),
           usable  : Nat]
  /\ Len(t.entries) + t.usable = Usable(t.size)

DictTypeOK ==
  /\ TableType(keys)
  /\ used \in Nat
  /\ \/ grown = <<>> /\ pending = <<>>
     \/ /\ Len(grown) = 1 /\ grown = <<grown[1]>> /\ TableType(grown[1])
        /\ Len(pending) = 1 /\ pending \in Seq(DictItems)
  /\ moved \in 0..Len(keys.entries)
  /\ merge \in Seq(DictItems \cup {Gone}) /\ copying \in BOOLEAN
  /\ held \in [DictMembers -> Nat]
  /\ pos \in {NoIter} \cup 0..Len(keys.entries)
  /\ due \subseteq Keys

Tables == {keys} \cup Range(grown)

(* Every search ends: an empty slot is left in every table, though deleted *)
(* entries never give theirs back and a dummy is reused.                   *)
DictProbingEnds == \A t \in Tables : \E s \in 0..t.size - 1 : t.indices[s] = EMPTY

(* Every live entry is found under its key, in the table in use and in the *)
(* one being filled, whatever was deleted on its probe sequence; and the   *)
(* table leads to live entries only.                                       *)
DictEntriesFound ==
  \A t \in Tables :
    /\ \A i \in LiveIn(t) : Find(t, t.entries[i].key) = i - 1
    /\ \A s \in 0..t.size - 1 : t.indices[s] >= 0 => t.indices[s] + 1 \in LiveIn(t)

(* ma_used is the number of items: PyDict_Keys, Values and Items fill a    *)
(* list of that length exactly, and a resize leaves room for one more.     *)
UsedIsItems == used = Cardinality(LiveIn(keys))

(* The dict owns one reference per key and value of its entries; what it   *)
(* replaced, deleted or cleared it has given up, and a resize moves.       *)
DictHoldsItsMembers ==
  \A o \in DictMembers :
    held[o] = Cardinality({i \in LiveIn(keys) : keys.entries[i].key = o})
              + Cardinality({i \in LiveIn(keys) : keys.entries[i].value = o})

(* An iteration with PyDict_Next, during which items are deleted and       *)
(* values replaced, comes to each item that stays exactly once.            *)
IterationComplete ==
  pos # NoIter => due = {keys.entries[i].key : i \in {j \in LiveIn(keys) : j > pos}}

(* The dict is a map in insertion order; a copy being filled and what is   *)
(* to come make up the map.                                                *)
Rows == keys.entries \o (IF copying THEN pending \o merge ELSE <<>>)

LiveRows(s) == {i \in DOMAIN s : s[i] # Gone}
Pairs(s)    == {<<s[i].key, s[i].value>> : i \in LiveRows(s)}
Older(s)    == UNION {{<<s[i].key, s[j].key>> : j \in {j \in LiveRows(s) : i < j}} : i \in LiveRows(s)}

Map == INSTANCE DictContract WITH items <- Pairs(Rows), older <- Older(Rows)
ImplementsMap == Map!Spec
=============================================================================
