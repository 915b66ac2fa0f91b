--------------------------------- MODULE List ---------------------------------
(***************************************************************************)
(* Lists and tuples (src/types/list.rs, tuple.rs): an array of slots that  *)
(* grows, the number of slots in use, and the methods the eval loop gives  *)
(* lists (call_bound_method), which work on both.  Each call is one        *)
(* action: it runs with the lock held and calls nothing back.  The loops   *)
(* that append one item after another are an action for each; nothing else *)
(* touches the list until they have ended.  Operations that make another   *)
(* list or tuple leave the state at the new one.                           *)
(***************************************************************************)
EXTENDS Integers, Sequences, SequencesExt, FiniteSets

CONSTANTS
  Objs,
  SortKey,        (* what sort() orders an object by                       *)
  MaxLen,         (* bound on the length                                   *)
  MaxGiven,       (* bound on the list that another is extended by         *)
  MaxRefs         (* bound on the references to one object                 *)

VARIABLES
  slots,          (* ob_item, as long as allocated; NULL stands for what   *)
                  (* is beyond the size, which nothing reads               *)
  size,           (* ob_size                                               *)
  tuple,          (* it is a tuple                                         *)
  listHeld,       (* references that operations took for it and did not    *)
                  (* give up, counted by their increfs and decrefs         *)
  methods,        (* methods of the eval loop were used                    *)
  todo            (* in extend() and repetition: the items yet to append   *)

listVars == <<slots, size, tuple, listHeld, methods, todo>>

NULL == "null"

ASSUME ListAssumption ==
  MaxLen \in Nat /\ MaxGiven \in Nat /\ NULL \notin Objs /\ SortKey \in [Objs -> Int]

Items   == SubSeq(slots, 1, size)
Full    == NULL \notin Range(Items)
Given   == BoundedSeq(Objs, MaxGiven) \cup {Items}
Times(o, s) == Cardinality({i \in DOMAIN s : s[i] = o})
Nulls(n)    == [i \in 1..n |-> NULL]

(* list_ensure_capacity, its growth pattern.                               *)
EnsureCapacity(s, n) ==
  IF n <= Len(s) THEN s
  ELSE s \o Nulls(n + (n \div 8) + (IF n < 9 THEN 3 ELSE 6) - Len(s))

(* Another list or tuple, with a reference for each of its items.          *)
Becomes(s, isTuple) ==
  /\ slots' = s
  /\ size' = Len(s)
  /\ tuple' = isTuple
  /\ listHeld' = [o \in Objs |-> Times(o, s)]
  /\ methods' = FALSE

-----------------------------------------------------------------------------
(* The C API.                                                              *)

(* PyList_New(n), PyTuple_New(n).                                          *)
New(n, isTuple) ==
  /\ slots = Nulls(n)
  /\ size = n
  /\ tuple = isTuple
  /\ listHeld = [o \in Objs |-> 0]
  /\ methods = FALSE
  /\ todo = <<>>

(* SET_ITEM fills an empty slot; the caller's reference goes to the list.  *)
SET_ITEM(i, o) ==
  /\ i \in 1..size /\ slots[i] = NULL
  /\ slots' = [slots EXCEPT ![i] = o]
  /\ listHeld' = [listHeld EXCEPT ![o] = @ + 1]
  /\ UNCHANGED <<size, tuple, methods>>

(* The references after the caller's to o replaced that of slot i.         *)
Exchanged(h, i, o) ==
  [x \in Objs |-> h[x] + (IF x = o THEN 1 ELSE 0) - (IF x = slots[i] THEN 1 ELSE 0)]

(* PyList_SetItem, PyTuple_SetItem.                                        *)
PyList_SetItem(i, o) ==
  /\ i \in 1..size
  /\ listHeld' = Exchanged(listHeld, i, o)
  /\ slots' = [slots EXCEPT ![i] = o]
  /\ UNCHANGED <<size, tuple, methods>>

(* The array and its size with o inserted at i (from 1).                   *)
WithInserted(l, i, o) ==
  LET s == EnsureCapacity(l.slots, l.size + 1)
  IN  [slots |-> [j \in DOMAIN s |-> IF j = i THEN o
                                     ELSE IF i < j /\ j <= l.size + 1 THEN s[j - 1]
                                     ELSE s[j]],
       size |-> l.size + 1]

WithAppended(l, o) == WithInserted(l, l.size + 1, o)

This == [slots |-> slots, size |-> size]

Now(l) == slots' = l.slots /\ size' = l.size /\ UNCHANGED tuple

Take(o, n) == listHeld' = [listHeld EXCEPT ![o] = @ + n]

Clamp(i, lo, hi) == IF i < lo THEN lo ELSE IF i > hi THEN hi ELSE i

PyList_Append(o) ==
  /\ ~tuple /\ size < MaxLen
  /\ Now(WithAppended(This, o)) /\ Take(o, 1)
  /\ UNCHANGED methods

(* The index is clamped.                                                   *)
PyList_Insert(i, o) ==
  /\ ~tuple /\ size < MaxLen
  /\ Now(WithInserted(This, Clamp(i, 0, size) + 1, o)) /\ Take(o, 1)
  /\ UNCHANGED methods

(* PyList_GetSlice, PyTuple_GetSlice; copy() and list() take all of it.    *)
GetSlice(lo, hi) == Becomes(SubSeq(slots, Clamp(lo, 0, size) + 1, Clamp(hi, 0, size)), tuple)

(* PyList_AsTuple and tuple(); list() of a tuple.                          *)
AsTuple == ~tuple /\ Becomes(Items, TRUE)
AsList  == tuple /\ Full /\ Becomes(Items, FALSE)

(* PyList_Reverse swaps; reverse() does the same by SetItem.               *)
Reversed(s) ==
  [i \in DOMAIN s |-> IF i <= size THEN s[size + 1 - i] ELSE s[i]]

PyList_Reverse == ~tuple /\ slots' = Reversed(slots) /\ UNCHANGED <<size, tuple, listHeld, methods>>

(* tp_clear.                                                               *)
list_clear ==
  /\ ~tuple
  /\ listHeld' = [o \in Objs |-> listHeld[o] - Times(o, Items)]
  /\ slots' = Nulls(Len(slots)) /\ size' = 0
  /\ UNCHANGED <<tuple, methods>>

-----------------------------------------------------------------------------
(* The eval loop.                                                          *)

(* The methods take an object's reference of their own before they call    *)
(* the C API, which takes another.                                         *)
Method == ~tuple /\ Full /\ methods' = TRUE

(* append(), ListAppend.                                                   *)
append(o) == size < MaxLen /\ Now(WithAppended(This, o)) /\ Take(o, 2) /\ Method

insert(i, o) ==
  /\ size < MaxLen
  /\ Now(WithInserted(This, Clamp(i, 0, size) + 1, o)) /\ Take(o, 2)
  /\ Method

(* extend() with a list s, which may be the list itself, as it was.        *)
extend(s) ==
  /\ size + Len(s) <= MaxLen /\ \A o \in Objs : listHeld[o] + 2 * Times(o, s) <= MaxRefs
  /\ Method
  /\ todo' = s
  /\ UNCHANGED <<slots, size, tuple, listHeld>>

(* [..] * 2 makes a new list.                                              *)
repeat ==
  /\ ~tuple /\ Full /\ 2 * size <= MaxLen /\ \A o \in Objs : 4 * Times(o, Items) <= MaxRefs
  /\ slots' = <<>> /\ size' = 0 /\ UNCHANGED tuple
  /\ listHeld' = [o \in Objs |-> 0]
  /\ methods' = TRUE
  /\ todo' = Items \o Items

AppendNext ==
  /\ todo # <<>>
  /\ Now(WithAppended(This, Head(todo))) /\ Take(Head(todo), 2)
  /\ todo' = Tail(todo)
  /\ UNCHANGED methods

(* [..] + s.                                                               *)
concat(s) == ~tuple /\ Full /\ size + Len(s) <= MaxLen /\ Becomes(Items \o s, FALSE)

(* The items above the popped one move down by SetItem, each with a        *)
(* reference of its own; the last one stays in the array, unseen.          *)
PopAt(i) ==
  /\ slots' = [j \in DOMAIN slots |-> IF j < i THEN slots[j]
                                       ELSE IF j < size THEN slots[j + 1] ELSE NULL]
  /\ size' = size - 1
  /\ listHeld' = [o \in Objs |-> listHeld[o] + Times(o, <<slots[size]>>) - Times(o, <<slots[i]>>)]
  /\ UNCHANGED tuple

(* pop(i): a negative index counts from the end.                           *)
pop(i) ==
  LET real == IF i < 0 THEN size + i ELSE i
  IN  real \in 0..size - 1 /\ PopAt(real + 1) /\ Method

(* sort(): stable, each item put back by SetItem.                          *)
Rank(i) ==
  Cardinality({j \in 1..size : \/ SortKey[slots[j]] < SortKey[slots[i]]
                               \/ SortKey[slots[j]] = SortKey[slots[i]] /\ j <= i})

sort ==
  /\ ~tuple /\ Full
  /\ slots' = [i \in DOMAIN slots |->
                 IF i <= size THEN slots[CHOOSE j \in 1..size : Rank(j) = i] ELSE slots[i]]
  /\ UNCHANGED <<size, tuple, listHeld, methods>>

(* clear(): the items are not given up.                                    *)
clear ==
  /\ ~tuple
  /\ slots' = Nulls(Len(slots)) /\ size' = 0
  /\ methods' = TRUE
  /\ UNCHANGED <<tuple, listHeld>>

(* l[i] = o: a bad index is not reported, and o's reference is lost.       *)
StoreSubscr(i, o) ==
  \/ ~tuple /\ PyList_SetItem(i + 1, o)
  \/ i \notin 0..size - 1 /\ Take(o, 1) /\ Method /\ UNCHANGED <<slots, size, tuple>>

Call ==
  \/ \E o \in Objs :
       \/ PyList_Append(o) \/ append(o)
       \/ \E i \in -1..MaxLen : PyList_Insert(i, o) \/ insert(i, o) \/ StoreSubscr(i, o)
       \/ \E i \in 1..MaxLen : SET_ITEM(i, o) \/ PyList_SetItem(i, o)
  \/ \E lo, hi \in -1..MaxLen : GetSlice(lo, hi)
  \/ \E i \in -MaxLen..MaxLen : pop(i)
  \/ \E s \in Given : concat(s)
  \/ AsTuple \/ AsList \/ PyList_Reverse \/ list_clear
  \/ sort \/ clear

ListNext ==
  /\ \/ todo = <<>> /\ Call /\ UNCHANGED todo
     \/ todo = <<>> /\ \E s \in Given : extend(s)
     \/ todo = <<>> /\ repeat
     \/ AppendNext
  /\ \A o \in Objs : listHeld'[o] <= MaxRefs

ListInit == \E n \in 0..MaxLen, isTuple \in BOOLEAN : New(n, isTuple)

ListSpec == ListInit /\ [][ListNext]_listVars

-----------------------------------------------------------------------------

ListTypeOK ==
  /\ slots \in Seq(Objs \cup {NULL})
  /\ size \in 0..Len(slots)
  /\ tuple \in BOOLEAN /\ methods \in BOOLEAN
  /\ listHeld \in [Objs -> Nat]
  /\ todo \in Seq(Objs)

(* The list owns a reference for each item that can be read, so no item is *)
(* freed under it, and through the C API exactly that many.                *)
ListHoldsItsMembers ==
  \A o \in Objs : /\ listHeld[o] >= Times(o, Items)
                  /\ ~methods => listHeld[o] = Times(o, Items)

(* Whatever the array holds beyond its size, the list is a sequence.       *)
Sequence == INSTANCE ListContract WITH items <- Items \o todo
ImplementsSequence == Sequence!Spec
=============================================================================
