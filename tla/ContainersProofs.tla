--------------------------- MODULE ContainersProofs ---------------------------
(***************************************************************************)
(* Proofs about the containers, for any keys, hashes, sizes of tables,     *)
(* objects, sort keys and bounds.                                          *)
(*                                                                         *)
(* Dict and Set: every search ends and finds what is there, the counts and *)
(* references are exact, an iteration comes to every item that stays, a    *)
(* dict is a map in the order of insertion and a set is a set.  List: a    *)
(* list or tuple is a sequence, and holds a reference for each item.       *)
(*                                                                         *)
(* Then what is proved of dicts, of sets and of lists, for Containers:     *)
(* each of the three takes the steps of its own specification or none.     *)
(***************************************************************************)
EXTENDS Containers, RecursionProofs, FiniteSetTheorems, SequenceTheorems, FunctionTheorems

-----------------------------------------------------------------------------
(* Sizes of tables and probe sequences.                                    *)
USE KeyAssumption, NullAssumption, SizeAssumption

LEMMA SizeFacts ==
  ASSUME NEW n \in Sizes
  PROVE  n \in Nat /\ n >= 2 /\ Usable(n) \in Nat /\ Usable(n) < n
  BY DEF Usable

LEMMA ProbeFacts ==
  ASSUME NEW n \in Sizes, NEW k \in Keys
  PROVE  /\ \A i \in 0..n - 1 : SlotAfter(n, k, i) \in 0..n - 1
         /\ \A i, j \in 0..n - 1 : SlotAfter(n, k, i) = SlotAfter(n, k, j) => i = j
         /\ \A s \in 0..n - 1 : \E i \in 0..n - 1 : SlotAfter(n, k, i) = s
  <1>1. n \in Nat /\ n >= 2
    BY SizeFacts
  <1>2. Home(n, k) \in 0..n - 1
    <2>1. KeyHash[k] \in Nat
      OBVIOUS
    <2> QED BY <1>1, <2>1 DEF Home
  <1> DEFINE h == Home(n, k)
  <1> HIDE DEF h
  <1>3. h \in 0..n - 1 /\ \A i \in 0..n - 1 : SlotAfter(n, k, i) = IF h + i < n THEN h + i ELSE h + i - n
    BY <1>2 DEF SlotAfter, h
  <1>4. \A i \in 0..n - 1 : SlotAfter(n, k, i) \in 0..n - 1
    BY <1>1, <1>3
  <1>5. \A i, j \in 0..n - 1 : SlotAfter(n, k, i) = SlotAfter(n, k, j) => i = j
    BY <1>1, <1>3
  <1>6. ASSUME NEW s \in 0..n - 1 PROVE \E i \in 0..n - 1 : SlotAfter(n, k, i) = s
    <2> DEFINE i == IF s >= h THEN s - h ELSE s - h + n
    <2>1. i \in 0..n - 1
      BY <1>1, <1>3
    <2>2. SlotAfter(n, k, i) = s
      BY <1>1, <1>3, <2>1
    <2> QED BY <2>1, <2>2
  <1> QED BY <1>4, <1>5, <1>6

LEMMA EqualProbes ==
  ASSUME NEW j \in Keys, NEW k \in Keys, EqualKeys(j, k), NEW n, NEW i
  PROVE  SlotAfter(n, j, i) = SlotAfter(n, k, i)
  BY DEF EqualKeys, SlotAfter, Home

LEMMA LeastSize ==
  ASSUME NEW S \in SUBSET Sizes, S # {}
  PROVE  Min(S) \in S
  BY MinLeast

-----------------------------------------------------------------------------
(* Dict.                                                                   *)

(* Probing for k comes to the index ix after p others, none of them empty. *)
Reaches(t, k, p, ix) == Seen(t, k, p) = ix /\ \A q \in 0..p - 1 : Seen(t, k, q) # EMPTY

Filled(t) == {s \in 0..t.size - 1 : t.indices[s] # EMPTY}

(* A table from which searches come back, and with what is there: no more  *)
(* slots were filled than entries made; the indices lead to live entries,  *)
(* and no two to the same; the keys differ; and each entry is reached.     *)
Sound(t) ==
  /\ TableType(t)
  /\ Cardinality(Filled(t)) <= Len(t.entries)
  /\ \A s \in 0..t.size - 1 : t.indices[s] >= 0 => t.indices[s] + 1 \in LiveIn(t)
  /\ \A r, s \in 0..t.size - 1 : t.indices[r] = t.indices[s] /\ t.indices[s] >= 0 => r = s
  /\ \A i, j \in LiveIn(t) : EqualKeys(t.entries[i].key, t.entries[j].key) => i = j
  /\ \A i \in LiveIn(t) : \E p \in 0..t.size - 1 : Reaches(t, t.entries[i].key, p, i - 1)

-----------------------------------------------------------------------------
(* What a search comes to.                                                 *)

LEMMA TableFacts ==
  ASSUME NEW t, TableType(t)
  PROVE  /\ t.size \in Sizes /\ t.size \in Nat /\ t.size >= 2
         /\ t.entries \in Seq(DictItems \cup {Gone}) /\ Len(t.entries) \in Nat
         /\ t.usable \in Nat /\ Len(t.entries) + t.usable < t.size
         /\ \A s \in 0..t.size - 1 : t.indices[s] \in {EMPTY, DUMMY} \cup 0..Len(t.entries) - 1
         /\ \A i \in LiveIn(t) : /\ i \in 1..Len(t.entries)
                                 /\ t.entries[i] \in DictItems /\ t.entries[i] # Gone
                                 /\ t.entries[i].key \in Keys /\ t.entries[i].value \in Values
  <1>1. t.size \in Sizes /\ t.entries \in Seq(DictItems \cup {Gone}) /\ t.usable \in Nat
    BY DEF TableType
  <1>2. t.size \in Nat /\ t.size >= 2 /\ Usable(t.size) \in Nat /\ Usable(t.size) < t.size
    BY <1>1, SizeFacts
  <1>3. \A i \in LiveIn(t) : i \in 1..Len(t.entries) /\ t.entries[i] \in DictItems /\ t.entries[i] # Gone
    BY <1>1 DEF LiveIn
  <1>4. \A i \in LiveIn(t) : t.entries[i].key \in Keys /\ t.entries[i].value \in Values
    BY <1>3 DEF DictItems
  <1>5. \A s \in 0..t.size - 1 : t.indices[s] \in {EMPTY, DUMMY} \cup 0..Len(t.entries) - 1
    BY DEF TableType
  <1>6. Len(t.entries) + t.usable < t.size
    BY <1>2 DEF TableType
  <1> QED BY <1>1, <1>2, <1>3, <1>4, <1>5, <1>6

LEMMA SeenFacts ==
  ASSUME NEW t, TableType(t), NEW k \in Keys, NEW p \in 0..t.size - 1
  PROVE  Probe(t, k, p) \in 0..t.size - 1 /\ Seen(t, k, p) \in {EMPTY, DUMMY} \cup 0..Len(t.entries) - 1
  <1>1. Probe(t, k, p) \in 0..t.size - 1
    BY TableFacts, ProbeFacts DEF Probe
  <1> QED BY <1>1, TableFacts DEF Seen

LEMMA EmptySlot ==
  ASSUME NEW t, TableType(t), Cardinality(Filled(t)) <= Len(t.entries)
  PROVE  \E s \in 0..t.size - 1 : t.indices[s] = EMPTY
  <1>1. SUFFICES ASSUME \A s \in 0..t.size - 1 : t.indices[s] # EMPTY PROVE FALSE
    OBVIOUS
  <1>2. Filled(t) = 0..t.size - 1
    BY <1>1 DEF Filled
  <1>3. t.size \in Nat /\ t.size >= 2 /\ Len(t.entries) \in Nat /\ Len(t.entries) < t.size
    BY TableFacts
  <1>4. Cardinality(0..t.size - 1) = t.size
    BY <1>3, FS_Interval
  <1> QED BY <1>2, <1>3, <1>4

(* A search stops, and at the first slot that ends it.                     *)
LEMMA StopFacts ==
  ASSUME NEW t, TableType(t), NEW k \in Keys, \E s \in 0..t.size - 1 : t.indices[s] = EMPTY
  PROVE  /\ Stop(t, k) \in 0..t.size - 1
         /\ Seen(t, k, Stop(t, k)) = EMPTY \/ Matches(t, k, Seen(t, k, Stop(t, k)))
         /\ \A q \in 0..Stop(t, k) - 1 : /\ q \in 0..t.size - 1
                                         /\ Seen(t, k, q) # EMPTY
                                         /\ ~Matches(t, k, Seen(t, k, q))
  <1>1. t.size \in Sizes /\ t.size \in Nat
    BY TableFacts
  <1>2. PICK s \in 0..t.size - 1 : t.indices[s] = EMPTY
    OBVIOUS
  <1>3. PICK p \in 0..t.size - 1 : SlotAfter(t.size, k, p) = s
    BY <1>1, ProbeFacts
  <1>4. Stops(t, k) \in SUBSET Nat /\ Stops(t, k) # {}
    BY <1>1, <1>2, <1>3 DEF Stops, Seen, Probe
  <1>5. Stop(t, k) \in Stops(t, k) /\ \A q \in Stops(t, k) : Stop(t, k) <= q
    BY <1>4, MinLeast DEF Stop
  <1>6. /\ Stop(t, k) \in 0..t.size - 1
        /\ Seen(t, k, Stop(t, k)) = EMPTY \/ Matches(t, k, Seen(t, k, Stop(t, k)))
    BY <1>5 DEF Stops
  <1>7. ASSUME NEW q \in 0..Stop(t, k) - 1
        PROVE  q \in 0..t.size - 1 /\ Seen(t, k, q) # EMPTY /\ ~Matches(t, k, Seen(t, k, q))
    <2>1. q \in 0..t.size - 1 /\ ~(Stop(t, k) <= q)
      BY <1>1, <1>6
    <2>2. q \notin Stops(t, k)
      BY <1>5, <2>1
    <2> QED BY <2>1, <2>2 DEF Stops
  <1> QED BY <1>6, <1>7

LEMMA SoundStops ==
  ASSUME NEW t, Sound(t), NEW k \in Keys
  PROVE  /\ Stop(t, k) \in 0..t.size - 1
         /\ Seen(t, k, Stop(t, k)) = EMPTY \/ Matches(t, k, Seen(t, k, Stop(t, k)))
         /\ \A q \in 0..Stop(t, k) - 1 : /\ q \in 0..t.size - 1
                                         /\ Seen(t, k, q) # EMPTY
                                         /\ ~Matches(t, k, Seen(t, k, q))
  <1>1. TableType(t) /\ Cardinality(Filled(t)) <= Len(t.entries)
    BY DEF Sound
  <1>2. \E s \in 0..t.size - 1 : t.indices[s] = EMPTY
    BY <1>1, EmptySlot
  <1> QED BY <1>1, <1>2, StopFacts

(* An index is that of the live entry the slot leads to.                   *)
LEMMA IndexFacts ==
  ASSUME NEW t, Sound(t), NEW k \in Keys, NEW p \in 0..t.size - 1, Seen(t, k, p) >= 0
  PROVE  Seen(t, k, p) + 1 \in LiveIn(t)
  <1>1. TableType(t)
    BY DEF Sound
  <1>2. Probe(t, k, p) \in 0..t.size - 1
    BY <1>1, SeenFacts
  <1> QED BY <1>2 DEF Sound, Seen

(* A search for a key equal to a live entry's comes to that entry.         *)
LEMMA FindLive ==
  ASSUME NEW t, Sound(t), NEW i \in LiveIn(t), NEW k \in Keys, EqualKeys(t.entries[i].key, k)
  PROVE  Find(t, k) = i - 1
  <1> DEFINE j == t.entries[i].key
  <1>1. TableType(t) /\ i \in Nat /\ i >= 1 /\ j \in Keys /\ t.size \in Nat
    <2>1. TableType(t)
      BY DEF Sound
    <2> QED BY <2>1, TableFacts
  <1>2. PICK p \in 0..t.size - 1 : Reaches(t, j, p, i - 1)
    BY DEF Sound
  <1>3. \A q : Seen(t, j, q) = Seen(t, k, q)
    BY <1>1, EqualProbes DEF Seen, Probe
  <1>4. Seen(t, k, p) = i - 1 /\ \A q \in 0..p - 1 : Seen(t, k, q) # EMPTY
    BY <1>2, <1>3 DEF Reaches
  <1> DEFINE s == Stop(t, k)
  <1>5. /\ s \in 0..t.size - 1
        /\ Seen(t, k, s) = EMPTY \/ Matches(t, k, Seen(t, k, s))
        /\ \A q \in 0..s - 1 : ~Matches(t, k, Seen(t, k, q))
    BY SoundStops
  <1>6. Matches(t, k, i - 1)
    BY <1>1 DEF Matches, LiveIn
  <1> HIDE DEF j, s
  <1>7. s <= p
    BY <1>1, <1>4, <1>5, <1>6
  <1>8. Seen(t, k, s) # EMPTY
    <2>1. CASE s = p
      BY <1>1, <1>4, <2>1 DEF EMPTY
    <2>2. CASE s < p
      BY <1>4, <1>5, <2>2, <1>1
    <2> QED BY <1>1, <1>5, <1>7, <2>1, <2>2
  <1>9. Matches(t, k, Seen(t, k, s))
    BY <1>5, <1>8
  <1> DEFINE ix == Seen(t, k, s)
  <1>10. ix + 1 \in LiveIn(t) /\ EqualKeys(t.entries[ix + 1].key, k)
    BY <1>5, <1>9, IndexFacts DEF Matches
  <1>11. ix + 1 = i
    BY <1>10 DEF Sound, EqualKeys
  <1>12. ix \in Int
    <2>1. ix \in {EMPTY, DUMMY} \cup 0..Len(t.entries) - 1
      BY <1>1, <1>5, SeenFacts
    <2>2. Len(t.entries) \in Nat
      BY <1>1, TableFacts
    <2> QED BY <2>1, <2>2 DEF EMPTY, DUMMY
  <1> QED BY <1>11, <1>12, <1>1 DEF Find, s

(* What the two outcomes of a search mean.                                 *)
LEMMA FindFacts ==
  ASSUME NEW t, Sound(t), NEW k \in Keys
  PROVE  /\ Find(t, k) \in Int
         /\ Find(t, k) >= 0 => /\ Find(t, k) + 1 \in LiveIn(t)
                               /\ EqualKeys(t.entries[Find(t, k) + 1].key, k)
         /\ Find(t, k) < 0 => /\ Find(t, k) = EMPTY
                              /\ \A i \in LiveIn(t) : ~EqualKeys(t.entries[i].key, k)
  <1>1. TableType(t)
    BY DEF Sound
  <1>2. /\ Stop(t, k) \in 0..t.size - 1
        /\ Find(t, k) = EMPTY \/ Matches(t, k, Find(t, k))
    BY SoundStops DEF Find
  <1>3. Find(t, k) \in Int
    BY <1>1, <1>2, SeenFacts, TableFacts DEF Find, EMPTY, DUMMY
  <1>4. Find(t, k) >= 0 => /\ Find(t, k) + 1 \in LiveIn(t)
                           /\ EqualKeys(t.entries[Find(t, k) + 1].key, k)
    <2>1. Find(t, k) >= 0 => Find(t, k) + 1 \in LiveIn(t)
      BY <1>2, IndexFacts DEF Find
    <2> QED BY <1>2, <2>1 DEF Matches, EMPTY
  <1>5. Find(t, k) < 0 => Find(t, k) = EMPTY
    BY <1>2, <1>3 DEF Matches
  <1>6. ASSUME Find(t, k) < 0, NEW i \in LiveIn(t), EqualKeys(t.entries[i].key, k) PROVE FALSE
    <2>1. Find(t, k) = i - 1
      BY <1>6, FindLive
    <2>2. i \in Nat /\ i >= 1
      BY <1>1, TableFacts
    <2> QED BY <1>6, <2>1, <2>2
  <1> QED BY <1>3, <1>4, <1>5, <1>6

-----------------------------------------------------------------------------
(* Changes to a table.                                                     *)

LEMMA NewKeysSound ==
  ASSUME NEW n \in Sizes
  PROVE  /\ Sound(NewKeys(n)) /\ LiveIn(NewKeys(n)) = {}
         /\ NewKeys(n).entries = <<>> /\ NewKeys(n).size = n /\ NewKeys(n).usable = Usable(n)
  <1> DEFINE t == NewKeys(n)
  <1>1. n \in Nat /\ n >= 2 /\ Usable(n) \in Nat
    BY SizeFacts
  <1>2. /\ t.size = n /\ t.entries = <<>> /\ t.usable = Usable(n)
        /\ t.indices = [s \in 0..n - 1 |-> EMPTY]
    BY DEF NewKeys
  <1>3. TableType(t)
    BY <1>1, <1>2 DEF TableType, NewKeys
  <1>4. LiveIn(t) = {}
    BY <1>2 DEF LiveIn
  <1>5. Filled(t) = {}
    BY <1>2 DEF Filled
  <1>6. Cardinality(Filled(t)) <= Len(t.entries)
    BY <1>2, <1>5, FS_EmptySet
  <1>7. \A s \in 0..t.size - 1 : ~(t.indices[s] >= 0)
    BY <1>2 DEF EMPTY
  <1> HIDE DEF t
  <1>8. Sound(t)
    BY <1>3, <1>4, <1>6, <1>7 DEF Sound
  <1> QED BY <1>2, <1>4, <1>8 DEF t

LEMMA FreeSlotFacts ==
  ASSUME NEW t, Sound(t), NEW k \in Keys, Find(t, k) < 0
  PROVE  \E p \in 0..t.size - 1 :
           /\ FreeSlot(t, k) = Probe(t, k, p)
           /\ Seen(t, k, p) \in {EMPTY, DUMMY}
           /\ \A q \in 0..p - 1 : Seen(t, k, q) # EMPTY
  <1>1. /\ Stop(t, k) \in 0..t.size - 1 /\ t.size \in Nat
        /\ \A q \in 0..Stop(t, k) - 1 : Seen(t, k, q) # EMPTY
    <2>1. TableType(t)
      BY DEF Sound
    <2> QED BY <2>1, SoundStops, TableFacts
  <1>2. Seen(t, k, Stop(t, k)) = EMPTY
    BY FindFacts DEF Find
  <1>3. CASE Dummies(t, k) = {}
    BY <1>1, <1>2, <1>3 DEF FreeSlot
  <1>4. CASE Dummies(t, k) # {}
    <2> DEFINE p == Min(Dummies(t, k))
    <2>1. Dummies(t, k) \in SUBSET Nat
      BY <1>1 DEF Dummies
    <2>2. p \in Dummies(t, k)
      BY <1>4, <2>1, MinLeast
    <2>3. p \in 0..Stop(t, k) /\ Seen(t, k, p) = DUMMY
      BY <2>2 DEF Dummies
    <2>4. FreeSlot(t, k) = Probe(t, k, p)
      BY <1>4 DEF FreeSlot
    <2> HIDE DEF p
    <2>5. p \in 0..t.size - 1 /\ \A q \in 0..p - 1 : q \in 0..Stop(t, k) - 1
      BY <1>1, <2>3
    <2> QED BY <1>1, <2>3, <2>4, <2>5
  <1> QED BY <1>3, <1>4

LEMMA PutShape ==
  ASSUME NEW t, Sound(t), NEW k \in Keys, NEW v \in Values, Find(t, k) < 0, t.usable > 0
  PROVE  LET u == Put(t, k, v)
             f == FreeSlot(t, k)
         IN  /\ TableType(u) /\ u.size = t.size /\ u.usable = t.usable - 1
             /\ u.entries = Append(t.entries, Entry(k, v))
             /\ Len(u.entries) = Len(t.entries) + 1
             /\ u.entries[Len(t.entries) + 1] = Entry(k, v)
             /\ \A i \in 1..Len(t.entries) : u.entries[i] = t.entries[i]
             /\ f \in 0..t.size - 1 /\ t.indices[f] < 0
             /\ \A s \in 0..t.size - 1 : u.indices[s] = IF s = f THEN Len(t.entries) ELSE t.indices[s]
             /\ LiveIn(u) = LiveIn(t) \cup {Len(t.entries) + 1}
  <1> DEFINE u == Put(t, k, v)
             f == FreeSlot(t, k)
             n == Len(t.entries)
  <1>1. TableType(t)
    BY DEF Sound
  <1>2. /\ t.size \in Sizes /\ n \in Nat /\ t.entries \in Seq(DictItems \cup {Gone})
        /\ t.usable \in Nat /\ n + t.usable = Usable(t.size)
    BY <1>1, TableFacts DEF TableType
  <1>3. Entry(k, v) \in DictItems /\ Entry(k, v) # Gone
    BY DEF DictItems, Entry, Gone
  <1>4. f \in 0..t.size - 1 /\ t.indices[f] \in {EMPTY, DUMMY}
    <2>1. PICK p \in 0..t.size - 1 : f = Probe(t, k, p) /\ Seen(t, k, p) \in {EMPTY, DUMMY}
      BY FreeSlotFacts
    <2> QED BY <1>1, <2>1, SeenFacts DEF Seen
  <1> HIDE DEF f
  <1>5. /\ t.indices \in [0..t.size - 1 -> {EMPTY, DUMMY} \cup 0..n - 1]
        /\ t \in [size : Sizes, indices : [0..t.size - 1 -> {EMPTY, DUMMY} \cup 0..n - 1],
                  entries : Seq(DictItems \cup {Gone}), usable : Nat]
    BY <1>1 DEF TableType
  <1>6. u = [t EXCEPT !.indices = [@ EXCEPT ![f] = n], !.entries = Append(@, Entry(k, v)), !.usable = @ - 1]
    BY <1>4, <1>5 DEF Put, f
  <1> HIDE DEF u
  <1>7. /\ u.size = t.size /\ u.usable = t.usable - 1
        /\ u.entries = Append(t.entries, Entry(k, v))
        /\ u.indices = [t.indices EXCEPT ![f] = n]
    BY <1>5, <1>6
  <1>8. /\ u.entries \in Seq(DictItems \cup {Gone}) /\ Len(u.entries) = n + 1
        /\ u.entries[n + 1] = Entry(k, v)
        /\ \A i \in 1..n : u.entries[i] = t.entries[i]
    BY <1>2, <1>3, <1>7
  <1>9. u.indices \in [0..t.size - 1 -> {EMPTY, DUMMY} \cup 0..n]
    BY <1>2, <1>4, <1>5, <1>7
  <1>10. \A s \in 0..t.size - 1 : u.indices[s] = IF s = f THEN n ELSE t.indices[s]
    BY <1>4, <1>5, <1>7
  <1>11. TableType(u)
    <2>1. u.usable \in Nat /\ Len(u.entries) + u.usable = Usable(u.size)
      BY <1>2, <1>7, <1>8
    <2>2. u = [size |-> u.size, indices |-> u.indices, entries |-> u.entries, usable |-> u.usable]
      BY <1>5, <1>6
    <2>3. Len(u.entries) - 1 = n
      BY <1>2, <1>8
    <2> QED BY <1>2, <1>7, <1>8, <1>9, <2>1, <2>2, <2>3 DEF TableType
  <1>12. LiveIn(u) = LiveIn(t) \cup {n + 1}
    <2>1. DOMAIN u.entries = 1..n + 1 /\ DOMAIN t.entries = 1..n
      BY <1>2, <1>8
    <2>2. 1..n + 1 = 1..n \cup {n + 1}
      BY <1>2
    <2> QED BY <1>2, <1>3, <1>8, <2>1, <2>2 DEF LiveIn
  <1>13. t.indices[f] < 0
    BY <1>4 DEF EMPTY, DUMMY
  <1> QED BY <1>4, <1>7, <1>8, <1>10, <1>11, <1>12, <1>13 DEF u, f

LEMMA PutSound ==
  ASSUME NEW t, Sound(t), NEW k \in Keys, NEW v \in Values, Find(t, k) < 0, t.usable > 0
  PROVE  Sound(Put(t, k, v))
  <1> DEFINE u == Put(t, k, v)
             f == FreeSlot(t, k)
             n == Len(t.entries)
  <1>1. /\ TableType(u) /\ u.size = t.size /\ Len(u.entries) = n + 1
        /\ u.entries[n + 1] = Entry(k, v)
        /\ \A i \in 1..n : u.entries[i] = t.entries[i]
        /\ f \in 0..t.size - 1 /\ t.indices[f] < 0
        /\ \A s \in 0..t.size - 1 : u.indices[s] = IF s = f THEN n ELSE t.indices[s]
        /\ LiveIn(u) = LiveIn(t) \cup {n + 1}
    BY PutShape
  <1>2. TableType(t)
    BY DEF Sound
  <1>3. /\ n \in Nat /\ t.size \in Nat
        /\ \A s \in 0..t.size - 1 : t.indices[s] \in {EMPTY, DUMMY} \cup 0..n - 1
        /\ \A i \in LiveIn(t) : i \in 1..n /\ t.entries[i].key \in Keys
    BY <1>2, TableFacts
  <1>4. \A j \in Keys : \A p \in 0..t.size - 1 :
          /\ Probe(t, j, p) \in 0..t.size - 1 /\ Probe(u, j, p) = Probe(t, j, p)
          /\ Seen(u, j, p) = IF Probe(t, j, p) = f THEN n ELSE Seen(t, j, p)
    BY <1>1, <1>2, SeenFacts DEF Seen, Probe
  <1>5. PICK p0 \in 0..t.size - 1 : f = Probe(t, k, p0) /\ \A q \in 0..p0 - 1 : Seen(t, k, q) # EMPTY
    BY FreeSlotFacts
  <1>6. /\ u.entries[n + 1].key = k
        /\ \A i \in LiveIn(t) : ~EqualKeys(t.entries[i].key, k) /\ ~EqualKeys(k, t.entries[i].key)
    BY <1>1, FindFacts DEF Entry, EqualKeys
  <1> HIDE DEF u, f, n
  <1>7. Cardinality(Filled(u)) <= n + 1
    <2>0. Filled(t) \subseteq 0..t.size - 1
      BY DEF Filled
    <2>1. IsFiniteSet(0..t.size - 1)
      BY <1>3, FS_Interval
    <2>2. IsFiniteSet(Filled(t)) /\ Cardinality(Filled(t)) \in Nat
      BY <2>0, <2>1, FS_Subset, FS_CardinalityType
    <2>3. IsFiniteSet(Filled(t) \cup {f}) /\ Cardinality(Filled(t) \cup {f}) \in Nat
      BY <2>2, FS_AddElement, FS_CardinalityType
    <2>4. Cardinality(Filled(t) \cup {f}) <= Cardinality(Filled(t)) + 1
      <3>1. Cardinality(Filled(t) \cup {f}) = IF f \in Filled(t) THEN Cardinality(Filled(t)) ELSE Cardinality(Filled(t)) + 1
        BY <2>2, FS_AddElement
      <3> QED BY <2>2, <3>1
    <2>5. Filled(u) \subseteq Filled(t) \cup {f}
      BY <1>1 DEF Filled
    <2>6. Cardinality(Filled(u)) <= Cardinality(Filled(t) \cup {f}) /\ Cardinality(Filled(u)) \in Nat
      BY <2>3, <2>5, FS_Subset, FS_CardinalityType
    <2>7. Cardinality(Filled(t)) <= n /\ Cardinality(Filled(t)) \in Nat
      BY <2>2 DEF Sound, n
    <2> QED BY <1>3, <2>3, <2>4, <2>6, <2>7
  <1>8. ASSUME NEW s \in 0..u.size - 1, u.indices[s] >= 0 PROVE u.indices[s] + 1 \in LiveIn(u)
    <2>1. CASE s = f
      BY <1>1, <2>1
    <2>2. CASE s # f
      <3>1. u.indices[s] = t.indices[s] /\ s \in 0..t.size - 1
        BY <1>1, <2>2
      <3>2. t.indices[s] + 1 \in LiveIn(t)
        BY <1>8, <3>1 DEF Sound
      <3> QED BY <1>1, <3>1, <3>2
    <2> QED BY <2>1, <2>2
  <1>9. ASSUME NEW r \in 0..u.size - 1, NEW s \in 0..u.size - 1, u.indices[r] = u.indices[s], u.indices[s] >= 0
        PROVE  r = s
    <2>1. r \in 0..t.size - 1 /\ s \in 0..t.size - 1
      BY <1>1
    <2>2. t.indices[r] # n /\ t.indices[s] # n
      BY <1>3, <2>1 DEF EMPTY, DUMMY
    <2>3. CASE r # f /\ s # f
      BY <1>1, <1>9, <2>1, <2>3 DEF Sound
    <2>4. CASE r = f \/ s = f
      BY <1>1, <1>9, <2>1, <2>2, <2>4
    <2> QED BY <2>3, <2>4
  <1>10. \A i, j \in LiveIn(u) : EqualKeys(u.entries[i].key, u.entries[j].key) => i = j
    <2>1. \A i \in LiveIn(t) : u.entries[i] = t.entries[i]
      BY <1>1, <1>3
    <2>2. \A i, j \in LiveIn(t) : EqualKeys(t.entries[i].key, t.entries[j].key) => i = j
      BY DEF Sound
    <2> QED BY <1>1, <1>6, <2>1, <2>2
  <1>11. ASSUME NEW i \in LiveIn(u) PROVE \E p \in 0..u.size - 1 : Reaches(u, u.entries[i].key, p, i - 1)
    <2>1. CASE i = n + 1
      <3>1. Seen(u, k, p0) = i - 1
        BY <1>3, <1>4, <1>5, <2>1
      <3>2. ASSUME NEW q \in 0..p0 - 1 PROVE Seen(u, k, q) # EMPTY
        <4>1. q \in 0..t.size - 1 /\ Seen(t, k, q) # EMPTY
          BY <1>3, <1>5
        <4> QED BY <1>3, <1>4, <4>1 DEF EMPTY
      <3> QED BY <1>1, <1>6, <2>1, <3>1, <3>2 DEF Reaches
    <2>2. CASE i \in LiveIn(t)
      <3> DEFINE j == t.entries[i].key
      <3>1. i \in 1..n /\ j \in Keys /\ u.entries[i].key = j
        BY <1>1, <1>3, <2>2
      <3>2. PICK p \in 0..t.size - 1 : Seen(t, j, p) = i - 1 /\ \A q \in 0..p - 1 : Seen(t, j, q) # EMPTY
        BY <2>2 DEF Sound, Reaches
      <3> HIDE DEF j
      <3>3. Seen(u, j, p) = i - 1
        <4>1. Probe(t, j, p) # f
          BY <1>1, <1>3, <3>1, <3>2 DEF Seen
        <4> QED BY <1>4, <3>1, <3>2, <4>1
      <3>4. ASSUME NEW q \in 0..p - 1 PROVE Seen(u, j, q) # EMPTY
        <4>1. q \in 0..t.size - 1 /\ Seen(t, j, q) # EMPTY
          BY <1>3, <3>2
        <4> QED BY <1>3, <1>4, <3>1, <4>1 DEF EMPTY
      <3> QED BY <1>1, <3>1, <3>3, <3>4 DEF Reaches
    <2> QED BY <1>1, <2>1, <2>2
  <1>12. Cardinality(Filled(u)) <= Len(u.entries)
    BY <1>1, <1>7
  <1>13. Sound(u)
    BY <1>1, <1>8, <1>9, <1>10, <1>11, <1>12 DEF Sound
  <1> QED BY <1>13 DEF u

(* A new value for an entry.                                               *)
LEMMA ReplaceSound ==
  ASSUME NEW t, Sound(t), NEW i \in LiveIn(t), NEW v \in Values
  PROVE  LET u == [t EXCEPT !.entries[i].value = v]
         IN  /\ Sound(u) /\ LiveIn(u) = LiveIn(t) /\ Len(u.entries) = Len(t.entries)
             /\ u.entries[i] = Entry(t.entries[i].key, v)
             /\ \A j \in 1..Len(t.entries) : j # i => u.entries[j] = t.entries[j]
  <1> DEFINE u == [t EXCEPT !.entries[i].value = v]
             e == Entry(t.entries[i].key, v)
             n == Len(t.entries)
  <1>1. TableType(t)
    BY DEF Sound
  <1>2. /\ n \in Nat /\ t.entries \in Seq(DictItems \cup {Gone}) /\ i \in 1..n
        /\ t.entries[i] \in DictItems /\ t.entries[i].key \in Keys
    BY <1>1, TableFacts
  <1>3. e \in DictItems /\ e # Gone
    BY <1>2 DEF DictItems, Entry, Gone
  <1>4. [t.entries[i] EXCEPT !.value = v] = e
    BY <1>2 DEF DictItems, Entry
  <1>5. /\ t.indices \in [0..t.size - 1 -> {EMPTY, DUMMY} \cup 0..n - 1]
        /\ t \in [size : Sizes, indices : [0..t.size - 1 -> {EMPTY, DUMMY} \cup 0..n - 1],
                  entries : Seq(DictItems \cup {Gone}), usable : Nat]
    BY <1>1 DEF TableType
  <1>6. u = [t EXCEPT !.entries = [@ EXCEPT ![i] = e]]
    BY <1>2, <1>4, <1>5
  <1> HIDE DEF u, e
  <1>7. /\ u.size = t.size /\ u.usable = t.usable /\ u.indices = t.indices
        /\ u.entries = [t.entries EXCEPT ![i] = e]
    BY <1>5, <1>6
  <1>8. u.entries \in Seq(DictItems \cup {Gone}) /\ Len(u.entries) = n
    BY <1>2, <1>3, <1>7
  <1>9. u.entries[i] = e /\ \A j \in 1..n : j # i => u.entries[j] = t.entries[j]
    BY <1>2, <1>7
  <1>10. TableType(u)
    <2>1. u = [size |-> u.size, indices |-> u.indices, entries |-> u.entries, usable |-> u.usable]
      BY <1>5, <1>6
    <2> QED BY <1>1, <1>5, <1>7, <1>8, <2>1 DEF TableType
  <1>11. LiveIn(u) = LiveIn(t)
    <2>1. DOMAIN u.entries = 1..n /\ DOMAIN t.entries = 1..n
      BY <1>2, <1>8
    <2> QED BY <1>3, <1>9, <2>1 DEF LiveIn
  <1>12. \A j \in LiveIn(t) : u.entries[j].key = t.entries[j].key
    <2>1. e.key = t.entries[i].key
      BY DEF e, Entry
    <2> QED BY <1>1, <1>9, <2>1, TableFacts
  <1>13. Filled(u) = Filled(t) /\ \A k, p, x : Reaches(u, k, p, x) <=> Reaches(t, k, p, x)
    BY <1>7 DEF Filled, Reaches, Seen, Probe
  <1>14. Sound(u)
    BY <1>7, <1>8, <1>10, <1>11, <1>12, <1>13 DEF Sound
  <1> QED BY <1>8, <1>9, <1>11, <1>14 DEF u, e

(* A deleted entry leaves a dummy and a hole.                              *)
LEMMA DeleteSound ==
  ASSUME NEW t, Sound(t), NEW k \in Keys, Find(t, k) >= 0
  PROVE  LET i == Find(t, k) + 1
             u == [t EXCEPT !.indices[Probe(t, k, Stop(t, k))] = DUMMY, !.entries[i] = Gone]
         IN  /\ Sound(u) /\ LiveIn(u) = LiveIn(t) \ {i} /\ Len(u.entries) = Len(t.entries)
             /\ \A j \in 1..Len(t.entries) : j # i => u.entries[j] = t.entries[j]
  <1> DEFINE i == Find(t, k) + 1
             f == Probe(t, k, Stop(t, k))
             u == [t EXCEPT !.indices[f] = DUMMY, !.entries[i] = Gone]
             n == Len(t.entries)
  <1>1. TableType(t)
    BY DEF Sound
  <1>2. /\ i \in LiveIn(t) /\ Find(t, k) \in Int
        /\ Stop(t, k) \in 0..t.size - 1
    BY FindFacts, SoundStops
  <1>3. /\ n \in Nat /\ t.size \in Nat /\ t.entries \in Seq(DictItems \cup {Gone}) /\ i \in 1..n
        /\ \A s \in 0..t.size - 1 : t.indices[s] \in {EMPTY, DUMMY} \cup 0..n - 1
        /\ \A j \in LiveIn(t) : j \in 1..n /\ t.entries[j].key \in Keys
    BY <1>1, <1>2, TableFacts
  <1>4. f \in 0..t.size - 1 /\ t.indices[f] = i - 1
    BY <1>1, <1>2, SeenFacts DEF Find, Seen
  <1>5. /\ t.indices \in [0..t.size - 1 -> {EMPTY, DUMMY} \cup 0..n - 1]
        /\ t \in [size : Sizes, indices : [0..t.size - 1 -> {EMPTY, DUMMY} \cup 0..n - 1],
                  entries : Seq(DictItems \cup {Gone}), usable : Nat]
    BY <1>1 DEF TableType
  <1> HIDE DEF i, f
  <1>6. u = [t EXCEPT !.indices = [@ EXCEPT ![f] = DUMMY], !.entries = [@ EXCEPT ![i] = Gone]]
    BY <1>5
  <1> HIDE DEF u
  <1>7. /\ u.size = t.size /\ u.usable = t.usable
        /\ u.indices = [t.indices EXCEPT ![f] = DUMMY]
        /\ u.entries = [t.entries EXCEPT ![i] = Gone]
    BY <1>5, <1>6
  <1>8. u.entries \in Seq(DictItems \cup {Gone}) /\ Len(u.entries) = n
    BY <1>3, <1>7
  <1>9. u.entries[i] = Gone /\ \A j \in 1..n : j # i => u.entries[j] = t.entries[j]
    BY <1>3, <1>7
  <1>10. /\ u.indices \in [0..t.size - 1 -> {EMPTY, DUMMY} \cup 0..n - 1]
         /\ \A s \in 0..t.size - 1 : u.indices[s] = IF s = f THEN DUMMY ELSE t.indices[s]
    BY <1>4, <1>5, <1>7
  <1>11. TableType(u)
    <2>1. u = [size |-> u.size, indices |-> u.indices, entries |-> u.entries, usable |-> u.usable]
      BY <1>5, <1>6
    <2> QED BY <1>1, <1>5, <1>7, <1>8, <1>10, <2>1 DEF TableType
  <1>12. LiveIn(u) = LiveIn(t) \ {i}
    <2>1. DOMAIN u.entries = 1..n /\ DOMAIN t.entries = 1..n
      BY <1>3, <1>8
    <2> QED BY <1>9, <2>1 DEF LiveIn
  <1>13. Filled(u) = Filled(t)
    BY <1>3, <1>4, <1>7, <1>10 DEF Filled, EMPTY, DUMMY
  <1>14. ASSUME NEW s \in 0..u.size - 1, u.indices[s] >= 0 PROVE u.indices[s] + 1 \in LiveIn(u)
    <2>1. s \in 0..t.size - 1 /\ s # f /\ u.indices[s] = t.indices[s]
      BY <1>7, <1>10, <1>14 DEF DUMMY
    <2>2. t.indices[s] + 1 \in LiveIn(t)
      BY <1>14, <2>1 DEF Sound
    <2>3. t.indices[s] # t.indices[f]
      BY <1>4, <1>14, <2>1 DEF Sound
    <2>4. t.indices[s] + 1 # i
      BY <1>3, <1>4, <2>1, <2>3 DEF EMPTY, DUMMY
    <2> QED BY <1>12, <2>1, <2>2, <2>4
  <1>15. ASSUME NEW r \in 0..u.size - 1, NEW s \in 0..u.size - 1, u.indices[r] = u.indices[s], u.indices[s] >= 0
         PROVE  r = s
    <2>1. /\ r \in 0..t.size - 1 /\ s \in 0..t.size - 1 /\ r # f /\ s # f
          /\ t.indices[r] = t.indices[s] /\ t.indices[s] >= 0
      BY <1>7, <1>10, <1>15 DEF DUMMY
    <2> QED BY <2>1 DEF Sound
  <1>16. \A j \in LiveIn(u) : j \in LiveIn(t) /\ j # i /\ u.entries[j] = t.entries[j]
    BY <1>3, <1>9, <1>12
  <1>17. ASSUME NEW j \in LiveIn(u) PROVE \E p \in 0..u.size - 1 : Reaches(u, u.entries[j].key, p, j - 1)
    <2> DEFINE x == t.entries[j].key
    <2>1. j \in 1..n /\ j # i /\ x \in Keys /\ u.entries[j].key = x /\ j \in LiveIn(t)
      BY <1>3, <1>16
    <2>2. PICK p \in 0..t.size - 1 : Seen(t, x, p) = j - 1 /\ \A q \in 0..p - 1 : Seen(t, x, q) # EMPTY
      BY <2>1 DEF Sound, Reaches
    <2> HIDE DEF x
    <2>3. \A q \in 0..t.size - 1 : Seen(u, x, q) = IF Probe(t, x, q) = f THEN DUMMY ELSE Seen(t, x, q)
      BY <1>1, <1>7, <1>10, <2>1, SeenFacts DEF Seen, Probe
    <2>4. Seen(u, x, p) = j - 1
      <3>1. Probe(t, x, p) # f
        BY <1>3, <1>4, <2>1, <2>2 DEF Seen
      <3> QED BY <2>2, <2>3, <3>1
    <2>5. ASSUME NEW q \in 0..p - 1 PROVE Seen(u, x, q) # EMPTY
      <3>1. q \in 0..t.size - 1 /\ Seen(t, x, q) # EMPTY
        BY <1>3, <2>2
      <3> QED BY <2>3, <3>1 DEF EMPTY, DUMMY
    <2> QED BY <1>7, <2>1, <2>4, <2>5 DEF Reaches
  <1>18. Sound(u)
    <2>1. \A a, b \in LiveIn(u) : EqualKeys(u.entries[a].key, u.entries[b].key) => a = b
      BY <1>16 DEF Sound
    <2>2. Cardinality(Filled(u)) <= Len(u.entries)
      BY <1>8, <1>13 DEF Sound
    <2> QED BY <1>11, <1>14, <1>15, <1>17, <2>1, <2>2 DEF Sound
  <1> QED BY <1>8, <1>9, <1>12, <1>18 DEF u, i, f

-----------------------------------------------------------------------------
(* References.                                                             *)

KeyPlaces(t, S, o)   == {i \in S : t.entries[i].key = o}
ValuePlaces(t, S, o) == {i \in S : t.entries[i].value = o}

(* The references to o that the entries S of the table t hold.             *)
RefsIn(t, S, o) == Cardinality(KeyPlaces(t, S, o)) + Cardinality(ValuePlaces(t, S, o))

LEMMA LiveFinite ==
  ASSUME NEW t, TableType(t)
  PROVE  IsFiniteSet(LiveIn(t)) /\ Cardinality(LiveIn(t)) \in Nat
  <1>1. LiveIn(t) \subseteq 1..Len(t.entries) /\ Len(t.entries) \in Nat
    BY TableFacts
  <1>2. IsFiniteSet(1..Len(t.entries))
    BY <1>1, FS_Interval
  <1> QED BY <1>1, <1>2, FS_Subset, FS_CardinalityType

LEMMA RefsFinite ==
  ASSUME NEW t, NEW S, IsFiniteSet(S), NEW o
  PROVE  /\ Cardinality(KeyPlaces(t, S, o)) \in Nat /\ Cardinality(ValuePlaces(t, S, o)) \in Nat
         /\ RefsIn(t, S, o) \in Nat
  <1>1. KeyPlaces(t, S, o) \subseteq S /\ ValuePlaces(t, S, o) \subseteq S
    BY DEF KeyPlaces, ValuePlaces
  <1>2. Cardinality(KeyPlaces(t, S, o)) \in Nat /\ Cardinality(ValuePlaces(t, S, o)) \in Nat
    BY <1>1, FS_Subset, FS_CardinalityType
  <1> QED BY <1>2 DEF RefsIn

LEMMA OneMoreHere ==
  ASSUME NEW t, NEW S, IsFiniteSet(S), NEW i, i \notin S, NEW o,
         NEW T, \A j \in T : j \in S \/ j = i, S \subseteq T, i \in T
  PROVE  RefsIn(t, T, o) =
           RefsIn(t, S, o) + Same(o, t.entries[i].key) + Same(o, t.entries[i].value)
  <1> DEFINE K == KeyPlaces(t, S, o)
             V == ValuePlaces(t, S, o)
             a == Same(o, t.entries[i].key)
             b == Same(o, t.entries[i].value)
  <1>0. T = S \cup {i}
    OBVIOUS
  <1>1. /\ KeyPlaces(t, T, o) = IF t.entries[i].key = o THEN K \cup {i} ELSE K
        /\ ValuePlaces(t, T, o) = IF t.entries[i].value = o THEN V \cup {i} ELSE V
    BY <1>0 DEF KeyPlaces, ValuePlaces
  <1>2. K \subseteq S /\ V \subseteq S
    BY DEF KeyPlaces, ValuePlaces
  <1>3. IsFiniteSet(K) /\ IsFiniteSet(V) /\ i \notin K /\ i \notin V
    BY <1>2, FS_Subset
  <1>4. Cardinality(K) \in Nat /\ Cardinality(V) \in Nat
    BY <1>3, FS_CardinalityType
  <1>5. Cardinality(K \cup {i}) = Cardinality(K) + 1 /\ Cardinality(V \cup {i}) = Cardinality(V) + 1
    BY <1>3, FS_AddElement
  <1>6. a = (IF t.entries[i].key = o THEN 1 ELSE 0) /\ b = (IF t.entries[i].value = o THEN 1 ELSE 0)
    BY DEF Same
  <1> HIDE DEF K, V, a, b
  <1>7. /\ Cardinality(KeyPlaces(t, T, o)) = Cardinality(K) + a
        /\ Cardinality(ValuePlaces(t, T, o)) = Cardinality(V) + b
    BY <1>1, <1>4, <1>5, <1>6
  <1>8. a \in Nat /\ b \in Nat
    BY <1>6
  <1>9. RefsIn(t, T, o) = (Cardinality(K) + Cardinality(V)) + a + b
    BY <1>4, <1>7, <1>8 DEF RefsIn
  <1> QED BY <1>9 DEF RefsIn, K, V, a, b

LEMMA OneMoreEntry ==
  ASSUME NEW t, NEW u, NEW S, IsFiniteSet(S), NEW i, i \notin S, NEW o,
         NEW T, \A j \in T : j \in S \/ j = i, S \subseteq T, i \in T,
         \A j \in S : u.entries[j] = t.entries[j]
  PROVE  RefsIn(u, T, o) =
           RefsIn(t, S, o) + Same(o, u.entries[i].key) + Same(o, u.entries[i].value)
  <1>1. KeyPlaces(u, S, o) = KeyPlaces(t, S, o) /\ ValuePlaces(u, S, o) = ValuePlaces(t, S, o)
    BY DEF KeyPlaces, ValuePlaces
  <1>2. RefsIn(u, S, o) = RefsIn(t, S, o)
    BY <1>1 DEF RefsIn
  <1>3. RefsIn(u, T, o) = RefsIn(u, S, o) + Same(o, u.entries[i].key) + Same(o, u.entries[i].value)
    BY OneMoreHere
  <1> QED BY <1>2, <1>3

(* What a new entry, a deletion and a new value do to the references.      *)
LEMMA PutRefs ==
  ASSUME NEW t, Sound(t), NEW k \in Keys, NEW v \in Values, Find(t, k) < 0, t.usable > 0
  PROVE  LET u == Put(t, k, v)
         IN  /\ Cardinality(LiveIn(u)) = Cardinality(LiveIn(t)) + 1
             /\ \A o : RefsIn(u, LiveIn(u), o) = RefsIn(t, LiveIn(t), o) + Same(o, k) + Same(o, v)
  <1> DEFINE u == Put(t, k, v)
             n == Len(t.entries)
  <1>1. TableType(t)
    BY DEF Sound
  <1>2. /\ LiveIn(u) = LiveIn(t) \cup {n + 1}
        /\ u.entries[n + 1] = Entry(k, v)
        /\ \A i \in 1..n : u.entries[i] = t.entries[i]
    BY PutShape
  <1>3. n \in Nat /\ \A i \in LiveIn(t) : i \in 1..n
    BY <1>1, TableFacts
  <1> HIDE DEF u, n
  <1>4. n + 1 \notin LiveIn(t) /\ \A i \in LiveIn(t) : u.entries[i] = t.entries[i]
    BY <1>2, <1>3
  <1>5. IsFiniteSet(LiveIn(t))
    BY <1>1, LiveFinite
  <1>6. Cardinality(LiveIn(u)) = Cardinality(LiveIn(t)) + 1
    BY <1>2, <1>4, <1>5, FS_AddElement
  <1>7. ASSUME NEW o
        PROVE  RefsIn(u, LiveIn(u), o) = RefsIn(t, LiveIn(t), o) + Same(o, k) + Same(o, v)
    <2>1. u.entries[n + 1].key = k /\ u.entries[n + 1].value = v
      BY <1>2 DEF Entry
    <2> QED BY <1>2, <1>4, <1>5, <2>1, OneMoreEntry
  <1> QED BY <1>6, <1>7 DEF u

LEMMA FewerRefs ==
  ASSUME NEW t, TableType(t), NEW i \in LiveIn(t), NEW u,
         LiveIn(u) \subseteq LiveIn(t), i \notin LiveIn(u), \A j \in LiveIn(t) : j \in LiveIn(u) \/ j = i,
         \A j \in LiveIn(t) : j # i => u.entries[j] = t.entries[j], NEW o
  PROVE  RefsIn(t, LiveIn(t), o) =
           RefsIn(u, LiveIn(u), o) + Same(o, t.entries[i].key) + Same(o, t.entries[i].value)
  <1> DEFINE S == LiveIn(u)
             T == LiveIn(t)
  <1>1. /\ IsFiniteSet(S) /\ i \notin S /\ S \subseteq T /\ i \in T
        /\ \A j \in T : j \in S \/ j = i
        /\ \A j \in S : t.entries[j] = u.entries[j]
    BY LiveFinite, FS_Subset
  <1> HIDE DEF S, T
  <1>2. RefsIn(t, T, o) = RefsIn(u, S, o) + Same(o, t.entries[i].key) + Same(o, t.entries[i].value)
    BY ONLY <1>1, OneMoreEntry
  <1> QED BY <1>2 DEF S, T

LEMMA SameFacts ==
  ASSUME NEW o, NEW x
  PROVE  Same(o, x) \in {0, 1}
  BY DEF Same

LEMMA ReplaceRefs ==
  ASSUME NEW t, Sound(t), NEW i \in LiveIn(t), NEW v \in Values, NEW o
  PROVE  LET u == [t EXCEPT !.entries[i].value = v]
         IN  RefsIn(u, LiveIn(u), o) = RefsIn(t, LiveIn(t), o) + Same(o, v) - Same(o, t.entries[i].value)
  <1> DEFINE u == [t EXCEPT !.entries[i].value = v]
             L == LiveIn(t)
             S == L \ {i}
             n == Len(t.entries)
  <1>1. TableType(t)
    BY DEF Sound
  <1>2. /\ LiveIn(u) = LiveIn(t)
        /\ u.entries[i] = Entry(t.entries[i].key, v)
        /\ \A j \in 1..n : j # i => u.entries[j] = t.entries[j]
    BY ReplaceSound
  <1>3. \A j \in LiveIn(t) : j \in 1..n
    BY <1>1, TableFacts
  <1> HIDE DEF u
  <1>4. /\ IsFiniteSet(S) /\ i \notin S /\ \A j \in S : u.entries[j] = t.entries[j]
        /\ S \subseteq L /\ \A j \in L : j \in S \/ j = i
        /\ i \in L
    BY <1>1, <1>2, <1>3, LiveFinite, FS_RemoveElement
  <1> HIDE DEF S, L
  <1>5. u.entries[i].key = t.entries[i].key /\ u.entries[i].value = v
    BY <1>2 DEF Entry
  <1>6. RefsIn(u, L, o) = RefsIn(t, S, o) + Same(o, t.entries[i].key) + Same(o, v)
    <2>1. RefsIn(u, L, o) = RefsIn(t, S, o) + Same(o, u.entries[i].key) + Same(o, u.entries[i].value)
      BY <1>4, OneMoreEntry
    <2> QED BY <1>5, <2>1
  <1>7. RefsIn(t, L, o) = RefsIn(t, S, o) + Same(o, t.entries[i].key) + Same(o, t.entries[i].value)
    BY <1>4, OneMoreHere
  <1>8. RefsIn(t, S, o) \in Nat
    BY <1>4, RefsFinite
  <1>9. /\ Same(o, t.entries[i].key) \in {0, 1} /\ Same(o, v) \in {0, 1}
        /\ Same(o, t.entries[i].value) \in {0, 1}
    BY SameFacts
  <1>10. RefsIn(u, L, o) = RefsIn(t, L, o) + Same(o, v) - Same(o, t.entries[i].value)
    BY <1>6, <1>7, <1>8, <1>9
  <1> QED BY <1>2, <1>10 DEF u, L

-----------------------------------------------------------------------------
(* Resizing.                                                               *)

Upto(t, m) == {i \in LiveIn(t) : i <= m}

(* The table g holds what the first m entries of t do.                     *)
Moving(t, g, m) ==
  /\ Sound(g)
  /\ Len(g.entries) = Cardinality(LiveIn(g))
  /\ Cardinality(LiveIn(g)) = Cardinality(Upto(t, m))
  /\ \A j \in LiveIn(g) : \E i \in Upto(t, m) : g.entries[j].key = t.entries[i].key
  /\ \A o \in DictMembers : RefsIn(g, LiveIn(g), o) = RefsIn(t, Upto(t, m), o)

LEMMA UptoFacts ==
  ASSUME NEW t, TableType(t), NEW m \in 0..Len(t.entries)
  PROVE  /\ IsFiniteSet(Upto(t, m)) /\ Cardinality(Upto(t, m)) \in Nat
         /\ Cardinality(Upto(t, m)) <= Cardinality(LiveIn(t))
         /\ m = Len(t.entries) => Upto(t, m) = LiveIn(t)
  <1>1. Upto(t, m) \subseteq LiveIn(t)
    BY DEF Upto
  <1>2. IsFiniteSet(LiveIn(t)) /\ Cardinality(LiveIn(t)) \in Nat
    BY LiveFinite
  <1>3. \A i \in LiveIn(t) : i \in 1..Len(t.entries)
    BY TableFacts
  <1>4. Len(t.entries) \in Nat
    BY TableFacts
  <1> QED BY <1>1, <1>2, <1>3, <1>4, FS_Subset, FS_CardinalityType DEF Upto

LEMMA MoveStart ==
  ASSUME NEW t, TableType(t), NEW n \in Sizes
  PROVE  Moving(t, NewKeys(n), 0)
  <1> DEFINE g == NewKeys(n)
  <1>1. Sound(g) /\ LiveIn(g) = {} /\ g.entries = <<>>
    BY NewKeysSound
  <1>2. Upto(t, 0) = {}
    <2>1. \A i \in LiveIn(t) : i \in 1..Len(t.entries)
      BY TableFacts
    <2> QED BY <2>1, TableFacts DEF Upto
  <1> HIDE DEF g
  <1>3. Cardinality(LiveIn(g)) = 0 /\ Cardinality(Upto(t, 0)) = 0 /\ Len(g.entries) = 0
    BY <1>1, <1>2, FS_EmptySet
  <1>4. \A o : RefsIn(g, LiveIn(g), o) = 0 /\ RefsIn(t, Upto(t, 0), o) = 0
    <2>1. \A o : KeyPlaces(g, {}, o) = {} /\ ValuePlaces(g, {}, o) = {} /\ KeyPlaces(t, {}, o) = {} /\ ValuePlaces(t, {}, o) = {}
      BY DEF KeyPlaces, ValuePlaces
    <2>2. Cardinality({}) = 0 /\ 0 + 0 = 0
      BY FS_EmptySet
    <2>3. \A o : RefsIn(g, {}, o) = 0 + 0 /\ RefsIn(t, {}, o) = 0 + 0
      BY <2>1, <2>2 DEF RefsIn
    <2> QED BY <1>1, <1>2, <2>2, <2>3
  <1>5. Moving(t, g, 0)
    BY <1>1, <1>3, <1>4 DEF Moving
  <1> QED BY <1>5 DEF g

LEMMA MoveSkip ==
  ASSUME NEW t, TableType(t), NEW g, NEW m \in 0..Len(t.entries) - 1,
         Moving(t, g, m), m + 1 \notin LiveIn(t)
  PROVE  Moving(t, g, m + 1)
  <1>1. Len(t.entries) \in Nat /\ \A i \in LiveIn(t) : i \in 1..Len(t.entries)
    BY TableFacts
  <1>2. Upto(t, m + 1) = Upto(t, m)
    BY <1>1 DEF Upto
  <1> QED BY <1>2 DEF Moving

(* There is room for what is moved, and its key is new.                    *)
LEMMA MoveFits ==
  ASSUME NEW t, Sound(t), NEW g, NEW m \in 0..Len(t.entries) - 1, Moving(t, g, m),
         m + 1 \in LiveIn(t), Usable(g.size) > Cardinality(LiveIn(t))
  PROVE  g.usable > 0 /\ Find(g, t.entries[m + 1].key) < 0
  <1> DEFINE k == t.entries[m + 1].key
             S == Upto(t, m)
  <1>1. TableType(t) /\ TableType(g) /\ Sound(g)
    BY DEF Sound, Moving
  <1>2. /\ Len(t.entries) \in Nat /\ k \in Keys
        /\ \A i \in LiveIn(t) : i \in 1..Len(t.entries)
    BY <1>1, TableFacts
  <1>3. IsFiniteSet(S) /\ Cardinality(S) \in Nat /\ Cardinality(S) <= Cardinality(LiveIn(t))
    BY <1>1, <1>2, UptoFacts
  <1>4. /\ \A j \in S : j \in LiveIn(t) /\ j # m + 1
    BY <1>2 DEF Upto
  <1>5. g.usable > 0
    <2>1. Len(g.entries) + g.usable = Usable(g.size) /\ g.usable \in Nat /\ Len(g.entries) \in Nat
      BY <1>1, TableFacts DEF TableType
    <2>2. Len(g.entries) = Cardinality(S)
      BY DEF Moving
    <2>3. Cardinality(LiveIn(t)) \in Nat
      BY <1>1, LiveFinite
    <2> QED BY <1>3, <2>1, <2>2, <2>3
  <1>6. Find(g, k) < 0
    <2>1. SUFFICES ASSUME Find(g, k) >= 0 PROVE FALSE
      BY <1>1, <1>2, FindFacts
    <2>2. PICK j \in LiveIn(g) : EqualKeys(g.entries[j].key, k)
      BY <1>1, <1>2, <2>1, FindFacts
    <2>3. PICK i \in S : g.entries[j].key = t.entries[i].key
      BY DEF Moving
    <2>4. EqualKeys(t.entries[i].key, t.entries[m + 1].key) /\ i \in LiveIn(t)
      BY <1>4, <2>2, <2>3
    <2>5. i = m + 1
      BY <2>4 DEF Sound
    <2> QED BY <1>4, <2>5
  <1> QED BY <1>5, <1>6

LEMMA MovePut ==
  ASSUME NEW t, Sound(t), NEW g, NEW m \in 0..Len(t.entries) - 1, Moving(t, g, m),
         m + 1 \in LiveIn(t), Usable(g.size) > Cardinality(LiveIn(t))
  PROVE  LET e == t.entries[m + 1]
             u == Put(g, e.key, e.value)
         IN  /\ u.size = g.size
             /\ Moving(t, u, m + 1)
  <1> DEFINE k == t.entries[m + 1].key
             v == t.entries[m + 1].value
             u == Put(g, k, v)
             S == Upto(t, m)
             T == Upto(t, m + 1)
  <1>1. TableType(t) /\ TableType(g) /\ Sound(g)
    BY DEF Sound, Moving
  <1>2. /\ Len(t.entries) \in Nat /\ k \in Keys /\ v \in Values
        /\ \A i \in LiveIn(t) : i \in 1..Len(t.entries)
    BY <1>1, TableFacts
  <1>3. IsFiniteSet(S) /\ Cardinality(S) \in Nat /\ Cardinality(S) <= Cardinality(LiveIn(t))
    BY <1>1, <1>2, UptoFacts
  <1>4. /\ \A j \in S : j \in LiveIn(t) /\ j # m + 1
        /\ m + 1 \notin S /\ S \subseteq T /\ m + 1 \in T
        /\ \A j \in T : j \in S \/ j = m + 1
    BY <1>2 DEF Upto
  <1>5. g.usable > 0 /\ Find(g, k) < 0
    BY MoveFits
  <1>7. /\ u.size = g.size /\ Len(u.entries) = Len(g.entries) + 1
        /\ LiveIn(u) = LiveIn(g) \cup {Len(g.entries) + 1}
        /\ u.entries[Len(g.entries) + 1] = Entry(k, v)
        /\ \A i \in 1..Len(g.entries) : u.entries[i] = g.entries[i]
    BY <1>1, <1>2, <1>5, PutShape
  <1>8. Sound(u)
    BY <1>1, <1>2, <1>5, PutSound
  <1>9. /\ Cardinality(LiveIn(u)) = Cardinality(LiveIn(g)) + 1
        /\ \A o : RefsIn(u, LiveIn(u), o) = RefsIn(g, LiveIn(g), o) + Same(o, k) + Same(o, v)
    BY <1>1, <1>2, <1>5, PutRefs
  <1>10. \A i \in LiveIn(g) : i \in 1..Len(g.entries)
    BY <1>1, TableFacts
  <1> HIDE DEF u, S, T
  <1>11. Cardinality(T) = Cardinality(S) + 1
    <2>1. T = S \cup {m + 1}
      BY <1>4
    <2> QED BY <1>3, <1>4, <2>1, FS_AddElement
  <1>12. ASSUME NEW o PROVE RefsIn(t, T, o) = RefsIn(t, S, o) + Same(o, k) + Same(o, v)
    <2> DEFINE i == m + 1
    <2>1. IsFiniteSet(S) /\ i \notin S /\ S \subseteq T /\ (\A j \in T : j \in S \/ j = i) /\ i \in T
      BY <1>3, <1>4
    <2> HIDE DEF i
    <2>2. RefsIn(t, T, o) = RefsIn(t, S, o) + Same(o, t.entries[i].key) + Same(o, t.entries[i].value)
      BY ONLY <2>1, OneMoreHere
    <2> QED BY <2>2 DEF i
  <1>13. ASSUME NEW j \in LiveIn(u) PROVE \E i \in T : u.entries[j].key = t.entries[i].key
    <2>1. CASE j = Len(g.entries) + 1
      <3>1. u.entries[j].key = t.entries[m + 1].key
        BY <1>7, <2>1 DEF Entry
      <3> QED BY <1>4, <3>1
    <2>2. CASE j \in LiveIn(g)
      <3>1. u.entries[j] = g.entries[j]
        BY <1>7, <1>10, <2>2
      <3>2. PICK i \in S : g.entries[j].key = t.entries[i].key
        BY <2>2 DEF Moving, S
      <3> QED BY <1>4, <3>1, <3>2
    <2> QED BY <1>7, <2>1, <2>2
  <1>14. Len(u.entries) = Cardinality(LiveIn(u)) /\ Cardinality(LiveIn(u)) = Cardinality(T)
    BY <1>7, <1>9, <1>11 DEF Moving, S
  <1>15. \A o \in DictMembers : RefsIn(u, LiveIn(u), o) = RefsIn(t, T, o)
    BY <1>9, <1>12 DEF Moving, S
  <1>16. Moving(t, u, m + 1)
    BY <1>8, <1>13, <1>14, <1>15 DEF Moving, T
  <1> QED BY <1>7, <1>16 DEF u

-----------------------------------------------------------------------------
(* What each operation leaves exact.                                       *)

KeysAfter(t, p) == {t.entries[i].key : i \in {j \in LiveIn(t) : j > p}}

(* The table t is sound, c counts its items and h the references it holds; *)
(* an iteration at p still has to come to d.                               *)
Exact(t, c, h, p, d) ==
  /\ Sound(t)
  /\ c = Cardinality(LiveIn(t))
  /\ h \in [DictMembers -> Nat]
  /\ \A o \in DictMembers : h[o] = RefsIn(t, LiveIn(t), o)
  /\ p \in {NoIter} \cup 0..Len(t.entries) /\ d \subseteq Keys
  /\ p # NoIter => d = KeysAfter(t, p)

LEMMA RefsTyped ==
  ASSUME NEW t, TableType(t), NEW f, NEW h, h = [o \in DictMembers |-> f[o]],
         \A o \in DictMembers : f[o] = RefsIn(t, LiveIn(t), o)
  PROVE  h \in [DictMembers -> Nat] /\ \A o \in DictMembers : h[o] = RefsIn(t, LiveIn(t), o)
  <1>1. IsFiniteSet(LiveIn(t))
    BY LiveFinite
  <1>2. \A o : RefsIn(t, LiveIn(t), o) \in Nat
    BY <1>1, RefsFinite
  <1> QED BY <1>2

LEMMA EmptyExact ==
  ASSUME NEW n \in Sizes, NEW h, h \in [DictMembers -> {0}]
  PROVE  Exact(NewKeys(n), 0, h, NoIter, {})
  <1> DEFINE t == NewKeys(n)
  <1>1. Sound(t) /\ LiveIn(t) = {} /\ t.entries = <<>>
    BY NewKeysSound
  <1> HIDE DEF t
  <1>2. Cardinality(LiveIn(t)) = 0
    BY <1>1, FS_EmptySet
  <1>3. \A o : KeyPlaces(t, {}, o) = {} /\ ValuePlaces(t, {}, o) = {}
    BY DEF KeyPlaces, ValuePlaces
  <1>4. Cardinality({}) = 0 /\ 0 + 0 = 0
    BY FS_EmptySet
  <1>5. \A o : RefsIn(t, {}, o) = 0 + 0
    BY <1>3, <1>4 DEF RefsIn
  <1>6. \A o \in DictMembers : h[o] = RefsIn(t, LiveIn(t), o)
    BY <1>1, <1>4, <1>5
  <1>7. Exact(t, 0, h, NoIter, {})
    BY <1>1, <1>2, <1>6 DEF Exact
  <1> QED BY <1>7 DEF t

LEMMA InsertExact ==
  ASSUME NEW t, Sound(t), NEW k \in Keys, NEW v \in Values, Find(t, k) < 0, t.usable > 0,
         NEW c, c = Cardinality(LiveIn(t)),
         NEW h, \A o \in DictMembers : h[o] = RefsIn(t, LiveIn(t), o)
  PROVE  Exact(Put(t, k, v), c + 1, [o \in DictMembers |-> h[o] + Same(o, k) + Same(o, v)], NoIter, {})
  <1> DEFINE u == Put(t, k, v)
             g == [o \in DictMembers |-> h[o] + Same(o, k) + Same(o, v)]
  <1>1. Sound(u)
    BY PutSound
  <1>2. /\ Cardinality(LiveIn(u)) = Cardinality(LiveIn(t)) + 1
        /\ \A o : RefsIn(u, LiveIn(u), o) = RefsIn(t, LiveIn(t), o) + Same(o, k) + Same(o, v)
    BY PutRefs
  <1> HIDE DEF u
  <1>3. \A o \in DictMembers : g[o] = RefsIn(u, LiveIn(u), o)
    BY <1>2
  <1>4. IsFiniteSet(LiveIn(u))
    BY <1>1, LiveFinite DEF Sound
  <1>5. \A o : RefsIn(u, LiveIn(u), o) \in Nat
    BY <1>4, RefsFinite
  <1>6. g \in [DictMembers -> Nat]
    BY <1>3, <1>5
  <1> HIDE DEF g
  <1>7. Exact(u, c + 1, g, NoIter, {})
    BY <1>1, <1>2, <1>3, <1>6 DEF Exact
  <1> QED BY <1>7 DEF u, g

LEMMA ReplaceExact ==
  ASSUME NEW t, NEW c, NEW h, NEW p, NEW d, Exact(t, c, h, p, d), NEW i \in LiveIn(t), NEW v \in Values
  PROVE  Exact([t EXCEPT !.entries[i].value = v], c,
               [o \in DictMembers |-> h[o] + Same(o, v) - Same(o, t.entries[i].value)], p, d)
  <1> DEFINE u == [t EXCEPT !.entries[i].value = v]
             g == [o \in DictMembers |-> h[o] + Same(o, v) - Same(o, t.entries[i].value)]
  <1>1. Sound(t) /\ TableType(t)
    BY DEF Exact, Sound
  <1>2. /\ Sound(u) /\ LiveIn(u) = LiveIn(t) /\ Len(u.entries) = Len(t.entries)
        /\ u.entries[i] = Entry(t.entries[i].key, v)
        /\ \A j \in 1..Len(t.entries) : j # i => u.entries[j] = t.entries[j]
    BY <1>1, ReplaceSound
  <1>3. \A o : RefsIn(u, LiveIn(u), o) = RefsIn(t, LiveIn(t), o) + Same(o, v) - Same(o, t.entries[i].value)
    BY <1>1, ReplaceRefs
  <1> HIDE DEF u
  <1>4. \A o \in DictMembers : g[o] = RefsIn(u, LiveIn(u), o)
    BY <1>3 DEF Exact
  <1>5. IsFiniteSet(LiveIn(u))
    BY <1>2, LiveFinite DEF Sound
  <1>6. \A o : RefsIn(u, LiveIn(u), o) \in Nat
    BY <1>5, RefsFinite
  <1>7. g \in [DictMembers -> Nat]
    BY <1>4, <1>6
  <1>8. KeysAfter(u, p) = KeysAfter(t, p)
    <2>1. \A j \in LiveIn(t) : u.entries[j].key = t.entries[j].key
      BY <1>1, <1>2, TableFacts DEF Entry
    <2> QED BY <1>2, <2>1 DEF KeysAfter
  <1> HIDE DEF g
  <1>9. Exact(u, c, g, p, d)
    BY <1>2, <1>4, <1>7, <1>8 DEF Exact
  <1> QED BY <1>9 DEF u, g

LEMMA DeleteExact ==
  ASSUME NEW t, NEW c, NEW h, NEW p, NEW d, Exact(t, c, h, p, d), NEW k \in Keys, Find(t, k) >= 0
  PROVE  LET i == Find(t, k) + 1
             e == t.entries[i]
             u == [t EXCEPT !.indices[Probe(t, k, Stop(t, k))] = DUMMY, !.entries[i] = Gone]
         IN  Exact(u, c - 1, [o \in DictMembers |-> h[o] - Same(o, e.key) - Same(o, e.value)], p, d \ {e.key})
  <1> DEFINE i == Find(t, k) + 1
             e == t.entries[i]
             u == [t EXCEPT !.indices[Probe(t, k, Stop(t, k))] = DUMMY, !.entries[i] = Gone]
             g == [o \in DictMembers |-> h[o] - Same(o, e.key) - Same(o, e.value)]
  <1>1. Sound(t) /\ TableType(t)
    BY DEF Exact, Sound
  <1>2. /\ Sound(u) /\ LiveIn(u) = LiveIn(t) \ {i} /\ Len(u.entries) = Len(t.entries)
        /\ \A j \in 1..Len(t.entries) : j # i => u.entries[j] = t.entries[j]
    BY <1>1, DeleteSound
  <1>3. i \in LiveIn(t)
    BY <1>1, FindFacts
  <1>4. \A j \in LiveIn(t) : j \in 1..Len(t.entries)
    BY <1>1, TableFacts
  <1> HIDE DEF u, i
  <1>5. \A j \in LiveIn(t) : j # i => u.entries[j] = t.entries[j]
    BY <1>2, <1>4
  <1>6. IsFiniteSet(LiveIn(t)) /\ Cardinality(LiveIn(t)) \in Nat /\ IsFiniteSet(LiveIn(u))
    BY <1>1, <1>2, LiveFinite DEF Sound
  <1>7. c - 1 = Cardinality(LiveIn(u))
    <2>1. Cardinality(LiveIn(t) \ {i}) = Cardinality(LiveIn(t)) - 1
      BY <1>3, <1>6, FS_RemoveElement
    <2> QED BY <1>2, <2>1 DEF Exact
  <1>8. \A o : RefsIn(u, LiveIn(u), o) \in Nat
    BY <1>6, RefsFinite
  <1>9. ASSUME NEW o \in DictMembers PROVE g[o] = RefsIn(u, LiveIn(u), o)
    <2>1. RefsIn(t, LiveIn(t), o) = RefsIn(u, LiveIn(u), o) + Same(o, e.key) + Same(o, e.value)
      <3>1. LiveIn(u) \subseteq LiveIn(t) /\ i \notin LiveIn(u) /\ \A j \in LiveIn(t) : j \in LiveIn(u) \/ j = i
        BY <1>2
      <3> QED BY <1>1, <1>3, <1>5, <3>1, FewerRefs
    <2>2. Same(o, e.key) \in {0, 1} /\ Same(o, e.value) \in {0, 1}
      BY SameFacts
    <2>3. h[o] = RefsIn(t, LiveIn(t), o)
      BY DEF Exact
    <2> QED BY <1>8, <2>1, <2>2, <2>3
  <1>10. g \in [DictMembers -> Nat]
    BY <1>8, <1>9
  <1>11. p # NoIter => d \ {e.key} = KeysAfter(u, p)
    <2>1. \A a, b \in LiveIn(t) : t.entries[a].key = t.entries[b].key => a = b
      BY <1>1 DEF Sound, EqualKeys
    <2>2. p # NoIter => d = KeysAfter(t, p)
      BY DEF Exact
    <2> QED BY <1>2, <1>3, <1>5, <2>1, <2>2 DEF KeysAfter
  <1> HIDE DEF g
  <1>12. Exact(u, c - 1, g, p, d \ {e.key})
    BY <1>2, <1>7, <1>9, <1>10, <1>11 DEF Exact
  <1> QED BY <1>12 DEF u, g, i

LEMMA StartIterExact ==
  ASSUME NEW t, NEW c, NEW h, NEW p, NEW d, Exact(t, c, h, p, d)
  PROVE  Exact(t, c, h, 0, {t.entries[i].key : i \in LiveIn(t)})
  <1>1. Sound(t) /\ TableType(t)
    BY DEF Exact, Sound
  <1>2. /\ Len(t.entries) \in Nat
        /\ \A i \in LiveIn(t) : i \in 1..Len(t.entries) /\ t.entries[i].key \in Keys
    BY <1>1, TableFacts
  <1>3. {j \in LiveIn(t) : j > 0} = LiveIn(t)
    BY <1>2
  <1>4. {t.entries[i].key : i \in LiveIn(t)} = KeysAfter(t, 0)
    BY <1>3 DEF KeysAfter
  <1>5. {t.entries[i].key : i \in LiveIn(t)} \subseteq Keys /\ 0 \in 0..Len(t.entries)
    BY <1>2
  <1> QED BY <1>4, <1>5 DEF Exact

LEMMA NextExact ==
  ASSUME NEW t, NEW c, NEW h, NEW p, NEW d, Exact(t, c, h, p, d), p # NoIter,
         {i \in LiveIn(t) : i > p} # {}
  PROVE  LET m == Min({i \in LiveIn(t) : i > p})
         IN  Exact(t, c, h, m, d \ {t.entries[m].key})
  <1> DEFINE rest == {i \in LiveIn(t) : i > p}
             m    == Min(rest)
  <1>1. Sound(t) /\ TableType(t) /\ p \in Nat /\ d = KeysAfter(t, p) /\ d \subseteq Keys
    BY DEF Exact, Sound
  <1>2. \A i \in LiveIn(t) : i \in 1..Len(t.entries)
    BY <1>1, TableFacts
  <1>3. rest \in SUBSET Nat
    BY <1>2
  <1>4. m \in rest /\ \A i \in rest : m <= i
    BY <1>3, MinLeast
  <1>5. m \in LiveIn(t) /\ m > p /\ \A i \in LiveIn(t) : i > p => m <= i
    BY <1>4
  <1> HIDE DEF m
  <1>6. \A a, b \in LiveIn(t) : t.entries[a].key = t.entries[b].key => a = b
    BY <1>1 DEF Sound, EqualKeys
  <1>7. \A i \in LiveIn(t) : i > p /\ i # m <=> i > m
    BY <1>1, <1>2, <1>5
  <1>8. d \ {t.entries[m].key} = KeysAfter(t, m)
    BY <1>1, <1>5, <1>6, <1>7 DEF KeysAfter
  <1>9. m \in 0..Len(t.entries) /\ m # NoIter
    BY <1>2, <1>5 DEF NoIter
  <1>10. Exact(t, c, h, m, d \ {t.entries[m].key})
    BY <1>1, <1>8, <1>9 DEF Exact
  <1> QED BY <1>10 DEF m

-----------------------------------------------------------------------------
(* The invariant: the table in use is exact, and a resize has moved the    *)
(* items before `moved` to a sound table with room for the rest and for    *)
(* the pending one, whose key is new.                                      *)

Growing ==
  /\ Len(grown) = 1 /\ grown = <<grown[1]>>
  /\ Len(pending) = 1 /\ pending \in Seq(DictItems)
  /\ moved \in 0..Len(keys.entries)
  /\ Moving(keys, grown[1], moved)
  /\ Usable(grown[1].size) > Cardinality(LiveIn(keys))
  /\ Find(keys, pending[1].key) < 0

Settled == grown = <<>> /\ pending = <<>> /\ moved = 0

Merging == merge \in Seq(DictItems \cup {Gone}) /\ copying \in BOOLEAN

DictInv == Exact(keys, used, held, pos, due) /\ Merging /\ (Settled \/ Growing)

LEMMA InitDictInv == DictInit => DictInv
  <1> SUFFICES ASSUME DictInit PROVE DictInv
    OBVIOUS
  <1>1. Min(Sizes) \in Sizes
    BY LeastSize
  <1>2. Exact(keys, used, held, pos, due)
    BY <1>1, EmptyExact DEF DictInit
  <1>3. Merging
    BY EmptySeq DEF DictInit, Merging
  <1>4. Settled
    BY DEF DictInit, Settled
  <1> QED BY <1>2, <1>3, <1>4 DEF DictInv

LEMMA ReplaceInv ==
  ASSUME DictInv, Settled, NEW k \in Keys, NEW v \in Values, Find(keys, k) >= 0, Replace(k, v), Merging'
  PROVE  DictInv'
  <1> DEFINE i == Find(keys, k) + 1
  <1>1. i \in LiveIn(keys)
    BY FindFacts DEF DictInv, Exact
  <1>2. Exact([keys EXCEPT !.entries[i].value = v], used,
              [o \in DictMembers |-> held[o] + Same(o, v) - Same(o, keys.entries[i].value)], pos, due)
    BY <1>1, ReplaceExact DEF DictInv
  <1>3. Exact(keys', used', held', pos', due')
    BY <1>2 DEF Replace, iterVars
  <1> QED BY <1>3 DEF DictInv, Replace, Settled

LEMMA InsertInv ==
  ASSUME NEW t, Sound(t), t.usable > 0, NEW k \in Keys, NEW v \in Values, Find(t, k) < 0,
         used = Cardinality(LiveIn(t)), \A o \in DictMembers : held[o] = RefsIn(t, LiveIn(t), o),
         Insert(t, k, v), Merging'
  PROVE  DictInv'
  <1>1. Exact(Put(t, k, v), used + 1, [o \in DictMembers |-> held[o] + Same(o, k) + Same(o, v)], NoIter, {})
    BY InsertExact
  <1>2. Exact(keys', used', held', pos', due')
    BY <1>1 DEF Insert
  <1> QED BY <1>2 DEF DictInv, Insert, Settled

LEMMA StartResizeInv ==
  ASSUME DictInv, NEW k \in Keys, NEW v \in Values, Find(keys, k) < 0, StartResize(k, v), Merging'
  PROVE  DictInv'
  <1> DEFINE n == Min(Fits(used + 1))
             g == NewKeys(n)
  <1>1. Sound(keys) /\ TableType(keys) /\ used = Cardinality(LiveIn(keys))
    BY DEF DictInv, Exact, Sound
  <1>2. Fits(used + 1) \subseteq Sizes /\ Fits(used + 1) # {}
    BY DEF StartResize, Fits
  <1>3. n \in Fits(used + 1)
    BY <1>2, LeastSize
  <1>4. n \in Sizes /\ Usable(n) >= used + 1
    BY <1>3 DEF Fits
  <1> HIDE DEF n
  <1>5. g.size = n /\ Moving(keys, g, 0)
    BY <1>1, <1>4, NewKeysSound, MoveStart
  <1>6. Usable(g.size) > Cardinality(LiveIn(keys))
    <2>1. Cardinality(LiveIn(keys)) \in Nat /\ Usable(n) \in Nat
      BY <1>1, <1>4, LiveFinite, SizeFacts
    <2> QED BY <1>1, <1>4, <1>5, <2>1
  <1> HIDE DEF g
  <1>7. /\ grown' = <<g>> /\ moved' = 0 /\ pending' = <<Entry(k, v)>>
        /\ pos' = NoIter /\ due' = {} /\ keys' = keys /\ used' = used /\ held' = held
    BY DEF StartResize, n, g
  <1>8. Len(grown') = 1 /\ grown'[1] = g /\ Len(pending') = 1 /\ pending'[1] = Entry(k, v)
    BY <1>7
  <1>9. pending' \in Seq(DictItems) /\ pending'[1].key = k
    <2>1. Entry(k, v) \in DictItems /\ Entry(k, v).key = k
      BY DEF Entry, DictItems
    <2> QED BY <1>7, <2>1
  <1>10. Exact(keys', used', held', pos', due')
    BY <1>7 DEF DictInv, Exact
  <1>11. moved' \in 0..Len(keys'.entries)
    BY <1>1, <1>7, TableFacts
  <1>12. Growing'
    BY <1>5, <1>6, <1>7, <1>8, <1>9, <1>11 DEF Growing
  <1> QED BY <1>10, <1>12 DEF DictInv

LEMMA SetItemInv ==
  ASSUME DictInv, Settled, NEW k \in Keys, NEW v \in Values, SetItem(k, v), Merging'
  PROVE  DictInv'
  <1>1. CASE Find(keys, k) >= 0 /\ Replace(k, v)
    BY <1>1, ReplaceInv
  <1>2. CASE Find(keys, k) < 0 /\ keys.usable > 0 /\ Insert(keys, k, v)
    <2>1. Sound(keys) /\ used = Cardinality(LiveIn(keys)) /\ \A o \in DictMembers : held[o] = RefsIn(keys, LiveIn(keys), o)
      BY DEF DictInv, Exact
    <2> QED BY <1>2, <2>1, InsertInv
  <1>3. CASE Find(keys, k) < 0 /\ keys.usable <= 0 /\ StartResize(k, v)
    BY <1>3, StartResizeInv
  <1> QED BY <1>1, <1>2, <1>3 DEF SetItem

LEMMA IdleSettled == ASSUME DictInv, grown = <<>> PROVE Settled
  BY DEF DictInv, Growing

LEMMA MoveEntryInv == ASSUME DictInv, MoveEntry PROVE DictInv'
  <1> DEFINE e == keys.entries[moved + 1]
             g == grown[1]
             u == IF e = Gone THEN g ELSE Put(g, e.key, e.value)
  <1>1. Growing /\ Sound(keys) /\ TableType(keys)
    BY DEF DictInv, Settled, MoveEntry, Exact, Sound
  <1>2. /\ Len(keys.entries) \in Nat /\ moved \in 0..Len(keys.entries) - 1
        /\ keys.entries \in Seq(DictItems \cup {Gone})
    <2>1. Len(keys.entries) \in Nat /\ keys.entries \in Seq(DictItems \cup {Gone})
      BY <1>1, TableFacts
    <2> QED BY <1>1, <2>1 DEF Growing, MoveEntry
  <1>3. e # Gone <=> moved + 1 \in LiveIn(keys)
    <2>1. moved + 1 \in 1..Len(keys.entries) /\ DOMAIN keys.entries = 1..Len(keys.entries)
      BY <1>2
    <2> QED BY <2>1 DEF LiveIn
  <1>4. u.size = g.size /\ Moving(keys, u, moved + 1)
    <2>1. Moving(keys, g, moved) /\ Usable(g.size) > Cardinality(LiveIn(keys))
      BY <1>1 DEF Growing
    <2>2. CASE e = Gone
      BY <1>1, <1>2, <1>3, <2>1, <2>2, MoveSkip
    <2>3. CASE e # Gone
      BY <1>1, <1>2, <1>3, <2>1, <2>3, MovePut
    <2> QED BY <2>2, <2>3
  <1> HIDE DEF u
  <1>5. /\ grown' = <<u>> /\ moved' = moved + 1
        /\ keys' = keys /\ used' = used /\ held' = held /\ pending' = pending
        /\ merge' = merge /\ copying' = copying /\ pos' = pos /\ due' = due
    BY <1>1 DEF MoveEntry, iterVars, u, Growing
  <1>6. Len(grown') = 1 /\ grown'[1] = u /\ moved' \in 0..Len(keys'.entries)
    BY <1>2, <1>5
  <1>7. Growing'
    BY <1>1, <1>4, <1>5, <1>6 DEF Growing
  <1> QED BY <1>5, <1>7 DEF DictInv, Merging

(* A resize ends with room for the pending item, whose key is still new.   *)
LEMMA EndFits ==
  ASSUME DictInv, EndResize
  PROVE  LET g == grown[1]
             k == pending[1].key
         IN  /\ Sound(g) /\ g.usable > 0 /\ Find(g, k) < 0 /\ k \in Keys
             /\ pending[1] \in DictItems /\ pending[1].value \in Values /\ pending = <<pending[1]>>
             /\ used = Cardinality(LiveIn(g)) /\ \A o \in DictMembers : held[o] = RefsIn(g, LiveIn(g), o)
  <1> DEFINE g == grown[1]
             k == pending[1].key
  <1>1. Growing /\ Sound(keys) /\ TableType(keys) /\ moved = Len(keys.entries)
    BY DEF DictInv, Settled, EndResize, Exact, Sound
  <1>2. k \in Keys /\ pending[1] \in DictItems
    <2>1. pending[1] \in DictItems
      BY <1>1 DEF Growing
    <2> QED BY <2>1 DEF DictItems
  <1>3. Upto(keys, moved) = LiveIn(keys) /\ Cardinality(LiveIn(keys)) \in Nat
    BY <1>1, TableFacts, UptoFacts, LiveFinite
  <1>4. Moving(keys, g, moved) /\ Sound(g) /\ TableType(g) /\ Usable(g.size) > Cardinality(LiveIn(keys)) /\ Find(keys, k) < 0
    BY <1>1 DEF Growing, Moving, Sound
  <1>5. /\ Len(g.entries) = Cardinality(LiveIn(keys)) /\ Cardinality(LiveIn(g)) = Cardinality(LiveIn(keys))
        /\ \A j \in LiveIn(g) : \E i \in LiveIn(keys) : g.entries[j].key = keys.entries[i].key
        /\ \A o \in DictMembers : RefsIn(g, LiveIn(g), o) = RefsIn(keys, LiveIn(keys), o)
    BY <1>3, <1>4 DEF Moving
  <1>6. g.usable > 0
    <2>1. Len(g.entries) + g.usable = Usable(g.size) /\ g.usable \in Nat /\ Len(g.entries) \in Nat
      BY <1>4, TableFacts DEF TableType
    <2> QED BY <1>3, <1>4, <1>5, <2>1
  <1>7. Find(g, k) < 0
    <2>1. SUFFICES ASSUME Find(g, k) >= 0 PROVE FALSE
      BY <1>2, <1>4, FindFacts
    <2>2. PICK j \in LiveIn(g) : EqualKeys(g.entries[j].key, k)
      BY <1>2, <1>4, <2>1, FindFacts
    <2>3. PICK i \in LiveIn(keys) : EqualKeys(keys.entries[i].key, k)
      BY <1>5, <2>2
    <2> QED BY <1>1, <1>2, <1>4, <2>3, FindFacts
  <1>8. used = Cardinality(LiveIn(g)) /\ \A o \in DictMembers : held[o] = RefsIn(g, LiveIn(g), o)
    BY <1>5 DEF DictInv, Exact
  <1>9. pending = <<pending[1]>> /\ pending[1].value \in Values
    BY <1>1, <1>2 DEF Growing, DictItems
  <1> HIDE DEF g, k
  <1> QED BY <1>2, <1>4, <1>6, <1>7, <1>8, <1>9 DEF g, k

LEMMA EndResizeInv == ASSUME DictInv, EndResize PROVE DictInv'
  <1> DEFINE g == grown[1]
             k == pending[1].key
             v == pending[1].value
  <1>1. /\ Sound(g) /\ g.usable > 0 /\ Find(g, k) < 0 /\ k \in Keys /\ v \in Values
        /\ used = Cardinality(LiveIn(g)) /\ \A o \in DictMembers : held[o] = RefsIn(g, LiveIn(g), o)
    BY EndFits
  <1>2. Insert(g, k, v) /\ Merging'
    BY DEF EndResize, DictInv, Merging
  <1> HIDE DEF g, k, v
  <1> QED BY <1>1, <1>2, InsertInv

LEMMA DelItemInv == ASSUME DictInv, NEW k \in Keys, DelItem(k) PROVE DictInv'
  <1> DEFINE i == Find(keys, k) + 1
             e == keys.entries[i]
  <1>1. Settled /\ Find(keys, k) >= 0
    BY IdleSettled DEF DelItem, Idle
  <1>2. Exact([keys EXCEPT !.indices[Probe(keys, k, Stop(keys, k))] = DUMMY, !.entries[i] = Gone], used - 1,
              [o \in DictMembers |-> held[o] - Same(o, e.key) - Same(o, e.value)], pos, due \ {e.key})
    BY <1>1, DeleteExact DEF DictInv
  <1>3. Exact(keys', used', held', pos', due')
    BY <1>2 DEF DelItem
  <1> QED BY <1>1, <1>3 DEF DictInv, DelItem, loopVars, Settled, Merging

LEMMA ClearInv == ASSUME DictInv, PyDict_Clear PROVE DictInv'
  <1>1. Settled /\ Min(Sizes) \in Sizes
    BY IdleSettled, LeastSize DEF PyDict_Clear, Idle
  <1>2. held' \in [DictMembers -> {0}]
    <2>1. IsFiniteSet(LiveIn(keys))
      BY LiveFinite DEF DictInv, Exact, Sound
    <2>2. ASSUME NEW o \in DictMembers
          PROVE  held[o] - Cardinality(KeyPlaces(keys, LiveIn(keys), o))
                         - Cardinality(ValuePlaces(keys, LiveIn(keys), o)) = 0
      <3>1. /\ Cardinality(KeyPlaces(keys, LiveIn(keys), o)) \in Nat
            /\ Cardinality(ValuePlaces(keys, LiveIn(keys), o)) \in Nat
        BY <2>1, RefsFinite
      <3>2. held[o] = RefsIn(keys, LiveIn(keys), o)
        BY DEF DictInv, Exact
      <3> QED BY <3>1, <3>2 DEF RefsIn
    <2>3. held' = [o \in DictMembers |-> held[o] - Cardinality(KeyPlaces(keys, LiveIn(keys), o))
                                            - Cardinality(ValuePlaces(keys, LiveIn(keys), o))]
      BY DEF PyDict_Clear, KeyPlaces, ValuePlaces
    <2> QED BY <2>2, <2>3
  <1>3. Exact(keys', used', held', pos', due')
    BY <1>1, <1>2, EmptyExact DEF PyDict_Clear
  <1> QED BY <1>1, <1>3 DEF DictInv, PyDict_Clear, loopVars, Settled, Merging

LEMMA CopyInv == ASSUME DictInv, PyDict_Copy PROVE DictInv'
  <1>1. Settled /\ Min(Sizes) \in Sizes
    BY IdleSettled, LeastSize DEF PyDict_Copy, Idle
  <1>2. held' \in [DictMembers -> {0}]
    BY DEF PyDict_Copy
  <1>3. Exact(keys', used', held', pos', due')
    BY <1>1, <1>2, EmptyExact DEF PyDict_Copy
  <1>4. TableType(keys)
    BY DEF DictInv, Exact, Sound
  <1>5. Merging'
    <2>1. keys.entries \in Seq(DictItems \cup {Gone})
      BY <1>4, TableFacts
    <2> QED BY <2>1 DEF PyDict_Copy, Merging
  <1> QED BY <1>1, <1>3, <1>5 DEF DictInv, PyDict_Copy, Settled

LEMMA UpdateInv == ASSUME DictInv, PyDict_Update PROVE DictInv'
  <1>1. Merging'
    BY SourcesAssumption DEF PyDict_Update, Merging
  <1>2. Settled
    BY IdleSettled DEF PyDict_Update, Idle
  <1> QED BY <1>1, <1>2 DEF DictInv, PyDict_Update, iterVars, Exact, Settled

LEMMA MergeOneInv == ASSUME DictInv, MergeOne PROVE DictInv'
  <1>1. Settled
    BY IdleSettled DEF MergeOne
  <1>2. merge \in Seq(DictItems \cup {Gone}) /\ merge # <<>>
    BY DEF DictInv, Merging, MergeOne
  <1>3. Head(merge) \in DictItems \cup {Gone} /\ Tail(merge) \in Seq(DictItems \cup {Gone})
    BY <1>2
  <1>4. Merging'
    BY <1>3 DEF MergeOne, Merging, DictInv
  <1>5. CASE Head(merge) # Gone /\ SetItem(Head(merge).key, Head(merge).value)
    <2>1. Head(merge).key \in Keys /\ Head(merge).value \in Values
      BY <1>3, <1>5 DEF DictItems
    <2> QED BY <1>1, <1>4, <1>5, <2>1, SetItemInv
  <1>6. CASE UNCHANGED <<keys, used, held, grown, moved, pending, iterVars>>
    BY <1>1, <1>4, <1>6 DEF DictInv, iterVars, Exact, Settled
  <1> QED BY <1>5, <1>6 DEF MergeOne

LEMMA StartIterInv == ASSUME DictInv, StartIter PROVE DictInv'
  <1>1. Exact(keys, used, held, 0, {keys.entries[i].key : i \in LiveIn(keys)})
    BY StartIterExact DEF DictInv
  <1>2. Exact(keys', used', held', pos', due')
    BY <1>1 DEF StartIter
  <1>3. Settled
    BY IdleSettled DEF StartIter, Idle
  <1> QED BY <1>2, <1>3 DEF DictInv, StartIter, loopVars, Settled, Merging

LEMMA NextIterInv == ASSUME DictInv, PyDict_Next PROVE DictInv'
  <1> DEFINE m == Min({i \in LiveIn(keys) : i > pos})
  <1>1. Exact(keys, used, held, m, due \ {keys.entries[m].key})
    BY NextExact DEF DictInv, PyDict_Next
  <1>2. Exact(keys', used', held', pos', due')
    BY <1>1 DEF PyDict_Next
  <1>3. Settled
    BY IdleSettled DEF PyDict_Next, Idle
  <1> QED BY <1>2, <1>3 DEF DictInv, PyDict_Next, loopVars, Settled, Merging

LEMMA NextDictInv == DictInv /\ [DictNext]_dictVars => DictInv'
  <1> SUFFICES ASSUME DictInv, [DictNext]_dictVars PROVE DictInv'
    OBVIOUS
  <1>1. ASSUME NEW k \in Keys, NEW v \in Values, PyDict_SetItem(k, v) PROVE DictInv'
    <2>1. Settled /\ SetItem(k, v)
      BY <1>1, IdleSettled DEF PyDict_SetItem, Idle
    <2>2. Merging'
      BY <1>1 DEF PyDict_SetItem, DictInv, Merging
    <2> QED BY <2>1, <2>2, SetItemInv
  <1>2. ASSUME NEW k \in Keys, NEW v \in Values, PyDict_SetDefault(k, v) PROVE DictInv'
    BY <1>1, <1>2 DEF PyDict_SetDefault
  <1>3. ASSUME NEW k \in Keys, DelItem(k) PROVE DictInv'
    BY <1>3, DelItemInv
  <1>4. CASE UNCHANGED dictVars
    BY <1>4 DEF dictVars, loopVars, iterVars, DictInv, Exact, Merging, Settled, Growing
  <1> QED BY <1>1, <1>2, <1>3, <1>4, MoveEntryInv, EndResizeInv, ClearInv, UpdateInv, MergeOneInv,
             DictKeysAssumption, CopyInv, StartIterInv, NextIterInv DEF DictNext

(* The table in use stays exact, and resizing moves every item.            *)
LEMMA DictInvariant == DictSpec => []DictInv
  BY InitDictInv, NextDictInv, PTL DEF DictSpec

-----------------------------------------------------------------------------
(* The theorems.                                                           *)

(* The variables keep their types; a table is never more than two thirds   *)
(* full, and ma_used never goes below zero.                                *)
THEOREM DictTyped == DictSpec => []DictTypeOK
  <1>1. DictInv => DictTypeOK
    <2> SUFFICES ASSUME DictInv PROVE DictTypeOK
      OBVIOUS
    <2>1. TableType(keys) /\ used \in Nat
      BY LiveFinite DEF DictInv, Exact, Sound
    <2>2. Growing => TableType(grown[1])
      BY DEF Growing, Moving, Sound
    <2>3. moved \in 0..Len(keys.entries)
      BY <2>1, TableFacts DEF DictInv, Settled, Growing
    <2> QED BY <2>1, <2>2, <2>3 DEF DictInv, Exact, Merging, Settled, Growing, DictTypeOK
  <1> QED BY <1>1, DictInvariant, PTL

LEMMA TablesSound == ASSUME DictInv, NEW t \in Tables PROVE Sound(t)
  <1>1. Sound(keys)
    BY DEF DictInv, Exact
  <1>2. CASE Settled
    BY <1>1, <1>2 DEF Tables, Settled, Range
  <1>3. CASE Growing
    <2>1. Range(grown) = {grown[1]}
      <3> DEFINE g == grown[1]
      <3>1. grown = <<g>>
        BY <1>3 DEF Growing
      <3> HIDE DEF g
      <3>2. Range(grown) = {g}
        BY <3>1 DEF Range
      <3> QED BY <3>2 DEF g
    <2> QED BY <1>1, <1>3, <2>1 DEF Tables, Growing, Moving
  <1> QED BY <1>2, <1>3 DEF DictInv

(* Every search ends: whatever was inserted and deleted, and in the middle *)
(* of a resize, each table has an empty slot.                              *)
THEOREM SearchesEnd == DictSpec => []DictProbingEnds
  <1>1. DictInv => DictProbingEnds
    BY TablesSound, EmptySlot DEF DictProbingEnds, Sound
  <1> QED BY <1>1, DictInvariant, PTL

(* Every search finds what is there, past all the dummies that deletions   *)
(* left, and no index leads to a deleted entry.                            *)
THEOREM SearchesFind == DictSpec => []DictEntriesFound
  <1>1. ASSUME NEW t, Sound(t), NEW i \in LiveIn(t) PROVE Find(t, t.entries[i].key) = i - 1
    <2>1. t.entries[i].key \in Keys
      BY <1>1, TableFacts DEF Sound
    <2> QED BY <1>1, <2>1, FindLive DEF EqualKeys
  <1>2. DictInv => DictEntriesFound
    BY <1>1, TablesSound DEF DictEntriesFound, Sound
  <1> QED BY <1>2, DictInvariant, PTL

(* ma_used is the number of items.                                         *)
THEOREM UsedIsExact == DictSpec => []UsedIsItems
  <1>1. DictInv => UsedIsItems
    BY DEF DictInv, Exact, UsedIsItems
  <1> QED BY <1>1, DictInvariant, PTL

(* The dict owns a reference for each key and value it holds and no other, *)
(* also when a value is replaced, an item deleted, or all are moved.       *)
THEOREM DictHoldsMembers == DictSpec => []DictHoldsItsMembers
  <1>1. DictInv => DictHoldsItsMembers
    BY DEF DictInv, Exact, DictHoldsItsMembers, RefsIn, KeyPlaces, ValuePlaces
  <1> QED BY <1>1, DictInvariant, PTL

(* An iteration with PyDict_Next comes to every item that is not deleted   *)
(* before, and to none twice.                                              *)
THEOREM IterationsComplete == DictSpec => []IterationComplete
  <1>1. DictInv => IterationComplete
    BY DEF DictInv, Exact, IterationComplete, KeysAfter
  <1> QED BY <1>1, DictInvariant, PTL

-----------------------------------------------------------------------------
(* What rows of entries show: their items, and which keys are older.       *)

Row == DictItems \cup {Gone}

KeysIn(s) == {s[i].key : i \in LiveRows(s)}

SameView(s, t) == Pairs(s) = Pairs(t) /\ Older(s) = Older(t)

LEMMA RowFacts ==
  ASSUME NEW s \in Seq(Row)
  PROVE  /\ Len(s) \in Nat /\ DOMAIN s = 1..Len(s)
         /\ \A i \in 1..Len(s) : s[i] \in Row
         /\ \A i \in LiveRows(s) : i \in 1..Len(s) /\ s[i] \in DictItems /\ s[i].key \in Keys /\ s[i].value \in Values
         /\ \A i : i \in LiveRows(s) <=> i \in 1..Len(s) /\ s[i] # Gone
  <1>1. Len(s) \in Nat /\ DOMAIN s = 1..Len(s) /\ \A i \in 1..Len(s) : s[i] \in Row
    BY LenProperties, ElementOfSeq
  <1>2. \A i : i \in LiveRows(s) <=> i \in 1..Len(s) /\ s[i] # Gone
    BY <1>1 DEF LiveRows
  <1>3. \A i \in LiveRows(s) : i \in 1..Len(s) /\ s[i] \in DictItems
    BY <1>1, <1>2 DEF Row
  <1>4. \A i \in LiveRows(s) : s[i].key \in Keys /\ s[i].value \in Values
    BY <1>3 DEF DictItems
  <1> QED BY <1>1, <1>2, <1>3, <1>4

LEMMA OlderMember ==
  ASSUME NEW s, NEW p
  PROVE  p \in Older(s) <=> \E i, j \in LiveRows(s) : i < j /\ p = <<s[i].key, s[j].key>>
  BY DEF Older

LEMMA KeysMember ==
  ASSUME NEW s, NEW k
  PROVE  k \in KeysIn(s) <=> \E i \in LiveRows(s) : k = s[i].key
  BY DEF KeysIn

LEMMA KeysOfPairs ==
  ASSUME NEW s
  PROVE  KeysIn(s) = {it[1] : it \in Pairs(s)}
  <1>1. ASSUME NEW k \in KeysIn(s) PROVE \E it \in Pairs(s) : k = it[1]
    <2>1. PICK i \in LiveRows(s) : k = s[i].key
      BY <1>1, KeysMember
    <2>2. <<s[i].key, s[i].value>> \in Pairs(s)
      BY DEF Pairs
    <2> QED BY <2>1, <2>2
  <1>2. ASSUME NEW it \in Pairs(s) PROVE it[1] \in KeysIn(s)
    <2>1. PICK i \in LiveRows(s) : it = <<s[i].key, s[i].value>>
      BY DEF Pairs
    <2> QED BY <2>1, KeysMember
  <1> QED BY <1>1, <1>2

LEMMA ConcatViews ==
  ASSUME NEW s \in Seq(Row), NEW t \in Seq(Row)
  PROVE  /\ s \o t \in Seq(Row)
         /\ Pairs(s \o t) = Pairs(s) \cup Pairs(t)
         /\ Older(s \o t) = Older(s) \cup Older(t) \cup (KeysIn(s) \X KeysIn(t))
  <1> DEFINE u == s \o t
             n == Len(s)
             m == Len(t)
  <1>1. /\ u \in Seq(Row) /\ Len(u) = n + m /\ n \in Nat /\ m \in Nat
        /\ \A i \in 1..n + m : u[i] = IF i <= n THEN s[i] ELSE t[i - n]
    BY ConcatProperties, LenProperties
  <1> HIDE DEF u
  <1>2. \A i \in LiveRows(s) : i \in 1..n /\ i \in LiveRows(u) /\ u[i] = s[i]
    <2> SUFFICES ASSUME NEW i \in LiveRows(s) PROVE i \in 1..n /\ i \in LiveRows(u) /\ u[i] = s[i]
      OBVIOUS
    <2>1. i \in 1..n /\ s[i] # Gone
      BY RowFacts
    <2>2. i \in 1..n + m /\ i <= n
      BY <1>1, <2>1
    <2>3. u[i] = s[i]
      BY <1>1, <2>2
    <2> QED BY <1>1, <2>1, <2>2, <2>3, RowFacts
  <1>3. \A j \in LiveRows(t) : \E q \in LiveRows(u) : q = n + j /\ u[q] = t[j]
    <2> SUFFICES ASSUME NEW j \in LiveRows(t) PROVE \E q \in LiveRows(u) : q = n + j /\ u[q] = t[j]
      OBVIOUS
    <2>1. j \in 1..m /\ t[j] # Gone
      BY RowFacts
    <2>2. PICK q \in 1..n + m : q = n + j
      BY <1>1, <2>1
    <2>3. ~(q <= n) /\ q - n = j
      BY <1>1, <2>1, <2>2
    <2>4. u[q] = t[j]
      BY <1>1, <2>3
    <2> QED BY <1>1, <2>1, <2>2, <2>4, RowFacts
  <1>4. \A q \in LiveRows(u) : \/ q \in LiveRows(s) /\ u[q] = s[q] /\ q \in 1..n
                               \/ \E j \in LiveRows(t) : q = n + j /\ u[q] = t[j]
    <2> SUFFICES ASSUME NEW q \in LiveRows(u)
                 PROVE  \/ q \in LiveRows(s) /\ u[q] = s[q] /\ q \in 1..n
                        \/ \E j \in LiveRows(t) : q = n + j /\ u[q] = t[j]
      OBVIOUS
    <2>1. q \in 1..n + m /\ u[q] # Gone
      BY <1>1, RowFacts
    <2>2. CASE q <= n
      <3>1. q \in 1..n /\ u[q] = s[q]
        BY <1>1, <2>1, <2>2
      <3> QED BY <2>1, <3>1, RowFacts
    <2>3. CASE q > n
      <3>1. PICK j \in 1..m : j = q - n
        BY <1>1, <2>1, <2>3
      <3>2. u[q] = t[j] /\ q = n + j
        BY <1>1, <2>1, <2>3, <3>1
      <3> QED BY <2>1, <3>1, <3>2, RowFacts
    <2> QED BY <1>1, <2>1, <2>2, <2>3
  <1>5. Pairs(u) = Pairs(s) \cup Pairs(t)
    <2>1. ASSUME NEW x \in Pairs(u) PROVE x \in Pairs(s) \cup Pairs(t)
      BY <1>4 DEF Pairs
    <2>2. ASSUME NEW x \in Pairs(s) PROVE x \in Pairs(u)
      BY <1>2 DEF Pairs
    <2>3. ASSUME NEW x \in Pairs(t) PROVE x \in Pairs(u)
      BY <1>3 DEF Pairs
    <2> QED BY <2>1, <2>2, <2>3
  <1>6. \A j \in LiveRows(t) : j \in 1..m
    BY RowFacts
  <1>7. Older(u) = Older(s) \cup Older(t) \cup (KeysIn(s) \X KeysIn(t))
    <2>1. ASSUME NEW x \in Older(u) PROVE x \in Older(s) \cup Older(t) \cup (KeysIn(s) \X KeysIn(t))
      <3>1. PICK i \in LiveRows(u), j \in LiveRows(u) : i < j /\ x = <<u[i].key, u[j].key>>
        BY OlderMember
      <3>2. CASE i \in LiveRows(s) /\ u[i] = s[i] /\ j \in LiveRows(s) /\ u[j] = s[j]
        BY <3>1, <3>2, OlderMember
      <3>3. CASE /\ i \in LiveRows(s) /\ u[i] = s[i]
                 /\ \E b \in LiveRows(t) : j = n + b /\ u[j] = t[b]
        BY <3>1, <3>3, KeysMember
      <3>4. CASE /\ \E a \in LiveRows(t) : i = n + a /\ u[i] = t[a]
                 /\ j \in LiveRows(s) /\ j \in 1..n
        BY <1>1, <1>6, <3>1, <3>4
      <3>5. CASE /\ \E a \in LiveRows(t) : i = n + a /\ u[i] = t[a]
                 /\ \E b \in LiveRows(t) : j = n + b /\ u[j] = t[b]
        <4>1. PICK a \in LiveRows(t) : i = n + a /\ u[i] = t[a]
          BY <3>5
        <4>2. PICK b \in LiveRows(t) : j = n + b /\ u[j] = t[b]
          BY <3>5
        <4>3. a < b
          BY <1>1, <1>6, <3>1, <4>1, <4>2
        <4>4. x = <<t[a].key, t[b].key>>
          BY <3>1, <4>1, <4>2
        <4> QED BY <4>3, <4>4, OlderMember
      <3> QED BY <1>4, <3>2, <3>3, <3>4, <3>5
    <2>2. ASSUME NEW x \in Older(s) PROVE x \in Older(u)
      <3>1. PICK i \in LiveRows(s), j \in LiveRows(s) : i < j /\ x = <<s[i].key, s[j].key>>
        BY OlderMember
      <3> QED BY <1>2, <3>1, OlderMember
    <2>3. ASSUME NEW x \in Older(t) PROVE x \in Older(u)
      <3>1. PICK i \in LiveRows(t), j \in LiveRows(t) : i < j /\ x = <<t[i].key, t[j].key>>
        BY OlderMember
      <3>2. PICK a \in LiveRows(u) : a = n + i /\ u[a] = t[i]
        BY <1>3
      <3>3. PICK b \in LiveRows(u) : b = n + j /\ u[b] = t[j]
        BY <1>3
      <3>4. a < b
        <4>1. i \in 1..m /\ j \in 1..m /\ i < j /\ a = n + i /\ b = n + j
          BY <1>6, <3>1, <3>2, <3>3
        <4> HIDE DEF n, m
        <4> QED BY <1>1, <4>1
      <3>5. x = <<u[a].key, u[b].key>>
        BY <3>1, <3>2, <3>3
      <3> QED BY <3>4, <3>5, OlderMember
    <2>4. ASSUME NEW a \in KeysIn(s), NEW b \in KeysIn(t) PROVE <<a, b>> \in Older(u)
      <3>1. PICK i \in LiveRows(s) : a = s[i].key
        BY KeysMember
      <3>2. PICK j \in LiveRows(t) : b = t[j].key
        BY KeysMember
      <3>3. PICK q \in LiveRows(u) : q = n + j /\ u[q] = t[j]
        BY <1>3
      <3>4. i < q
        BY <1>1, <1>2, <1>6, <3>3
      <3>5. i \in LiveRows(u) /\ <<a, b>> = <<u[i].key, u[q].key>>
        BY <1>2, <3>1, <3>2, <3>3
      <3> QED BY <3>4, <3>5, OlderMember
    <2> QED BY <2>1, <2>2, <2>3, <2>4
  <1> QED BY <1>1, <1>5, <1>7 DEF u

LEMMA SameConcat ==
  ASSUME NEW s \in Seq(Row), NEW t \in Seq(Row), NEW s2 \in Seq(Row), NEW t2 \in Seq(Row),
         SameView(s, s2), SameView(t, t2)
  PROVE  SameView(s \o t, s2 \o t2)
  <1>1. KeysIn(s) = KeysIn(s2) /\ KeysIn(t) = KeysIn(t2)
    BY KeysOfPairs DEF SameView
  <1>2. /\ Pairs(s \o t) = Pairs(s) \cup Pairs(t)
        /\ Older(s \o t) = Older(s) \cup Older(t) \cup (KeysIn(s) \X KeysIn(t))
    BY ConcatViews
  <1>3. /\ Pairs(s2 \o t2) = Pairs(s2) \cup Pairs(t2)
        /\ Older(s2 \o t2) = Older(s2) \cup Older(t2) \cup (KeysIn(s2) \X KeysIn(t2))
    BY ConcatViews
  <1> QED BY Zenon, <1>1, <1>2, <1>3 DEF SameView

LEMMA SingleViews ==
  /\ Pairs(<< >>) = {} /\ Older(<< >>) = {}
  /\ Pairs(<<Gone>>) = {} /\ Older(<<Gone>>) = {}
  /\ \A e \in DictItems : Pairs(<<e>>) = {<<e.key, e.value>>} /\ Older(<<e>>) = {}
  <1>1. Pairs(<< >>) = {} /\ Older(<< >>) = {}
    BY DEF Pairs, Older, LiveRows
  <1>2. Pairs(<<Gone>>) = {} /\ Older(<<Gone>>) = {}
    <2>1. LiveRows(<<Gone>>) = {}
      BY DEF LiveRows
    <2> QED BY <2>1 DEF Pairs, Older
  <1>3. ASSUME NEW e \in DictItems PROVE Pairs(<<e>>) = {<<e.key, e.value>>} /\ Older(<<e>>) = {}
    <2>1. e # Gone
      BY DEF DictItems, Gone, Entry
    <2>2. LiveRows(<<e>>) = {1} /\ <<e>>[1] = e
      BY <2>1 DEF LiveRows
    <2>3. Pairs(<<e>>) = {<<e.key, e.value>>}
      BY <2>2 DEF Pairs
    <2>4. \A p : p \notin Older(<<e>>)
      BY <2>2, OlderMember
    <2> QED BY <2>3, <2>4
  <1> QED BY <1>1, <1>2, <1>3

LEMMA AppendViews ==
  ASSUME NEW s \in Seq(Row), NEW e \in DictItems
  PROVE  /\ Append(s, e) = s \o <<e>> /\ <<e>> \in Seq(Row)
         /\ Pairs(Append(s, e)) = Pairs(s) \cup {<<e.key, e.value>>}
         /\ Older(Append(s, e)) = Older(s) \cup {<<it[1], e.key>> : it \in Pairs(s)}
  <1>1. e \in Row /\ <<e>> \in Seq(Row)
    BY DEF Row
  <1>2. Append(s, e) = s \o <<e>>
    BY <1>1, AppendIsConcat
  <1>3. /\ Pairs(s \o <<e>>) = Pairs(s) \cup Pairs(<<e>>)
        /\ Older(s \o <<e>>) = Older(s) \cup Older(<<e>>) \cup (KeysIn(s) \X KeysIn(<<e>>))
    BY <1>1, ConcatViews
  <1>4. Pairs(<<e>>) = {<<e.key, e.value>>} /\ Older(<<e>>) = {}
    BY SingleViews
  <1>5. KeysIn(<<e>>) = {e.key}
    <2>1. KeysIn(<<e>>) = {it[1] : it \in {<<e.key, e.value>>}}
      BY Zenon, <1>4, KeysOfPairs
    <2> QED BY <2>1
  <1>6. KeysIn(s) \X {e.key} = {<<it[1], e.key>> : it \in Pairs(s)}
    BY KeysOfPairs
  <1> QED BY <1>1, <1>2, <1>3, <1>4, <1>5, <1>6

(* Each row with another key.                                              *)
OneEach(s) == \A i, j \in LiveRows(s) : s[i].key = s[j].key => i = j

LEMMA ReplaceViews ==
  ASSUME NEW s \in Seq(Row), NEW t \in Seq(Row), Len(t) = Len(s), OneEach(s),
         NEW i \in LiveRows(s), NEW v \in Values, t[i] = Entry(s[i].key, v),
         \A j \in 1..Len(s) : j # i => t[j] = s[j]
  PROVE  /\ Pairs(t) = (Pairs(s) \ {<<s[i].key, s[i].value>>}) \cup {<<s[i].key, v>>}
         /\ Older(t) = Older(s)
  <1>1. t[i].key = s[i].key /\ t[i].value = v /\ t[i] # Gone
    <2>1. s[i].key \in Keys
      BY RowFacts
    <2> QED BY <2>1 DEF Entry, Gone
  <1>2. LiveRows(t) = LiveRows(s)
    <2>1. ASSUME NEW j \in 1..Len(s) PROVE t[j] # Gone <=> s[j] # Gone
      BY <1>1, RowFacts
    <2>2. \A j : j \in LiveRows(t) <=> j \in 1..Len(s) /\ t[j] # Gone
      BY RowFacts
    <2>3. \A j : j \in LiveRows(s) <=> j \in 1..Len(s) /\ s[j] # Gone
      BY RowFacts
    <2> QED BY <2>1, <2>2, <2>3
  <1>3. \A j \in LiveRows(s) : t[j].key = s[j].key /\ (j # i => t[j] = s[j])
    BY <1>1, RowFacts
  <1>4. Older(t) = Older(s)
    BY <1>2, <1>3 DEF Older
  <1>5. ASSUME NEW x \in Pairs(t) PROVE x \in (Pairs(s) \ {<<s[i].key, s[i].value>>}) \cup {<<s[i].key, v>>}
    <2>1. PICK j \in LiveRows(s) : x = <<t[j].key, t[j].value>>
      BY <1>2 DEF Pairs
    <2>2. CASE j = i
      BY <1>1, <2>1, <2>2
    <2>3. CASE j # i
      <3>1. x = <<s[j].key, s[j].value>> /\ s[j].key # s[i].key
        BY <1>3, <2>1, <2>3 DEF OneEach
      <3> QED BY <3>1 DEF Pairs
    <2> QED BY <2>2, <2>3
  <1>6. ASSUME NEW x \in Pairs(s), x # <<s[i].key, s[i].value>> PROVE x \in Pairs(t)
    <2>1. PICK j \in LiveRows(s) : x = <<s[j].key, s[j].value>>
      BY DEF Pairs
    <2>2. t[j] = s[j]
      BY <1>3, <1>6, <2>1
    <2> QED BY <1>2, <2>1, <2>2 DEF Pairs
  <1>7. <<s[i].key, v>> \in Pairs(t)
    BY <1>1, <1>2 DEF Pairs
  <1> QED BY <1>4, <1>5, <1>6, <1>7

LEMMA DeleteViews ==
  ASSUME NEW s \in Seq(Row), NEW t \in Seq(Row), OneEach(s),
         NEW i \in LiveRows(s), LiveRows(t) = LiveRows(s) \ {i},
         \A j \in LiveRows(s) : j # i => t[j] = s[j]
  PROVE  /\ Pairs(t) = Pairs(s) \ {<<s[i].key, s[i].value>>}
         /\ Older(t) = {p \in Older(s) : p[1] # s[i].key /\ p[2] # s[i].key}
  <1>1. ASSUME NEW x \in Pairs(t) PROVE x \in Pairs(s) \ {<<s[i].key, s[i].value>>}
    <2>1. PICK j \in LiveRows(s) : j # i /\ x = <<t[j].key, t[j].value>>
      BY DEF Pairs
    <2>2. x = <<s[j].key, s[j].value>> /\ s[j].key # s[i].key
      BY <2>1 DEF OneEach
    <2> QED BY <2>2 DEF Pairs
  <1>2. ASSUME NEW x \in Pairs(s), x # <<s[i].key, s[i].value>> PROVE x \in Pairs(t)
    <2>1. PICK j \in LiveRows(s) : x = <<s[j].key, s[j].value>>
      BY DEF Pairs
    <2>2. t[j] = s[j] /\ j # i
      BY <1>2, <2>1
    <2> QED BY <2>1, <2>2 DEF Pairs
  <1>3. ASSUME NEW p \in Older(t) PROVE p \in Older(s) /\ p[1] # s[i].key /\ p[2] # s[i].key
    <2>1. PICK a \in LiveRows(t), b \in LiveRows(t) : a < b /\ p = <<t[a].key, t[b].key>>
      BY OlderMember
    <2>2. a \in LiveRows(s) /\ b \in LiveRows(s) /\ a # i /\ b # i /\ t[a] = s[a] /\ t[b] = s[b]
      BY <2>1
    <2>3. s[a].key # s[i].key /\ s[b].key # s[i].key
      BY <2>2 DEF OneEach
    <2>4. p = <<s[a].key, s[b].key>>
      BY <2>1, <2>2
    <2> QED BY <2>1, <2>2, <2>3, <2>4, OlderMember
  <1>4. ASSUME NEW p \in Older(s), p[1] # s[i].key, p[2] # s[i].key PROVE p \in Older(t)
    <2>1. PICK a \in LiveRows(s), b \in LiveRows(s) : a < b /\ p = <<s[a].key, s[b].key>>
      BY OlderMember
    <2>2. a # i /\ b # i
      BY <1>4, <2>1
    <2>3. a \in LiveRows(t) /\ b \in LiveRows(t) /\ p = <<t[a].key, t[b].key>>
      BY <2>1, <2>2
    <2> QED BY <2>1, <2>3, OlderMember
  <1>5. Older(t) = {p \in Older(s) : p[1] # s[i].key /\ p[2] # s[i].key}
    BY <1>3, <1>4
  <1> QED BY <1>1, <1>2, <1>5

-----------------------------------------------------------------------------
(* What the changes to a table show.                                       *)

Replaced(s, r, k, v) ==
  \E it \in Pairs(s) :
    /\ EqualTo[it[1]] = EqualTo[k]
    /\ Pairs(r) = (Pairs(s) \ {it}) \cup {<<it[1], v>>}
    /\ Older(r) = Older(s)

Added(s, r, k, v) ==
  /\ \A it \in Pairs(s) : EqualTo[it[1]] # EqualTo[k]
  /\ Pairs(r) = Pairs(s) \cup {<<k, v>>}
  /\ Older(r) = Older(s) \cup {<<it[1], k>> : it \in Pairs(s)}

Removed(s, r, k) ==
  \E it \in Pairs(s) :
    /\ EqualTo[it[1]] = EqualTo[k]
    /\ Pairs(r) = Pairs(s) \ {it}
    /\ Older(r) = {p \in Older(s) : p[1] # it[1] /\ p[2] # it[1]}

LEMMA TableRows ==
  ASSUME NEW t, Sound(t)
  PROVE  t.entries \in Seq(Row) /\ LiveIn(t) = LiveRows(t.entries) /\ OneEach(t.entries)
  <1>1. TableType(t)
    BY DEF Sound
  <1>2. LiveIn(t) = LiveRows(t.entries)
    BY DEF LiveIn, LiveRows
  <1>3. \A i, j \in LiveIn(t) : EqualKeys(t.entries[i].key, t.entries[j].key) => i = j
    BY DEF Sound
  <1> QED BY <1>1, <1>2, <1>3, TableFacts DEF Row, OneEach, EqualKeys

LEMMA ReplaceShows ==
  ASSUME NEW t, Sound(t), NEW k \in Keys, NEW v \in Values, Find(t, k) >= 0,
         NEW u, u = [t EXCEPT !.entries[Find(t, k) + 1].value = v]
  PROVE  Replaced(t.entries, u.entries, k, v)
  <1> DEFINE i == Find(t, k) + 1
  <1>1. i \in LiveIn(t) /\ EqualKeys(t.entries[i].key, k)
    BY FindFacts
  <1> HIDE DEF i
  <1>2. u = [t EXCEPT !.entries[i].value = v]
    BY DEF i
  <1>3. /\ Sound(u) /\ Len(u.entries) = Len(t.entries) /\ u.entries[i] = Entry(t.entries[i].key, v)
        /\ \A j \in 1..Len(t.entries) : j # i => u.entries[j] = t.entries[j]
    <2> DEFINE w == [t EXCEPT !.entries[i].value = v]
    <2>1. /\ Sound(w) /\ Len(w.entries) = Len(t.entries) /\ w.entries[i] = Entry(t.entries[i].key, v)
          /\ \A j \in 1..Len(t.entries) : j # i => w.entries[j] = t.entries[j]
      BY <1>1, ReplaceSound
    <2>2. u = w
      BY <1>2
    <2> HIDE DEF w
    <2> QED BY <2>1, <2>2
  <1> DEFINE s == t.entries
             r == u.entries
  <1>4. s \in Seq(Row) /\ r \in Seq(Row) /\ i \in LiveRows(s) /\ OneEach(s)
    BY <1>1, <1>3, TableRows
  <1>5. /\ Len(r) = Len(s) /\ r[i] = Entry(s[i].key, v)
        /\ \A j \in 1..Len(s) : j # i => r[j] = s[j]
    BY <1>3
  <1>6. EqualTo[s[i].key] = EqualTo[k]
    BY <1>1 DEF EqualKeys
  <1> HIDE DEF s, r
  <1>7. /\ Pairs(r) = (Pairs(s) \ {<<s[i].key, s[i].value>>}) \cup {<<s[i].key, v>>}
        /\ Older(r) = Older(s)
    BY <1>4, <1>5, ReplaceViews
  <1>8. PICK it \in Pairs(s) : it = <<s[i].key, s[i].value>> /\ it[1] = s[i].key
    <2>1. <<s[i].key, s[i].value>> \in Pairs(s)
      BY <1>4 DEF Pairs
    <2>2. <<s[i].key, s[i].value>>[1] = s[i].key
      OBVIOUS
    <2> QED BY <2>1, <2>2
  <1>9. EqualTo[it[1]] = EqualTo[k] /\ Pairs(r) = (Pairs(s) \ {it}) \cup {<<it[1], v>>}
    BY <1>6, <1>7, <1>8
  <1> QED BY <1>7, <1>9 DEF s, r, Replaced

LEMMA NewKeyShows ==
  ASSUME NEW t, Sound(t), NEW k \in Keys, Find(t, k) < 0
  PROVE  \A it \in Pairs(t.entries) : EqualTo[it[1]] # EqualTo[k]
  <1>1. SUFFICES ASSUME NEW it \in Pairs(t.entries) PROVE EqualTo[it[1]] # EqualTo[k]
    OBVIOUS
  <1>2. PICK i \in LiveIn(t) : it = <<t.entries[i].key, t.entries[i].value>>
    BY TableRows DEF Pairs
  <1>3. ~EqualKeys(t.entries[i].key, k)
    BY FindFacts
  <1> QED BY <1>2, <1>3 DEF EqualKeys

LEMMA PutShows ==
  ASSUME NEW t, Sound(t), NEW k \in Keys, NEW v \in Values, Find(t, k) < 0, t.usable > 0
  PROVE  LET e == Put(t, k, v).entries
         IN  /\ e = t.entries \o <<Entry(k, v)>> /\ Entry(k, v) \in DictItems /\ e \in Seq(Row)
             /\ Added(t.entries, e, k, v)
  <1>1. Put(t, k, v).entries = Append(t.entries, Entry(k, v))
    BY PutShape
  <1>2. t.entries \in Seq(Row)
    BY TableRows
  <1>3. Entry(k, v) \in DictItems /\ Entry(k, v).key = k /\ Entry(k, v).value = v
    BY DEF Entry, DictItems
  <1>4. Append(t.entries, Entry(k, v)) = t.entries \o <<Entry(k, v)>> /\ <<Entry(k, v)>> \in Seq(Row)
    BY <1>2, <1>3, AppendViews
  <1> DEFINE s == t.entries
             e == Entry(k, v)
             r == Append(s, e)
  <1>5. s \in Seq(Row) /\ e \in DictItems /\ e.key = k /\ e.value = v
    BY <1>2, <1>3
  <1> HIDE DEF s, e
  <1>6. /\ Pairs(r) = Pairs(s) \cup {<<e.key, e.value>>}
        /\ Older(r) = Older(s) \cup {<<it[1], e.key>> : it \in Pairs(s)}
    BY <1>5, AppendViews
  <1>7. Pairs(r) = Pairs(s) \cup {<<k, v>>} /\ Older(r) = Older(s) \cup {<<it[1], k>> : it \in Pairs(s)}
    BY <1>5, <1>6
  <1>8. s \o <<e>> \in Seq(Row)
    BY <1>4, <1>5, ConcatViews DEF e
  <1>9. Added(s, r, k, v)
    BY <1>7, NewKeyShows DEF s, Added
  <1>10. r = Put(t, k, v).entries
    BY <1>1 DEF s, e
  <1> QED BY <1>3, <1>4, <1>8, <1>9, <1>10 DEF s, e

LEMMA DeleteShows ==
  ASSUME NEW t, Sound(t), NEW k \in Keys, Find(t, k) >= 0,
         NEW u, u = [t EXCEPT !.indices[Probe(t, k, Stop(t, k))] = DUMMY, !.entries[Find(t, k) + 1] = Gone]
  PROVE  Removed(t.entries, u.entries, k)
  <1> DEFINE i == Find(t, k) + 1
  <1>1. i \in LiveIn(t) /\ EqualKeys(t.entries[i].key, k)
    BY FindFacts
  <1>2. /\ Sound(u) /\ LiveIn(u) = LiveIn(t) \ {i}
        /\ \A j \in 1..Len(t.entries) : j # i => u.entries[j] = t.entries[j]
    BY DeleteSound
  <1> HIDE DEF i
  <1> DEFINE s == t.entries
             r == u.entries
  <1>3. /\ s \in Seq(Row) /\ r \in Seq(Row) /\ i \in LiveRows(s) /\ OneEach(s)
        /\ LiveRows(r) = LiveRows(s) \ {i}
    BY <1>1, <1>2, TableRows
  <1>4. \A j \in LiveRows(s) : j # i => r[j] = s[j]
    BY <1>2, <1>3, RowFacts
  <1>5. EqualTo[s[i].key] = EqualTo[k]
    BY <1>1 DEF EqualKeys
  <1> HIDE DEF s, r
  <1>6. /\ Pairs(r) = Pairs(s) \ {<<s[i].key, s[i].value>>}
        /\ Older(r) = {p \in Older(s) : p[1] # s[i].key /\ p[2] # s[i].key}
    BY <1>3, <1>4, DeleteViews
  <1>7. PICK it \in Pairs(s) : it = <<s[i].key, s[i].value>> /\ it[1] = s[i].key
    <2>1. <<s[i].key, s[i].value>> \in Pairs(s)
      BY <1>3 DEF Pairs
    <2>2. <<s[i].key, s[i].value>>[1] = s[i].key
      OBVIOUS
    <2> QED BY <2>1, <2>2
  <1>8. Older(r) = {p \in Older(s) : p[1] # it[1] /\ p[2] # it[1]}
    BY <1>6, <1>7
  <1>9. EqualTo[it[1]] = EqualTo[k] /\ Pairs(r) = Pairs(s) \ {it}
    BY <1>5, <1>6, <1>7
  <1> QED BY <1>8, <1>9 DEF s, r, Removed

-----------------------------------------------------------------------------
(* Rows being moved and copied.                                            *)

RowsOf(e, p, m, c) == e \o (IF c THEN p \o m ELSE <<>>)

(* No key after an equal one.                                              *)
KeysDiffer(s) == \A p \in Older(s) : EqualTo[p[1]] # EqualTo[p[2]]

LEMMA RowsOfFacts ==
  ASSUME NEW e \in Seq(Row), NEW m \in Seq(Row)
  PROVE  /\ \A p : RowsOf(e, p, m, FALSE) = e
         /\ \A p : RowsOf(e, p, m, TRUE) = e \o (p \o m)
         /\ \A c \in BOOLEAN : (c <=> m # <<>>) => RowsOf(e, <<>>, m, c) = e \o m
  <1>1. e \o <<>> = e /\ <<>> \o m = m
    BY ConcatEmptySeq
  <1>2. \A p : RowsOf(e, p, m, FALSE) = e
    BY <1>1 DEF RowsOf
  <1>3. \A p : RowsOf(e, p, m, TRUE) = e \o (p \o m)
    BY DEF RowsOf
  <1>4. ASSUME NEW c \in BOOLEAN, c <=> m # <<>> PROVE RowsOf(e, <<>>, m, c) = e \o m
    <2>1. CASE c = TRUE
      BY <1>1, <1>3, <2>1
    <2>2. CASE c = FALSE
      BY <1>1, <1>2, <1>4, <2>2
    <2> QED BY <2>1, <2>2
  <1> QED BY <1>2, <1>3, <1>4

LEMMA PrefixGrows ==
  ASSUME NEW s \in Seq(Row), NEW m \in 0..Len(s) - 1, NEW e, e = s[m + 1]
  PROVE  /\ e \in Row /\ <<e>> \in Seq(Row) /\ SubSeq(s, 1, m) \in Seq(Row)
         /\ SubSeq(s, 1, m + 1) = SubSeq(s, 1, m) \o <<e>>
  <1>1. Len(s) \in Nat /\ \A i \in 1..Len(s) : s[i] \in Row
    BY RowFacts
  <1>2. PICK n \in 1..Len(s) : n = m + 1 /\ n - 1 = m
    BY <1>1
  <1>3. e \in Row
    BY <1>1, <1>2
  <1>4. \A i \in 1..m : s[i] \in Row
    BY <1>1
  <1>5. SubSeq(s, 1, m) \in Seq(Row)
    BY <1>1, <1>4, SubSeqProperties
  <1>6. 1 \in 1..Len(s) /\ n \in 1..Len(s)
    BY <1>1, <1>2
  <1>7. SubSeq(s, 1, n) = SubSeq(s, 1, n - 1) \o <<s[n]>>
    BY <1>6, SubSeqRecursiveSecond
  <1> QED BY <1>2, <1>3, <1>5, <1>7

LEMMA SkipShows ==
  ASSUME NEW g \in Seq(Row), NEW r \in Seq(Row), SameView(g, r)
  PROVE  SameView(g, r \o <<Gone>>)
  <1>1. << >> \in Seq(Row) /\ <<Gone>> \in Seq(Row) /\ SameView(<< >>, <<Gone>>)
    <2>1. << >> \in Seq(Row) /\ <<Gone>> \in Seq(Row)
      BY DEF Row
    <2>2. SameView(<< >>, <<Gone>>)
      BY Zenon, SingleViews DEF SameView
    <2> QED BY <2>1, <2>2
  <1>2. SameView(g \o << >>, r \o <<Gone>>)
    BY <1>1, SameConcat
  <1>3. g \o << >> = g
    BY ConcatEmptySeq
  <1> QED BY <1>2, <1>3

LEMMA ItemShows ==
  ASSUME NEW g \in Seq(Row), NEW r \in Seq(Row), SameView(g, r), NEW t \in Seq(Row)
  PROVE  SameView(g \o t, r \o t)
  BY SameConcat DEF SameView

(* What comes next in a copy is a key the copy does not have.              *)
LEMMA NextIsNew ==
  ASSUME NEW e \in Seq(Row), NEW m \in Seq(Row), m # <<>>, Head(m) # Gone, KeysDiffer(e \o m),
         NEW i \in LiveRows(e)
  PROVE  EqualTo[e[i].key] # EqualTo[Head(m).key]
  <1>1. 1 \in LiveRows(m) /\ m[1] = Head(m)
    BY RowFacts
  <1>2. e[i].key \in KeysIn(e) /\ Head(m).key \in KeysIn(m)
    BY <1>1, KeysMember
  <1>3. <<e[i].key, Head(m).key>> \in Older(e \o m)
    BY <1>2, ConcatViews
  <1> QED BY <1>3 DEF KeysDiffer

LEMMA OneEachDiffers ==
  ASSUME NEW t, Sound(t)
  PROVE  KeysDiffer(t.entries)
  <1>1. SUFFICES ASSUME NEW p \in Older(t.entries) PROVE EqualTo[p[1]] # EqualTo[p[2]]
    BY DEF KeysDiffer
  <1>2. PICK i, j \in LiveIn(t) : i < j /\ p = <<t.entries[i].key, t.entries[j].key>>
    BY TableRows, OlderMember
  <1>3. ~EqualKeys(t.entries[i].key, t.entries[j].key)
    <2>1. i # j
      <3>1. TableType(t)
        BY DEF Sound
      <3> QED BY <1>2, <3>1, TableFacts
    <2> QED BY <2>1 DEF Sound
  <1> QED BY <1>2, <1>3 DEF EqualKeys

-----------------------------------------------------------------------------
(* The refinement of DictContract.  A copy goes over rows whose keys all   *)
(* differ, and a resize shows the rows it has moved.                       *)

MapInv ==
  /\ copying => KeysDiffer(Rows) /\ (merge # <<>> \/ grown # <<>>)
  /\ grown # <<>> => SameView(grown[1].entries, SubSeq(keys.entries, 1, moved))

Kept == MapInv' /\ [Map!Next]_(Map!vars)

LEMMA RowsNow ==
  ASSUME DictInv
  PROVE  /\ keys.entries \in Seq(Row) /\ merge \in Seq(Row) /\ copying \in BOOLEAN
         /\ Rows = RowsOf(keys.entries, pending, merge, copying)
         /\ ~copying => Rows = keys.entries
  <1>1. Sound(keys) /\ Merging
    BY DEF DictInv, Exact
  <1>2. keys.entries \in Seq(Row) /\ merge \in Seq(Row) /\ copying \in BOOLEAN
    BY <1>1, TableRows DEF Merging, Row
  <1>3. Rows = RowsOf(keys.entries, pending, merge, copying)
    BY DEF Rows, RowsOf
  <1>4. ~copying => Rows = keys.entries
    <2>1. SUFFICES ASSUME copying = FALSE PROVE Rows = keys.entries
      BY <1>2
    <2>2. Rows = RowsOf(keys.entries, pending, merge, FALSE)
      BY <1>3, <2>1
    <2>3. \A p : RowsOf(keys.entries, p, merge, FALSE) = keys.entries
      BY <1>2, RowsOfFacts
    <2> QED BY <2>2, <2>3
  <1> QED BY <1>2, <1>3, <1>4

LEMMA SameRows == ASSUME SameView(Rows', Rows) PROVE [Map!Next]_(Map!vars)
  BY DEF SameView, Map!vars

LEMMA RowsNext ==
  ASSUME DictInv'
  PROVE  /\ keys'.entries \in Seq(Row) /\ merge' \in Seq(Row) /\ copying' \in BOOLEAN
         /\ Rows' = RowsOf(keys'.entries, pending', merge', copying')
         /\ ~copying' => Rows' = keys'.entries
  <1>1. Sound(keys') /\ Merging'
    BY DEF DictInv, Exact
  <1>2. keys'.entries \in Seq(Row) /\ merge' \in Seq(Row) /\ copying' \in BOOLEAN
    BY <1>1, TableRows DEF Merging, Row
  <1>3. Rows' = RowsOf(keys'.entries, pending', merge', copying')
    BY DEF Rows, RowsOf
  <1>4. ~copying' => Rows' = keys'.entries
    <2>1. SUFFICES ASSUME copying' = FALSE PROVE Rows' = keys'.entries
      BY <1>2
    <2>2. Rows' = RowsOf(keys'.entries, pending', merge', FALSE)
      BY <1>3, <2>1
    <2>3. \A p : RowsOf(keys'.entries, p, merge', FALSE) = keys'.entries
      BY <1>2, RowsOfFacts
    <2> QED BY <2>2, <2>3
  <1> QED BY <1>2, <1>3, <1>4

(* The steps of the contract, by what they show.                           *)
LEMMA MapSteps ==
  ASSUME NEW k \in Keys, NEW v \in Values
  PROVE  /\ Replaced(Rows, Rows', k, v) => [Map!Next]_(Map!vars)
         /\ Added(Rows, Rows', k, v) => [Map!Next]_(Map!vars)
         /\ Removed(Rows, Rows', k) => [Map!Next]_(Map!vars)
  <1>1. ASSUME Replaced(Rows, Rows', k, v) PROVE Map!Next
    <2>1. \E it \in Map!At(k) : Pairs(Rows') = (Pairs(Rows) \ {it}) \cup {<<it[1], v>>} /\ Older(Rows') = Older(Rows)
      BY <1>1 DEF Map!At, Replaced
    <2>2. Map!Replace(k, v)
      BY Zenon, <2>1 DEF Map!Replace
    <2> QED BY Zenon, <2>2 DEF Map!Next
  <1>2. ASSUME Added(Rows, Rows', k, v) PROVE Map!Next
    <2>1. Map!At(k) = {}
      BY <1>2 DEF Map!At, Added
    <2>2. Map!Insert(k, v)
      BY Zenon, <1>2, <2>1 DEF Map!Insert, Added
    <2> QED BY Zenon, <2>2 DEF Map!Next
  <1>3. ASSUME Removed(Rows, Rows', k) PROVE Map!Next
    <2>1. \E it \in Map!At(k) : /\ Pairs(Rows') = Pairs(Rows) \ {it}
                              /\ Older(Rows') = {p \in Older(Rows) : p[1] # it[1] /\ p[2] # it[1]}
      BY <1>3 DEF Map!At, Removed
    <2>2. Map!Delete(k)
      BY Zenon, <2>1 DEF Map!Delete
    <2> QED BY Zenon, <2>2 DEF Map!Next
  <1> QED BY Zenon, <1>1, <1>2, <1>3

(* A resize starts with nothing to show.                                   *)
LEMMA StartShows ==
  ASSUME NEW k \in Keys, NEW v \in Values, StartResize(k, v)
  PROVE  /\ SameView(grown'[1].entries, SubSeq(keys'.entries, 1, moved'))
         /\ grown' # <<>> /\ keys' = keys /\ pending' = <<Entry(k, v)>>
  <1>1. /\ Min(Fits(used + 1)) \in Sizes
        /\ moved' = 0 /\ keys' = keys /\ pending' = <<Entry(k, v)>>
        /\ grown' = <<NewKeys(Min(Fits(used + 1)))>>
    BY LeastSize DEF StartResize, Fits
  <1>2. grown'[1].entries = <<>> /\ grown' # <<>>
    BY <1>1 DEF NewKeys
  <1>3. SubSeq(keys'.entries, 1, moved') = <<>>
    BY <1>1, SubSeqEmpty
  <1> QED BY <1>1, <1>2, <1>3 DEF SameView

(* An item set while nothing is copied.                                    *)
LEMMA SetItemKept ==
  ASSUME DictInv, DictInv', ~copying, ~copying', NEW k \in Keys, NEW v \in Values, SetItem(k, v), grown = <<>>
  PROVE  Kept
  <1>1. Sound(keys) /\ Rows = keys.entries /\ Rows' = keys'.entries
    BY RowsNow, RowsNext DEF DictInv, Exact
  <1>2. CASE Find(keys, k) >= 0 /\ Replace(k, v)
    <2>1. keys' = [keys EXCEPT !.entries[Find(keys, k) + 1].value = v] /\ grown' = <<>>
      BY <1>2 DEF Replace
    <2>2. Replaced(keys.entries, keys'.entries, k, v)
      BY <1>1, <1>2, <2>1, ReplaceShows
    <2>3. [Map!Next]_(Map!vars)
      BY Zenon, <1>1, <2>2, MapSteps
    <2> QED BY <2>1, <2>3 DEF Kept, MapInv
  <1>3. CASE Find(keys, k) < 0 /\ keys.usable > 0 /\ Insert(keys, k, v)
    <2>1. keys' = Put(keys, k, v) /\ grown' = <<>>
      BY <1>3 DEF Insert
    <2>2. Added(keys.entries, keys'.entries, k, v)
      BY <1>1, <1>3, <2>1, PutShows
    <2>3. [Map!Next]_(Map!vars)
      BY Zenon, <1>1, <2>2, MapSteps
    <2> QED BY <2>1, <2>3 DEF Kept, MapInv
  <1>4. CASE Find(keys, k) < 0 /\ StartResize(k, v)
    <2>1. Rows' = Rows
      BY <1>1, <1>4, StartShows
    <2>2. [Map!Next]_(Map!vars)
      BY <2>1, SameRows DEF SameView
    <2> QED BY <1>4, <2>2, StartShows DEF Kept, MapInv
  <1> QED BY <1>2, <1>3, <1>4 DEF SetItem

LEMMA MoveEntryKept == ASSUME DictInv, DictInv', MapInv, MoveEntry PROVE Kept
  <1> DEFINE e == keys.entries[moved + 1]
             g == grown[1]
             s == keys.entries
             r == SubSeq(s, 1, moved)
  <1>1. Growing /\ Sound(keys) /\ Sound(g) /\ s \in Seq(Row) /\ moved \in 0..Len(s) - 1 /\ SameView(g.entries, r)
    <2>1. Growing /\ Sound(keys) /\ s \in Seq(Row)
      BY RowsNow DEF DictInv, Settled, MoveEntry, Exact
    <2>2. moved \in 0..Len(s) - 1
      BY <2>1, RowFacts DEF Growing, MoveEntry
    <2> QED BY <2>1, <2>2 DEF Growing, Moving, MapInv, MoveEntry
  <1>2. e \in Row /\ r \in Seq(Row) /\ SubSeq(s, 1, moved + 1) = r \o <<e>> /\ <<e>> \in Seq(Row) /\ g.entries \in Seq(Row)
    BY <1>1, PrefixGrows, TableRows
  <1>3. moved' = moved + 1 /\ keys' = keys /\ Rows' = Rows /\ grown' # <<>> /\ merge' = merge /\ copying' = copying
    <2>1. grown' # <<>>
      BY DEF MoveEntry
    <2> QED BY <2>1 DEF MoveEntry, Rows
  <1>4. SameView(grown'[1].entries, r \o <<e>>)
    <2>1. CASE e = Gone
      <3>1. grown'[1] = g
        BY <2>1 DEF MoveEntry
      <3>2. SameView(g.entries, r \o <<Gone>>)
        BY <1>1, <1>2, SkipShows
      <3> QED BY <2>1, <3>1, <3>2
    <2>2. CASE e # Gone
      <3> DEFINE u == Put(g, e.key, e.value)
      <3>1. grown'[1] = u
        BY <2>2 DEF MoveEntry
      <3>2. e \in DictItems /\ e.key \in Keys /\ e.value \in Values /\ e = Entry(e.key, e.value)
        BY <1>2, <2>2 DEF Row, DictItems, Entry
      <3>3. moved + 1 \in LiveIn(keys)
        BY <1>1, <2>2, RowFacts, TableRows
      <3>4. Find(g, e.key) < 0 /\ g.usable > 0
        BY <1>1, <3>3, MoveFits DEF Growing
      <3>5. u.entries = g.entries \o <<e>>
        <4> HIDE DEF g, e
        <4>1. u.entries = g.entries \o <<Entry(e.key, e.value)>>
          BY <1>1, <3>2, <3>4, PutShows
        <4> QED BY Zenon, <3>2, <4>1
      <3>6. SameView(g.entries \o <<e>>, r \o <<e>>)
        BY <1>1, <1>2, ItemShows
      <3> QED BY <3>1, <3>5, <3>6
    <2> QED BY <2>1, <2>2
  <1>5. SameView(grown'[1].entries, SubSeq(keys'.entries, 1, moved'))
    BY <1>2, <1>3, <1>4
  <1>6. [Map!Next]_(Map!vars)
    BY <1>3, SameRows DEF SameView
  <1> HIDE DEF e, g, s, r
  <1> QED BY <1>3, <1>5, <1>6 DEF Kept, MapInv

LEMMA EndResizeKept == ASSUME DictInv, DictInv', MapInv, EndResize PROVE Kept
  <1> DEFINE g == grown[1]
             s == keys.entries
             p == pending[1]
             k == p.key
             v == p.value
             r == g.entries
             q == keys'.entries
  <1>1. /\ Sound(g) /\ g.usable > 0 /\ Find(g, k) < 0 /\ k \in Keys /\ v \in Values /\ p \in DictItems
        /\ pending = <<p>>
    BY EndFits
  <1>2. s \in Seq(Row) /\ r \in Seq(Row) /\ q \in Seq(Row) /\ merge \in Seq(Row) /\ copying \in BOOLEAN /\ copying' \in BOOLEAN
    BY <1>1, RowsNow, RowsNext, TableRows
  <1>3. SameView(r, s)
    <2>1. SubSeq(s, 1, moved) = s
      BY <1>2, SubSeqFull DEF EndResize
    <2> QED BY <2>1 DEF MapInv, EndResize
  <1>4. /\ keys' = Put(g, k, v) /\ grown' = <<>> /\ pending' = <<>> /\ merge' = merge
        /\ copying' = (copying /\ merge # <<>>)
    BY DEF EndResize, Insert
  <1>5. q = r \o <<p>> /\ <<p>> \in Seq(Row) /\ Added(r, q, k, v)
    <2>1. p = Entry(k, v)
      BY <1>1 DEF DictItems, Entry
    <2>2. <<p>> \in Seq(Row)
      BY <1>1 DEF Row
    <2> HIDE DEF g, p, k, v
    <2>3. Put(g, k, v).entries = g.entries \o <<Entry(k, v)>> /\ Added(g.entries, Put(g, k, v).entries, k, v)
      BY <1>1, PutShows
    <2>4. q = r \o <<p>>
      BY Zenon, <1>4, <2>1, <2>3 DEF q, r
    <2>5. Added(r, q, k, v)
      BY Zenon, <1>4, <2>3 DEF q, r
    <2> QED BY <2>2, <2>4, <2>5
  <1> HIDE DEF g, p, k, v, r
  <1>6. CASE copying = FALSE
    <2>1. Rows = s /\ Rows' = q /\ ~copying'
      BY <1>4, <1>6, RowsNow, RowsNext
    <2>2. Added(s, q, k, v)
      BY Zenon, <1>3, <1>5 DEF Added, SameView
    <2>3. [Map!Next]_(Map!vars)
      BY Zenon, <1>1, <2>1, <2>2, MapSteps
    <2> QED BY <1>4, <2>1, <2>3 DEF Kept, MapInv
  <1>7. CASE copying = TRUE
    <2>1. Rows = s \o (<<p>> \o merge)
      <3>1. Rows = RowsOf(s, <<p>>, merge, TRUE)
        BY <1>1, <1>7, RowsNow
      <3>2. \A x : RowsOf(s, x, merge, TRUE) = s \o (x \o merge)
        BY <1>2, RowsOfFacts
      <3> QED BY <3>1, <3>2
    <2>2. Rows' = q \o merge
      <3>1. Rows' = RowsOf(q, <<>>, merge, copying')
        BY Zenon, <1>4, RowsNext
      <3>2. copying' <=> merge # <<>>
        BY <1>4, <1>7
      <3> HIDE DEF q
      <3> QED BY <1>2, <3>1, <3>2, RowsOfFacts
    <2>3. q \o merge = r \o (<<p>> \o merge)
      BY <1>2, <1>5, ConcatAssociative
    <2>4. <<p>> \o merge \in Seq(Row)
      BY <1>2, <1>5, ConcatViews
    <2>5. SameView(Rows', Rows)
      <3> HIDE DEF s
      <3>1. SameView(r \o (<<p>> \o merge), s \o (<<p>> \o merge))
        BY <1>2, <1>3, <2>4, ItemShows
      <3> QED BY <2>1, <2>2, <2>3, <3>1
    <2>6. KeysDiffer(Rows')
      BY <1>7, <2>5 DEF MapInv, KeysDiffer, SameView
    <2> QED BY <1>4, <2>5, <2>6, SameRows DEF Kept, MapInv
  <1> QED BY <1>2, <1>6, <1>7

LEMMA HeadAndTail ==
  ASSUME NEW s \in Seq(Row), s # <<>>
  PROVE  /\ s = <<Head(s)>> \o Tail(s) /\ Head(s) \in Row
         /\ <<Head(s)>> \in Seq(Row) /\ Tail(s) \in Seq(Row)
  <1>1. Len(s) \in Nat /\ Len(s) >= 1
    BY EmptySeq, LenProperties
  <1>2. SubSeq(s, 1, Len(s)) = <<s[1]>> \o SubSeq(s, 2, Len(s))
    <2>1. 1 \in 1..Len(s) /\ Len(s) \in 1..Len(s)
      BY <1>1
    <2> QED BY <2>1, SubSeqRecursiveFirst
  <1>3. SubSeq(s, 1, Len(s)) = s /\ Tail(s) = SubSeq(s, 2, Len(s))
    BY SubSeqFull, TailIsSubSeq
  <1>4. Head(s) \in Row /\ Tail(s) \in Seq(Row) /\ Head(s) = s[1]
    BY HeadTailProperties
  <1> QED BY <1>2, <1>3, <1>4

LEMMA CopyOneKept == ASSUME DictInv, DictInv', MapInv, MergeOne, copying PROVE Kept
  <1> DEFINE s == keys.entries
             h == Head(merge)
             m == Tail(merge)
  <1>1. /\ pending = <<>> /\ grown = <<>> /\ merge # <<>> /\ Sound(keys)
        /\ s \in Seq(Row) /\ merge \in Seq(Row) /\ copying = TRUE /\ keys'.entries \in Seq(Row) /\ copying' \in BOOLEAN
    BY IdleSettled, RowsNow, RowsNext DEF MergeOne, Settled, DictInv, Exact
  <1>2. merge = <<h>> \o m /\ h \in Row /\ <<h>> \in Seq(Row) /\ m \in Seq(Row)
    BY <1>1, HeadAndTail
  <1>3. Rows = s \o merge /\ KeysDiffer(Rows)
    <2>1. Rows = RowsOf(s, <<>>, merge, TRUE)
      BY <1>1, RowsNow
    <2> QED BY <1>1, <2>1, RowsOfFacts DEF MapInv
  <1>4. merge' = m /\ copying' = (m # <<>> \/ grown' # <<>>)
    BY DEF MergeOne
  <1>5. Rows' = RowsOf(keys'.entries, pending', m, copying')
    BY <1>4, RowsNext
  <1>6. SUFFICES /\ SameView(Rows', Rows)
                 /\ grown' # <<>> => SameView(grown'[1].entries, SubSeq(keys'.entries, 1, moved'))
    <2>1. ASSUME SameView(Rows', Rows) PROVE KeysDiffer(Rows')
      BY <1>3, <2>1 DEF KeysDiffer, SameView
    <2> QED BY <1>4, <2>1, SameRows DEF Kept, MapInv
  <1>7. CASE h = Gone /\ UNCHANGED <<keys, used, held, grown, moved, pending, iterVars>>
    <2>1. keys' = keys /\ pending' = <<>> /\ grown' = <<>> /\ (copying' <=> m # <<>>)
      BY <1>1, <1>4, <1>7
    <2>2. Rows' = RowsOf(s, <<>>, m, copying')
      BY <1>5, <2>1
    <2> HIDE DEF s, h, m
    <2>3. Rows' = s \o m
      BY <1>1, <1>2, <2>1, <2>2, RowsOfFacts DEF s
    <2>4. SameView(m, merge)
      <3>1. << >> \in Seq(Row) /\ << >> \o m = m
        BY <1>2, EmptySeq, ConcatEmptySeq
      <3>2. SameView(<< >>, <<h>>)
        BY Zenon, <1>7, SingleViews DEF SameView
      <3>3. SameView(<< >> \o m, <<h>> \o m)
        BY <1>2, <3>1, <3>2, ItemShows
      <3> QED BY <1>2, <3>1, <3>3
    <2>5. SameView(s \o m, s \o merge)
      <3>1. s \in Seq(Row) /\ SameView(s, s)
        BY <1>1 DEF s, SameView
      <3> QED BY <1>1, <1>2, <2>4, <3>1, SameConcat
    <2> QED BY <1>3, <2>1, <2>3, <2>5
  <1>8. CASE h # Gone /\ SetItem(h.key, h.value)
    <2>1. h \in DictItems /\ h.key \in Keys /\ h.value \in Values /\ h = Entry(h.key, h.value)
      BY <1>2, <1>8 DEF Row, DictItems, Entry
    <2>2. Find(keys, h.key) < 0
      <3>1. SUFFICES ASSUME Find(keys, h.key) >= 0 PROVE FALSE
        BY <1>1, <2>1, FindFacts
      <3>2. PICK i \in LiveRows(s) : EqualKeys(s[i].key, h.key)
        BY <1>1, <2>1, <3>1, FindFacts, TableRows
      <3>3. EqualTo[s[i].key] # EqualTo[h.key]
        BY <1>1, <1>3, <1>8, NextIsNew
      <3> QED BY <3>2, <3>3 DEF EqualKeys
    <2>3. CASE keys.usable > 0 /\ Insert(keys, h.key, h.value)
      <3>1. keys' = Put(keys, h.key, h.value) /\ grown' = <<>> /\ pending' = <<>> /\ (copying' <=> m # <<>>)
        BY <1>4, <2>3 DEF Insert
      <3> DEFINE q == keys'.entries
      <3>2. q = s \o <<h>>
        <4> HIDE DEF h
        <4>1. Put(keys, h.key, h.value).entries = keys.entries \o <<Entry(h.key, h.value)>>
          BY <1>1, <2>1, <2>2, <2>3, PutShows
        <4> QED BY Zenon, <2>1, <3>1, <4>1
      <3>3. Rows' = RowsOf(q, <<>>, m, copying')
        BY Zenon, <1>5, <3>1
      <3> HIDE DEF q, s, h, m
      <3>4. Rows' = q \o m
        BY <1>1, <1>2, <3>1, <3>3, RowsOfFacts DEF q
      <3>5. (s \o <<h>>) \o m = s \o (<<h>> \o m)
        BY <1>1, <1>2, ConcatAssociative
      <3>6. Rows' = Rows
        BY <1>2, <1>3, <3>2, <3>4, <3>5
      <3> QED BY <3>1, <3>6 DEF SameView
    <2>4. CASE StartResize(h.key, h.value)
      <3> HIDE DEF h
      <3>1. /\ SameView(grown'[1].entries, SubSeq(keys'.entries, 1, moved'))
            /\ grown' # <<>> /\ keys' = keys /\ pending' = <<Entry(h.key, h.value)>>
        BY <2>1, <2>4, StartShows
      <3>2. pending' = <<h>> /\ copying' = TRUE
        BY <1>4, <2>1, <3>1
      <3>3. Rows' = RowsOf(s, <<h>>, m, TRUE)
        BY Zenon, <1>5, <3>1, <3>2
      <3> HIDE DEF s, m
      <3>4. Rows' = s \o (<<h>> \o m)
        <4>1. \A x : RowsOf(s, x, m, TRUE) = s \o (x \o m)
          BY <1>1, <1>2, RowsOfFacts DEF s
        <4> QED BY <3>3, <4>1
      <3> QED BY <1>2, <1>3, <3>1, <3>4 DEF SameView
    <2>5. ~(Find(keys, h.key) >= 0)
      BY <1>1, <2>1, <2>2, FindFacts
    <2> QED BY Zenon, <1>8, <2>3, <2>4, <2>5 DEF SetItem
  <1> QED BY <1>7, <1>8 DEF MergeOne

(* Outside of a copy and of a resize what shows are the entries.           *)
LEMMA IdleShows ==
  ASSUME DictInv, DictInv', MapInv, Idle
  PROVE  /\ ~copying /\ Rows = keys.entries /\ Sound(keys)
         /\ ~copying' => Rows' = keys'.entries
         /\ ~copying' /\ grown' = <<>> => MapInv'
  <1>1. ~copying
    BY DEF MapInv, Idle
  <1> QED BY <1>1, RowsNow, RowsNext DEF MapInv, DictInv, Exact

LEMMA DelItemKept == ASSUME DictInv, DictInv', MapInv, NEW k \in Keys, DelItem(k) PROVE Kept
  <1>1. /\ Idle /\ grown' = <<>> /\ copying' = copying /\ Find(keys, k) >= 0
        /\ keys' = [keys EXCEPT !.indices[Probe(keys, k, Stop(keys, k))] = DUMMY, !.entries[Find(keys, k) + 1] = Gone]
    BY DEF DelItem, loopVars, Idle
  <1>2. ~copying' /\ Rows = keys.entries /\ Rows' = keys'.entries /\ Sound(keys) /\ MapInv'
    BY <1>1, IdleShows
  <1>3. Removed(keys.entries, keys'.entries, k)
    BY <1>1, <1>2, DeleteShows
  <1>4. ASSUME NEW v \in Values PROVE [Map!Next]_(Map!vars)
    BY Zenon, <1>2, <1>3, MapSteps
  <1>5. \E v : v \in Values
    <2>1. PICK i : i \in LiveIn(keys)
      BY <1>1, <1>2, FindFacts
    <2> QED BY <1>2, <2>1, TableFacts DEF Sound
  <1> QED BY <1>2, <1>4, <1>5 DEF Kept

LEMMA ClearKept == ASSUME DictInv, DictInv', MapInv, PyDict_Clear PROVE Kept
  <1>1. /\ Idle /\ grown' = <<>> /\ copying' = copying /\ keys'.entries = <<>>
    BY DEF PyDict_Clear, loopVars, Idle, NewKeys
  <1>2. ~copying' /\ Rows' = <<>> /\ MapInv'
    BY <1>1, IdleShows
  <1>3. Map!Clear
    BY Zenon, <1>2, SingleViews DEF Map!Clear
  <1> QED BY Zenon, <1>2, <1>3 DEF Kept, Map!Next

LEMMA CopyKept == ASSUME DictInv, DictInv', MapInv, PyDict_Copy PROVE Kept
  <1> DEFINE s == keys.entries
  <1>1. /\ Idle /\ grown' = <<>> /\ pending' = <<>> /\ merge' = s /\ copying' = (s # <<>>) /\ keys'.entries = <<>>
    <2>1. Idle /\ grown' = grown /\ pending' = pending /\ keys'.entries = <<>>
      BY DEF PyDict_Copy, NewKeys
    <2>2. grown = <<>> /\ pending = <<>>
      BY <2>1, IdleSettled DEF Idle, Settled
    <2> QED BY <2>1, <2>2 DEF PyDict_Copy
  <1>2. Rows = s /\ Sound(keys) /\ s \in Seq(Row) /\ copying' \in BOOLEAN
    BY <1>1, IdleShows, RowsNow, RowsNext
  <1>3. Rows' = s
    <2>1. Rows' = RowsOf(<<>>, <<>>, s, copying')
      BY Zenon, <1>1, RowsNext
    <2>2. <<>> \in Seq(Row) /\ <<>> \o s = s
      BY <1>2, EmptySeq, ConcatEmptySeq
    <2>3. copying' <=> s # <<>>
      BY <1>1
    <2> HIDE DEF s
    <2>4. RowsOf(<<>>, <<>>, s, copying') = <<>> \o s
      BY <1>2, <2>2, <2>3, RowsOfFacts
    <2> QED BY <2>1, <2>2, <2>4
  <1>4. KeysDiffer(s)
    BY <1>2, OneEachDiffers
  <1> QED BY <1>1, <1>2, <1>3, <1>4, SameRows DEF Kept, MapInv, SameView

LEMMA OthersKept ==
  ASSUME DictInv, DictInv', MapInv, PyDict_Update \/ StartIter \/ PyDict_Next PROVE Kept
  <1>1. Idle /\ grown' = <<>> /\ keys' = keys /\ (copying' = copying \/ copying' = FALSE)
    BY DEF PyDict_Update, StartIter, PyDict_Next, loopVars, Idle
  <1>2. Rows' = Rows /\ MapInv'
    BY <1>1, IdleShows
  <1> QED BY <1>2, SameRows DEF Kept, SameView

LEMMA NextKept == DictInv /\ MapInv /\ [DictNext]_dictVars => Kept
  <1> SUFFICES ASSUME DictInv, MapInv, [DictNext]_dictVars PROVE Kept
    OBVIOUS
  <1>1. DictInv'
    BY NextDictInv
  <1>2. ASSUME NEW k \in Keys, NEW v \in Values, PyDict_SetItem(k, v) PROVE Kept
    <2>1. Idle /\ SetItem(k, v) /\ copying' = copying /\ grown = <<>>
      BY <1>2 DEF PyDict_SetItem, Idle
    <2>2. ~copying
      BY <1>1, <2>1, IdleShows
    <2> QED BY <1>1, <2>1, <2>2, SetItemKept
  <1>3. ASSUME NEW k \in Keys, NEW v \in Values, PyDict_SetDefault(k, v) PROVE Kept
    BY <1>2, <1>3 DEF PyDict_SetDefault
  <1>4. CASE MergeOne
    <2>1. copying \in BOOLEAN /\ grown = <<>> /\ merge # <<>> /\ merge \in Seq(Row)
      BY <1>4, RowsNow DEF MergeOne
    <2>2. CASE copying
      BY <1>1, <1>4, <2>2, CopyOneKept
    <2>3. CASE ~copying
      <3>1. ~copying'
        BY <1>4, <2>3 DEF MergeOne
      <3>2. CASE Head(merge) # Gone /\ SetItem(Head(merge).key, Head(merge).value)
        <4>1. Head(merge) \in DictItems
          BY <2>1, <3>2, HeadAndTail DEF Row
        <4>2. Head(merge).key \in Keys /\ Head(merge).value \in Values
          BY <4>1 DEF DictItems
        <4> QED BY <1>1, <2>1, <2>3, <3>1, <3>2, <4>2, SetItemKept
      <3>3. CASE UNCHANGED <<keys, used, held, grown, moved, pending, iterVars>>
        <4>1. Rows' = Rows /\ grown' = <<>>
          BY <1>1, <2>1, <2>3, <3>1, <3>3, RowsNow, RowsNext
        <4> QED BY <3>1, <4>1, SameRows DEF Kept, MapInv, SameView
      <3> QED BY <1>4, <3>2, <3>3 DEF MergeOne
    <2> QED BY <2>2, <2>3
  <1>5. CASE UNCHANGED dictVars
    <2>1. Rows' = Rows /\ MapInv'
      BY <1>5 DEF dictVars, loopVars, Rows, MapInv
    <2> QED BY <2>1, SameRows DEF Kept, SameView
  <1> QED BY <1>1, <1>2, <1>3, <1>4, <1>5, MoveEntryKept, EndResizeKept, DelItemKept, ClearKept, CopyKept,
             OthersKept, DictKeysAssumption DEF DictNext

LEMMA InitShows == DictInit => MapInv /\ Map!Init
  <1> SUFFICES ASSUME DictInit PROVE MapInv /\ Map!Init
    OBVIOUS
  <1>1. ~copying /\ grown = <<>> /\ keys.entries = <<>>
    BY DEF DictInit, NewKeys
  <1>2. Rows = <<>>
    BY <1>1, InitDictInv, RowsNow
  <1> QED BY Zenon, <1>1, <1>2, SingleViews DEF MapInv, Map!Init

(* Every operation does to the items, and to the order in which they were  *)
(* inserted, what DictContract says of a map; and a resize and the steps   *)
(* of a copy do nothing to them.                                           *)
THEOREM DictImplements == DictSpec => ImplementsMap
  <1>1. DictInv /\ MapInv /\ [DictNext]_dictVars => MapInv' /\ [Map!Next]_(Map!vars)
    BY NextKept DEF Kept
  <1> QED BY <1>1, InitShows, DictInvariant, PTL DEF DictSpec, ImplementsMap, Map!Spec

-----------------------------------------------------------------------------
(* Set, for sizes of tables but the two least.                             *)
USE SetSizeAssumption


SetFilled(t)       == {s \in Slots(t) : t.slots[s] # NoKey}
Places(t, A, x) == {s \in A : t.slots[s] = x}
KeysAt(t, A)    == {t.slots[s] : s \in A}

HasEmpty(t) == \E s \in Slots(t) : t.slots[s] = NoKey

(* Probing for k comes to slot s, past slots that are not empty.           *)
SetReaches(t, k, s) ==
  \E p \in Slots(t) : SlotAfter(t.size, k, p) = s /\ \A q \in 0..p - 1 : SetSeen(t, k, q) # NoKey

Distinct(t) == \A r, s \in Active(t) : EqualKeys(t.slots[r], t.slots[s]) => r = s

(* A table whose members differ and are all reached.                       *)
SetSound(t) == SetTableType(t) /\ Distinct(t) /\ \A s \in Active(t) : SetReaches(t, t.slots[s], s)

-----------------------------------------------------------------------------
(* What a search comes to.                                                 *)

LEMMA KeysActive == NoKey # DummyKey /\ \A k \in Keys : k # NoKey /\ k # DummyKey /\ IsActive(k)
  BY DEF NoKey, DummyKey, IsActive

LEMMA SetTableFacts ==
  ASSUME NEW t, SetTableType(t)
  PROVE  /\ t.size \in Sizes /\ t.size \in Nat /\ t.size >= 2
         /\ Slots(t) = 0..t.size - 1
         /\ \A s \in Slots(t) : t.slots[s] \in Keys \cup {NoKey, DummyKey}
         /\ \A s \in Active(t) : s \in Slots(t) /\ t.slots[s] \in Keys
  <1>1. t.size \in Sizes /\ \A s \in Slots(t) : t.slots[s] \in Keys \cup {NoKey, DummyKey}
    BY DEF SetTableType
  <1>2. t.size \in Nat /\ t.size >= 2
    BY <1>1, SizeFacts
  <1>3. \A s \in Active(t) : s \in Slots(t) /\ t.slots[s] \in Keys
    BY <1>1 DEF Active, IsActive
  <1> QED BY <1>1, <1>2, <1>3 DEF Slots

LEMMA TableFinite ==
  ASSUME NEW t, SetTableType(t)
  PROVE  /\ IsFiniteSet(Slots(t)) /\ Cardinality(Slots(t)) = t.size
         /\ IsFiniteSet(SetFilled(t)) /\ Cardinality(SetFilled(t)) \in Nat
         /\ IsFiniteSet(Active(t)) /\ Cardinality(Active(t)) \in Nat
  <1>1. t.size \in Nat /\ t.size >= 2 /\ Slots(t) = 0..t.size - 1
    BY SetTableFacts
  <1>2. IsFiniteSet(0..t.size - 1)
    BY <1>1, FS_Interval
  <1>3. Cardinality(0..t.size - 1) = t.size
    BY <1>1, FS_Interval
  <1>4. SetFilled(t) \subseteq Slots(t) /\ Active(t) \subseteq Slots(t)
    BY DEF SetFilled, Active
  <1>5. IsFiniteSet(SetFilled(t)) /\ IsFiniteSet(Active(t))
    BY <1>1, <1>2, <1>4, FS_Subset
  <1> QED BY <1>1, <1>2, <1>3, <1>5, FS_CardinalityType

LEMMA ProbeIn ==
  ASSUME NEW t, SetTableType(t), NEW k \in Keys, NEW p \in Slots(t)
  PROVE  SlotAfter(t.size, k, p) \in Slots(t)
  BY SetTableFacts, ProbeFacts

LEMMA SetEmptySlot ==
  ASSUME NEW t, SetTableType(t), Cardinality(SetFilled(t)) < t.size
  PROVE  HasEmpty(t)
  <1>1. SUFFICES ASSUME ~HasEmpty(t) PROVE FALSE
    OBVIOUS
  <1>2. SetFilled(t) = Slots(t)
    BY <1>1 DEF SetFilled, HasEmpty
  <1>3. Cardinality(Slots(t)) = t.size /\ t.size \in Nat
    BY SetTableFacts, TableFinite
  <1> QED BY <1>2, <1>3

LEMMA SetStopFacts ==
  ASSUME NEW t, SetTableType(t), NEW k \in Keys, HasEmpty(t)
  PROVE  /\ SetStop(t, k) \in Slots(t)
         /\ \/ SetSeen(t, k, SetStop(t, k)) = NoKey
            \/ IsActive(SetSeen(t, k, SetStop(t, k))) /\ EqualKeys(SetSeen(t, k, SetStop(t, k)), k)
         /\ \A q \in 0..SetStop(t, k) - 1 :
              /\ q \in Slots(t) /\ SetSeen(t, k, q) # NoKey
              /\ ~(IsActive(SetSeen(t, k, q)) /\ EqualKeys(SetSeen(t, k, q), k))
  <1> DEFINE S == {i \in Slots(t) : SetSeen(t, k, i) = NoKey \/ (IsActive(SetSeen(t, k, i)) /\ EqualKeys(SetSeen(t, k, i), k))}
  <1>1. t.size \in Sizes /\ t.size \in Nat /\ Slots(t) = 0..t.size - 1
    BY SetTableFacts
  <1>2. PICK s \in Slots(t) : t.slots[s] = NoKey
    BY DEF HasEmpty
  <1>3. PICK p \in Slots(t) : SlotAfter(t.size, k, p) = s
    BY <1>1, ProbeFacts
  <1>4. S \in SUBSET Nat /\ S # {}
    BY <1>1, <1>2, <1>3 DEF SetSeen
  <1>5. SetStop(t, k) \in S /\ \A q \in S : SetStop(t, k) <= q
    <2>1. Min(S) \in S /\ \A q \in S : Min(S) <= q
      BY <1>4, MinLeast
    <2> QED BY <2>1 DEF SetStop
  <1>6. ASSUME NEW q \in 0..SetStop(t, k) - 1
        PROVE  q \in Slots(t) /\ q \notin S
    <2>1. SetStop(t, k) \in 0..t.size - 1
      BY <1>1, <1>5
    <2>2. q \in Slots(t) /\ ~(SetStop(t, k) <= q)
      BY <1>1, <2>1
    <2> QED BY <1>5, <2>2
  <1> QED BY <1>5, <1>6

(* A member equal to k is what the search for k stops at.                  *)
LEMMA StopLive ==
  ASSUME NEW t, SetSound(t), HasEmpty(t), NEW k \in Keys,
         NEW s \in Active(t), EqualKeys(t.slots[s], k)
  PROVE  SlotAfter(t.size, k, SetStop(t, k)) = s /\ Lookup(t, k) = s
  <1> DEFINE x == t.slots[s]
             w == SetStop(t, k)
             r == SlotAfter(t.size, k, w)
  <1>1. SetTableType(t) /\ Distinct(t) /\ SetReaches(t, x, s)
    BY DEF SetSound
  <1>2. x \in Keys /\ t.size \in Nat /\ Slots(t) = 0..t.size - 1
    BY <1>1, SetTableFacts
  <1>3. \A q : SlotAfter(t.size, x, q) = SlotAfter(t.size, k, q) /\ SetSeen(t, x, q) = SetSeen(t, k, q)
    BY <1>2, EqualProbes DEF SetSeen
  <1>4. PICK p \in Slots(t) : SlotAfter(t.size, k, p) = s /\ \A q \in 0..p - 1 : SetSeen(t, k, q) # NoKey
    BY <1>1, <1>3 DEF SetReaches
  <1>5. SetSeen(t, k, p) = x /\ IsActive(x) /\ x # NoKey
    BY <1>2, <1>4, KeysActive DEF SetSeen
  <1>6. /\ w \in Slots(t)
        /\ SetSeen(t, k, w) = NoKey \/ (IsActive(SetSeen(t, k, w)) /\ EqualKeys(SetSeen(t, k, w), k))
        /\ \A q \in 0..w - 1 : ~(IsActive(SetSeen(t, k, q)) /\ EqualKeys(SetSeen(t, k, q), k))
    BY <1>1, SetStopFacts
  <1>7. EqualKeys(x, k)
    OBVIOUS
  <1> HIDE DEF x, w
  <1>8. w <= p
    BY <1>2, <1>4, <1>5, <1>6, <1>7
  <1>9. SetSeen(t, k, w) # NoKey
    <2>1. CASE w = p
      BY <1>5, <2>1
    <2>2. CASE w < p
      BY <1>2, <1>4, <1>6, <2>2
    <2> QED BY <1>2, <1>4, <1>6, <1>8, <2>1, <2>2
  <1>10. r \in Active(t) /\ EqualKeys(t.slots[r], k)
    BY <1>1, <1>6, <1>9, ProbeIn DEF Active, SetSeen
  <1>11. r = s
    BY <1>1, <1>7, <1>10 DEF Distinct, EqualKeys, x
  <1> QED BY <1>9, <1>11 DEF Lookup, w

(* What the slot that a search comes to says of k.                         *)
LEMMA LookupFacts ==
  ASSUME NEW t, SetSound(t), HasEmpty(t), NEW k \in Keys
  PROVE  /\ Lookup(t, k) \in Slots(t)
         /\ IsActive(t.slots[Lookup(t, k)]) => EqualKeys(t.slots[Lookup(t, k)], k)
         /\ ~IsActive(t.slots[Lookup(t, k)]) => /\ SetReaches(t, k, Lookup(t, k))
                                                /\ \A s \in Active(t) : ~EqualKeys(t.slots[s], k)
  <1> DEFINE w == SetStop(t, k)
             d == {i \in 0..w - 1 : SetSeen(t, k, i) = DummyKey}
  <1>1. SetTableType(t)
    BY DEF SetSound
  <1>2. t.size \in Nat /\ Slots(t) = 0..t.size - 1
    BY <1>1, SetTableFacts
  <1>3. /\ w \in Slots(t)
        /\ SetSeen(t, k, w) = NoKey \/ (IsActive(SetSeen(t, k, w)) /\ EqualKeys(SetSeen(t, k, w), k))
        /\ \A q \in 0..w - 1 : q \in Slots(t) /\ SetSeen(t, k, q) # NoKey
    BY <1>1, SetStopFacts
  <1>4. CASE SetSeen(t, k, w) # NoKey
    <2>1. Lookup(t, k) = SlotAfter(t.size, k, w)
      BY <1>4 DEF Lookup
    <2> QED BY <1>1, <1>3, <1>4, <2>1, ProbeIn DEF SetSeen
  <1>5. CASE SetSeen(t, k, w) = NoKey
    <2> DEFINE p == IF d # {} THEN Min(d) ELSE w
    <2>1. Lookup(t, k) = SlotAfter(t.size, k, p)
      BY <1>5 DEF Lookup
    <2>2. p \in Slots(t) /\ SetSeen(t, k, p) \in {NoKey, DummyKey} /\ \A q \in 0..p - 1 : q \in 0..w - 1
      <3>1. CASE d = {}
        BY <1>3, <1>5, <3>1
      <3>2. CASE d # {}
        <4>1. d \in SUBSET Nat
          BY <1>2, <1>3
        <4>2. Min(d) \in d
          BY <3>2, <4>1, MinLeast
        <4>3. p \in 0..w - 1 /\ SetSeen(t, k, p) = DummyKey
          BY <3>2, <4>2
        <4> HIDE DEF p, w, d
        <4>4. w \in Nat /\ p \in Nat /\ p < w
          BY <1>2, <1>3, <4>3
        <4>5. \A q \in 0..p - 1 : q \in 0..w - 1
          BY <4>4
        <4> QED BY <1>3, <4>3, <4>5
      <3> QED BY <3>1, <3>2
    <2> HIDE DEF p
    <2>3. Lookup(t, k) \in Slots(t) /\ ~IsActive(t.slots[Lookup(t, k)]) /\ SetReaches(t, k, Lookup(t, k))
      BY <1>1, <1>3, <2>1, <2>2, ProbeIn DEF SetReaches, SetSeen, IsActive
    <2>4. ASSUME NEW s \in Active(t), EqualKeys(t.slots[s], k) PROVE FALSE
      <3>1. Lookup(t, k) = s
        BY <2>4, StopLive
      <3> QED BY <2>3, <3>1 DEF Active
    <2> QED BY <2>3, <2>4
  <1> QED BY <1>4, <1>5

(* Where a resize puts k.                                                  *)
LEMMA PlaceFacts ==
  ASSUME NEW t, SetSound(t), HasEmpty(t), NEW k \in Keys
  PROVE  \E f \in Slots(t) : t.slots[f] = NoKey /\ SetReaches(t, k, f) /\ Place(t, k) = [t EXCEPT !.slots[f] = k]
  <1> DEFINE S == {i \in Slots(t) : SetSeen(t, k, i) = NoKey}
             p == Min(S)
  <1>1. SetTableType(t)
    BY DEF SetSound
  <1>2. t.size \in Sizes /\ t.size \in Nat /\ Slots(t) = 0..t.size - 1
    BY <1>1, SetTableFacts
  <1>3. PICK e \in Slots(t) : t.slots[e] = NoKey
    BY DEF HasEmpty
  <1>4. PICK i \in Slots(t) : SlotAfter(t.size, k, i) = e
    BY <1>2, ProbeFacts
  <1>5. S \in SUBSET Nat /\ S # {}
    BY <1>2, <1>3, <1>4 DEF SetSeen
  <1>6. p \in S /\ \A q \in S : p <= q
    BY <1>5, MinLeast
  <1>7. Place(t, k) = [t EXCEPT !.slots[SlotAfter(t.size, k, p)] = k]
    BY DEF Place
  <1> HIDE DEF p
  <1>8. \A q \in 0..p - 1 : q \in Slots(t) /\ SetSeen(t, k, q) # NoKey
    <2>1. p \in 0..t.size - 1
      BY <1>2, <1>6
    <2>2. \A q \in 0..p - 1 : q \in Slots(t) /\ ~(p <= q)
      BY <1>2, <2>1
    <2> QED BY <1>6, <2>2
  <1>9. p \in Slots(t) /\ SetSeen(t, k, p) = NoKey
    BY <1>6
  <1>10. SlotAfter(t.size, k, p) \in Slots(t) /\ t.slots[SlotAfter(t.size, k, p)] = NoKey
    BY <1>1, <1>9, ProbeIn DEF SetSeen
  <1>11. SetReaches(t, k, SlotAfter(t.size, k, p))
    BY <1>8, <1>9 DEF SetReaches
  <1> QED BY <1>7, <1>10, <1>11

-----------------------------------------------------------------------------
(* Changes to a table.                                                     *)

LEMMA EmptySound ==
  ASSUME NEW n \in Sizes
  PROVE  LET t == EmptyTable(n)
         IN  SetSound(t) /\ t.size = n /\ Active(t) = {} /\ SetFilled(t) = {}
  <1> DEFINE t == EmptyTable(n)
  <1>1. t.size = n /\ t.slots = [s \in 0..n - 1 |-> NoKey] /\ Slots(t) = 0..n - 1
    BY DEF EmptyTable, Slots
  <1>2. SetTableType(t)
    BY <1>1 DEF SetTableType, EmptyTable
  <1>3. Active(t) = {} /\ SetFilled(t) = {}
    BY <1>1 DEF Active, SetFilled, IsActive
  <1> HIDE DEF t
  <1>4. SetSound(t)
    BY <1>2, <1>3 DEF SetSound, Distinct
  <1> QED BY <1>1, <1>3, <1>4 DEF t

(* A key put where its search ends.                                        *)
LEMMA SetPutShape ==
  ASSUME NEW t, SetTableType(t), NEW k \in Keys, NEW f \in Slots(t), ~IsActive(t.slots[f])
  PROVE  LET u == [t EXCEPT !.slots[f] = k]
         IN  /\ SetTableType(u) /\ u.size = t.size /\ Slots(u) = Slots(t)
             /\ \A s \in Slots(t) : u.slots[s] = IF s = f THEN k ELSE t.slots[s]
             /\ f \notin Active(t)
             /\ Active(u) = Active(t) \cup {f} /\ SetFilled(u) = SetFilled(t) \cup {f}
  <1> DEFINE u == [t EXCEPT !.slots[f] = k]
  <1>1. t \in [size : Sizes, slots : [Slots(t) -> Keys \cup {NoKey, DummyKey}]]
    BY DEF SetTableType
  <1>2. u.size = t.size /\ u.slots = [t.slots EXCEPT ![f] = k] /\ u = [size |-> u.size, slots |-> u.slots]
    BY <1>1
  <1> HIDE DEF u
  <1>3. Slots(u) = Slots(t)
    BY <1>2 DEF Slots
  <1>4. u.slots \in [Slots(t) -> Keys \cup {NoKey, DummyKey}]
    BY <1>1, <1>2
  <1>5. \A s \in Slots(t) : u.slots[s] = IF s = f THEN k ELSE t.slots[s]
    BY <1>1, <1>2
  <1>6. SetTableType(u)
    BY <1>1, <1>2, <1>3, <1>4 DEF SetTableType
  <1>7. f \notin Active(t)
    BY DEF Active
  <1>8. Active(u) = Active(t) \cup {f} /\ SetFilled(u) = SetFilled(t) \cup {f}
    BY <1>3, <1>5, KeysActive DEF Active, SetFilled
  <1> QED BY <1>2, <1>3, <1>5, <1>6, <1>7, <1>8 DEF u

LEMMA SetPutSound ==
  ASSUME NEW t, SetSound(t), NEW k \in Keys, NEW f \in Slots(t), ~IsActive(t.slots[f]), SetReaches(t, k, f),
         \A s \in Active(t) : ~EqualKeys(t.slots[s], k)
  PROVE  SetSound([t EXCEPT !.slots[f] = k])
  <1> DEFINE u == [t EXCEPT !.slots[f] = k]
  <1>1. SetTableType(t) /\ Distinct(t)
    BY DEF SetSound
  <1>2. /\ SetTableType(u) /\ u.size = t.size /\ Slots(u) = Slots(t)
        /\ \A s \in Slots(t) : u.slots[s] = IF s = f THEN k ELSE t.slots[s]
        /\ f \notin Active(t) /\ Active(u) = Active(t) \cup {f}
    BY <1>1, SetPutShape
  <1>3. t.size \in Nat /\ Slots(t) = 0..t.size - 1 /\ \A s \in Active(t) : s \in Slots(t) /\ t.slots[s] \in Keys
    BY <1>1, SetTableFacts
  <1> HIDE DEF u
  <1>4. Distinct(u)
    BY <1>1, <1>2, <1>3 DEF Distinct, EqualKeys
  <1>5. ASSUME NEW x \in Keys, NEW s \in Slots(t), SetReaches(t, x, s) PROVE SetReaches(u, x, s)
    <2>1. PICK p \in Slots(t) : SlotAfter(t.size, x, p) = s /\ \A q \in 0..p - 1 : SetSeen(t, x, q) # NoKey
      BY <1>5 DEF SetReaches
    <2>2. ASSUME NEW q \in 0..p - 1 PROVE SetSeen(u, x, q) # NoKey
      <3>1. q \in Slots(t) /\ SetSeen(t, x, q) # NoKey
        BY <1>3, <2>1
      <3> QED BY <1>1, <1>2, <3>1, ProbeIn, KeysActive DEF SetSeen
    <2> QED BY <1>2, <2>1, <2>2 DEF SetReaches
  <1>6. ASSUME NEW s \in Active(u) PROVE SetReaches(u, u.slots[s], s)
    <2>1. CASE s = f
      BY <1>2, <1>5, <2>1
    <2>2. CASE s \in Active(t)
      <3>1. u.slots[s] = t.slots[s] /\ t.slots[s] \in Keys /\ s \in Slots(t)
        BY <1>2, <1>3, <2>2
      <3>2. SetReaches(t, t.slots[s], s)
        BY <2>2 DEF SetSound
      <3> QED BY <1>5, <3>1, <3>2
    <2> QED BY <1>2, <1>6, <2>1, <2>2
  <1> QED BY <1>2, <1>4, <1>6 DEF SetSound, u

(* What it adds to the counts and to the members.                          *)
LEMMA PutCounts ==
  ASSUME NEW t, SetTableType(t), NEW k \in Keys, NEW f \in Slots(t), ~IsActive(t.slots[f])
  PROVE  LET u == [t EXCEPT !.slots[f] = k]
         IN  /\ Cardinality(Active(u)) = Cardinality(Active(t)) + 1
             /\ Cardinality(SetFilled(u)) = Cardinality(SetFilled(t)) + (IF t.slots[f] = DummyKey THEN 0 ELSE 1)
             /\ \A x \in Keys : Cardinality(Places(u, Active(u), x))
                                 = Cardinality(Places(t, Active(t), x)) + (IF x = k THEN 1 ELSE 0)
             /\ KeysAt(u, Active(u)) = KeysAt(t, Active(t)) \cup {k}
  <1> DEFINE u == [t EXCEPT !.slots[f] = k]
             F == SetFilled(t)
             A == Active(t)
  <1>1. /\ \A s \in Slots(t) : u.slots[s] = IF s = f THEN k ELSE t.slots[s]
        /\ f \notin A /\ Active(u) = A \cup {f} /\ SetFilled(u) = F \cup {f}
    BY SetPutShape
  <1>2. IsFiniteSet(F) /\ IsFiniteSet(A) /\ Cardinality(F) \in Nat
    BY TableFinite
  <1>3. A \subseteq Slots(t) /\ (f \in F <=> t.slots[f] # NoKey) /\ t.slots[f] \in {NoKey, DummyKey}
    BY DEF Active, SetFilled, IsActive
  <1>4. NoKey # DummyKey
    BY KeysActive
  <1> HIDE DEF u, F, A
  <1>5. Cardinality(A \cup {f}) = Cardinality(A) + 1
    BY <1>1, <1>2, FS_AddElement
  <1>6. Cardinality(F \cup {f}) = IF f \in F THEN Cardinality(F) ELSE Cardinality(F) + 1
    BY <1>2, FS_AddElement
  <1>7. Cardinality(F \cup {f}) = Cardinality(F) + (IF t.slots[f] = DummyKey THEN 0 ELSE 1)
    BY <1>2, <1>3, <1>4, <1>6
  <1>8. ASSUME NEW x \in Keys
        PROVE  Cardinality(Places(u, Active(u), x)) = Cardinality(Places(t, A, x)) + (IF x = k THEN 1 ELSE 0)
    <2> DEFINE P == Places(t, A, x)
    <2>1. IsFiniteSet(P)
      <3>1. P \subseteq A
        BY DEF Places
      <3> QED BY <1>2, <3>1, FS_Subset
    <2>2. f \notin P
      BY <1>1 DEF Places
    <2>3. Places(u, Active(u), x) = IF x = k THEN P \cup {f} ELSE P
      BY <1>1, <1>3 DEF Places
    <2> HIDE DEF P
    <2>4. Cardinality(P \cup {f}) = Cardinality(P) + 1 /\ Cardinality(P) \in Nat
      BY <2>1, <2>2, FS_AddElement, FS_CardinalityType
    <2>5. Cardinality(Places(u, Active(u), x)) = Cardinality(P) + (IF x = k THEN 1 ELSE 0)
      BY <2>3, <2>4
    <2> QED BY <2>5 DEF P
  <1>9. KeysAt(u, Active(u)) = KeysAt(t, A) \cup {k}
    BY <1>1, <1>3 DEF KeysAt
  <1> QED BY <1>1, <1>5, <1>7, <1>8, <1>9 DEF u, F, A

(* A discarded member leaves a dummy.                                      *)
LEMMA DiscardShape ==
  ASSUME NEW t, SetSound(t), NEW f \in Active(t)
  PROVE  LET u == [t EXCEPT !.slots[f] = DummyKey]
         IN  /\ SetSound(u) /\ u.size = t.size /\ Slots(u) = Slots(t)
             /\ \A s \in Slots(t) : u.slots[s] = IF s = f THEN DummyKey ELSE t.slots[s]
             /\ Active(u) = Active(t) \ {f} /\ SetFilled(u) = SetFilled(t)
  <1> DEFINE u == [t EXCEPT !.slots[f] = DummyKey]
  <1>1. SetTableType(t) /\ Distinct(t)
    BY DEF SetSound
  <1>2. t \in [size : Sizes, slots : [Slots(t) -> Keys \cup {NoKey, DummyKey}]] /\ f \in Slots(t)
    BY <1>1 DEF SetTableType, Active
  <1>3. u.size = t.size /\ u.slots = [t.slots EXCEPT ![f] = DummyKey] /\ u = [size |-> u.size, slots |-> u.slots]
    BY <1>2
  <1> HIDE DEF u
  <1>4. Slots(u) = Slots(t)
    BY <1>3 DEF Slots
  <1>5. u.slots \in [Slots(t) -> Keys \cup {NoKey, DummyKey}]
    BY <1>2, <1>3
  <1>6. \A s \in Slots(t) : u.slots[s] = IF s = f THEN DummyKey ELSE t.slots[s]
    BY <1>2, <1>3
  <1>7. SetTableType(u)
    BY <1>2, <1>3, <1>4, <1>5 DEF SetTableType
  <1>8. t.slots[f] # NoKey
    BY DEF Active, IsActive
  <1>9. Active(u) = Active(t) \ {f} /\ SetFilled(u) = SetFilled(t)
    BY <1>2, <1>4, <1>6, <1>8, KeysActive DEF Active, SetFilled, IsActive
  <1>10. /\ t.size \in Nat /\ Slots(t) = 0..t.size - 1
         /\ \A s \in Active(t) : s \in Slots(t) /\ t.slots[s] \in Keys
    BY <1>1, SetTableFacts
  <1>11. \A s \in Active(u) : s \in Active(t) /\ u.slots[s] = t.slots[s]
    BY <1>6, <1>9, <1>10
  <1>12. Distinct(u)
    BY <1>1, <1>11 DEF Distinct
  <1>13. ASSUME NEW s \in Active(u) PROVE SetReaches(u, u.slots[s], s)
    <2> DEFINE x == t.slots[s]
    <2>1. x \in Keys /\ u.slots[s] = x /\ SetReaches(t, x, s)
      BY <1>10, <1>11 DEF SetSound
    <2>2. PICK p \in Slots(t) : SlotAfter(t.size, x, p) = s /\ \A q \in 0..p - 1 : SetSeen(t, x, q) # NoKey
      BY <2>1 DEF SetReaches
    <2> HIDE DEF x
    <2>3. ASSUME NEW q \in 0..p - 1 PROVE SetSeen(u, x, q) # NoKey
      <3>1. q \in Slots(t) /\ SetSeen(t, x, q) # NoKey
        BY <1>10, <2>2
      <3> QED BY <1>1, <1>3, <1>6, <2>1, <3>1, ProbeIn, KeysActive DEF SetSeen
    <2> QED BY <1>3, <1>4, <2>1, <2>2, <2>3 DEF SetReaches
  <1>14. SetSound(u)
    BY <1>7, <1>12, <1>13 DEF SetSound
  <1> QED BY <1>3, <1>4, <1>6, <1>9, <1>14 DEF u

LEMMA DiscardCounts ==
  ASSUME NEW t, SetSound(t), NEW f \in Active(t)
  PROVE  LET u == [t EXCEPT !.slots[f] = DummyKey]
         IN  /\ Cardinality(Active(u)) = Cardinality(Active(t)) - 1
             /\ Cardinality(Active(u)) \in Nat
             /\ \A x \in Keys : Cardinality(Places(u, Active(u), x))
                                 = Cardinality(Places(t, Active(t), x)) - (IF x = t.slots[f] THEN 1 ELSE 0)
             /\ \A y : y \in KeysAt(u, Active(u)) <=> y \in KeysAt(t, Active(t)) /\ ~EqualKeys(y, t.slots[f])
  <1> DEFINE u == [t EXCEPT !.slots[f] = DummyKey]
             A == Active(t)
  <1>1. SetTableType(t) /\ Distinct(t)
    BY DEF SetSound
  <1>2. /\ \A s \in Slots(t) : u.slots[s] = IF s = f THEN DummyKey ELSE t.slots[s]
        /\ Active(u) = A \ {f}
    BY DiscardShape
  <1>3. IsFiniteSet(A) /\ A \subseteq Slots(t)
    BY <1>1, TableFinite DEF Active
  <1>4. f \in A /\ \A s \in A : EqualKeys(t.slots[s], t.slots[f]) <=> s = f
    BY <1>1 DEF Distinct, EqualKeys
  <1> HIDE DEF u, A
  <1>5. Cardinality(A \ {f}) = Cardinality(A) - 1
    BY <1>3, <1>4, FS_RemoveElement
  <1>6. IsFiniteSet(A \ {f})
    BY <1>3, FS_RemoveElement
  <1>7. Cardinality(A \ {f}) \in Nat
    BY <1>6, FS_CardinalityType
  <1>8. ASSUME NEW x \in Keys
        PROVE  Cardinality(Places(u, Active(u), x)) = Cardinality(Places(t, A, x)) - (IF x = t.slots[f] THEN 1 ELSE 0)
    <2> DEFINE P == Places(t, A, x)
    <2>1. IsFiniteSet(P)
      <3>1. P \subseteq A
        BY DEF Places
      <3> QED BY <1>3, <3>1, FS_Subset
    <2>2. f \in P <=> x = t.slots[f]
      BY <1>4 DEF Places
    <2>3. Places(u, Active(u), x) = P \ {f}
      BY <1>2, <1>3 DEF Places
    <2> HIDE DEF P
    <2>4. Cardinality(P \ {f}) = IF f \in P THEN Cardinality(P) - 1 ELSE Cardinality(P)
      BY <2>1, FS_RemoveElement
    <2>5. Cardinality(P) \in Nat
      BY <2>1, FS_CardinalityType
    <2>6. Cardinality(Places(u, Active(u), x)) = Cardinality(P) - (IF x = t.slots[f] THEN 1 ELSE 0)
      BY <2>2, <2>3, <2>4, <2>5
    <2> QED BY <2>6 DEF P
  <1>9. \A y : y \in KeysAt(u, Active(u)) <=> y \in KeysAt(t, A) /\ ~EqualKeys(y, t.slots[f])
    BY <1>2, <1>3, <1>4 DEF KeysAt
  <1>10. Cardinality(Active(u)) = Cardinality(A) - 1 /\ Cardinality(Active(u)) \in Nat
    BY <1>2, <1>5, <1>7
  <1> QED BY Zenon, <1>8, <1>9, <1>10 DEF u, A

-----------------------------------------------------------------------------
(* The inductive invariant.                                                *)

(* The references h are those of the members of t and of the old table's   *)
(* slots L that are still to be moved.                                     *)
Holding(h, t, o, L) ==
  /\ h \in [Keys -> Nat]
  /\ \A x \in Keys : h[x] = Cardinality(Places(t, Active(t), x)) + Cardinality(Places(o, L, x))

Counted ==
  /\ SetSound(table)
  /\ fill = Cardinality(SetFilled(table)) /\ active = Cardinality(Active(table))
  /\ inline = (table.size = Small)

SetSettled ==
  /\ old = <<>> /\ scanned = 0 /\ adding = <<>>
  /\ fill * 3 < table.size * 2 + 3
  /\ Holding(setHeld, table, table, {})
  /\ heapTables = IF inline THEN 0 ELSE 1

LeftIn(o, n) == {s \in Active(o) : s >= n}

(* In a resize the new table has no dummies, none of its members is equal  *)
(* to one that is left, and it has room for those and for one more.        *)
SetGrowing ==
  /\ Len(old) = 1 /\ SetTableType(old[1].table) /\ Distinct(old[1].table)
  /\ old[1].inline = (old[1].table.size = Small)
  /\ scanned \in 0..old[1].table.size
  /\ Len(adding) = 1 /\ adding \in Seq(Keys)
  /\ fill = active /\ active + Cardinality(LeftIn(old[1].table, scanned)) < Usable(table.size)
  /\ \A s \in LeftIn(old[1].table, scanned), r \in Active(table) :
       ~EqualKeys(old[1].table.slots[s], table.slots[r])
  /\ Holding(setHeld, table, old[1].table, LeftIn(old[1].table, scanned))
  /\ heapTables = (IF inline THEN 0 ELSE 1) + (IF old[1].inline THEN 0 ELSE 1)

SetInv == Counted /\ (SetSettled \/ SetGrowing)

LEMMA NoPlaces == \A t, x : Places(t, {}, x) = {} /\ Cardinality(Places(t, {}, x)) = 0
  BY FS_EmptySet DEF Places

LEMMA PlacesFinite ==
  ASSUME NEW t, NEW A, IsFiniteSet(A), NEW x
  PROVE  IsFiniteSet(Places(t, A, x)) /\ Cardinality(Places(t, A, x)) \in Nat
  <1>1. Places(t, A, x) \subseteq A
    BY DEF Places
  <1>2. IsFiniteSet(Places(t, A, x))
    BY <1>1, FS_Subset
  <1> QED BY <1>2, FS_CardinalityType

LEMMA LeftFinite ==
  ASSUME NEW o, SetTableType(o), NEW n
  PROVE  IsFiniteSet(LeftIn(o, n)) /\ Cardinality(LeftIn(o, n)) \in Nat
  <1>1. LeftIn(o, n) \subseteq Active(o) /\ IsFiniteSet(Active(o))
    BY TableFinite DEF LeftIn
  <1>2. IsFiniteSet(LeftIn(o, n))
    BY <1>1, FS_Subset
  <1> QED BY <1>2, FS_CardinalityType

(* The table in use has an empty slot, whether it is being filled or not.  *)
LEMMA RoomLeft == ASSUME SetInv PROVE HasEmpty(table)
  <1>1. /\ SetTableType(table) /\ SetSound(table) /\ fill = Cardinality(SetFilled(table))
        /\ active = Cardinality(Active(table))
    BY DEF SetInv, Counted, SetSound
  <1>2. table.size \in Nat /\ table.size >= 3 /\ table.size \in Sizes
    <2>1. table.size \in Nat /\ table.size >= 2 /\ table.size \in Sizes
      BY <1>1, SetTableFacts
    <2>2. table.size # 2
      BY <2>1
    <2> QED BY <2>1, <2>2
  <1>3. fill \in Nat /\ active \in Nat
    BY <1>1, TableFinite
  <1>4. CASE SetSettled
    <2>1. fill * 3 < table.size * 2 + 3
      BY <1>4 DEF SetSettled
    <2>2. fill < table.size
      BY <1>2, <1>3, <2>1
    <2> QED BY <1>1, <2>2, SetEmptySlot
  <1>5. CASE SetGrowing
    <2> DEFINE c == Cardinality(LeftIn(old[1].table, scanned))
    <2>1. fill = active /\ active + c < Usable(table.size) /\ c \in Nat
      BY <1>5, LeftFinite DEF SetGrowing
    <2>2. Usable(table.size) \in Nat /\ Usable(table.size) < table.size
      BY <1>2, SizeFacts
    <2> HIDE DEF c
    <2>3. fill < table.size
      BY <1>2, <1>3, <2>1, <2>2
    <2> QED BY <1>1, <2>3, SetEmptySlot
  <1> QED BY <1>4, <1>5 DEF SetInv

LEMMA SmallestSize == Small \in Sizes
  BY LeastSize DEF Small

LEMMA FreshTable ==
  ASSUME NEW n \in Sizes
  PROVE  LET t == EmptyTable(n)
         IN  /\ SetSound(t) /\ t.size = n /\ Cardinality(SetFilled(t)) = 0 /\ Cardinality(Active(t)) = 0
             /\ Active(t) = {} /\ KeysAt(t, Active(t)) = {}
             /\ \A x : Cardinality(Places(t, Active(t), x)) = 0
  <1> DEFINE t == EmptyTable(n)
  <1>1. SetSound(t) /\ t.size = n /\ Active(t) = {} /\ SetFilled(t) = {}
    BY EmptySound
  <1> HIDE DEF t
  <1>2. Cardinality(SetFilled(t)) = 0 /\ Cardinality(Active(t)) = 0
    BY <1>1, FS_EmptySet
  <1>3. KeysAt(t, Active(t)) = {}
    BY <1>1 DEF KeysAt
  <1>4. \A x : Cardinality(Places(t, Active(t), x)) = 0
    BY <1>1, NoPlaces
  <1> QED BY <1>1, <1>2, <1>3, <1>4 DEF t

LEMMA FreshInv ==
  ASSUME table' = EmptyTable(Small), inline' = TRUE, heapTables' = 0, fill' = 0, active' = 0,
         setHeld' \in [Keys -> {0}], old' = <<>>, scanned' = 0, adding' = <<>>
  PROVE  SetInv'
  <1>1. /\ SetSound(table') /\ table'.size = Small /\ Small \in Nat /\ Small >= 2
        /\ Cardinality(SetFilled(table')) = 0 /\ Cardinality(Active(table')) = 0
        /\ \A x : Cardinality(Places(table', Active(table'), x)) = 0
    BY SmallestSize, FreshTable, SizeFacts
  <1>2. Counted'
    BY <1>1 DEF Counted
  <1>3. Holding(setHeld', table', table', {})
    BY <1>1, NoPlaces DEF Holding
  <1>4. SetSettled'
    BY <1>1, <1>3 DEF SetSettled
  <1> QED BY <1>2, <1>4 DEF SetInv

LEMMA InitSetInv == SetInit => SetInv
  <1> SUFFICES ASSUME SetInit PROVE SetInv
    OBVIOUS
  <1>1. /\ SetSound(table) /\ table.size = Small /\ Small \in Nat /\ Small >= 2
        /\ Cardinality(SetFilled(table)) = 0 /\ Cardinality(Active(table)) = 0
        /\ \A x : Cardinality(Places(table, Active(table), x)) = 0
    BY SmallestSize, FreshTable, SizeFacts DEF SetInit
  <1>2. Counted
    BY <1>1 DEF Counted, SetInit
  <1>3. Holding(setHeld, table, table, {})
    BY <1>1, NoPlaces DEF Holding, SetInit
  <1>4. SetSettled
    BY <1>1, <1>3 DEF SetSettled, SetInit
  <1> QED BY <1>2, <1>4 DEF SetInv

-----------------------------------------------------------------------------
(* Each action keeps it, and does to the members what SetContract says.    *)

Held == KeysAt(table, Active(table))

(* What AddKey leaves behind, outside a resize and at the end of one.      *)
LEMMA AddKeyFacts ==
  ASSUME Counted, HasEmpty(table), Holding(setHeld, table, table, {}), NEW k \in Keys, AddKey(k)
  PROVE  /\ SetSound(table') /\ table'.size = table.size
         /\ fill' = Cardinality(SetFilled(table')) /\ active' = Cardinality(Active(table'))
         /\ fill \in Nat /\ fill' \in {fill, fill + 1}
         /\ Holding(setHeld', table', table', {})
         /\ \/ Held' = Held
            \/ (\A y \in Held : ~EqualKeys(y, k)) /\ Held' = Held \cup {k}
  <1> DEFINE f == Lookup(table, k)
             u == [table EXCEPT !.slots[f] = k]
  <1>1. /\ SetSound(table) /\ SetTableType(table)
        /\ fill = Cardinality(SetFilled(table)) /\ active = Cardinality(Active(table))
    BY DEF Counted, SetSound
  <1>2. fill \in Nat
    BY <1>1, TableFinite
  <1>3. CASE IsActive(table.slots[f]) /\ UNCHANGED <<table, fill, active, setHeld>>
    BY <1>1, <1>2, <1>3 DEF Held
  <1>4. CASE /\ ~IsActive(table.slots[f])
             /\ table' = u
             /\ fill' = fill + (IF table.slots[f] = DummyKey THEN 0 ELSE 1)
             /\ active' = active + 1
             /\ setHeld' = [setHeld EXCEPT ![k] = @ + 1]
    <2>1. f \in Slots(table) /\ SetReaches(table, k, f) /\ \A s \in Active(table) : ~EqualKeys(table.slots[s], k)
      BY <1>1, <1>4, LookupFacts
    <2> HIDE DEF f
    <2>2. SetSound(u)
      BY <1>1, <1>4, <2>1, SetPutSound
    <2>3. u.size = table.size
      BY <1>1, <1>4, <2>1, SetPutShape
    <2>4. /\ Cardinality(Active(u)) = Cardinality(Active(table)) + 1
          /\ Cardinality(SetFilled(u)) = Cardinality(SetFilled(table)) + (IF table.slots[f] = DummyKey THEN 0 ELSE 1)
          /\ \A x \in Keys : Cardinality(Places(u, Active(u), x))
                             = Cardinality(Places(table, Active(table), x)) + (IF x = k THEN 1 ELSE 0)
          /\ KeysAt(u, Active(u)) = KeysAt(table, Active(table)) \cup {k}
      BY <1>1, <1>4, <2>1, PutCounts
    <2> HIDE DEF u
    <2>5. Holding(setHeld', u, u, {})
      <3>1. setHeld \in [Keys -> Nat] /\ \A x \in Keys : setHeld[x] = Cardinality(Places(table, Active(table), x)) + 0
        BY NoPlaces DEF Holding
      <3>2. setHeld' \in [Keys -> Nat] /\ \A x \in Keys : setHeld'[x] = setHeld[x] + (IF x = k THEN 1 ELSE 0)
        BY <1>4, <3>1
      <3>3. ASSUME NEW x \in Keys PROVE setHeld'[x] = Cardinality(Places(u, Active(u), x)) + 0
        <4>1. IsFiniteSet(Active(table))
          BY <1>1, TableFinite
        <4>2. Cardinality(Places(table, Active(table), x)) \in Nat
          BY <4>1, PlacesFinite
        <4> QED BY <2>4, <3>1, <3>2, <4>2
      <3> QED BY <3>2, <3>3, NoPlaces DEF Holding
    <2>6. (\A y \in Held : ~EqualKeys(y, k)) /\ Held' = Held \cup {k}
      BY <1>4, <2>1, <2>4 DEF Held, KeysAt
    <2> QED BY <1>1, <1>2, <1>4, <2>2, <2>3, <2>4, <2>5, <2>6
  <1> QED BY <1>3, <1>4 DEF AddKey

(* What is left of the old table, slot by slot.                            *)
LEMMA LeftFacts ==
  ASSUME NEW o, SetTableType(o), NEW n \in 0..o.size - 1
  PROVE  /\ ~IsActive(o.slots[n]) => LeftIn(o, n + 1) = LeftIn(o, n)
         /\ IsActive(o.slots[n]) =>
              /\ o.slots[n] \in Keys /\ n \in LeftIn(o, n)
              /\ \A s : s \in LeftIn(o, n + 1) <=> s \in LeftIn(o, n) /\ s # n
              /\ Cardinality(LeftIn(o, n)) = Cardinality(LeftIn(o, n + 1)) + 1
              /\ \A x : Cardinality(Places(o, LeftIn(o, n), x))
                        = Cardinality(Places(o, LeftIn(o, n + 1), x)) + (IF x = o.slots[n] THEN 1 ELSE 0)
              /\ KeysAt(o, LeftIn(o, n)) = KeysAt(o, LeftIn(o, n + 1)) \cup {o.slots[n]}
  <1> DEFINE L == LeftIn(o, n)
             M == LeftIn(o, n + 1)
  <1>1. o.size \in Nat /\ Slots(o) = 0..o.size - 1 /\ n \in Slots(o) /\ n \in Nat
    BY SetTableFacts
  <1>2. \A s : s \in M <=> s \in L /\ s # n
    BY <1>1 DEF LeftIn, Active
  <1>3. IsFiniteSet(M)
    BY LeftFinite
  <1>4. n \in L <=> IsActive(o.slots[n])
    BY <1>1 DEF LeftIn, Active
  <1>5. ~IsActive(o.slots[n]) => M = L
    BY <1>2, <1>4
  <1>6. IsActive(o.slots[n]) => o.slots[n] \in Keys
    BY <1>1, SetTableFacts DEF Active
  <1> HIDE DEF L, M
  <1>7. ASSUME IsActive(o.slots[n]) PROVE Cardinality(L) = Cardinality(M) + 1
    <2>1. L = M \cup {n} /\ n \notin M
      BY <1>2, <1>4, <1>7
    <2>2. Cardinality(M \cup {n}) = Cardinality(M) + 1
      BY <1>3, <2>1, FS_AddElement
    <2> QED BY <2>1, <2>2
  <1>8. ASSUME IsActive(o.slots[n]), NEW x
        PROVE  Cardinality(Places(o, L, x)) = Cardinality(Places(o, M, x)) + (IF x = o.slots[n] THEN 1 ELSE 0)
    <2> DEFINE P == Places(o, M, x)
    <2>1. IsFiniteSet(P) /\ Cardinality(P) \in Nat
      BY <1>3, PlacesFinite
    <2>2. n \notin P /\ Places(o, L, x) = IF x = o.slots[n] THEN P \cup {n} ELSE P
      BY <1>2, <1>4, <1>8 DEF Places
    <2> HIDE DEF P
    <2>3. Cardinality(P \cup {n}) = Cardinality(P) + 1
      BY <2>1, <2>2, FS_AddElement
    <2>4. Cardinality(Places(o, L, x)) = Cardinality(P) + (IF x = o.slots[n] THEN 1 ELSE 0)
      BY <2>1, <2>2, <2>3
    <2> QED BY <2>4 DEF P
  <1>9. IsActive(o.slots[n]) => KeysAt(o, L) = KeysAt(o, M) \cup {o.slots[n]}
    BY <1>2, <1>4 DEF KeysAt
  <1> QED BY <1>2, <1>4, <1>5, <1>6, <1>7, <1>8, <1>9 DEF L, M

LEMMA LeftEnds ==
  ASSUME NEW o, SetTableType(o)
  PROVE  LeftIn(o, 0) = Active(o) /\ LeftIn(o, o.size) = {}
  <1>1. o.size \in Nat /\ Slots(o) = 0..o.size - 1
    BY SetTableFacts
  <1> QED BY <1>1 DEF LeftIn, Active

(* The members, in a resize and outside of one.                            *)
MembersAre ==
  /\ SetSettled => Members = Held
  /\ SetGrowing => Members = Held \cup KeysAt(old[1].table, LeftIn(old[1].table, scanned))

LEMMA MembersFacts == MembersAre
  <1>1. SetSettled => Left = {}
    BY DEF SetSettled, Left
  <1>2. ASSUME SetGrowing PROVE Left = LeftIn(old[1].table, scanned)
    <2>1. old # <<>>
      BY <1>2 DEF SetGrowing
    <2> QED BY <2>1 DEF Left, LeftIn
  <1>3. Members = Held \cup KeysAt(old[1].table, Left)
    BY DEF Members, Held, KeysAt
  <1>4. KeysAt(old[1].table, {}) = {}
    BY DEF KeysAt
  <1> QED BY <1>1, <1>2, <1>3, <1>4 DEF MembersAre

LEMMA MembersNext == MembersAre'
  BY MembersFacts, PTL

Step == [FiniteSet!Next]_Members

LEMMA IncludeStep ==
  ASSUME NEW k \in Keys,
         Members' = Members \/ ((\A y \in Members : ~EqualKeys(y, k)) /\ Members' = Members \cup {k})
  PROVE  Step
  <1>1. CASE (\A y \in Members : ~EqualKeys(y, k)) /\ Members' = Members \cup {k}
    <2>1. FiniteSet!Twins(k) = {}
      BY <1>1 DEF FiniteSet!Twins, EqualKeys
    <2>2. FiniteSet!Include(k)
      BY <1>1, <2>1 DEF FiniteSet!Include
    <2> QED BY <2>2 DEF Step, FiniteSet!Next
  <1> QED BY <1>1 DEF Step

LEMMA StartResizeKeeps == ASSUME SetInv, SetSettled, NEW k \in Keys, SetStartResize(k) PROVE SetInv' /\ Step
  <1> DEFINE n == Min(Fits(active + 1))
  <1>1. SetSound(table) /\ SetTableType(table) /\ active = Cardinality(Active(table)) /\ active \in Nat
    BY TableFinite DEF SetInv, Counted, SetSound
  <1>2. n \in Sizes /\ Usable(n) >= active + 1
    <2>1. Fits(active + 1) \in SUBSET Sizes /\ Fits(active + 1) # {}
      BY DEF Fits, SetStartResize
    <2>2. Min(Fits(active + 1)) \in Fits(active + 1)
      BY <2>1, LeastSize
    <2> QED BY <2>2 DEF Fits
  <1>3. /\ table' = EmptyTable(n) /\ inline' = (table'.size = Small)
        /\ heapTables' = heapTables + IsHeap(table'.size)
        /\ fill' = 0 /\ active' = 0 /\ setHeld' = setHeld
        /\ old' = <<[table |-> table, inline |-> inline]>> /\ scanned' = 0 /\ adding' = <<k>>
    BY DEF SetStartResize
  <1> HIDE DEF n
  <1>4. /\ SetSound(table') /\ table'.size = n
        /\ Cardinality(SetFilled(table')) = 0 /\ Cardinality(Active(table')) = 0
        /\ Active(table') = {} /\ Held' = {}
        /\ \A x : Cardinality(Places(table', Active(table'), x)) = 0
    BY <1>2, <1>3, FreshTable DEF Held
  <1>5. Counted'
    BY <1>3, <1>4 DEF Counted
  <1>6. /\ Len(old') = 1 /\ old'[1].table = table /\ old'[1].inline = inline
        /\ Len(adding') = 1 /\ adding' \in Seq(Keys)
    BY <1>3
  <1>7. LeftIn(old'[1].table, scanned') = Active(table)
    BY <1>1, <1>3, <1>6, LeftEnds
  <1>8. Holding(setHeld', table', table, Active(table))
    <2>1. Holding(setHeld, table, table, {}) /\ IsFiniteSet(Active(table))
      BY <1>1, TableFinite DEF SetSettled
    <2>2. setHeld \in [Keys -> Nat] /\ \A x \in Keys : setHeld[x] = Cardinality(Places(table, Active(table), x)) + 0
      BY <2>1, NoPlaces DEF Holding
    <2>3. \A x : Cardinality(Places(table, Active(table), x)) \in Nat
      BY <2>1, PlacesFinite
    <2>4. \A x \in Keys : setHeld'[x] = Cardinality(Places(table', Active(table'), x)) + Cardinality(Places(table, Active(table), x))
      BY <1>3, <1>4, <2>2, <2>3
    <2> QED BY <1>3, <2>2, <2>4 DEF Holding
  <1>9. heapTables' = (IF inline' THEN 0 ELSE 1) + (IF inline THEN 0 ELSE 1)
    <2> DEFINE b == IF inline THEN 0 ELSE 1
               c == IF inline' THEN 0 ELSE 1
    <2>1. heapTables = b
      BY DEF SetSettled
    <2>2. heapTables' = heapTables + c
      BY <1>3, Zenon DEF IsHeap
    <2>3. b \in Nat /\ c \in Nat
      OBVIOUS
    <2> HIDE DEF b, c
    <2>4. heapTables' = c + b
      BY <2>1, <2>2, <2>3
    <2> QED BY <2>4 DEF b, c
  <1>10. scanned' \in 0..table.size /\ active' + Cardinality(Active(table)) < Usable(table'.size)
    <2>1. table.size \in Nat /\ Usable(n) \in Nat
      BY <1>1, <1>2, SetTableFacts, SizeFacts
    <2> QED BY <1>1, <1>2, <1>3, <1>4, <2>1
  <1>11. SetGrowing'
    <2>1. Distinct(table) /\ inline = (table.size = Small)
      BY <1>1 DEF SetSound, SetInv, Counted
    <2> QED BY <1>1, <1>3, <1>4, <1>6, <1>7, <1>8, <1>9, <1>10, <2>1 DEF SetGrowing
  <1>12. Members' = Members
    <2>1. Members = Held
      BY MembersFacts DEF MembersAre
    <2>2. Members' = Held' \cup KeysAt(old'[1].table, LeftIn(old'[1].table, scanned'))
      BY <1>11, MembersNext DEF MembersAre
    <2> QED BY <1>4, <1>6, <1>7, <2>1, <2>2 DEF Held
  <1> QED BY <1>5, <1>11, <1>12 DEF SetInv, Step

LEMMA MoveKeyKeeps == ASSUME SetInv, MoveKey PROVE SetInv' /\ Step
  <1> DEFINE o == old[1].table
             n == scanned
             x == o.slots[n]
             L == LeftIn(o, n)
             M == LeftIn(o, n + 1)
  <1>1. SetGrowing
    BY DEF SetInv, SetSettled, MoveKey
  <1>2. /\ SetSound(table) /\ SetTableType(table) /\ HasEmpty(table)
        /\ fill = Cardinality(SetFilled(table)) /\ active = Cardinality(Active(table))
        /\ fill \in Nat /\ active \in Nat /\ fill = active
        /\ table.size \in Nat /\ Usable(table.size) \in Nat
    <2>1. SetSound(table) /\ SetTableType(table) /\ HasEmpty(table)
      BY RoomLeft DEF SetInv, Counted, SetSound
    <2> QED BY <1>1, <2>1, TableFinite, SetTableFacts, SizeFacts DEF SetInv, Counted, SetGrowing
  <1>3. SetTableType(o) /\ Distinct(o) /\ o.size \in Nat /\ n \in 0..o.size - 1 /\ n + 1 \in 0..o.size
    <2>1. SetTableType(o) /\ Distinct(o) /\ n \in 0..o.size /\ n < o.size
      BY <1>1 DEF SetGrowing, MoveKey
    <2>2. o.size \in Nat
      BY <2>1, SetTableFacts
    <2> QED BY <2>1, <2>2
  <1>4. /\ scanned' = n + 1 /\ inline' = inline /\ heapTables' = heapTables /\ setHeld' = setHeld
        /\ old' = old /\ adding' = adding
    BY DEF MoveKey
  <1>5. /\ active + Cardinality(L) < Usable(table.size) /\ Cardinality(L) \in Nat /\ Cardinality(M) \in Nat
        /\ \A s \in L, r \in Active(table) : ~EqualKeys(o.slots[s], table.slots[r])
        /\ Holding(setHeld, table, o, L)
    BY <1>1, <1>3, LeftFinite DEF SetGrowing
  <1>6. CASE ~IsActive(x)
    <2>1. table' = table /\ fill' = fill /\ active' = active /\ M = L
      BY <1>3, <1>6, LeftFacts DEF MoveKey
    <2>2. Counted'
      BY <1>4, <2>1 DEF SetInv, Counted
    <2>3. SetGrowing'
      BY <1>1, <1>3, <1>4, <2>1 DEF SetGrowing
    <2>4. Members' = Members
      <3>1. Members = Held \cup KeysAt(o, L)
        BY <1>1, MembersFacts DEF MembersAre
      <3>2. Members' = Held' \cup KeysAt(old'[1].table, LeftIn(old'[1].table, scanned'))
        BY <2>3, MembersNext DEF MembersAre
      <3> QED BY <1>4, <2>1, <3>1, <3>2 DEF Held
    <2> QED BY <2>2, <2>3, <2>4 DEF SetInv, Step
  <1>7. CASE IsActive(x)
    <2>1. /\ x \in Keys /\ n \in L
          /\ \A s : s \in M <=> s \in L /\ s # n
          /\ Cardinality(L) = Cardinality(M) + 1
          /\ \A y : Cardinality(Places(o, L, y)) = Cardinality(Places(o, M, y)) + (IF y = x THEN 1 ELSE 0)
          /\ KeysAt(o, L) = KeysAt(o, M) \cup {x}
      BY <1>3, <1>7, LeftFacts
    <2>2. PICK f \in Slots(table) : /\ table.slots[f] = NoKey /\ SetReaches(table, x, f)
                                    /\ Place(table, x) = [table EXCEPT !.slots[f] = x]
      BY <1>2, <2>1, PlaceFacts
    <2> DEFINE u == [table EXCEPT !.slots[f] = x]
    <2> HIDE DEF o, n, x, L, M
    <2>3. ~IsActive(table.slots[f]) /\ table.slots[f] # DummyKey
      BY <2>2, KeysActive DEF IsActive
    <2>4. /\ u.size = table.size /\ Active(u) = Active(table) \cup {f}
          /\ \A s \in Slots(table) : u.slots[s] = IF s = f THEN x ELSE table.slots[s]
      BY <1>2, <2>1, <2>3, SetPutShape
    <2>5. SetSound(u)
      <3>1. \A r \in Active(table) : ~EqualKeys(table.slots[r], x)
        BY <1>5, <2>1 DEF EqualKeys, x
      <3> QED BY <1>2, <2>1, <2>2, <2>3, <3>1, SetPutSound
    <2>6. /\ Cardinality(Active(u)) = active + 1 /\ Cardinality(SetFilled(u)) = fill + 1
          /\ \A y \in Keys : Cardinality(Places(u, Active(u), y))
                             = Cardinality(Places(table, Active(table), y)) + (IF y = x THEN 1 ELSE 0)
          /\ KeysAt(u, Active(u)) = Held \cup {x}
      <3>1. /\ Cardinality(Active(u)) = Cardinality(Active(table)) + 1
            /\ Cardinality(SetFilled(u)) = Cardinality(SetFilled(table)) + (IF table.slots[f] = DummyKey THEN 0 ELSE 1)
            /\ \A y \in Keys : Cardinality(Places(u, Active(u), y))
                               = Cardinality(Places(table, Active(table), y)) + (IF y = x THEN 1 ELSE 0)
            /\ KeysAt(u, Active(u)) = KeysAt(table, Active(table)) \cup {x}
        BY <1>2, <2>1, <2>3, PutCounts
      <3> HIDE DEF u
      <3> QED BY <1>2, <2>3, <3>1 DEF Held
    <2>7. table' = u /\ fill' = fill + 1 /\ active' = active + 1
      BY <1>7, <2>2 DEF MoveKey, o, n, x
    <2> HIDE DEF u
    <2>8. Counted'
      BY <1>4, <2>4, <2>5, <2>6, <2>7 DEF SetInv, Counted
    <2>9. fill' = active' /\ active' + Cardinality(M) < Usable(u.size)
      BY <1>2, <1>5, <2>1, <2>4, <2>7
    <2>10. \A s \in M, r \in Active(u) : ~EqualKeys(o.slots[s], u.slots[r])
      <3>1. \A s \in M : s \in L /\ ~EqualKeys(o.slots[s], x)
        <4>1. \A s \in L : s \in Active(o)
          BY DEF L, LeftIn
        <4> QED BY <1>3, <2>1, <4>1 DEF Distinct, x
      <3>2. Active(table) \subseteq Slots(table)
        BY DEF Active
      <3> QED BY <1>5, <2>4, <3>1, <3>2
    <2>11. Holding(setHeld, u, o, M)
      <3>1. ASSUME NEW y \in Keys
            PROVE  setHeld[y] = Cardinality(Places(u, Active(u), y)) + Cardinality(Places(o, M, y))
        <4>1. setHeld[y] = Cardinality(Places(table, Active(table), y)) + Cardinality(Places(o, L, y))
          BY <1>5 DEF Holding
        <4>2. Cardinality(Places(u, Active(u), y)) = Cardinality(Places(table, Active(table), y)) + (IF y = x THEN 1 ELSE 0)
          BY <2>6
        <4>3. Cardinality(Places(o, L, y)) = Cardinality(Places(o, M, y)) + (IF y = x THEN 1 ELSE 0)
          BY <2>1
        <4>4. Cardinality(Places(table, Active(table), y)) \in Nat /\ Cardinality(Places(o, M, y)) \in Nat
          BY <1>2, <1>3, TableFinite, LeftFinite, PlacesFinite DEF M
        <4> QED BY <4>1, <4>2, <4>3, <4>4
      <3> QED BY <1>5, <3>1 DEF Holding
    <2>12. SetGrowing'
      <3>1. old'[1].table = o /\ LeftIn(old'[1].table, scanned') = M
        BY <1>4 DEF o, n, M
      <3> QED BY <1>1, <1>3, <1>4, <2>7, <2>9, <2>10, <2>11, <3>1 DEF SetGrowing, o, n
    <2>13. Members' = Members
      <3>1. Members = Held \cup KeysAt(o, L)
        BY <1>1, MembersFacts DEF MembersAre, o, n, L
      <3>2. Members' = Held' \cup KeysAt(old'[1].table, LeftIn(old'[1].table, scanned'))
        BY <2>12, MembersNext DEF MembersAre
      <3>3. Held' = Held \cup {x}
        BY <2>6, <2>7 DEF Held
      <3>4. Members' = Held' \cup KeysAt(o, M)
        BY <1>4, <3>2 DEF o, n, M
      <3> QED BY <2>1, <3>1, <3>3, <3>4
    <2> QED BY <2>8, <2>12, <2>13 DEF SetInv, Step
  <1> QED BY <1>6, <1>7

(* AddKey, in a table with room for one more.                              *)
LEMMA AddKeyKeeps ==
  ASSUME Counted, HasEmpty(table), Holding(setHeld, table, table, {}), NEW k \in Keys, AddKey(k),
         (fill + 1) * 3 < table.size * 2 + 3,
         inline' = inline, heapTables' = IF inline THEN 0 ELSE 1,
         old' = <<>>, scanned' = 0, adding' = <<>>,
         Members = Held
  PROVE  SetInv' /\ Step
  <1>1. /\ SetSound(table') /\ table'.size = table.size
        /\ fill' = Cardinality(SetFilled(table')) /\ active' = Cardinality(Active(table'))
        /\ fill \in Nat /\ fill' \in {fill, fill + 1}
        /\ Holding(setHeld', table', table', {})
        /\ \/ Held' = Held
           \/ (\A y \in Held : ~EqualKeys(y, k)) /\ Held' = Held \cup {k}
    BY AddKeyFacts
  <1>2. Counted'
    BY <1>1 DEF Counted
  <1>3. fill' * 3 < table'.size * 2 + 3
    <2>1. table.size \in Nat
      BY SetTableFacts DEF Counted, SetSound
    <2> QED BY <1>1, <2>1
  <1>4. SetSettled'
    BY <1>1, <1>3 DEF SetSettled
  <1>5. Members' = Held'
    BY <1>4, MembersNext DEF MembersAre
  <1>6. Step
    BY <1>1, <1>5, IncludeStep
  <1> QED BY <1>2, <1>4, <1>6 DEF SetInv

LEMMA EndResizeKeeps == ASSUME SetInv, SetEndResize PROVE SetInv' /\ Step
  <1> DEFINE o == old[1].table
             k == adding[1]
             b == IF inline THEN 0 ELSE 1
             c == IF old[1].inline THEN 0 ELSE 1
  <1>1. SetGrowing
    BY DEF SetInv, SetSettled, SetEndResize
  <1>2. k \in Keys
    <2>1. Len(adding) = 1 /\ adding \in Seq(Keys)
      BY <1>1 DEF SetGrowing
    <2> QED BY <2>1
  <1>3. SetTableType(o) /\ LeftIn(o, scanned) = {}
    BY <1>1, LeftEnds DEF SetGrowing, SetEndResize
  <1>4. Counted /\ HasEmpty(table) /\ SetTableType(table)
    BY RoomLeft DEF SetInv, Counted, SetSound
  <1>5. Holding(setHeld, table, table, {})
    BY <1>1, <1>3, NoPlaces DEF SetGrowing, Holding
  <1>6. (fill + 1) * 3 < table.size * 2 + 3
    <2>1. Cardinality(LeftIn(o, scanned)) = 0
      BY <1>3, FS_EmptySet
    <2>2. fill = active /\ active + 0 < Usable(table.size)
      BY <1>1, <2>1 DEF SetGrowing
    <2>3. fill \in Nat /\ table.size \in Nat
      BY <1>4, TableFinite, SetTableFacts DEF Counted
    <2>4. fill + 1 <= (table.size * 2) \div 3
      BY <2>2, <2>3 DEF Usable
    <2> QED BY <2>3, <2>4
  <1>7. heapTables' = b
    <2>1. heapTables = b + c
      BY <1>1 DEF SetGrowing
    <2>2. heapTables' = heapTables - c
      BY DEF SetEndResize
    <2>3. b \in Nat /\ c \in Nat
      OBVIOUS
    <2> HIDE DEF b, c
    <2> QED BY <2>1, <2>2, <2>3
  <1>8. Members = Held
    <2>1. Members = Held \cup KeysAt(o, LeftIn(o, scanned))
      BY <1>1, MembersFacts DEF MembersAre
    <2> QED BY <1>3, <2>1 DEF KeysAt
  <1>9. AddKey(k) /\ inline' = inline /\ old' = <<>> /\ scanned' = 0 /\ adding' = <<>>
    BY DEF SetEndResize
  <1> HIDE DEF k
  <1> QED BY <1>2, <1>4, <1>5, <1>6, <1>7, <1>8, <1>9, AddKeyKeeps

LEMMA SetIdleSettled == ASSUME SetInv, SetIdle PROVE SetSettled /\ Members = Held
  <1>1. SetSettled
    BY DEF SetInv, SetIdle, SetGrowing
  <1> QED BY <1>1, MembersFacts DEF MembersAre

LEMMA PySetAddKeeps ==
  ASSUME SetInv, NEW k \in Keys, PySet_Add(k)
  PROVE  SetInv' /\ Step
  <1>1. SetSettled /\ Members = Held
    BY SetIdleSettled DEF PySet_Add
  <1>2. CASE Crowded /\ SetStartResize(k)
    BY <1>1, <1>2, StartResizeKeeps
  <1>3. CASE ~Crowded /\ AddKey(k) /\ UNCHANGED <<inline, heapTables, resizeVars>>
    <2>1. Counted /\ HasEmpty(table) /\ SetTableType(table)
      BY RoomLeft DEF SetInv, Counted, SetSound
    <2>2. fill \in Nat /\ table.size \in Nat
      BY <2>1, TableFinite, SetTableFacts DEF Counted
    <2>3. (fill + 1) * 3 < table.size * 2 + 3
      BY <1>3, <2>2 DEF Crowded
    <2> QED BY <1>1, <1>3, <2>1, <2>3, AddKeyKeeps DEF SetSettled, resizeVars
  <1> QED BY <1>2, <1>3 DEF PySet_Add

LEMMA PySetDiscardKeeps ==
  ASSUME SetInv, NEW k \in Keys, PySet_Discard(k)
  PROVE  SetInv' /\ Step
  <1> DEFINE f == Lookup(table, k)
             m == table.slots[f]
             u == [table EXCEPT !.slots[f] = DummyKey]
  <1>1. SetSettled /\ Members = Held /\ HasEmpty(table)
    BY SetIdleSettled, RoomLeft DEF PySet_Discard
  <1>2. /\ SetSound(table) /\ SetTableType(table)
        /\ fill = Cardinality(SetFilled(table)) /\ active = Cardinality(Active(table))
    BY DEF SetInv, Counted, SetSound
  <1>3. IsActive(m) /\ EqualKeys(m, k) /\ f \in Active(table)
    BY <1>1, <1>2, LookupFacts DEF PySet_Discard, Active
  <1>4. m \in Keys
    BY <1>2, <1>3, SetTableFacts
  <1>5. /\ setHeld' = [setHeld EXCEPT ![m] = @ - 1] /\ table' = u /\ active' = active - 1
        /\ inline' = inline /\ heapTables' = heapTables /\ fill' = fill
        /\ old' = old /\ scanned' = scanned /\ adding' = adding
    BY DEF PySet_Discard, resizeVars
  <1> HIDE DEF f
  <1>6. SetSound(u) /\ u.size = table.size /\ SetFilled(u) = SetFilled(table)
    BY <1>2, <1>3, DiscardShape
  <1>7. /\ Cardinality(Active(u)) = Cardinality(Active(table)) - 1
        /\ \A x \in Keys : Cardinality(Places(u, Active(u), x))
                           = Cardinality(Places(table, Active(table), x)) - (IF x = m THEN 1 ELSE 0)
        /\ \A y : y \in KeysAt(u, Active(u)) <=> y \in KeysAt(table, Active(table)) /\ ~EqualKeys(y, m)
    BY <1>2, <1>3, DiscardCounts
  <1> HIDE DEF u
  <1>8. \A x \in Keys : /\ Cardinality(Places(u, Active(u), x)) \in Nat
                        /\ Cardinality(Places(table, Active(table), x)) \in Nat
    <2>1. IsFiniteSet(Active(u)) /\ IsFiniteSet(Active(table))
      BY <1>2, <1>6, TableFinite DEF SetSound
    <2> QED BY <2>1, PlacesFinite
  <1> HIDE DEF m
  <1>9. Holding(setHeld', u, u, {})
    <2>1. setHeld \in [Keys -> Nat] /\ \A x \in Keys : setHeld[x] = Cardinality(Places(table, Active(table), x)) + 0
      BY <1>1, NoPlaces DEF SetSettled, Holding
    <2>2. \A x \in Keys : setHeld'[x] = setHeld[x] - (IF x = m THEN 1 ELSE 0)
      BY <1>4, <1>5, <2>1
    <2>3. \A x \in Keys : setHeld'[x] = Cardinality(Places(u, Active(u), x)) + 0
      BY <1>7, <1>8, <2>1, <2>2
    <2>4. \A x \in Keys : setHeld'[x] \in Nat
      BY <1>8, <2>3
    <2>5. setHeld' \in [Keys -> Nat]
      BY <1>5, <2>1, <2>4
    <2> QED BY <2>3, <2>5, NoPlaces DEF Holding
  <1>10. Counted'
    BY <1>2, <1>5, <1>6, <1>7 DEF SetInv, Counted
  <1>11. SetSettled'
    BY <1>1, <1>5, <1>6, <1>9 DEF SetSettled, Holding, Places
  <1>12. Members' = Held'
    BY <1>11, MembersNext DEF MembersAre
  <1>13. Step
    <2>1. \A y : y \in Members' <=> y \in Members /\ ~EqualKeys(y, m)
      BY <1>1, <1>5, <1>7, <1>12 DEF Held
    <2>2. \A y \in Members : y \in FiniteSet!Twins(k) <=> EqualKeys(y, m)
      BY <1>3 DEF FiniteSet!Twins, EqualKeys
    <2>3. FiniteSet!Twins(k) \subseteq Members /\ m \in FiniteSet!Twins(k)
      <3>1. m \in Members
        BY <1>1, <1>3 DEF Held, KeysAt, m
      <3> QED BY <2>2, <3>1 DEF FiniteSet!Twins, EqualKeys
    <2>4. FiniteSet!Exclude(k)
      BY <2>1, <2>2, <2>3 DEF FiniteSet!Exclude
    <2> QED BY <2>4 DEF Step, FiniteSet!Next
  <1> QED BY <1>10, <1>11, <1>13 DEF SetInv

LEMMA PySetClearKeeps == ASSUME SetInv, PySet_Clear PROVE SetInv' /\ Step
  <1>1. SetSettled
    BY SetIdleSettled DEF PySet_Clear
  <1>2. SetSound(table) /\ SetTableType(table)
    BY DEF SetInv, Counted, SetSound
  <1>3. setHeld' \in [Keys -> {0}]
    <2>1. IsFiniteSet(Active(table))
      BY <1>2, TableFinite
    <2>2. \A x : Cardinality(Places(table, Active(table), x)) \in Nat
      BY <2>1, PlacesFinite
    <2>3. \A x \in Keys : setHeld[x] = Cardinality(Places(table, Active(table), x)) + 0
      BY <1>1, NoPlaces DEF SetSettled, Holding
    <2>4. setHeld' = [x \in Keys |-> setHeld[x] - Cardinality(Places(table, Active(table), x))]
      BY DEF PySet_Clear, Released, Places
    <2>5. \A x \in Keys : setHeld[x] - Cardinality(Places(table, Active(table), x)) = 0
      BY <2>2, <2>3
    <2> QED BY <2>4, <2>5
  <1>4. /\ table' = EmptyTable(Small) /\ inline' = TRUE /\ fill' = 0 /\ active' = 0
        /\ old' = <<>> /\ scanned' = 0 /\ adding' = <<>>
    BY <1>1 DEF PySet_Clear, resizeVars, SetSettled
  <1>5. heapTables' = 0
    <2> DEFINE b == IF inline THEN 0 ELSE 1
    <2>1. heapTables = b /\ heapTables' = heapTables - b
      BY <1>1 DEF PySet_Clear, SetSettled
    <2>2. b \in Nat
      OBVIOUS
    <2> HIDE DEF b
    <2> QED BY <2>1, <2>2
  <1>6. SetInv'
    BY <1>3, <1>4, <1>5, FreshInv
  <1>7. Members' = {}
    <2>1. SetSettled'
      BY <1>4, <1>6 DEF SetInv, SetGrowing
    <2>2. Members' = Held'
      BY <2>1, MembersNext DEF MembersAre
    <2> QED BY <1>4, <2>2, SmallestSize, FreshTable DEF Held
  <1>8. Step
    BY <1>7 DEF Step, FiniteSet!Next, FiniteSet!Clear
  <1> QED BY <1>6, <1>8

LEMMA NextKeeps == ASSUME SetInv, [SetNext]_setVars PROVE SetInv' /\ Step
  <1>1. CASE UNCHANGED setVars
    <2>1. SetInv'
      BY <1>1 DEF setVars, resizeVars, SetInv, Counted, SetSettled, SetGrowing
    <2>2. Members' = Members
      BY <1>1 DEF setVars, resizeVars, Members, Left
    <2> QED BY <2>1, <2>2 DEF Step
  <1> QED BY <1>1, PySetClearKeeps, MoveKeyKeeps, EndResizeKeeps, PySetAddKeeps, PySetDiscardKeeps DEF SetNext

(* The table stays sound and the counts exact, in and between calls.       *)
LEMMA SetInvariant == SetSpec => []SetInv
  <1>1. SetInv /\ [SetNext]_setVars => SetInv'
    BY NextKeeps
  <1> QED BY <1>1, InitSetInv, PTL DEF SetSpec

-----------------------------------------------------------------------------
(* The variables keep their types: no count goes below zero.               *)
THEOREM SetTyped == SetSpec => []SetTypeOK
  <1>1. SetInv => SetTypeOK
    <2> SUFFICES ASSUME SetInv PROVE SetTypeOK
      OBVIOUS
    <2>1. SetTableType(table) /\ fill \in Nat /\ active \in Nat /\ inline \in BOOLEAN
      BY TableFinite DEF SetInv, Counted, SetSound
    <2>2. heapTables \in Nat /\ setHeld \in [Keys -> Nat]
      BY DEF SetInv, SetSettled, SetGrowing, Holding
    <2>3. SetGrowing => Len(old) = 1 /\ old[1].inline \in BOOLEAN
      BY DEF SetGrowing
    <2> QED BY <2>1, <2>2, <2>3 DEF SetInv, SetSettled, SetGrowing, SetTypeOK
  <1> QED BY <1>1, SetInvariant, PTL

(* set_lookup and the loop of set_resize end: there is always an empty     *)
(* slot, whatever was added and discarded.                                 *)
THEOREM SetSearchesEnd == SetSpec => []SetProbingEnds
  <1>1. SetInv => SetProbingEnds
    BY RoomLeft DEF SetProbingEnds, HasEmpty
  <1> QED BY <1>1, SetInvariant, PTL

(* Each member is found under its key, past the dummies.                   *)
THEOREM SetSearchesFind == SetSpec => []SetEntriesFound
  <1>1. SetInv => SetEntriesFound
    <2> SUFFICES ASSUME SetInv, NEW s \in Active(table) PROVE Lookup(table, table.slots[s]) = s
      BY DEF SetEntriesFound
    <2>1. SetSound(table) /\ HasEmpty(table) /\ table.slots[s] \in Keys
      BY RoomLeft, SetTableFacts DEF SetInv, Counted, SetSound
    <2> QED BY <2>1, StopLive DEF EqualKeys
  <1> QED BY <1>1, SetInvariant, PTL

(* fill, used and the tables on the heap are what is there: the table that *)
(* a resize replaces is freed, once.                                       *)
THEOREM SetCounts == SetSpec => []SetCountsExact
  <1>1. SetInv => SetCountsExact
    <2> SUFFICES ASSUME SetInv PROVE SetCountsExact
      OBVIOUS
    <2>1. heapTables = (IF inline THEN 0 ELSE 1) + (IF old = <<>> \/ old[1].inline THEN 0 ELSE 1)
      BY DEF SetInv, SetSettled, SetGrowing
    <2> QED BY <2>1 DEF SetInv, Counted, SetCountsExact, SetFilled
  <1> QED BY <1>1, SetInvariant, PTL

(* The set owns one reference for each member and no other, in the middle  *)
(* of a resize too, where some are in the old table.                       *)
THEOREM SetHoldsMembers == SetSpec => []SetHoldsItsMembers
  <1>1. SetInv => SetHoldsItsMembers
    <2>1. SetSettled => Left = {}
      BY DEF SetSettled, Left
    <2>2. ASSUME SetGrowing PROVE Left = LeftIn(old[1].table, scanned)
      <3>1. old # <<>>
        BY <2>2 DEF SetGrowing
      <3> QED BY <3>1 DEF Left, LeftIn
    <2>3. SetSettled => SetHoldsItsMembers
      <3> SUFFICES ASSUME SetSettled, NEW k \in Keys
                   PROVE  setHeld[k] = Cardinality(Places(table, Active(table), k))
                                       + Cardinality(Places(old[1].table, Left, k))
        BY DEF SetHoldsItsMembers, Places
      <3>1. setHeld[k] = Cardinality(Places(table, Active(table), k)) + Cardinality(Places(table, {}, k))
        BY DEF SetSettled, Holding
      <3> QED BY <2>1, <3>1, NoPlaces
    <2>4. SetGrowing => SetHoldsItsMembers
      BY <2>2 DEF SetGrowing, Holding, SetHoldsItsMembers, Places
    <2> QED BY <2>3, <2>4 DEF SetInv
  <1> QED BY <1>1, SetInvariant, PTL

(* What PySet_Add, PySet_Discard and PySet_Clear do to the table is what   *)
(* SetContract says of a set, and a resize does nothing to its members.    *)
THEOREM SetImplements == SetSpec => ImplementsSet
  <1>1. SetInit => FiniteSet!Init
    <2> SUFFICES ASSUME SetInit PROVE Members = {}
      BY DEF FiniteSet!Init
    <2>1. Members = Held
      BY InitSetInv, MembersFacts DEF MembersAre, SetInit, SetInv, SetGrowing
    <2> QED BY <2>1, SmallestSize, FreshTable DEF Held, SetInit
  <1>2. SetInv /\ [SetNext]_setVars => [FiniteSet!Next]_Members
    BY NextKeeps DEF Step
  <1> QED BY <1>1, <1>2, SetInvariant, PTL DEF SetSpec, ImplementsSet, FiniteSet!Spec

-----------------------------------------------------------------------------
(* List.                                                                   *)
HIDE SetSizeAssumption
HIDE SizeAssumption
HIDE NullAssumption
HIDE KeyAssumption
USE ListAssumption

Cells == Objs \cup {NULL}

-----------------------------------------------------------------------------
(* How often an object is among the first n of an array.                   *)

Spots(s, n, o) == {i \in 1..n : s[i] = o}
Count(s, n, o) == Cardinality(Spots(s, n, o))

LEMMA SpotsFinite ==
  ASSUME NEW s, NEW n \in Nat, NEW o
  PROVE  IsFiniteSet(Spots(s, n, o)) /\ Count(s, n, o) \in Nat
  <1>1. IsFiniteSet(1..n)
    BY FS_Interval
  <1>2. Spots(s, n, o) \subseteq 1..n
    BY DEF Spots
  <1>3. IsFiniteSet(Spots(s, n, o))
    BY <1>1, <1>2, FS_Subset
  <1> QED BY <1>3, FS_CardinalityType DEF Count

(* A set and what a one-to-one function makes of it are of the same size.  *)
LEMMA SameSize ==
  ASSUME NEW A, IsFiniteSet(A), NEW B, NEW f \in [A -> B],
         \A x, y \in A : f[x] = f[y] => x = y, \A y \in B : \E x \in A : f[x] = y
  PROVE  Cardinality(B) = Cardinality(A)
  <1>1. f \in Bijection(A, B)
    BY Fun_IsBij DEF Surjection
  <1>2. ExistsBijection(A, B)
    BY <1>1 DEF ExistsBijection
  <1> QED BY <1>2, FS_Bijection

(* Slot i is given another value y.                                        *)
SameBut(s, n, u, i, y) == u[i] = y /\ \A j \in 1..n : j # i => u[j] = s[j]

LEMMA ExchangeCount ==
  ASSUME NEW s, NEW u, NEW n \in Nat, NEW i \in 1..n, NEW y, SameBut(s, n, u, i, y), NEW o
  PROVE  Count(u, n, o) = Count(s, n, o) + (IF o = y THEN 1 ELSE 0) - (IF o = s[i] THEN 1 ELSE 0)
  <1> DEFINE A == Spots(s, n, o)
             B == Spots(u, n, o)
             a == IF o = s[i] THEN 1 ELSE 0
             b == IF o = y THEN 1 ELSE 0
  <1>1. A \ {i} = B \ {i}
    BY DEF Spots, SameBut
  <1>2. (i \in A <=> o = s[i]) /\ (i \in B <=> o = y)
    BY DEF Spots, SameBut
  <1>3. IsFiniteSet(A) /\ Cardinality(A) \in Nat /\ IsFiniteSet(B) /\ Cardinality(B) \in Nat
    BY SpotsFinite DEF Count
  <1> HIDE DEF A, B
  <1>4. Cardinality(A \ {i}) = IF i \in A THEN Cardinality(A) - 1 ELSE Cardinality(A)
    BY <1>3, FS_RemoveElement
  <1>5. Cardinality(B \ {i}) = IF i \in B THEN Cardinality(B) - 1 ELSE Cardinality(B)
    BY <1>3, FS_RemoveElement
  <1>6. Cardinality(A \ {i}) = Cardinality(B \ {i})
    BY <1>1
  <1>7. Cardinality(A) - a = Cardinality(B) - b
    BY <1>2, <1>3, <1>4, <1>5, <1>6
  <1>8. a \in Nat /\ b \in Nat
    OBVIOUS
  <1> HIDE DEF a, b
  <1>9. Cardinality(B) = Cardinality(A) + b - a
    BY <1>3, <1>7, <1>8
  <1> QED BY <1>9 DEF Count, A, B, a, b

(* u is s with x put in at i.                                              *)
Shifted(s, n, u, i, x) ==
  \A j \in 1..n + 1 : u[j] = IF j < i THEN s[j] ELSE IF j = i THEN x ELSE s[j - 1]

LEMMA ShiftedCount ==
  ASSUME NEW s, NEW u, NEW n \in Nat, NEW i \in 1..n + 1, NEW x, Shifted(s, n, u, i, x), NEW o
  PROVE  Count(u, n + 1, o) = Count(s, n, o) + (IF o = x THEN 1 ELSE 0)
  <1> DEFINE A == Spots(s, n, o)
             B == Spots(u, n + 1, o)
             f == [j \in A |-> IF j < i THEN j ELSE j + 1]
             b == IF o = x THEN 1 ELSE 0
  <1>1. IsFiniteSet(A) /\ Cardinality(A) \in Nat /\ IsFiniteSet(B) /\ Cardinality(B) \in Nat
    BY SpotsFinite DEF Count
  <1>2. f \in [A -> B \ {i}]
    <2> SUFFICES ASSUME NEW j \in A PROVE f[j] \in B \ {i}
      OBVIOUS
    <2>1. j \in 1..n /\ s[j] = o
      BY DEF Spots
    <2>2. CASE j < i
      BY <2>1, <2>2 DEF Shifted, Spots
    <2>3. CASE j >= i
      <3>1. PICK k \in 1..n + 1 : k = j + 1
        BY <2>1
      <3>2. u[k] = s[k - 1] /\ k - 1 = j
        BY <2>1, <2>3, <3>1 DEF Shifted
      <3> QED BY <2>1, <2>3, <3>1, <3>2 DEF Spots
    <2> QED BY <2>1, <2>2, <2>3
  <1>3. \A j, k \in A : f[j] = f[k] => j = k
    <2>1. A \subseteq 1..n
      BY DEF Spots
    <2> QED BY <2>1
  <1>4. \A k \in B \ {i} : \E j \in A : f[j] = k
    <2> SUFFICES ASSUME NEW k \in B \ {i} PROVE \E j \in A : f[j] = k
      OBVIOUS
    <2>1. k \in 1..n + 1 /\ u[k] = o /\ k # i
      BY DEF Spots
    <2>2. CASE k < i
      <3>1. k \in 1..n /\ s[k] = o
        BY <2>1, <2>2 DEF Shifted
      <3> QED BY <2>2, <3>1 DEF Spots
    <2>3. CASE k > i
      <3>1. k - 1 \in 1..n /\ s[k - 1] = o
        BY <2>1, <2>3 DEF Shifted
      <3> QED BY <2>1, <2>3, <3>1 DEF Spots
    <2> QED BY <2>1, <2>2, <2>3
  <1>5. i \in B <=> o = x
    BY DEF Spots, Shifted
  <1> HIDE DEF A, B, f
  <1>6. Cardinality(B \ {i}) = Cardinality(A)
    BY <1>1, <1>2, <1>3, <1>4, SameSize
  <1>7. Cardinality(B \ {i}) = IF i \in B THEN Cardinality(B) - 1 ELSE Cardinality(B)
    BY <1>1, FS_RemoveElement
  <1>8. Cardinality(B) = Cardinality(A) + b
    BY <1>1, <1>5, <1>6, <1>7
  <1> QED BY <1>8 DEF Count, A, B

(* The items change places.                                                *)
Permuted(s, n, u, p) ==
  /\ p \in [1..n -> 1..n]
  /\ \A i, j \in 1..n : p[i] = p[j] => i = j
  /\ \A j \in 1..n : \E i \in 1..n : p[i] = j
  /\ \A i \in 1..n : u[i] = s[p[i]]

LEMMA PermutedCount ==
  ASSUME NEW s, NEW u, NEW n \in Nat, NEW p, Permuted(s, n, u, p), NEW o
  PROVE  Count(u, n, o) = Count(s, n, o)
  <1> DEFINE A == Spots(u, n, o)
             B == Spots(s, n, o)
             f == [i \in A |-> p[i]]
  <1>1. IsFiniteSet(A)
    BY SpotsFinite
  <1>2. f \in [A -> B]
    BY DEF Spots, Permuted
  <1>3. \A i, j \in A : f[i] = f[j] => i = j
    BY DEF Spots, Permuted
  <1>4. ASSUME NEW j \in B PROVE \E i \in A : f[i] = j
    <2>1. j \in 1..n /\ s[j] = o
      BY DEF Spots, Permuted
    <2>2. PICK i \in 1..n : p[i] = j
      BY <2>1 DEF Permuted
    <2>3. i \in A
      BY <2>1, <2>2 DEF Spots, Permuted
    <2> QED BY <2>2, <2>3
  <1> HIDE DEF A, B, f
  <1>5. Cardinality(B) = Cardinality(A)
    BY <1>1, <1>2, <1>3, <1>4, SameSize
  <1> QED BY <1>5 DEF Count, A, B

-----------------------------------------------------------------------------
(* Sequences.                                                              *)

LEMMA FirstFacts ==
  ASSUME NEW s \in Seq(Cells), NEW n \in 0..Len(s)
  PROVE  /\ SubSeq(s, 1, n) \in Seq(Cells)
         /\ Len(SubSeq(s, 1, n)) = n
         /\ \A i \in 1..n : SubSeq(s, 1, n)[i] = s[i]
         /\ \A o : Times(o, SubSeq(s, 1, n)) = Count(s, n, o)
  <1> DEFINE t == SubSeq(s, 1, n)
  <1>1. Len(s) \in Nat /\ n \in Nat /\ \A i \in 1..n : s[i] \in Cells
    BY LenProperties
  <1>2. t \in Seq(Cells) /\ Len(t) = n /\ \A i \in 1..n : t[i] = s[i]
    BY <1>1, SubSeqProperties
  <1> HIDE DEF t
  <1>3. DOMAIN t = 1..n
    BY <1>2, LenProperties
  <1>4. ASSUME NEW o PROVE Times(o, t) = Count(s, n, o)
    <2>1. {i \in DOMAIN t : t[i] = o} = Spots(s, n, o)
      BY <1>2, <1>3 DEF Spots
    <2> QED BY <2>1 DEF Times, Count
  <1> QED BY <1>2, <1>4 DEF t

LEMMA NullsFacts ==
  ASSUME NEW n \in Nat
  PROVE  Nulls(n) \in Seq(Cells) /\ Len(Nulls(n)) = n /\ \A i \in 1..n : Nulls(n)[i] = NULL
  BY DEF Nulls, Cells

LEMMA EnsureFacts ==
  ASSUME NEW s \in Seq(Cells), NEW n \in Nat
  PROVE  /\ EnsureCapacity(s, n) \in Seq(Cells)
         /\ Len(EnsureCapacity(s, n)) \in Nat
         /\ Len(EnsureCapacity(s, n)) >= n
         /\ Len(EnsureCapacity(s, n)) >= Len(s)
         /\ \A j \in 1..Len(s) : EnsureCapacity(s, n)[j] = s[j]
  <1> DEFINE more == IF n < 9 THEN 3 ELSE 6
             m    == n + (n \div 8) + more - Len(s)
  <1>1. Len(s) \in Nat
    BY LenProperties
  <1>2. CASE n <= Len(s)
    BY <1>1, <1>2 DEF EnsureCapacity
  <1>3. CASE n > Len(s)
    <2>1. more \in Nat /\ n \div 8 \in Nat
      OBVIOUS
    <2>2. EnsureCapacity(s, n) = s \o Nulls(m)
      <3>1. ~(n <= Len(s))
        BY <1>1, <1>3
      <3> QED BY Zenon, <3>1 DEF EnsureCapacity
    <2> HIDE DEF more
    <2>3. m \in Nat /\ Len(s) + m >= n
      BY <1>1, <1>3, <2>1
    <2> HIDE DEF m
    <2>4. Nulls(m) \in Seq(Cells) /\ Len(Nulls(m)) = m
      BY <2>3, NullsFacts
    <2>5. /\ s \o Nulls(m) \in Seq(Cells) /\ Len(s \o Nulls(m)) = Len(s) + m
          /\ \A j \in 1..Len(s) + m : (s \o Nulls(m))[j] = IF j <= Len(s) THEN s[j] ELSE Nulls(m)[j - Len(s)]
      BY <2>4, ConcatProperties
    <2>6. \A j \in 1..Len(s) : (s \o Nulls(m))[j] = s[j]
      BY <1>1, <2>3, <2>5
    <2> QED BY <1>1, <2>2, <2>3, <2>5, <2>6
  <1> QED BY <1>1, <1>2, <1>3

LEMMA InsertedFacts ==
  ASSUME NEW s \in Seq(Cells), NEW n \in 0..Len(s), NEW i \in 1..n + 1, NEW o \in Cells
  PROVE  LET l == WithInserted([slots |-> s, size |-> n], i, o)
         IN  /\ l.slots \in Seq(Cells) /\ l.size = n + 1 /\ l.size \in 0..Len(l.slots)
             /\ Shifted(s, n, l.slots, i, o)
  <1> DEFINE e == EnsureCapacity(s, n + 1)
             u == [j \in DOMAIN e |-> IF j = i THEN o ELSE IF i < j /\ j <= n + 1 THEN e[j - 1] ELSE e[j]]
  <1>1. Len(s) \in Nat /\ n \in Nat /\ n <= Len(s) /\ i \in Nat /\ i >= 1 /\ i <= n + 1
    BY LenProperties
  <1>2. /\ e \in Seq(Cells) /\ Len(e) \in Nat /\ Len(e) >= n + 1
        /\ \A j \in 1..Len(s) : e[j] = s[j]
    BY <1>1, EnsureFacts
  <1> HIDE DEF e
  <1>3. DOMAIN e = 1..Len(e) /\ \A j \in 1..Len(e) : e[j] \in Cells
    BY <1>2, LenProperties
  <1>4. \A j \in 1..Len(e) : u[j] \in Cells
    BY <1>1, <1>2, <1>3
  <1>5. u \in [1..Len(e) -> Cells]
    BY <1>3, <1>4
  <1>6. u \in Seq(Cells) /\ Len(u) = Len(e)
    BY <1>2, <1>5
  <1>7. Shifted(s, n, u, i, o)
    <2> SUFFICES ASSUME NEW j \in 1..n + 1
                 PROVE  u[j] = IF j < i THEN s[j] ELSE IF j = i THEN o ELSE s[j - 1]
      BY DEF Shifted
    <2>1. u[j] = IF j = i THEN o ELSE IF i < j THEN e[j - 1] ELSE e[j]
      BY <1>1, <1>2, <1>3
    <2>2. CASE j < i
      BY <1>1, <1>2, <2>1, <2>2
    <2>3. CASE j > i
      BY <1>1, <1>2, <2>1, <2>3
    <2> QED BY <1>1, <2>1, <2>2, <2>3
  <1>8. WithInserted([slots |-> s, size |-> n], i, o) = [slots |-> u, size |-> n + 1]
    BY DEF WithInserted, e
  <1> HIDE DEF u
  <1> QED BY <1>1, <1>2, <1>6, <1>7, <1>8

LEMMA InsertAtFacts ==
  ASSUME NEW s \in Seq(Cells), NEW t \in Seq(Cells), NEW i \in 1..Len(s) + 1, NEW o \in Cells,
         Len(t) = Len(s) + 1, Shifted(s, Len(s), t, i, o)
  PROVE  t = InsertAt(s, i, o)
  <1> DEFINE n == Len(s)
             a == SubSeq(s, 1, i - 1)
             b == SubSeq(s, i, n)
  <1>1. n \in Nat /\ i \in Nat /\ i >= 1 /\ i <= n + 1 /\ \A j \in 1..n : s[j] \in Cells
    BY LenProperties
  <1>2. a \in Seq(Cells) /\ Len(a) = i - 1 /\ \A j \in 1..i - 1 : a[j] = s[j]
    <2>1. i - 1 \in Int /\ 1 \in Int /\ \A j \in 1..i - 1 : s[j] \in Cells
      BY <1>1
    <2> HIDE DEF n
    <2> QED BY <1>1, <2>1, SubSeqProperties
  <1>3. b \in Seq(Cells) /\ Len(b) = n - i + 1 /\ \A j \in 1..n - i + 1 : b[j] = s[i + j - 1]
    <2>1. \A j \in i..n : s[j] \in Cells
      BY <1>1
    <2> HIDE DEF n
    <2> QED BY <1>1, <2>1, SubSeqProperties
  <1>4. <<o>> \in Seq(Cells) /\ Len(<<o>>) = 1 /\ <<o>>[1] = o
    OBVIOUS
  <1> HIDE DEF a, b
  <1> DEFINE c == a \o <<o>>
  <1>5. /\ c \in Seq(Cells) /\ Len(c) = i
        /\ \A j \in 1..i : c[j] = IF j < i THEN s[j] ELSE o
    <2>1. c \in Seq(Cells) /\ Len(c) = Len(a) + 1
          /\ \A j \in 1..Len(a) + 1 : c[j] = IF j <= Len(a) THEN a[j] ELSE <<o>>[j - Len(a)]
      BY <1>2, <1>4, ConcatProperties
    <2> HIDE DEF c
    <2> QED BY <1>1, <1>2, <1>4, <2>1
  <1> HIDE DEF c
  <1> DEFINE d == c \o b
  <1>6. /\ d \in Seq(Cells) /\ Len(d) = n + 1
        /\ \A j \in 1..n + 1 : d[j] = IF j <= i THEN c[j] ELSE b[j - i]
    <2>1. d \in Seq(Cells) /\ Len(d) = Len(c) + Len(b)
          /\ \A j \in 1..Len(c) + Len(b) : d[j] = IF j <= Len(c) THEN c[j] ELSE b[j - Len(c)]
      BY <1>3, <1>5, ConcatProperties
    <2> HIDE DEF d
    <2>2. Len(c) + Len(b) = n + 1
      BY <1>1, <1>3, <1>5
    <2> QED BY <1>5, <2>1, <2>2
  <1>7. InsertAt(s, i, o) = d
    BY DEF InsertAt, d, c, a, b
  <1> HIDE DEF d
  <1>8. \A j \in 1..n + 1 : d[j] = t[j]
    <2> SUFFICES ASSUME NEW j \in 1..n + 1 PROVE d[j] = t[j]
      OBVIOUS
    <2>1. t[j] = IF j < i THEN s[j] ELSE IF j = i THEN o ELSE s[j - 1]
      BY DEF Shifted
    <2> HIDE DEF n
    <2>2. CASE j <= i
      BY <1>1, <1>5, <1>6, <2>1, <2>2
    <2>3. CASE j > i
      <3>1. j - i \in 1..n - i + 1 /\ i + (j - i) - 1 = j - 1
        BY <1>1, <2>3
      <3>2. b[j - i] = s[j - 1]
        BY <1>3, <3>1
      <3> QED BY <1>1, <1>6, <2>1, <2>3, <3>2
    <2> QED BY <1>1, <2>2, <2>3
  <1> QED BY <1>6, <1>7, <1>8, SeqEqual

LEMMA RemoveAtFacts ==
  ASSUME NEW s \in Seq(Cells), NEW t \in Seq(Cells), NEW i \in 1..Len(s),
         Len(t) = Len(s) - 1, Shifted(t, Len(t), s, i, s[i])
  PROVE  t = RemoveAt(s, i)
  <1> DEFINE n == Len(t)
             a == SubSeq(s, 1, i - 1)
             b == SubSeq(s, i + 1, Len(s))
  <1>1. n \in Nat /\ Len(s) = n + 1 /\ i \in Nat /\ i >= 1 /\ i <= n + 1 /\ \A j \in 1..n + 1 : s[j] \in Cells
    BY LenProperties
  <1> HIDE DEF n
  <1>2. a \in Seq(Cells) /\ Len(a) = i - 1 /\ \A j \in 1..i - 1 : a[j] = s[j]
    <2>1. i - 1 \in Int /\ 1 \in Int /\ \A j \in 1..i - 1 : s[j] \in Cells
      BY <1>1
    <2> QED BY <1>1, <2>1, SubSeqProperties
  <1>3. b \in Seq(Cells) /\ Len(b) = n - i + 1 /\ \A j \in 1..n - i + 1 : b[j] = s[i + j]
    <2>1. i + 1 \in Int /\ n + 1 \in Int /\ \A j \in i + 1..n + 1 : s[j] \in Cells
      BY <1>1
    <2>2. /\ b \in Seq(Cells) /\ Len(b) = IF i + 1 <= n + 1 THEN n + 1 - (i + 1) + 1 ELSE 0
          /\ \A j \in 1..n + 1 - (i + 1) + 1 : b[j] = s[i + 1 + j - 1]
      BY <1>1, <2>1, SubSeqProperties
    <2> HIDE DEF b
    <2>3. n + 1 - (i + 1) + 1 = n - i + 1 /\ \A j \in Nat : i + 1 + j - 1 = i + j
      BY <1>1
    <2> QED BY <1>1, <2>2, <2>3
  <1> HIDE DEF a, b
  <1> DEFINE d == a \o b
  <1>4. /\ d \in Seq(Cells) /\ Len(d) = n
        /\ \A j \in 1..n : d[j] = IF j < i THEN a[j] ELSE b[j - (i - 1)]
    <2>1. d \in Seq(Cells) /\ Len(d) = Len(a) + Len(b)
          /\ \A j \in 1..Len(a) + Len(b) : d[j] = IF j <= Len(a) THEN a[j] ELSE b[j - Len(a)]
      BY <1>2, <1>3, ConcatProperties
    <2> HIDE DEF d
    <2>2. Len(a) + Len(b) = n /\ Len(a) = i - 1
      BY <1>1, <1>2, <1>3
    <2>3. \A j \in 1..n : d[j] = IF j <= i - 1 THEN a[j] ELSE b[j - (i - 1)]
      BY <2>1, <2>2, Zenon
    <2>4. \A j \in 1..n : (j <= i - 1) = (j < i)
      BY <1>1
    <2> QED BY <2>1, <2>2, <2>3, <2>4, Zenon
  <1>5. RemoveAt(s, i) = d
    BY DEF RemoveAt, d, a, b
  <1> HIDE DEF d
  <1>6. \A j \in 1..n : d[j] = t[j]
    <2> SUFFICES ASSUME NEW j \in 1..n PROVE d[j] = t[j]
      OBVIOUS
    <2>1. CASE j < i
      <3>1. j \in 1..n + 1
        BY <1>1
      <3>2. s[j] = t[j]
        BY <2>1, <3>1 DEF Shifted, n
      <3> QED BY <1>1, <1>2, <1>4, <2>1, <3>2
    <2>2. CASE j >= i
      <3>1. PICK k \in 1..n + 1 : k = j + 1
        BY <1>1
      <3>2. s[k] = t[k - 1] /\ k - 1 = j
        BY <1>1, <2>2, <3>1 DEF Shifted, n
      <3>3. PICK q \in 1..n - i + 1 : q = j - (i - 1)
        BY <1>1, <2>2
      <3>4. b[q] = s[i + q] /\ i + q = k
        BY <1>1, <1>3, <3>1, <3>3
      <3> QED BY <1>1, <1>4, <2>2, <3>2, <3>3, <3>4
    <2> QED BY <1>1, <2>1, <2>2
  <1>7. Len(t) = n
    BY DEF n
  <1> QED BY <1>4, <1>5, <1>6, <1>7, SeqEqual

LEMMA SubFacts ==
  ASSUME NEW s \in Seq(Cells), NEW n \in 0..Len(s), NEW lo \in 1..n + 1, NEW hi \in 0..n
  PROVE  /\ SubSeq(s, lo, hi) = SubSeq(SubSeq(s, 1, n), lo, hi)
         /\ SubSeq(s, lo, hi) \in Seq(Cells)
  <1> DEFINE t == SubSeq(s, 1, n)
             a == SubSeq(s, lo, hi)
             b == SubSeq(t, lo, hi)
  <1>1. Len(s) \in Nat /\ n \in Nat /\ n <= Len(s) /\ lo \in Int /\ hi \in Int /\ lo >= 1 /\ hi <= n
    BY LenProperties
  <1>2. \A i \in 1..n : t[i] = s[i] /\ s[i] \in Cells
    BY <1>1, FirstFacts, LenProperties
  <1> HIDE DEF t
  <1>3. \A i \in lo..hi : t[i] = s[i] /\ s[i] \in Cells /\ t[i] \in Cells
    BY <1>1, <1>2
  <1>4. /\ a \in Seq(Cells) /\ Len(a) = IF lo <= hi THEN hi - lo + 1 ELSE 0
        /\ \A i \in 1..hi - lo + 1 : a[i] = s[lo + i - 1]
    BY <1>1, <1>3, SubSeqProperties
  <1>5. /\ b \in Seq(Cells) /\ Len(b) = IF lo <= hi THEN hi - lo + 1 ELSE 0
        /\ \A i \in 1..hi - lo + 1 : b[i] = t[lo + i - 1]
    BY <1>1, <1>3, SubSeqProperties
  <1> HIDE DEF a, b
  <1>6. Len(a) = Len(b) /\ \A i \in 1..Len(a) : i \in 1..hi - lo + 1 /\ lo + i - 1 \in lo..hi
    BY <1>1, <1>4, <1>5
  <1>7. \A i \in 1..Len(a) : a[i] = b[i]
    BY <1>3, <1>4, <1>5, <1>6
  <1>8. a = b
    BY <1>4, <1>5, <1>6, <1>7, SeqEqual
  <1> QED BY <1>4, <1>8 DEF a, b, t

-----------------------------------------------------------------------------
(* Sorting by keys k: the places of those that come before the one at i,   *)
(* and i; the place that the i-th comes from.                              *)

Ahead(k, n, i) == {j \in 1..n : \/ k[j] < k[i]
                                \/ k[j] = k[i] /\ j <= i}
RankBy(k, n, i) == Cardinality(Ahead(k, n, i))
From(k, n, i)   == CHOOSE j \in 1..n : RankBy(k, n, j) = i

LEMMA RankFacts ==
  ASSUME NEW n \in Nat, NEW k \in [1..n -> Int]
  PROVE  /\ \A i \in 1..n : RankBy(k, n, i) \in 1..n
         /\ \A i, j \in 1..n : RankBy(k, n, i) = RankBy(k, n, j) => i = j
         /\ \A i, j \in 1..n : RankBy(k, n, i) < RankBy(k, n, j) => k[i] < k[j] \/ (k[i] = k[j] /\ i < j)
         /\ \A j \in 1..n : \E i \in 1..n : RankBy(k, n, i) = j
  <1>1. IsFiniteSet(1..n) /\ Cardinality(1..n) = n
    BY FS_Interval
  <1>2. ASSUME NEW i \in 1..n
        PROVE  IsFiniteSet(Ahead(k, n, i)) /\ RankBy(k, n, i) \in 1..n
    <2>1. Ahead(k, n, i) \subseteq 1..n /\ i \in Ahead(k, n, i)
      BY DEF Ahead
    <2>2. IsFiniteSet(Ahead(k, n, i)) /\ Cardinality(Ahead(k, n, i)) <= n
      BY <1>1, <2>1, FS_Subset
    <2>3. Cardinality(Ahead(k, n, i)) \in Nat
      BY <2>2, FS_CardinalityType
    <2>4. Cardinality(Ahead(k, n, i)) # 0
      BY <2>1, <2>2, FS_EmptySet
    <2> QED BY <2>2, <2>3, <2>4 DEF RankBy
  <1>3. ASSUME NEW i \in 1..n, NEW j \in 1..n, i # j, k[i] < k[j] \/ (k[i] = k[j] /\ i <= j)
        PROVE  RankBy(k, n, i) < RankBy(k, n, j)
    <2>1. k[i] \in Int /\ k[j] \in Int
      OBVIOUS
    <2>2. Ahead(k, n, i) \subseteq Ahead(k, n, j)
      BY <1>3, <2>1 DEF Ahead
    <2>3. j \in Ahead(k, n, j) /\ j \notin Ahead(k, n, i)
      BY <1>3, <2>1 DEF Ahead
    <2>4. Cardinality(Ahead(k, n, i)) <= Cardinality(Ahead(k, n, j))
      BY <1>2, <2>2, FS_Subset
    <2>5. Cardinality(Ahead(k, n, i)) # Cardinality(Ahead(k, n, j))
      BY <1>2, <2>2, <2>3, FS_Subset
    <2>6. RankBy(k, n, i) \in Nat /\ RankBy(k, n, j) \in Nat
      BY <1>2
    <2> QED BY <2>4, <2>5, <2>6 DEF RankBy
  <1>4. \A i \in 1..n : RankBy(k, n, i) \in 1..n
    BY <1>2
  <1>5. \A i, j \in 1..n : RankBy(k, n, i) = RankBy(k, n, j) => i = j
    <2> SUFFICES ASSUME NEW i \in 1..n, NEW j \in 1..n, i # j PROVE RankBy(k, n, i) # RankBy(k, n, j)
      OBVIOUS
    <2>1. RankBy(k, n, i) \in 1..n /\ RankBy(k, n, j) \in 1..n /\ k[i] \in Int /\ k[j] \in Int
      BY <1>4
    <2>2. k[i] < k[j] \/ (k[i] = k[j] /\ i <= j) \/ k[j] < k[i] \/ (k[j] = k[i] /\ j <= i)
      BY <2>1
    <2> QED BY <1>3, <2>1, <2>2
  <1>6. \A i, j \in 1..n : RankBy(k, n, i) < RankBy(k, n, j) => k[i] < k[j] \/ (k[i] = k[j] /\ i < j)
    <2> SUFFICES ASSUME NEW i \in 1..n, NEW j \in 1..n, RankBy(k, n, i) < RankBy(k, n, j)
                 PROVE  k[i] < k[j] \/ (k[i] = k[j] /\ i < j)
      OBVIOUS
    <2>0. RankBy(k, n, i) \in 1..n /\ RankBy(k, n, j) \in 1..n
      BY <1>4
    <2>1. RankBy(k, n, i) \in Nat /\ RankBy(k, n, j) \in Nat /\ k[i] \in Int /\ k[j] \in Int
      BY <2>0
    <2>2. i # j
      BY <2>1
    <2>3. ~(k[j] < k[i] \/ (k[j] = k[i] /\ j <= i))
      <3> SUFFICES ASSUME k[j] < k[i] \/ (k[j] = k[i] /\ j <= i) PROVE FALSE
        OBVIOUS
      <3>1. RankBy(k, n, j) < RankBy(k, n, i)
        BY <1>3, <2>2
      <3> QED BY <2>1, <3>1
    <2> QED BY <2>1, <2>3
  <1>7. \A j \in 1..n : \E i \in 1..n : RankBy(k, n, i) = j
    <2> DEFINE r == [i \in 1..n |-> RankBy(k, n, i)]
    <2>1. r \in [1..n -> 1..n] /\ \A i, j \in 1..n : r[i] = r[j] => i = j
      BY <1>4, <1>5
    <2> HIDE DEF r
    <2>2. r \in Injection(1..n, 1..n)
      BY <2>1, Fun_IsInj
    <2>3. r \in Surjection(1..n, 1..n)
      BY <1>1, <2>2, FS_Injection
    <2>4. \A j \in 1..n : \E i \in 1..n : r[i] = j
      BY <2>3 DEF Surjection
    <2> QED BY <2>4 DEF r
  <1> QED BY <1>4, <1>5, <1>6, <1>7

LEMMA FromFacts ==
  ASSUME NEW n \in Nat, NEW k \in [1..n -> Int]
  PROVE  /\ \A i \in 1..n : From(k, n, i) \in 1..n
         /\ \A i, j \in 1..n : From(k, n, i) = From(k, n, j) => i = j
         /\ \A j \in 1..n : \E i \in 1..n : From(k, n, i) = j
         /\ \A i, j \in 1..n : i < j =>
              \/ k[From(k, n, i)] < k[From(k, n, j)]
              \/ k[From(k, n, i)] = k[From(k, n, j)] /\ From(k, n, i) < From(k, n, j)
  <1>1. \A i \in 1..n : From(k, n, i) \in 1..n /\ RankBy(k, n, From(k, n, i)) = i
    BY RankFacts DEF From
  <1>2. \A j \in 1..n : RankBy(k, n, j) \in 1..n /\ From(k, n, RankBy(k, n, j)) = j
    <2> SUFFICES ASSUME NEW j \in 1..n
                 PROVE  RankBy(k, n, j) \in 1..n /\ From(k, n, RankBy(k, n, j)) = j
      OBVIOUS
    <2>1. RankBy(k, n, j) \in 1..n
      BY RankFacts
    <2>2. /\ From(k, n, RankBy(k, n, j)) \in 1..n
          /\ RankBy(k, n, From(k, n, RankBy(k, n, j))) = RankBy(k, n, j)
      BY <1>1, <2>1
    <2> QED BY <2>1, <2>2, RankFacts
  <1>3. \A i, j \in 1..n : i < j =>
          \/ k[From(k, n, i)] < k[From(k, n, j)]
          \/ k[From(k, n, i)] = k[From(k, n, j)] /\ From(k, n, i) < From(k, n, j)
    <2> SUFFICES ASSUME NEW i \in 1..n, NEW j \in 1..n, i < j
                 PROVE  \/ k[From(k, n, i)] < k[From(k, n, j)]
                        \/ k[From(k, n, i)] = k[From(k, n, j)] /\ From(k, n, i) < From(k, n, j)
      OBVIOUS
    <2>1. PICK p \in 1..n : p = From(k, n, i) /\ RankBy(k, n, p) = i
      BY <1>1
    <2>2. PICK q \in 1..n : q = From(k, n, j) /\ RankBy(k, n, q) = j
      BY <1>1
    <2>3. RankBy(k, n, p) < RankBy(k, n, q)
      BY <2>1, <2>2
    <2>4. k[p] < k[q] \/ (k[p] = k[q] /\ p < q)
      BY <2>3, RankFacts
    <2> QED BY Zenon, <2>1, <2>2, <2>4
  <1> QED BY <1>1, <1>2, <1>3

-----------------------------------------------------------------------------
(* The steps of a sequence from s to t.                                    *)

SortStep(s, t) ==
  /\ NULL \notin Range(s)
  /\ \E p \in [DOMAIN s -> DOMAIN s] :
       /\ \A i, j \in DOMAIN s : p[i] = p[j] => i = j
       /\ \A j \in DOMAIN s : \E i \in DOMAIN s : p[i] = j
       /\ t = [i \in DOMAIN s |-> s[p[i]]]
       /\ \A i, j \in DOMAIN s : i < j =>
            \/ SortKey[s[p[i]]] < SortKey[s[p[j]]]
            \/ SortKey[s[p[i]]] = SortKey[s[p[j]]] /\ p[i] < p[j]

SequenceMoves(s, t) ==
  \/ t = s
  \/ \E i \in DOMAIN s, o \in Objs : t = [s EXCEPT ![i] = o]
  \/ \E i \in 1..Len(s) + 1, o \in Objs : t = InsertAt(s, i, o)
  \/ \E i \in DOMAIN s : t = RemoveAt(s, i)
  \/ \E u \in Seq(Objs) : t = s \o u
  \/ \E lo \in 1..Len(s) + 1, hi \in 0..Len(s) : t = SubSeq(s, lo, hi)
  \/ t = Reverse(s)
  \/ SortStep(s, t)

SequenceStep == [Sequence!Next]_(Items \o todo)

LEMMA MovesStep ==
  ASSUME Items \o todo \in Seq(Cells), SequenceMoves(Items \o todo, (Items \o todo)')
  PROVE  SequenceStep
  <1> DEFINE s == Items \o todo
             t == (Items \o todo)'
  <1>1. CASE t = s
    BY <1>1 DEF SequenceStep
  <1>2. CASE \E i \in DOMAIN s, o \in Objs : t = [s EXCEPT ![i] = o]
    BY Zenon, <1>2 DEF SequenceStep, Sequence!Next, Sequence!Put
  <1>3. CASE \E i \in 1..Len(s) + 1, o \in Objs : t = InsertAt(s, i, o)
    BY Zenon, <1>3 DEF SequenceStep, Sequence!Next, Sequence!Insert, InsertAt, Sequence!InsertAt
  <1>4. CASE \E i \in DOMAIN s : t = RemoveAt(s, i)
    BY Zenon, <1>4 DEF SequenceStep, Sequence!Next, Sequence!Delete, RemoveAt, Sequence!RemoveAt
  <1>5. ASSUME s \in Seq(Cells), NEW u \in Seq(Objs), t = s \o u
        PROVE  SequenceStep
    <2>1. /\ Len(s) \in Nat /\ Len(u) \in Nat /\ t \in Seq(Cells) /\ Len(t) = Len(s) + Len(u)
          /\ \A i \in 1..Len(s) + Len(u) : t[i] = IF i <= Len(s) THEN s[i] ELSE u[i - Len(s)]
      <3>1. u \in Seq(Cells)
        BY SeqMonotonic DEF Cells
      <3> HIDE DEF s, t
      <3> QED BY <1>5, <3>1, ConcatProperties, LenProperties
    <2>2. SubSeq(t, 1, Len(s)) = s
      <3> HIDE DEF s, t
      <3>1. Len(s) \in 0..Len(t)
        BY <2>1
      <3>2. /\ SubSeq(t, 1, Len(s)) \in Seq(Cells) /\ Len(SubSeq(t, 1, Len(s))) = Len(s)
            /\ \A i \in 1..Len(s) : SubSeq(t, 1, Len(s))[i] = t[i]
        BY <2>1, <3>1, FirstFacts
      <3>3. \A i \in 1..Len(s) : SubSeq(t, 1, Len(s))[i] = s[i]
        BY <2>1, <3>2
      <3> QED BY <1>5, <3>2, <3>3, SeqEqual
    <2>3. ASSUME NEW i \in Len(s) + 1..Len(t) PROVE t[i] \in Objs
      <3> HIDE DEF s, t
      <3>1. PICK j \in 1..Len(u) : j = i - Len(s)
        BY <2>1
      <3>2. t[i] = u[j]
        BY <2>1, <3>1
      <3> QED BY <3>1, <3>2, ElementOfSeq
    <2>4. Len(t) >= Len(s)
      <3> HIDE DEF s, t
      <3> QED BY <2>1
    <2> QED BY Zenon, <2>2, <2>3, <2>4 DEF SequenceStep, Sequence!Next, Sequence!Extend
  <1>7. CASE \E lo \in 1..Len(s) + 1, hi \in 0..Len(s) : t = SubSeq(s, lo, hi)
    BY Zenon, <1>7 DEF SequenceStep, Sequence!Next, Sequence!Slice
  <1>8. CASE t = Reverse(s)
    BY Zenon, <1>8 DEF SequenceStep, Sequence!Next, Sequence!Flip, Reverse, Sequence!Reverse
  <1>9. CASE SortStep(s, t)
    <2>1. PICK p \in [DOMAIN s -> DOMAIN s] :
               /\ \A i, j \in DOMAIN s : p[i] = p[j] => i = j
               /\ \A j \in DOMAIN s : \E i \in DOMAIN s : p[i] = j
               /\ t = [i \in DOMAIN s |-> s[p[i]]]
               /\ \A i, j \in DOMAIN s : i < j =>
                    \/ SortKey[s[p[i]]] < SortKey[s[p[j]]]
                    \/ SortKey[s[p[i]]] = SortKey[s[p[j]]] /\ p[i] < p[j]
      BY Zenon, <1>9 DEF SortStep
    <2>2. Sequence!Sort
      <3>1. p \in Sequence!Bijection(DOMAIN s, DOMAIN s)
        BY <2>1 DEF Sequence!Bijection, Sequence!Injection, Sequence!Surjection, Sequence!IsInjective
      <3> QED BY Zenon, <2>1, <3>1 DEF Sequence!Sort, Sequence!Before
    <2>3. NULL \notin Sequence!Range(s)
      BY <1>9 DEF SortStep, Range, Sequence!Range
    <2> QED BY Zenon, <2>2, <2>3 DEF SequenceStep, Sequence!Next
  <1> QED BY <1>1, <1>2, <1>3, <1>4, <1>5, <1>7, <1>8, <1>9 DEF SequenceMoves

-----------------------------------------------------------------------------
(* The inductive invariant.                                                *)

(* The references h are enough for the first n of s, and as many as they   *)
(* are when no method was used.                                            *)
Owed(h, s, n, m) ==
  \A o \in Objs : h[o] >= Count(s, n, o) /\ (~m => h[o] = Count(s, n, o))

ListSound ==
  /\ slots \in Seq(Cells) /\ size \in 0..Len(slots)
  /\ tuple \in BOOLEAN /\ methods \in BOOLEAN
  /\ listHeld \in [Objs -> Nat]
  /\ Owed(listHeld, slots, size, methods)

ListInv ==
  /\ ListSound
  /\ todo \in Seq(Objs) /\ (todo # <<>> => methods)

LEMMA ItemsFacts ==
  ASSUME ListSound
  PROVE  /\ size \in Nat /\ Items \in Seq(Cells) /\ Len(Items) = size /\ DOMAIN Items = 1..size
         /\ \A i \in 1..size : Items[i] = slots[i] /\ slots[i] \in Cells
         /\ \A o : Times(o, Items) = Count(slots, size, o)
  <1>1. slots \in Seq(Cells) /\ size \in 0..Len(slots) /\ Len(slots) \in Nat
    BY LenProperties DEF ListSound
  <1>2. Items \in Seq(Cells) /\ Len(Items) = size /\ (\A i \in 1..size : Items[i] = slots[i])
        /\ \A o : Times(o, Items) = Count(slots, size, o)
    BY <1>1, FirstFacts DEF Items
  <1>3. size \in Nat /\ \A i \in 1..size : slots[i] \in Cells
    BY <1>1, LenProperties
  <1>4. DOMAIN Items = 1..size
    BY <1>2, LenProperties
  <1> QED BY <1>2, <1>3, <1>4

LEMMA ItemsNext ==
  ASSUME slots' \in Seq(Cells), size' \in 0..Len(slots')
  PROVE  /\ size' \in Nat /\ Items' \in Seq(Cells) /\ Len(Items') = size' /\ DOMAIN Items' = 1..size'
         /\ \A i \in 1..size' : Items'[i] = slots'[i]
  <1>1. Items' \in Seq(Cells) /\ Len(Items') = size' /\ (\A i \in 1..size' : Items'[i] = slots'[i])
    BY FirstFacts DEF Items
  <1>2. size' \in Nat
    BY LenProperties
  <1>3. DOMAIN Items' = 1..size'
    BY <1>1, LenProperties
  <1> QED BY <1>1, <1>2, <1>3

LEMMA CountNat ==
  ASSUME ListSound
  PROVE  \A o : Count(slots, size, o) \in Nat
  BY ItemsFacts, SpotsFinite

(* An insertion at i that takes n references.                              *)
LEMMA InsertKeeps ==
  ASSUME ListSound, NEW i \in 1..size + 1, NEW o \in Objs, NEW n \in {1, 2},
         Now(WithInserted(This, i, o)), Take(o, n),
         methods' \in BOOLEAN, ~methods' => ~methods /\ n = 1
  PROVE  /\ ListSound' /\ size' = size + 1
         /\ Items' = InsertAt(Items, i, o) /\ Shifted(Items, size, Items', i, o)
  <1>1. slots \in Seq(Cells) /\ size \in 0..Len(slots) /\ o \in Cells /\ size \in Nat
    BY ItemsFacts DEF ListSound, Cells
  <1>2. /\ slots' \in Seq(Cells) /\ size' = size + 1 /\ size' \in 0..Len(slots') /\ tuple' = tuple
        /\ Shifted(slots, size, slots', i, o)
    BY <1>1, InsertedFacts DEF Now, This
  <1>3. \A x : Count(slots', size', x) = Count(slots, size, x) + (IF x = o THEN 1 ELSE 0)
    BY <1>1, <1>2, ShiftedCount
  <1>4. \A x \in Objs : listHeld'[x] = listHeld[x] + (IF x = o THEN n ELSE 0)
    BY DEF Take, ListSound
  <1>5. listHeld' \in [Objs -> Nat]
    BY DEF Take, ListSound
  <1>6. Owed(listHeld', slots', size', methods')
    <2> SUFFICES ASSUME NEW x \in Objs
                 PROVE  /\ listHeld'[x] >= Count(slots', size', x)
                        /\ ~methods' => listHeld'[x] = Count(slots', size', x)
      BY DEF Owed
    <2>1. /\ listHeld[x] \in Nat /\ Count(slots, size, x) \in Nat
          /\ listHeld[x] >= Count(slots, size, x)
          /\ ~methods => listHeld[x] = Count(slots, size, x)
      BY CountNat DEF ListSound, Owed
    <2>2. listHeld'[x] >= Count(slots', size', x)
      BY <1>3, <1>4, <2>1
    <2>3. ASSUME ~methods' PROVE listHeld'[x] = Count(slots', size', x)
      <3>1. ~methods /\ n = 1
        BY <2>3
      <3> QED BY <1>3, <1>4, <2>1, <3>1
    <2> QED BY <2>2, <2>3
  <1>7. ListSound'
    BY <1>2, <1>5, <1>6 DEF ListSound
  <1>8. Items' = InsertAt(Items, i, o) /\ Shifted(Items, size, Items', i, o)
    <2>1. /\ Items' \in Seq(Cells) /\ Len(Items') = size + 1
          /\ \A j \in 1..size + 1 : Items'[j] = slots'[j]
      BY <1>2, ItemsNext
    <2>2. Items \in Seq(Cells) /\ Len(Items) = size /\ \A j \in 1..size : Items[j] = slots[j]
      BY ItemsFacts
    <2>3. Shifted(Items, size, Items', i, o)
      <3> SUFFICES ASSUME NEW j \in 1..size + 1
                   PROVE  Items'[j] = IF j < i THEN Items[j] ELSE IF j = i THEN o ELSE Items[j - 1]
        BY DEF Shifted
      <3>1. slots'[j] = IF j < i THEN slots[j] ELSE IF j = i THEN o ELSE slots[j - 1]
        BY <1>2 DEF Shifted
      <3>2. (j < i => j \in 1..size) /\ (j > i => j - 1 \in 1..size)
        BY <1>1
      <3>3. CASE j < i
        BY <2>1, <2>2, <3>1, <3>2, <3>3
      <3>4. CASE j = i
        BY <1>1, <2>1, <3>1, <3>4
      <3>5. CASE j > i
        <4>1. j - 1 \in 1..size /\ ~(j < i) /\ j # i
          BY <1>1, <3>2, <3>5
        <4>2. Items[j - 1] = slots[j - 1]
          BY <2>2, <4>1
        <4> QED BY <2>1, <3>1, <4>1, <4>2
      <3> QED BY <1>1, <3>3, <3>4, <3>5
    <2> QED BY <1>1, <2>1, <2>2, <2>3, InsertAtFacts
  <1> QED BY <1>2, <1>7, <1>8

(* Another list or tuple.                                                  *)
LEMMA BecomesKeeps ==
  ASSUME NEW s \in Seq(Cells), NEW b \in BOOLEAN, Becomes(s, b)
  PROVE  ListSound' /\ Items' = s
  <1>0. Len(s) \in Nat
    BY LenProperties
  <1>1. slots' = s /\ size' = Len(s) /\ Len(s) \in 0..Len(s) /\ tuple' = b /\ methods' = FALSE
    BY <1>0 DEF Becomes
  <1>2. \A o : Times(o, s) = Count(s, Len(s), o) /\ Times(o, s) \in Nat
    <2>1. SubSeq(s, 1, Len(s)) = s
      BY SubSeqFull
    <2>2. \A o : Times(o, SubSeq(s, 1, Len(s))) = Count(s, Len(s), o)
      BY <1>1, FirstFacts
    <2>3. \A o : Count(s, Len(s), o) \in Nat
      BY <1>0, SpotsFinite
    <2> QED BY <2>1, <2>2, <2>3
  <1>3. listHeld' \in [Objs -> Nat] /\ \A o \in Objs : listHeld'[o] = Count(s, Len(s), o) /\ listHeld'[o] \in Nat
    BY <1>2 DEF Becomes
  <1>4. Owed(listHeld', slots', size', methods')
    BY <1>1, <1>3 DEF Owed
  <1>5. Items' = s
    BY <1>1, SubSeqFull DEF Items
  <1> QED BY <1>1, <1>3, <1>4, <1>5 DEF ListSound

(* o replaces what was at i.                                               *)
LEMMA ExchangeKeeps ==
  ASSUME ListSound, NEW i \in 1..size, NEW o \in Objs,
         slots' = [slots EXCEPT ![i] = o],
         \A x \in Objs : listHeld'[x] = listHeld[x] + (IF x = o THEN 1 ELSE 0) - (IF x = slots[i] THEN 1 ELSE 0),
         DOMAIN listHeld' = Objs, listHeld' = [x \in Objs |-> listHeld'[x]],
         UNCHANGED <<size, tuple, methods>>
  PROVE  ListSound' /\ Items' = [Items EXCEPT ![i] = o]
  <1>1. /\ slots \in Seq(Cells) /\ size \in 0..Len(slots) /\ Len(slots) \in Nat /\ o \in Cells /\ size \in Nat
        /\ i \in 1..Len(slots)
    BY ItemsFacts, LenProperties DEF ListSound, Cells
  <1>2. slots' \in Seq(Cells) /\ Len(slots') = Len(slots) /\ \A j \in 1..Len(slots) : slots'[j] = IF j = i THEN o ELSE slots[j]
    BY <1>1, ExceptSeq
  <1>3. slots'[i] = o /\ \A j \in 1..size : slots'[j] = IF j = i THEN o ELSE slots[j]
    BY <1>1, <1>2
  <1>4. ASSUME NEW x
        PROVE  Count(slots', size, x) = Count(slots, size, x) + (IF x = o THEN 1 ELSE 0) - (IF x = slots[i] THEN 1 ELSE 0)
    <2>1. SameBut(slots, size, slots', i, o)
      BY <1>3 DEF SameBut
    <2> QED BY <1>1, <2>1, ExchangeCount
  <1>5. ASSUME NEW x \in Objs
        PROVE  /\ listHeld'[x] \in Nat
               /\ listHeld'[x] >= Count(slots', size', x)
               /\ ~methods' => listHeld'[x] = Count(slots', size', x)
    <2>1. /\ listHeld[x] \in Nat /\ Count(slots, size, x) \in Nat
          /\ listHeld[x] >= Count(slots, size, x)
          /\ ~methods => listHeld[x] = Count(slots, size, x)
      BY CountNat DEF ListSound, Owed
    <2> DEFINE a == IF x = o THEN 1 ELSE 0
               b == IF x = slots[i] THEN 1 ELSE 0
    <2>2. a \in Nat /\ b \in Nat
      OBVIOUS
    <2>3. listHeld'[x] = listHeld[x] + a - b /\ Count(slots', size', x) = Count(slots, size, x) + a - b
      BY <1>4
    <2>4. Count(slots', size', x) \in Nat
      BY <1>1, SpotsFinite
    <2> HIDE DEF a, b
    <2>5. listHeld'[x] - Count(slots', size', x) = listHeld[x] - Count(slots, size, x) /\ listHeld'[x] \in Int
      BY <2>1, <2>2, <2>3, <2>4
    <2>6. listHeld'[x] >= Count(slots', size', x) /\ listHeld'[x] \in Nat
      BY <2>1, <2>4, <2>5
    <2>7. ASSUME ~methods' PROVE listHeld'[x] = Count(slots', size', x)
      <3>1. listHeld[x] = Count(slots, size, x)
        BY <2>1, <2>7
      <3> QED BY <2>1, <2>4, <2>5, <3>1
    <2> QED BY <2>6, <2>7
  <1>6. listHeld' \in [Objs -> Nat]
    BY <1>5
  <1>7. Owed(listHeld', slots', size', methods')
    BY <1>5 DEF Owed
  <1>8. ListSound'
    BY <1>1, <1>2, <1>6, <1>7 DEF ListSound
  <1>9. Items' = [Items EXCEPT ![i] = o]
    <2>1. Items' \in Seq(Cells) /\ Len(Items') = size /\ \A j \in 1..size : Items'[j] = slots'[j]
      BY <1>1, <1>2, ItemsNext
    <2>2. Items \in Seq(Cells) /\ Len(Items) = size /\ \A j \in 1..size : Items[j] = slots[j]
      BY ItemsFacts
    <2>3. /\ [Items EXCEPT ![i] = o] \in Seq(Cells) /\ Len([Items EXCEPT ![i] = o]) = size
          /\ \A j \in 1..size : [Items EXCEPT ![i] = o][j] = IF j = i THEN o ELSE Items[j]
      BY <1>1, <2>2, ExceptSeq
    <2>4. \A j \in 1..size : [Items EXCEPT ![i] = o][j] = Items'[j]
      BY <1>3, <2>1, <2>2, <2>3
    <2> QED BY <2>1, <2>3, <2>4, SeqEqual
  <1> QED BY <1>8, <1>9

(* The items change places, their references stay.                         *)
LEMMA PermuteKeeps ==
  ASSUME ListSound, NEW p \in [1..size -> 1..size],
         \A i, j \in 1..size : p[i] = p[j] => i = j, \A j \in 1..size : \E i \in 1..size : p[i] = j,
         slots' = [i \in DOMAIN slots |-> IF i <= size THEN slots[p[i]] ELSE slots[i]],
         UNCHANGED <<size, tuple, listHeld, methods>>
  PROVE  ListSound' /\ Items' = [i \in 1..size |-> Items[p[i]]]
  <1>1. /\ slots \in Seq(Cells) /\ size \in 0..Len(slots) /\ Len(slots) \in Nat /\ size \in Nat
        /\ DOMAIN slots = 1..Len(slots) /\ \A i \in 1..Len(slots) : slots[i] \in Cells
    BY ItemsFacts, LenProperties DEF ListSound
  <1>2. \A i \in 1..Len(slots) : slots'[i] = IF i <= size THEN slots[p[i]] ELSE slots[i]
    BY <1>1
  <1>3. \A i \in 1..size : slots'[i] = slots[p[i]] /\ p[i] \in 1..size
    BY <1>1, <1>2
  <1>4. slots' \in Seq(Cells) /\ Len(slots') = Len(slots)
    <2>1. ASSUME NEW i \in 1..Len(slots) PROVE slots'[i] \in Cells
      <3>1. CASE i <= size
        <4>1. i \in 1..size /\ p[i] \in 1..size
          BY <1>1, <3>1
        <4>2. p[i] \in 1..Len(slots)
          BY <1>1, <4>1
        <4> QED BY <1>1, <1>3, <4>1, <4>2
      <3>2. CASE ~(i <= size)
        BY <1>1, <1>2, <3>2
      <3> QED BY <3>1, <3>2
    <2>2. slots' \in [1..Len(slots) -> Cells]
      BY <1>1, <2>1
    <2> QED BY <1>1, <2>2
  <1>5. ASSUME NEW o PROVE Count(slots', size, o) = Count(slots, size, o)
    <2>1. Permuted(slots, size, slots', p)
      BY <1>3 DEF Permuted
    <2> QED BY <1>1, <2>1, PermutedCount
  <1>6. ListSound'
    BY <1>1, <1>4, <1>5 DEF ListSound, Owed
  <1>7. Items' = [i \in 1..size |-> Items[p[i]]]
    <2>1. Items' \in Seq(Cells) /\ Len(Items') = size /\ \A j \in 1..size : Items'[j] = slots'[j]
      BY <1>1, <1>4, ItemsNext
    <2>2. \A j \in 1..size : Items[j] = slots[j]
      BY ItemsFacts
    <2>3. \A j \in 1..size : Items'[j] = Items[p[j]]
      BY <1>3, <2>1, <2>2
    <2>4. DOMAIN Items' = 1..size /\ Items' = [j \in DOMAIN Items' |-> Items'[j]]
      BY <2>1, LenProperties
    <2> QED BY <2>3, <2>4
  <1> QED BY <1>6, <1>7

-----------------------------------------------------------------------------
(* The steps.                                                              *)

LEMMA SingleTimes ==
  ASSUME NEW o, NEW x
  PROVE  Times(o, <<x>>) = IF x = o THEN 1 ELSE 0
  <1>1. CASE x = o
    <2>1. {i \in DOMAIN <<x>> : <<x>>[i] = o} = {1}
      BY <1>1
    <2> QED BY <1>1, <2>1, FS_Singleton DEF Times
  <1>2. CASE x # o
    <2>1. {i \in DOMAIN <<x>> : <<x>>[i] = o} = {}
      BY <1>2
    <2> QED BY <1>2, <2>1, FS_EmptySet DEF Times
  <1> QED BY <1>1, <1>2

LEMMA NoneCounted ==
  ASSUME NEW s, NEW o
  PROVE  Count(s, 0, o) = 0
  <1>1. Spots(s, 0, o) = {}
    BY DEF Spots
  <1> QED BY <1>1, FS_EmptySet DEF Count

LEMMA FullFacts ==
  ASSUME ListSound, Full
  PROVE  Items \in Seq(Objs)
  <1>1. /\ size \in Nat /\ Items \in Seq(Cells) /\ Len(Items) = size /\ DOMAIN Items = 1..size
        /\ \A i \in 1..size : Items[i] = slots[i] /\ slots[i] \in Cells
    BY ItemsFacts
  <1>2. \A i \in 1..size : Items[i] \in Range(Items) /\ Items[i] \in Cells
    BY <1>1 DEF Range
  <1>3. \A i \in 1..size : Items[i] \in Objs
    BY <1>2 DEF Full, Cells
  <1>4. Items = [i \in 1..size |-> Items[i]]
    BY <1>1
  <1>5. Items \in [1..size -> Objs]
    BY <1>3, <1>4
  <1> QED BY <1>1, <1>5

LEMMA GivenFacts ==
  ASSUME ListSound, Full, NEW s \in Given
  PROVE  s \in Seq(Objs)
  <1>1. CASE s = Items
    BY <1>1, FullFacts
  <1>2. CASE s \in BoundedSeq(Objs, MaxGiven)
    BY <1>2 DEF BoundedSeq, SeqOf
  <1> QED BY <1>1, <1>2 DEF Given

LEMMA InsertMoves ==
  ASSUME ListSound, NEW i \in 1..size + 1, NEW o \in Objs, Items' = InsertAt(Items, i, o)
  PROVE  SequenceMoves(Items, Items')
  <1>1. Len(Items) = size
    BY ItemsFacts
  <1> QED BY <1>1 DEF SequenceMoves

LEMMA AppendStays ==
  ASSUME ListSound, NEW o \in Objs, PyList_Append(o) \/ append(o)
  PROVE  ListSound' /\ SequenceMoves(Items, Items')
  <1>1. size \in Nat /\ size + 1 \in 1..size + 1
    BY ItemsFacts
  <1>2. PICK n \in {1, 2} : /\ Now(WithInserted(This, size + 1, o)) /\ Take(o, n)
                            /\ methods' \in BOOLEAN /\ (~methods' => ~methods /\ n = 1)
    <2>1. This.size = size
      BY DEF This
    <2>2. CASE PyList_Append(o)
      BY <2>1, <2>2 DEF PyList_Append, WithAppended, ListSound
    <2>3. CASE append(o)
      BY <2>1, <2>3 DEF append, WithAppended, Method
    <2> QED BY <2>2, <2>3
  <1>3. ListSound' /\ Items' = InsertAt(Items, size + 1, o)
    BY <1>1, <1>2, InsertKeeps
  <1> QED BY <1>1, <1>3, InsertMoves

LEMMA InsertStays ==
  ASSUME ListSound, NEW i \in Int, NEW o \in Objs, PyList_Insert(i, o) \/ insert(i, o)
  PROVE  ListSound' /\ SequenceMoves(Items, Items')
  <1>0. size \in Nat
    BY ItemsFacts
  <1>1. PICK k \in 1..size + 1 : k = Clamp(i, 0, size) + 1
    BY <1>0 DEF Clamp
  <1>2. PICK n \in {1, 2} : /\ Now(WithInserted(This, k, o)) /\ Take(o, n)
                            /\ methods' \in BOOLEAN /\ (~methods' => ~methods /\ n = 1)
    <2>1. CASE PyList_Insert(i, o)
      BY <1>1, <2>1 DEF PyList_Insert, ListSound
    <2>2. CASE insert(i, o)
      BY <1>1, <2>2 DEF insert, Method
    <2> QED BY <2>1, <2>2
  <1>3. ListSound' /\ Items' = InsertAt(Items, k, o)
    BY <1>1, <1>2, InsertKeeps
  <1> QED BY <1>1, <1>3, InsertMoves

LEMMA PutStays ==
  ASSUME ListSound, NEW i, NEW o \in Objs, SET_ITEM(i, o) \/ PyList_SetItem(i, o)
  PROVE  ListSound' /\ SequenceMoves(Items, Items')
  <1>1. /\ i \in 1..size /\ slots' = [slots EXCEPT ![i] = o] /\ UNCHANGED <<size, tuple, methods>>
    BY DEF SET_ITEM, PyList_SetItem
  <1>2. /\ \A x \in Objs : listHeld'[x] = listHeld[x] + (IF x = o THEN 1 ELSE 0) - (IF x = slots[i] THEN 1 ELSE 0)
        /\ DOMAIN listHeld' = Objs /\ listHeld' = [x \in Objs |-> listHeld'[x]]
    <2>1. listHeld \in [Objs -> Nat]
      BY DEF ListSound
    <2>2. CASE SET_ITEM(i, o)
      <3>1. slots[i] \notin Objs /\ listHeld' = [listHeld EXCEPT ![o] = @ + 1]
        BY <2>2 DEF SET_ITEM
      <3>2. ASSUME NEW x \in Objs
            PROVE  listHeld'[x] = listHeld[x] + (IF x = o THEN 1 ELSE 0) - (IF x = slots[i] THEN 1 ELSE 0)
        <4>1. x # slots[i] /\ listHeld[x] \in Nat /\ listHeld'[x] = IF x = o THEN listHeld[x] + 1 ELSE listHeld[x]
          BY <2>1, <3>1
        <4> QED BY <4>1
      <3>3. DOMAIN listHeld' = Objs /\ listHeld' = [x \in Objs |-> listHeld'[x]]
        BY <2>1, <3>1
      <3> QED BY <3>2, <3>3
    <2>3. CASE PyList_SetItem(i, o)
      BY <2>1, <2>3 DEF PyList_SetItem, Exchanged
    <2> QED BY <2>2, <2>3
  <1>3. ListSound' /\ Items' = [Items EXCEPT ![i] = o]
    BY <1>1, <1>2, ExchangeKeeps
  <1>4. i \in DOMAIN Items
    BY <1>1, ItemsFacts
  <1> QED BY <1>3, <1>4 DEF SequenceMoves

LEMMA SliceStays ==
  ASSUME ListSound, NEW lo \in Int, NEW hi \in Int, GetSlice(lo, hi)
  PROVE  ListSound' /\ SequenceMoves(Items, Items')
  <1>1. size \in Nat /\ slots \in Seq(Cells) /\ size \in 0..Len(slots) /\ Len(Items) = size /\ tuple \in BOOLEAN
    BY ItemsFacts DEF ListSound
  <1>2. PICK l \in 1..size + 1 : l = Clamp(lo, 0, size) + 1
    BY <1>1 DEF Clamp
  <1>3. PICK h \in 0..size : h = Clamp(hi, 0, size)
    BY <1>1 DEF Clamp
  <1>4. Becomes(SubSeq(slots, l, h), tuple)
    BY <1>2, <1>3 DEF GetSlice
  <1>5. SubSeq(slots, l, h) \in Seq(Cells) /\ SubSeq(slots, l, h) = SubSeq(Items, l, h)
    BY <1>1, SubFacts DEF Items
  <1>6. ListSound' /\ Items' = SubSeq(slots, l, h)
    BY <1>1, <1>4, <1>5, BecomesKeeps
  <1> QED BY <1>1, <1>5, <1>6 DEF SequenceMoves

LEMMA BecomesStays ==
  ASSUME ListSound, AsTuple \/ AsList
  PROVE  ListSound' /\ SequenceMoves(Items, Items')
  <1>1. Items \in Seq(Cells)
    BY ItemsFacts
  <1>2. PICK b \in BOOLEAN : Becomes(Items, b)
    BY DEF AsTuple, AsList
  <1>3. ListSound' /\ Items' = Items
    BY <1>1, <1>2, BecomesKeeps
  <1> QED BY <1>3 DEF SequenceMoves

LEMMA ConcatStays ==
  ASSUME ListSound, NEW s \in Given, concat(s)
  PROVE  ListSound' /\ SequenceMoves(Items, Items')
  <1>1. s \in Seq(Objs) /\ Items \in Seq(Cells) /\ Becomes(Items \o s, FALSE)
    BY GivenFacts, ItemsFacts DEF concat
  <1>2. s \in Seq(Cells)
    BY <1>1, SeqMonotonic DEF Cells
  <1>3. Items \o s \in Seq(Cells)
    BY <1>1, <1>2, ConcatProperties
  <1>4. ListSound' /\ Items' = Items \o s
    BY <1>1, <1>3, BecomesKeeps
  <1> QED BY <1>1, <1>4 DEF SequenceMoves

LEMMA ReverseStays ==
  ASSUME ListSound, PyList_Reverse
  PROVE  ListSound' /\ SequenceMoves(Items, Items')
  <1> DEFINE p == [i \in 1..size |-> size + 1 - i]
  <1>1. size \in Nat /\ Len(Items) = size /\ DOMAIN slots = 1..Len(slots) /\ Len(slots) \in Nat
    BY ItemsFacts, LenProperties DEF ListSound
  <1>2. \A i \in 1..size : p[i] \in 1..size /\ p[i] = size - i + 1 /\ p[i] = size + 1 - i
    BY <1>1
  <1>3. p \in [1..size -> 1..size]
    BY <1>2
  <1> HIDE DEF p
  <1>4. \A i, j \in 1..size : p[i] = p[j] => i = j
    BY <1>1, <1>2
  <1>5. ASSUME NEW j \in 1..size PROVE \E i \in 1..size : p[i] = j
    <2>1. PICK i \in 1..size : i = size + 1 - j
      BY <1>1
    <2>2. p[i] = j
      BY <1>1, <1>2, <2>1
    <2> QED BY <2>2
  <1>6. slots' = [i \in DOMAIN slots |-> IF i <= size THEN slots[p[i]] ELSE slots[i]]
    <2>1. \A i \in DOMAIN slots : i <= size => p[i] = size + 1 - i
      BY <1>1, <1>2
    <2>2. slots' = [i \in DOMAIN slots |-> IF i <= size THEN slots[size + 1 - i] ELSE slots[i]]
      BY DEF PyList_Reverse, Reversed
    <2> QED BY <2>1, <2>2
  <1>7. ListSound' /\ Items' = [i \in 1..size |-> Items[p[i]]]
    BY <1>3, <1>4, <1>5, <1>6, PermuteKeeps DEF PyList_Reverse
  <1>8. Items' = Reverse(Items)
    BY <1>1, <1>2, <1>7 DEF Reverse
  <1> QED BY <1>7, <1>8 DEF SequenceMoves

LEMMA SortStays ==
  ASSUME ListSound, sort
  PROVE  ListSound' /\ SequenceMoves(Items, Items')
  <1> DEFINE k == [j \in 1..size |-> SortKey[slots[j]]]
             p == [i \in 1..size |-> From(k, size, i)]
  <1>1. /\ size \in Nat /\ DOMAIN Items = 1..size /\ \A i \in 1..size : Items[i] = slots[i]
        /\ DOMAIN slots = 1..Len(slots) /\ Len(slots) \in Nat
    BY ItemsFacts, LenProperties DEF ListSound
  <1>2. \A j \in 1..size : slots[j] \in Objs
    <2>1. Items \in Seq(Objs) /\ Len(Items) = size
      BY FullFacts, ItemsFacts DEF sort
    <2> QED BY <1>1, <2>1, ElementOfSeq
  <1>3. k \in [1..size -> Int] /\ \A j \in 1..size : k[j] = SortKey[slots[j]]
    BY <1>2
  <1> HIDE DEF k
  <1>4. \A i \in 1..size : p[i] = From(k, size, i)
    OBVIOUS
  <1> HIDE DEF p
  <1>5. /\ \A i \in 1..size : p[i] \in 1..size
        /\ \A i, j \in 1..size : p[i] = p[j] => i = j
        /\ \A j \in 1..size : \E i \in 1..size : p[i] = j
        /\ \A i, j \in 1..size : i < j => k[p[i]] < k[p[j]] \/ (k[p[i]] = k[p[j]] /\ p[i] < p[j])
    <2>1. /\ \A i \in 1..size : From(k, size, i) \in 1..size
          /\ \A i, j \in 1..size : From(k, size, i) = From(k, size, j) => i = j
          /\ \A j \in 1..size : \E i \in 1..size : From(k, size, i) = j
          /\ \A i, j \in 1..size : i < j =>
               \/ k[From(k, size, i)] < k[From(k, size, j)]
               \/ k[From(k, size, i)] = k[From(k, size, j)] /\ From(k, size, i) < From(k, size, j)
      BY <1>1, <1>3, FromFacts
    <2>2. ASSUME NEW i \in 1..size, NEW j \in 1..size, i < j
          PROVE  k[p[i]] < k[p[j]] \/ (k[p[i]] = k[p[j]] /\ p[i] < p[j])
      <3>1. p[i] = From(k, size, i) /\ p[j] = From(k, size, j)
        BY <1>4
      <3>2. \/ k[From(k, size, i)] < k[From(k, size, j)]
            \/ k[From(k, size, i)] = k[From(k, size, j)] /\ From(k, size, i) < From(k, size, j)
        BY <2>1, <2>2
      <3> QED BY <3>1, <3>2
    <2>3. \A i, j \in 1..size : p[i] = p[j] => i = j
      BY <1>4, <2>1
    <2>4. \A j \in 1..size : \E i \in 1..size : p[i] = j
      BY Zenon, <1>4, <2>1
    <2>5. ASSUME NEW i \in 1..size PROVE p[i] \in 1..size
      BY <1>4, <2>1
    <2> QED BY <2>2, <2>3, <2>4, <2>5
  <1>6. p \in [1..size -> 1..size]
    BY <1>5 DEF p
  <1>7. ASSUME NEW i \in 1..size PROVE (CHOOSE j \in 1..size : Rank(j) = i) = p[i]
    <2>1. ASSUME NEW j \in 1..size PROVE Rank(j) = RankBy(k, size, j)
      <3>1. {q \in 1..size : \/ SortKey[slots[q]] < SortKey[slots[j]]
                             \/ SortKey[slots[q]] = SortKey[slots[j]] /\ q <= j} = Ahead(k, size, j)
        BY <1>3 DEF Ahead
      <3> QED BY <3>1 DEF Rank, RankBy
    <2>2. p[i] \in 1..size /\ RankBy(k, size, p[i]) = i
      <3>1. \E q \in 1..size : RankBy(k, size, q) = i
        BY <1>1, <1>3, RankFacts
      <3> QED BY <1>4, <3>1 DEF From
    <2>3. \A j \in 1..size : Rank(j) = i => j = p[i]
      <3>1. \A q, j \in 1..size : RankBy(k, size, q) = RankBy(k, size, j) => q = j
        BY <1>1, <1>3, RankFacts
      <3> QED BY <2>1, <2>2, <3>1
    <2>4. Rank(p[i]) = i
      BY <2>1, <2>2
    <2> QED BY <2>2, <2>3, <2>4
  <1>8. slots' = [i \in DOMAIN slots |-> IF i <= size THEN slots[p[i]] ELSE slots[i]]
    <2>1. \A i \in DOMAIN slots : i <= size => (CHOOSE j \in 1..size : Rank(j) = i) = p[i]
      BY <1>1, <1>7
    <2>2. slots' = [i \in DOMAIN slots |->
                      IF i <= size THEN slots[CHOOSE j \in 1..size : Rank(j) = i] ELSE slots[i]]
      BY DEF sort
    <2> QED BY <2>1, <2>2
  <1>9. ListSound' /\ Items' = [i \in 1..size |-> Items[p[i]]]
    BY <1>5, <1>6, <1>8, PermuteKeeps DEF sort
  <1>10. SortStep(Items, Items')
    <2>1. NULL \notin Range(Items)
      BY DEF sort, Full
    <2>2. \A i \in 1..size : SortKey[Items[p[i]]] = k[p[i]]
      BY <1>1, <1>3, <1>5
    <2>3. \A i, j \in 1..size : i < j =>
            \/ SortKey[Items[p[i]]] < SortKey[Items[p[j]]]
            \/ SortKey[Items[p[i]]] = SortKey[Items[p[j]]] /\ p[i] < p[j]
      BY <1>5, <2>2
    <2>4. DOMAIN Items = 1..size
      BY <1>1
    <2>5. p \in [DOMAIN Items -> DOMAIN Items]
      BY Zenon, <1>6, <2>4
    <2>6. \A i, j \in DOMAIN Items : p[i] = p[j] => i = j
      BY Zenon, <1>5, <2>4
    <2>7. \A j \in DOMAIN Items : \E i \in DOMAIN Items : p[i] = j
      BY Zenon, <1>5, <2>4
    <2>8. Items' = [i \in DOMAIN Items |-> Items[p[i]]]
      BY Zenon, <1>9, <2>4
    <2>9. \A i, j \in DOMAIN Items : i < j =>
            \/ SortKey[Items[p[i]]] < SortKey[Items[p[j]]]
            \/ SortKey[Items[p[i]]] = SortKey[Items[p[j]]] /\ p[i] < p[j]
      BY Zenon, <2>3, <2>4
    <2> QED BY Zenon, <2>1, <2>5, <2>6, <2>7, <2>8, <2>9 DEF SortStep
  <1> QED BY <1>9, <1>10 DEF SequenceMoves

(* What the clears leave: no items, fewer references.                      *)
LEMMA ClearStays ==
  ASSUME ListSound, list_clear \/ clear
  PROVE  ListSound' /\ SequenceMoves(Items, Items')
  <1>1. /\ size \in Nat /\ Len(Items) = size /\ Len(slots) \in Nat
        /\ \A o : Times(o, Items) = Count(slots, size, o)
    BY ItemsFacts, LenProperties DEF ListSound
  <1>2. slots' = Nulls(Len(slots)) /\ size' = 0 /\ tuple' = tuple /\ methods' \in BOOLEAN
    BY DEF list_clear, clear, ListSound
  <1>3. slots' \in Seq(Cells) /\ size' \in 0..Len(slots')
    BY <1>1, <1>2, NullsFacts
  <1>4. ASSUME NEW o \in Objs
        PROVE  listHeld'[o] \in Nat /\ (~methods' => listHeld'[o] = 0)
    <2>1. listHeld[o] \in Nat /\ Count(slots, size, o) \in Nat /\ listHeld[o] >= Count(slots, size, o)
          /\ (~methods => listHeld[o] = Count(slots, size, o))
      BY CountNat DEF ListSound, Owed
    <2>2. CASE list_clear
      <3>1. listHeld'[o] = listHeld[o] - Count(slots, size, o) /\ methods' = methods
        BY <1>1, <2>2 DEF list_clear
      <3> QED BY <2>1, <3>1
    <2>3. CASE clear
      BY <2>1, <2>3 DEF clear
    <2> QED BY <2>2, <2>3
  <1>5. listHeld' \in [Objs -> Nat]
    <2>1. DOMAIN listHeld' = Objs /\ listHeld' = [o \in Objs |-> listHeld'[o]]
      BY DEF list_clear, clear, ListSound
    <2> QED BY <1>4, <2>1
  <1>6. Owed(listHeld', slots', size', methods')
    BY <1>2, <1>4, NoneCounted DEF Owed
  <1>7. ListSound'
    BY <1>2, <1>3, <1>5, <1>6 DEF ListSound
  <1>8. Items' = SubSeq(Items, 1, 0)
    <2>1. Items' \in Seq(Cells) /\ Len(Items') = 0
      BY <1>2, <1>3, ItemsNext
    <2>2. SubSeq(Items, 1, 0) = << >>
      BY <1>1
    <2>3. Items' = << >>
      BY <2>1, EmptySeq
    <2> QED BY <2>2, <2>3
  <1>9. 1 \in 1..Len(Items) + 1 /\ 0 \in 0..Len(Items)
    BY <1>1
  <1> QED BY <1>7, <1>8, <1>9 DEF SequenceMoves

LEMMA PopStays ==
  ASSUME ListSound, NEW i \in Int, pop(i)
  PROVE  ListSound' /\ SequenceMoves(Items, Items')
  <1> DEFINE real == IF i < 0 THEN size + i ELSE i
  <1>1. /\ slots \in Seq(Cells) /\ size \in 0..Len(slots) /\ Len(slots) \in Nat /\ size \in Nat
        /\ DOMAIN slots = 1..Len(slots) /\ \A j \in 1..Len(slots) : slots[j] \in Cells
    BY ItemsFacts, LenProperties DEF ListSound
  <1>2. PICK r \in 1..size : PopAt(r) /\ Method
    <2>1. real \in 0..size - 1 /\ PopAt(real + 1) /\ Method
      BY DEF pop
    <2> HIDE DEF real
    <2>2. real + 1 \in 1..size
      BY <1>1, <2>1
    <2> QED BY <2>1, <2>2
  <1> HIDE DEF real
  <1>3. PICK n \in Nat : size = n + 1
    BY <1>1, <1>2
  <1>4. /\ size' = n /\ tuple' = tuple /\ methods' = TRUE
        /\ slots' = [j \in DOMAIN slots |-> IF j < r THEN slots[j] ELSE IF j < size THEN slots[j + 1] ELSE NULL]
    BY <1>2, <1>3 DEF PopAt, Method
  <1>5. \A j \in 1..Len(slots) :
          slots'[j] = IF j < r THEN slots[j] ELSE IF j < size THEN slots[j + 1] ELSE NULL
    BY <1>1, <1>4
  <1>6. slots' \in Seq(Cells) /\ Len(slots') = Len(slots)
    <2>1. ASSUME NEW j \in 1..Len(slots) PROVE slots'[j] \in Cells
      <3>1. CASE j < size
        <4>1. j + 1 \in 1..Len(slots)
          BY <1>1, <3>1
        <4> QED BY <1>1, <1>5, <3>1, <4>1
      <3>2. CASE ~(j < size)
        BY <1>1, <1>5, <3>2 DEF Cells
      <3> QED BY <3>1, <3>2
    <2>2. DOMAIN slots' = 1..Len(slots) /\ slots' = [j \in 1..Len(slots) |-> slots'[j]]
      BY <1>1, <1>4
    <2>3. slots' \in [1..Len(slots) -> Cells]
      BY <2>1, <2>2
    <2> QED BY <1>1, <2>3
  <1>7. size' \in 0..Len(slots')
    BY <1>1, <1>3, <1>4, <1>6
  <1>8. Shifted(slots', n, slots, r, slots[r])
    <2> SUFFICES ASSUME NEW j \in 1..n + 1
                 PROVE  slots[j] = IF j < r THEN slots'[j] ELSE IF j = r THEN slots[r] ELSE slots'[j - 1]
      BY DEF Shifted
    <2>1. CASE j < r
      BY <1>1, <1>3, <1>5, <2>1
    <2>2. CASE j = r
      BY <2>2
    <2>3. CASE j > r
      <3>1. PICK q \in 1..Len(slots) : q = j - 1
        BY <1>1, <1>3, <2>3
      <3>2. ~(q < r) /\ q < size /\ q + 1 = j
        BY <1>1, <1>3, <2>3, <3>1
      <3>3. slots'[q] = slots[q + 1]
        BY <1>5, <3>2
      <3> QED BY <2>3, <3>1, <3>2, <3>3
    <2> QED BY <1>1, <2>1, <2>2, <2>3
  <1>9. ASSUME NEW o PROVE Count(slots, size, o) = Count(slots', n, o) + (IF o = slots[r] THEN 1 ELSE 0)
    <2>1. r \in 1..n + 1
      BY <1>3
    <2>2. Count(slots, n + 1, o) = Count(slots', n, o) + (IF o = slots[r] THEN 1 ELSE 0)
      BY <1>8, <2>1, ShiftedCount
    <2> QED BY <1>3, <2>2
  <1>10. ASSUME NEW o \in Objs PROVE listHeld'[o] \in Nat /\ listHeld'[o] >= Count(slots', n, o)
    <2> DEFINE a == IF slots[size] = o THEN 1 ELSE 0
               b == IF slots[r] = o THEN 1 ELSE 0
    <2>1. listHeld'[o] = listHeld[o] + a - b
      BY <1>2, SingleTimes DEF PopAt
    <2>2. a \in Nat /\ b \in Nat /\ b = IF o = slots[r] THEN 1 ELSE 0
      OBVIOUS
    <2>3. listHeld[o] \in Nat /\ Count(slots, size, o) \in Nat /\ listHeld[o] >= Count(slots, size, o)
      BY CountNat DEF ListSound, Owed
    <2>4. Count(slots, size, o) = Count(slots', n, o) + b
      BY <1>9, <2>2
    <2>5. Count(slots', n, o) \in Nat
      BY SpotsFinite
    <2> HIDE DEF a, b
    <2> QED BY <2>1, <2>2, <2>3, <2>4, <2>5
  <1>11. listHeld' \in [Objs -> Nat]
    <2>1. DOMAIN listHeld' = Objs /\ listHeld' = [o \in Objs |-> listHeld'[o]]
      BY <1>2 DEF PopAt
    <2> QED BY <1>10, <2>1
  <1>12. ListSound'
    BY <1>4, <1>6, <1>7, <1>10, <1>11 DEF ListSound, Owed
  <1>13. Items' = RemoveAt(Items, r) /\ r \in DOMAIN Items
    <2>1. Items' \in Seq(Cells) /\ Len(Items') = n /\ \A j \in 1..n : Items'[j] = slots'[j]
      BY <1>4, <1>6, <1>7, ItemsNext
    <2>2. /\ Items \in Seq(Cells) /\ Len(Items) = n + 1 /\ DOMAIN Items = 1..n + 1
          /\ \A j \in 1..n + 1 : Items[j] = slots[j]
      BY <1>3, ItemsFacts
    <2>3. Shifted(Items', n, Items, r, Items[r])
      <3> SUFFICES ASSUME NEW j \in 1..n + 1
                   PROVE  Items[j] = IF j < r THEN Items'[j] ELSE IF j = r THEN Items[r] ELSE Items'[j - 1]
        BY DEF Shifted
      <3>1. slots[j] = IF j < r THEN slots'[j] ELSE IF j = r THEN slots[r] ELSE slots'[j - 1]
        BY <1>8 DEF Shifted
      <3>2. CASE j < r
        <4>1. j \in 1..n
          BY <1>3, <3>2
        <4> QED BY <2>1, <2>2, <3>1, <3>2, <4>1
      <3>3. CASE j = r
        BY <3>3
      <3>4. CASE j > r
        <4>1. PICK q \in 1..n : q = j - 1
          BY <3>4
        <4>2. ~(j < r) /\ j # r
          BY <3>4
        <4> QED BY <2>1, <2>2, <3>1, <4>1, <4>2
      <3> QED BY <3>2, <3>3, <3>4
    <2>4. r \in 1..Len(Items) /\ Len(Items') = Len(Items) - 1
      BY <1>3, <2>1, <2>2
    <2> QED BY <2>1, <2>2, <2>3, <2>4, RemoveAtFacts
  <1> QED BY <1>12, <1>13 DEF SequenceMoves

LEMMA StoreStays ==
  ASSUME ListSound, NEW i, NEW o \in Objs, StoreSubscr(i, o)
  PROVE  ListSound' /\ SequenceMoves(Items, Items')
  <1>1. CASE PyList_SetItem(i + 1, o)
    BY <1>1, PutStays
  <1>2. CASE Take(o, 1) /\ Method /\ UNCHANGED <<slots, size, tuple>>
    <2>1. listHeld' \in [Objs -> Nat] /\ \A x \in Objs : listHeld'[x] >= listHeld[x]
      BY <1>2 DEF Take, ListSound
    <2>2. ASSUME NEW x \in Objs PROVE listHeld'[x] >= Count(slots, size, x)
      <3>1. listHeld[x] \in Nat /\ listHeld'[x] \in Nat /\ listHeld'[x] >= listHeld[x]
        BY <2>1 DEF ListSound
      <3>2. Count(slots, size, x) \in Nat /\ listHeld[x] >= Count(slots, size, x)
        BY CountNat DEF ListSound, Owed
      <3> QED BY <3>1, <3>2
    <2>3. slots' = slots /\ size' = size /\ tuple' = tuple /\ methods' = TRUE
      BY <1>2 DEF Method
    <2>4. ListSound'
      BY <2>1, <2>2, <2>3 DEF ListSound, Owed
    <2>5. Items' = Items
      BY <2>3 DEF Items
    <2> QED BY <2>4, <2>5 DEF SequenceMoves
  <1> QED BY <1>1, <1>2 DEF StoreSubscr

LEMMA CallStays ==
  ASSUME ListSound, Call
  PROVE  ListSound' /\ SequenceMoves(Items, Items')
  <1>1. CASE \E o \in Objs : PyList_Append(o) \/ append(o)
    BY <1>1, AppendStays
  <1>2. CASE \E o \in Objs, i \in -1..MaxLen : PyList_Insert(i, o) \/ insert(i, o)
    BY <1>2, InsertStays
  <1>3. CASE \E o \in Objs, i \in -1..MaxLen : StoreSubscr(i, o)
    BY <1>3, StoreStays
  <1>4. CASE \E o \in Objs, i \in 1..MaxLen : SET_ITEM(i, o) \/ PyList_SetItem(i, o)
    BY <1>4, PutStays
  <1>5. CASE \E lo, hi \in -1..MaxLen : GetSlice(lo, hi)
    BY <1>5, SliceStays
  <1>6. CASE \E i \in -MaxLen..MaxLen : pop(i)
    BY <1>6, PopStays
  <1>7. CASE \E s \in Given : concat(s)
    BY <1>7, ConcatStays
  <1>8. CASE AsTuple \/ AsList
    BY <1>8, BecomesStays
  <1>9. CASE PyList_Reverse
    BY <1>9, ReverseStays
  <1>10. CASE list_clear \/ clear
    BY <1>10, ClearStays
  <1>11. CASE sort
    BY <1>11, SortStays
  <1> QED BY Zenon, <1>1, <1>2, <1>3, <1>4, <1>5, <1>6, <1>7, <1>8, <1>9, <1>10, <1>11 DEF Call

LEMMA ExtendStays ==
  ASSUME ListInv, todo = << >>, NEW s \in Given, extend(s)
  PROVE  ListInv' /\ SequenceMoves(Items \o todo, (Items \o todo)')
  <1>1. ListSound /\ Items \in Seq(Cells)
    BY ItemsFacts DEF ListInv
  <1>2. s \in Seq(Objs) /\ todo' = s /\ methods' = TRUE /\ UNCHANGED <<slots, size, tuple, listHeld>>
    BY <1>1, GivenFacts DEF extend, Method
  <1>3. ListSound'
    BY <1>1, <1>2 DEF ListSound, Owed
  <1>4. ListInv'
    BY <1>2, <1>3 DEF ListInv
  <1>5. Items' = Items /\ Items \o todo = Items
    BY <1>1, <1>2, ConcatEmptySeq DEF Items
  <1>6. (Items \o todo)' = Items \o s
    BY <1>2, <1>5
  <1> QED BY <1>2, <1>4, <1>5, <1>6 DEF SequenceMoves

LEMMA RepeatStays ==
  ASSUME ListInv, todo = << >>, repeat
  PROVE  ListInv' /\ SequenceMoves(Items \o todo, (Items \o todo)')
  <1>1. ListSound /\ Items \in Seq(Cells) /\ Items \in Seq(Objs)
    BY ItemsFacts, FullFacts DEF ListInv, repeat
  <1>2. /\ slots' = << >> /\ size' = 0 /\ tuple' = tuple /\ tuple \in BOOLEAN
        /\ listHeld' = [o \in Objs |-> 0] /\ methods' = TRUE /\ todo' = Items \o Items
    BY <1>1 DEF repeat, ListSound
  <1>3. slots' \in Seq(Cells) /\ size' \in 0..Len(slots')
    BY <1>2
  <1>4. Owed(listHeld', slots', size', methods')
    BY <1>2, NoneCounted DEF Owed
  <1>5. ListSound'
    BY <1>2, <1>3, <1>4 DEF ListSound
  <1>6. Items \o Items \in Seq(Objs)
    BY <1>1, ConcatProperties
  <1>7. Items' = << >>
    BY <1>3, <1>2, ItemsNext, EmptySeq
  <1>8. (Items \o todo)' = Items \o Items /\ Items \o todo = Items
    BY <1>1, <1>2, <1>6, <1>7, ConcatEmptySeq
  <1> QED BY <1>1, <1>2, <1>5, <1>6, <1>8 DEF ListInv, SequenceMoves

LEMMA NextStays ==
  ASSUME ListInv, AppendNext
  PROVE  ListInv' /\ (Items \o todo)' = Items \o todo
  <1>1. /\ ListSound /\ todo \in Seq(Objs) /\ todo # << >> /\ methods = TRUE
        /\ size \in Nat /\ Items \in Seq(Cells) /\ Len(Items) = size
    BY ItemsFacts DEF ListInv, AppendNext, ListSound
  <1>2. PICK o \in Objs : o = Head(todo)
    BY <1>1, HeadTailProperties
  <1>3. /\ Tail(todo) \in Seq(Objs) /\ Len(todo) \in Nat /\ Len(todo) > 0
        /\ Len(Tail(todo)) = Len(todo) - 1
        /\ \A i \in 1..Len(todo) - 1 : Tail(todo)[i] = todo[i + 1]
    <2>1. Len(todo) \in Nat /\ Len(todo) # 0
      BY <1>1, EmptySeq, LenProperties
    <2>2. Tail(todo) \in Seq(Objs) /\ Len(Tail(todo)) = Len(todo) - 1
          /\ \A i \in 1..Len(Tail(todo)) : Tail(todo)[i] = todo[i + 1]
      BY <1>1, HeadTailProperties
    <2> QED BY <2>1, <2>2
  <1>4. /\ Now(WithInserted(This, size + 1, o)) /\ Take(o, 2)
        /\ methods' = TRUE /\ todo' = Tail(todo)
    BY <1>1, <1>2 DEF AppendNext, WithAppended, This
  <1>5. size + 1 \in 1..size + 1
    BY <1>1
  <1>6. ListSound' /\ size' = size + 1 /\ Shifted(Items, size, Items', size + 1, o)
    BY <1>1, <1>4, <1>5, InsertKeeps
  <1>7. ListInv'
    BY <1>3, <1>4, <1>6 DEF ListInv
  <1>8. /\ Items' \in Seq(Cells) /\ Len(Items') = size + 1
        /\ \A i \in 1..size : Items'[i] = Items[i]
        /\ Items'[size + 1] = todo[1]
    <2>1. Items' \in Seq(Cells) /\ Len(Items') = size + 1
      <3>1. slots' \in Seq(Cells) /\ size' \in 0..Len(slots')
        BY <1>6 DEF ListSound
      <3> QED BY <1>6, <3>1, ItemsNext
    <2>2. Items'[size + 1] = o
      BY <1>1, <1>5, <1>6 DEF Shifted
    <2>3. ASSUME NEW i \in 1..size PROVE Items'[i] = Items[i]
      <3>1. i \in 1..size + 1 /\ i < size + 1
        BY <1>1
      <3> QED BY <1>6, <3>1 DEF Shifted
    <2>4. Head(todo) = todo[1]
      BY <1>1
    <2> QED BY <1>2, <2>1, <2>2, <2>3, <2>4
  <1> DEFINE n == Len(todo)
             a == Items \o todo
             b == Items' \o Tail(todo)
  <1>9. todo \in Seq(Cells) /\ Tail(todo) \in Seq(Cells)
    BY <1>1, <1>3, SeqMonotonic DEF Cells
  <1>10. /\ a \in Seq(Cells) /\ Len(a) = size + n
         /\ \A i \in 1..size + n : a[i] = IF i <= size THEN Items[i] ELSE todo[i - size]
    BY <1>1, <1>9, ConcatProperties
  <1>11. /\ b \in Seq(Cells) /\ Len(b) = size + n
         /\ \A i \in 1..size + n : b[i] = IF i <= size + 1 THEN Items'[i] ELSE Tail(todo)[i - (size + 1)]
    <2>1. /\ b \in Seq(Cells) /\ Len(b) = Len(Items') + Len(Tail(todo))
          /\ \A i \in 1..Len(Items') + Len(Tail(todo)) :
               b[i] = IF i <= Len(Items') THEN Items'[i] ELSE Tail(todo)[i - Len(Items')]
      BY <1>8, <1>9, ConcatProperties
    <2>2. Len(Items') + Len(Tail(todo)) = size + n
      BY <1>1, <1>3, <1>8
    <2> QED BY <1>8, <2>1, <2>2
  <1> HIDE DEF a, b
  <1>12. ASSUME NEW i \in 1..size + n PROVE b[i] = a[i]
    <2> HIDE DEF n
    <2>0. n \in Nat
      BY <1>3 DEF n
    <2>1. CASE i <= size
      <3>1. i \in 1..size /\ i <= size + 1
        BY <1>1, <2>0, <2>1
      <3> QED BY <1>8, <1>10, <1>11, <2>1, <3>1
    <2>2. CASE i = size + 1
      <3>1. ~(i <= size) /\ i <= size + 1 /\ i - size = 1
        BY <1>1, <2>2
      <3> QED BY <1>8, <1>10, <1>11, <2>2, <3>1
    <2>3. CASE i > size + 1
      <3>1. ~(i <= size) /\ ~(i <= size + 1)
        BY <1>1, <2>3
      <3>2. PICK j \in 1..n - 1 : j = i - (size + 1)
        BY <1>1, <2>0, <2>3
      <3>3. j + 1 = i - size
        BY <1>1, <3>2
      <3>4. Tail(todo)[j] = todo[j + 1]
        BY <1>3, <3>2 DEF n
      <3> QED BY <1>10, <1>11, <3>1, <3>2, <3>3, <3>4
    <2> QED BY <1>1, <2>0, <2>1, <2>2, <2>3
  <1>13. b = a
    BY <1>10, <1>11, <1>12, SeqEqual
  <1> QED BY <1>4, <1>7, <1>13 DEF a, b

LEMMA ListStays ==
  ASSUME ListInv, [ListNext]_listVars
  PROVE  ListInv' /\ SequenceStep
  <1>0. Items \o todo \in Seq(Cells)
    <2>1. Items \in Seq(Cells) /\ todo \in Seq(Cells)
      BY ItemsFacts, SeqMonotonic DEF ListInv, Cells
    <2> QED BY <2>1, ConcatProperties
  <1>1. CASE todo = << >> /\ Call /\ UNCHANGED todo
    <2>1. ListSound' /\ SequenceMoves(Items, Items')
      BY <1>1, CallStays DEF ListInv
    <2>2. ListInv' /\ todo' = << >>
      BY <1>1, <2>1 DEF ListInv
    <2>3. Items \in Seq(Cells) /\ Items' \in Seq(Cells)
      BY <2>1, ItemsFacts, ItemsNext DEF ListInv, ListSound
    <2>4. Items \o todo = Items /\ (Items \o todo)' = Items'
      BY <1>1, <2>2, <2>3, ConcatEmptySeq
    <2>5. SequenceMoves(Items \o todo, (Items \o todo)')
      BY Zenon, <2>1, <2>4
    <2> QED BY <1>0, <2>2, <2>5, MovesStep
  <1>2. CASE todo = << >> /\ \E s \in Given : extend(s)
    BY <1>0, <1>2, ExtendStays, MovesStep
  <1>3. CASE todo = << >> /\ repeat
    BY <1>0, <1>3, RepeatStays, MovesStep
  <1>4. CASE AppendNext
    BY <1>4, NextStays DEF SequenceStep
  <1>5. CASE UNCHANGED listVars
    <2>1. UNCHANGED <<slots, size, tuple, listHeld, methods, todo>>
      BY <1>5 DEF listVars
    <2> QED BY <2>1 DEF ListInv, ListSound, Owed, SequenceStep, Items
  <1> QED BY <1>1, <1>2, <1>3, <1>4, <1>5 DEF ListNext

LEMMA ListStarts ==
  ASSUME ListInit
  PROVE  ListInv /\ Sequence!Init
  <1>1. PICK n \in 0..MaxLen, b \in BOOLEAN : New(n, b)
    BY DEF ListInit
  <1>2. /\ slots = Nulls(n) /\ size = n /\ tuple = b /\ listHeld = [o \in Objs |-> 0]
        /\ methods = FALSE /\ todo = << >> /\ n \in Nat
    BY <1>1 DEF New
  <1>3. slots \in Seq(Cells) /\ Len(slots) = n /\ \A i \in 1..n : slots[i] = NULL
    BY <1>2, NullsFacts
  <1>4. ASSUME NEW o \in Objs PROVE Count(slots, n, o) = 0
    <2>1. Spots(slots, n, o) = {}
      BY <1>3 DEF Spots
    <2> QED BY <2>1, FS_EmptySet DEF Count
  <1>5. ListSound
    <2>1. Owed(listHeld, slots, size, methods)
      BY <1>2, <1>4 DEF Owed
    <2>2. size \in 0..Len(slots)
      BY <1>2, <1>3
    <2>3. listHeld \in [Objs -> Nat]
      BY <1>2
    <2> QED BY <1>2, <1>3, <2>1, <2>2, <2>3 DEF ListSound
  <1>6. ListInv
    BY <1>2, <1>5 DEF ListInv
  <1>7. Items \o todo = [i \in 1..n |-> NULL]
    <2>1. Items = slots
      BY <1>2, <1>3, SubSeqFull DEF Items
    <2> QED BY <1>2, <1>3, <2>1, ConcatEmptySeq DEF Nulls
  <1>8. Items \o todo \in [1..n -> {NULL}]
    BY <1>7
  <1> QED BY <1>6, <1>8 DEF Sequence!Init

-----------------------------------------------------------------------------
(* The theorems.                                                           *)

LEMMA ListAlways == ListSpec => []ListInv
  <1>1. ListInit => ListInv
    BY ListStarts
  <1>2. ListInv /\ [ListNext]_listVars => ListInv'
    BY ListStays
  <1> QED BY <1>1, <1>2, PTL DEF ListSpec

LEMMA ListInvOK == ListInv => ListTypeOK /\ ListHoldsItsMembers
  <1> SUFFICES ASSUME ListInv PROVE ListTypeOK /\ ListHoldsItsMembers
    OBVIOUS
  <1>1. ListTypeOK
    BY DEF ListInv, ListSound, ListTypeOK, Cells
  <1>2. \A o : Times(o, Items) = Count(slots, size, o)
    BY ItemsFacts DEF ListInv
  <1>3. ListHoldsItsMembers
    BY <1>2 DEF ListHoldsItsMembers, ListInv, ListSound, Owed
  <1> QED BY <1>1, <1>3

(* The array of a list or tuple holds its items and is as long as its size *)
(* says, after any calls of list.rs and of the list methods.               *)
THEOREM ListTyped == ListSpec => []ListTypeOK
  BY ListAlways, ListInvOK, PTL

(* A list or tuple owns a reference for each item it can be read, and only *)
(* the list methods of the eval loop leave it with more.                   *)
THEOREM ListHolds == ListSpec => []ListHoldsItsMembers
  BY ListAlways, ListInvOK, PTL

(* Whatever the array, its growth and what pop, clear and sort leave in    *)
(* it, a list is a sequence that the calls put into, insert into, delete   *)
(* from, extend, slice, reverse and sort.                                  *)
THEOREM ListImplements == ListSpec => ImplementsSequence
  <1>1. ListInit => Sequence!Init
    BY ListStarts
  <1>2. ListInv /\ [ListNext]_listVars => SequenceStep
    BY ListStays
  <1> QED BY <1>1, <1>2, ListAlways, PTL DEF ListSpec, ImplementsSequence, Sequence!Spec, SequenceStep

-----------------------------------------------------------------------------
(* Containers.                                                             *)
LEMMA Parts == Spec => DictSpec /\ SetSpec /\ ListSpec
  <1>1. Init => DictInit /\ SetInit /\ ListInit
    <2>1. New(0, FALSE) => ListInit
      <3>1. 0 \in 0..MaxLen /\ FALSE \in BOOLEAN
        BY ListAssumption
      <3> QED BY Zenon, <3>1 DEF ListInit
    <2> QED BY <2>1 DEF Init
  <1>2. [Next]_vars => [DictNext]_dictVars /\ [SetNext]_setVars /\ [ListNext]_listVars
    BY DEF Next, vars, DictStep, SetStep, ListStep
  <1> QED BY <1>1, <1>2, PTL DEF Spec, DictSpec, SetSpec, ListSpec

(* The tables, arrays, counts and references of every container have their *)
(* types, in the middle of a resize, a merge or an extension too.          *)
THEOREM ContainersTyped == Spec => []TypeOK
  BY Parts, DictTyped, SetTyped, ListTyped, PTL DEF TypeOK

(* Probing ends in dicts and sets of any keys, hashes and sizes, and comes *)
(* to the entry of the key, whatever was deleted and however they grew.    *)
THEOREM ContainersFind == Spec => []EntriesFound
  BY Parts, SearchesEnd, SearchesFind, SetSearchesEnd, SetSearchesFind, PTL DEF EntriesFound

(* ma_used, fill and used count what is there.                             *)
THEOREM ContainersCount == Spec => []CountsExact
  BY Parts, UsedIsExact, SetCounts, PTL DEF CountsExact

(* A container owns a reference for each member, so none is freed under    *)
(* it, and gives up what it loses.                                         *)
THEOREM ContainersHold == Spec => []HoldsItsMembers
  BY Parts, DictHoldsMembers, SetHoldsMembers, ListHolds, PTL DEF HoldsItsMembers

(* PyDict_Next comes to each item that stays exactly once.                 *)
THEOREM ContainersIterate == Spec => []IterationComplete
  BY Parts, IterationsComplete, PTL

(* Dicts are maps in the order of insertion, sets are sets, and lists are  *)
(* sequences, whatever the calls on them and however they grow.            *)
THEOREM ContainersImplement == Spec => ImplementsContracts
  BY Parts, DictImplements, SetImplements, ListImplements, PTL DEF ImplementsContracts
=============================================================================
