------------------------------ MODULE FlatMap ------------------------------
(***************************************************************************)
(* FlatMap (util/gtl/flatmap.h), FlatSet (flatset.h) and the hash table    *)
(* under both (flatrep.h): slots in buckets of kWidth, found by quadratic  *)
(* probing.  A slot is empty, deleted, or has a mark made of eight bits of *)
(* the key's hash.  A FlatSet is the same with nothing for a value.        *)
(*                                                                         *)
(* Slots are numbered over all buckets.  A fresh table is made for more    *)
(* entries than it is meant to have, and is replaced when deleted and used *)
(* slots fill four fifths of it.                                           *)
(***************************************************************************)
EXTENDS Integers, FiniteSets, FiniteSetsExt

CONSTANTS
  Keys, Values,
  kBase,           \* 3: buckets have 1 << kBase slots
  LowBits(_),      \* of a key's hash, kept in the mark: 0..255
  HighBits(_),     \* those that say where the search starts
  SizeMod,         \* the numbers of a size_t
  MaxCapacity      \* bound: tables larger than that are not made

(* 1 << lg *)
Shift(lg) ==
  LET shifted[g \in 0..lg] == IF g = 0 THEN 1 ELSE 2 * shifted[g - 1]
  IN  shifted[lg]

kWidth == Shift(kBase)

ASSUME HashAssumption ==
  /\ IsFiniteSet(Keys)
  /\ \A k \in Keys : LowBits(k) \in 0..255 /\ HighBits(k) \in Nat

(* A size_t tells the sizes of all tables apart.                           *)
ASSUME SizeAssumption ==
  /\ kBase \in Nat
  /\ MaxCapacity \in Nat /\ SizeMod \in Nat /\ MaxCapacity < SizeMod

VARIABLES
  table,     \* [slots, not_empty, deleted, grow, shrink]
  call       \* the last call of it: <<operation, key, value>>

vars == <<table, call>>

kEmpty   == 0
kDeleted == 1

(* Mutant: the bits of the hash as they are. *)
MarkerUnshifted(k) == LowBits(k)

(* Marker: hashes keep clear of the two marks that mean no entry. *)
Marker(k) == LowBits(k) + IF LowBits(k) < 2 THEN 2 ELSE 0

Slot(mark, k, v) == [mark |-> mark, key |-> k, val |-> v]
Vacant(mark)     == [mark |-> mark, key |-> 0, val |-> 0]
Used(slot)       == slot.mark >= 2

Capacity(t) == Cardinality(DOMAIN t.slots)       \* mask_ + 1
size(t)     == (t.not_empty - t.deleted) % SizeMod

(* Init(N): the smallest power of two of buckets that n entries do not     *)
(* fill four fifths of.                                                    *)
Fresh(n) ==
  LET lg == CHOOSE g \in 0..n :
                    /\ 10 * n < 8 * (Shift(g) * kWidth)
                    /\ \A f \in 0..g - 1 : 10 * n >= 8 * (Shift(f) * kWidth)
      capacity == Shift(lg) * kWidth
      grow     == (8 * capacity) \div 10
  IN  [slots     |-> [i \in 0..capacity - 1 |-> Vacant(kEmpty)],
       not_empty |-> 0, deleted |-> 0, grow |-> grow,
       shrink    |-> IF lg = 0 THEN 0 ELSE (4 * grow) \div 10]

(* The slot of the n-th probe: NextIndex adds n to the one before it. *)
Probe(t, k, n) == (HighBits(k) + (n * (n + 1)) \div 2) % Capacity(t)

Matches(slot, k) == slot.mark = Marker(k) /\ slot.key = k

(* Mutant: a search ends at a deleted slot. *)
StopsAtDeleted(t, k) == {n \in 0..2 * Capacity(t) - 1 :
                           \/ Matches(t.slots[Probe(t, k, n)], k)
                           \/ ~Used(t.slots[Probe(t, k, n)])}

(* Find and FindOrInsert probe until they meet the key or an empty slot.   *)
(* The slots repeat after twice the capacity.                              *)
Stops(t, k) == {n \in 0..2 * Capacity(t) - 1 :
                  \/ Matches(t.slots[Probe(t, k, n)], k)
                  \/ t.slots[Probe(t, k, n)].mark = kEmpty}

LastProbe(t, k) == Min(Stops(t, k))
FoundAt(t, k)   == Probe(t, k, LastProbe(t, k))
Find(t, k)      == Matches(t.slots[FoundAt(t, k)], k)

DeletedProbes(t, k) == {n \in 0..LastProbe(t, k) - 1 :
                          t.slots[Probe(t, k, n)].mark = kDeleted}

(* A new key takes the first deleted slot on the way. *)
Inserted(t, k, v) ==
  IF DeletedProbes(t, k) = {}
    THEN [t EXCEPT !.slots[FoundAt(t, k)] = Slot(Marker(k), k, v),
                   !.not_empty = @ + 1]
    ELSE [t EXCEPT !.slots[Probe(t, k, Min(DeletedProbes(t, k)))] =
                     Slot(Marker(k), k, v),
                   !.deleted = (@ - 1) % SizeMod]

(* FreshInsert: into a table without deleted slots and without the key. *)
FreshInsert(t, entry) ==
  LET n == Min({p \in 0..2 * Capacity(t) - 1 :
                  t.slots[Probe(t, entry.key, p)].mark = kEmpty})
  IN  [t EXCEPT !.slots[Probe(t, entry.key, n)] =
                  Slot(Marker(entry.key), entry.key, entry.val),
                !.not_empty = @ + 1]

(* CopyEntries, in the order of the slots. *)
Copied(into, t) ==
  LET copied[i \in 0..Capacity(t)] ==
        IF i = 0 THEN into
        ELSE IF Used(t.slots[i - 1])
        THEN FreshInsert(copied[i - 1], t.slots[i - 1])
        ELSE copied[i - 1]
  IN  copied[Capacity(t)]

Resized(t, n) == Copied(Fresh(n), t)

(* Mutant: deleted slots do not count for the size of the table. *)
MaybeResizeByEntries(t) ==
  IF size(t) < (8 * Capacity(t)) \div 10 THEN t ELSE Resized(t, size(t) + 1)

(* MaybeResize: grow is zero after an erase, to look for a chance to       *)
(* shrink first.                                                           *)
MaybeResize(t) ==
  LET grow == IF t.grow = 0 /\ size(t) >= t.shrink
                THEN (8 * Capacity(t)) \div 10 ELSE t.grow
  IN  IF t.not_empty < grow THEN [t EXCEPT !.grow = grow]
      ELSE Resized(t, size(t) + 1)

Erased(t, i) == [t EXCEPT !.slots[i] = Vacant(kDeleted),
                          !.deleted = @ + 1, !.grow = 0]

(* clear_no_resize: slots that were deleted stay so and are not counted. *)
Emptied(t) == [t EXCEPT !.slots = [i \in DOMAIN t.slots |->
                                     IF Used(t.slots[i]) THEN Vacant(kEmpty)
                                     ELSE t.slots[i]],
                        !.not_empty = 0, !.deleted = 0]

-----------------------------------------------------------------------------
Put(op, k, v, t) == /\ Capacity(t) <= MaxCapacity
                    /\ table' = t
                    /\ call' = <<op, k, v>>

(* insert and emplace leave the value of a key there is. *)
Insert(k, v) == LET t == MaybeResize(table)
                IN  Put("insert", k, v,
                        IF Find(t, k) THEN t ELSE Inserted(t, k, v))

(* operator[] and an assignment to what it returns. *)
IndexOp(k, v) ==
  LET t == MaybeResize(table)
  IN  Put("assign", k, v,
          IF Find(t, k) THEN [t EXCEPT !.slots[FoundAt(t, k)].val = v]
          ELSE Inserted(t, k, v))

Erase(k) == Put("erase", k, 0, IF Find(table, k)
                                 THEN Erased(table, FoundAt(table, k))
                                 ELSE table)

(* Erasing while iterating: the iterator goes on behind the erased slot.   *)
EraseIf(v) ==
  LET erased[i \in 0..Capacity(table)] ==
        IF i = 0 THEN table
        ELSE IF Used(table.slots[i - 1]) /\ table.slots[i - 1].val = v
        THEN Erased(erased[i - 1], i - 1)
        ELSE erased[i - 1]
  IN  Put("erase all", 0, v, erased[Capacity(table)])

Clear == Put("clear", 0, 0, MaybeResize([Emptied(table) EXCEPT !.grow = 0]))

(* reserve, resize, rehash. *)
Reserve(n) == Put("reserve", 0, 0, Resized(table, Max({n, size(table)})))

(* The copy constructor, and the assignment, which forgets all the table   *)
(* it assigns to had before: the copy goes on in place of the original.    *)
(* Moves and swaps exchange all fields of two tables.                      *)
Copy == Put("copy", 0, 0, Copied(Fresh(size(table)), table))

Init == /\ \E n \in 0..Cardinality(Keys) : table = Fresh(n)
        /\ Capacity(table) <= MaxCapacity
        /\ call = <<"none", 0, 0>>

Change ==
  \/ \E k \in Keys, v \in Values : Insert(k, v) \/ IndexOp(k, v)
  \/ \E k \in Keys : Erase(k)
  \/ \E v \in Values : EraseIf(v)
  \/ \E n \in 0..Cardinality(Keys) : Reserve(n)
  \/ Copy

(* Nothing in the plugin clears such a map; in a table of one bucket with  *)
(* deleted slots it breaks the counts.                                     *)
NoTombstones ==
  \A i \in DOMAIN table.slots : table.slots[i].mark # kDeleted

Next == Change \/ (NoTombstones /\ Clear)
Spec == Init /\ [][Next]_vars

NextWithClear == Change \/ Clear
SpecWithClear == Init /\ [][NextWithClear]_vars

-----------------------------------------------------------------------------
(* "Count of entries with marker != kEmpty", "Count of entries with marker *)
(* == kDeleted" (flatrep.h): what resizing decides by.                     *)
Marked(mark) == {i \in DOMAIN table.slots : table.slots[i].mark = mark}

Counted ==
  /\ table.not_empty = Capacity(table) - Cardinality(Marked(kEmpty))
  /\ table.deleted = Cardinality(Marked(kDeleted))

(* Searches end: there is always an empty slot, because deleted slots are  *)
(* counted, exactly, with the used ones until the table is made anew       *)
(* (Find, FindOrInsert and FreshInsert have no other bound).               *)
SearchesEnd == Counted /\ \A k \in Keys : Stops(table, k) # {}

(* Whatever was probed, deleted, resized or copied, Find finds the one     *)
(* entry of each key that an iteration over the slots visits.              *)
At(k) == {i \in DOMAIN table.slots :
            Used(table.slots[i]) /\ table.slots[i].key = k}

FoundOnce ==
  \A k \in Keys : At(k) = IF Find(table, k) THEN {FoundAt(table, k)} ELSE {}

(* And the entries are those of a map: every call of Next does to them     *)
(* what it says, and none is lost on the way or in a new table.            *)
Map == [k \in {k \in Keys : At(k) # {}} |->
          table.slots[CHOOSE i \in At(k) : TRUE].val]

Meant == INSTANCE Dictionary WITH map <- Map
ImplementsDictionary == Meant!Spec
=============================================================================
