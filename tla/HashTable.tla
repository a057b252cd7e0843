------------------------------ MODULE HashTable ------------------------------
(***************************************************************************)
(* hash_table.h: entries in one array, found by probing from the slot of   *)
(* their hash.  Slots are counted from 0 as in the code.  Growing adds the *)
(* entries again one by one, through the function that asked for it and    *)
(* may ask again: the calls of resize that have not returned are a stack,  *)
(* and every entry they add is a step.                                     *)
(***************************************************************************)
EXTENDS Integers, Sequences, SequencesExt, FiniteSets, FiniteSetsExt

CONSTANTS
    Keys, Values,
    Pairs,              \* keys and values to set
    Hash,               \* get_hash of each key; an integer hashes to itself
    Absent,             \* no value
    MINIMUM_SIZE, LOAD_FACTOR_PERCENT,
    Reservations,       \* sizes a user asks resize for
    Sizes               \* powers of two up to a bound on what is allocated

FIRST_VALID_HASH == 2
Unused == [Hash |-> 0]  \* a slot that is not used

HashTableAssumption ==
    /\ Pairs \subseteq Keys \X Values /\ Absent \notin Values
    /\ Hash \in [Keys -> Nat]
    /\ LOAD_FACTOR_PERCENT \in 51 .. 99
    /\ MINIMUM_SIZE \in Sizes /\ MINIMUM_SIZE * (LOAD_FACTOR_PERCENT - 50) > 100
    /\ Reservations \subseteq Nat
    /\ IsFiniteSet(Sizes) /\ Sizes \subseteq Nat \ {0}

VARIABLES
    table,          \* [Entries, Count, SlotsFilled, Allocated]
    resizing,       \* the calls of resize that run, the innermost last: the
                    \* old entries, the slots still to add from, and the entry
                    \* that add_prehashed adds when it is done
    last            \* of each key: the value set last, for the properties

vars == <<table, resizing, last>>

NewTable == [Entries |-> [i \in {} |-> 0], Count |-> 0, SlotsFilled |-> 0, Allocated |-> 0]

CeilPow2(n) == Min({p \in Sizes : p >= n})

(* Entries is a function from slots.                                       *)
Used(t) == {i \in 0..(t.Allocated - 1) : t.Entries[i].Hash >= FIRST_VALID_HASH}

(* The slot n after a hash's own, where an index starts over behind the    *)
(* last slot.                                                              *)
SlotAt(t, hash, n) ==
    LET i == (hash % t.Allocated) + n IN IF i >= t.Allocated THEN i - t.Allocated ELSE i

-----------------------------------------------------------------------------
(* add_prehashed takes the first unused slot from the hash's own on.       *)
FreeSlotNoWrap(t, hash) ==              \* mutant: the last slot is taken over
    Min({i \in (hash % t.Allocated) .. (t.Allocated - 1) :
            t.Entries[i] = Unused \/ i = t.Allocated - 1})
FreeSlot(t, hash) ==
    SlotAt(t, hash, Min({n \in 0..(t.Allocated - 1) : t.Entries[SlotAt(t, hash, n)] = Unused}))

ValidHash(hash) ==
    IF hash < FIRST_VALID_HASH THEN hash + FIRST_VALID_HASH ELSE hash

Entry(hash, k, v) == [Hash |-> ValidHash(hash), Key |-> k, Value |-> v]

Placed(t, e) ==
    [t EXCEPT !.Entries[FreeSlot(t, e.Hash)] = e, !.Count = @ + 1, !.SlotsFilled = @ + 1]

MustGrow(t) ==
    (t.SlotsFilled + 1) * 100 >= t.Allocated * LOAD_FACTOR_PERCENT

(* resize leaves Count and SlotsFilled as they are: adding the entries     *)
(* again counts them again.                                                *)
Fresh(t, target) ==
    [t EXCEPT !.Entries = [i \in 0..(target - 1) |-> Unused], !.Allocated = target]

Target(slotsToAllocate) == Max({CeilPow2(slotsToAllocate), MINIMUM_SIZE})

(* resize, up to where it adds the old entries again; e is for afterwards. *)
Resized(slotsToAllocate, calls, e) ==
    /\ \E p \in Sizes : p >= slotsToAllocate
    /\ table' = Fresh(table, Target(slotsToAllocate))
    /\ resizing' = Append(calls, [old |-> table.Entries, left |-> Used(table), then |-> e])

(* add_prehashed, with these calls of resize around it.                    *)
AddPrehashed(e, calls) ==
    IF MustGrow(table) /\ table.SlotsFilled * 2 >= table.Allocated
    THEN Resized(table.SlotsFilled * 2, calls, e)
    ELSE table' = Placed(table, e) /\ resizing' = calls

(* search_prehashed: the slot, or -1.  The hash is looked for as it is.    *)
Search(t, hash, k) ==
    LET Ends(n) == LET e == t.Entries[SlotAt(t, hash, n)]
                   IN  e = Unused \/ (e.Hash = hash /\ e.Key = k)
        ends == {n \in 0..(t.Allocated - 1) : Ends(n)}
        slot == SlotAt(t, hash, Min(ends))
    IN  IF t.Count = 0 \/ ends = {} THEN -1 ELSE IF t.Entries[slot] = Unused THEN -1 ELSE slot

Find(t, k) == LET slot == Search(t, Hash[k], k)
              IN  IF slot = -1 THEN Absent ELSE t.Entries[slot].Value

-----------------------------------------------------------------------------
Init == table = NewTable /\ resizing = << >> /\ last = [k \in Keys |-> Absent]

Returned == resizing = << >>

Set(k, v) ==
    /\ Returned
    /\ LET slot == Search(table, Hash[k], k) IN
       IF slot # -1
       THEN table' = [table EXCEPT !.Entries[slot].Value = v] /\ UNCHANGED resizing
       ELSE AddPrehashed(Entry(Hash[k], k, v), << >>)
    /\ last' = [last EXCEPT ![k] = v]

Resize(n) ==
    /\ Returned
    /\ n >= table.Allocated /\ Resized(n, << >>, Unused)
    /\ UNCHANGED last

(* Inside resize: the next old entry, or, behind the last one, the entry   *)
(* that the table grew for.                                                *)
AddNext ==
    /\ ~Returned
    /\ LET call == Last(resizing)
           slot == Min(call.left)
       IN  IF call.left # {}
           THEN AddPrehashed(call.old[slot],
                             [resizing EXCEPT ![Len(resizing)].left = @ \ {slot}])
           ELSE /\ table' = IF call.then = Unused THEN table ELSE Placed(table, call.then)
                /\ resizing' = Front(resizing)
    /\ UNCHANGED last

(* clone adds what the iterator yields to an empty table, which is used    *)
(* from here on.                                                           *)
Clone ==
    /\ Returned
    /\ table' = NewTable
    /\ resizing' = <<[old |-> [i \in Used(table) |->
                                  LET e == table.Entries[i] IN Entry(Hash[e.Key], e.Key, e.Value)],
                      left |-> Used(table), then |-> Unused]>>
    /\ UNCHANGED last

Nothing == last' = [k \in Keys |-> Absent]

Reset ==
    /\ Returned
    /\ table' = [table EXCEPT !.Count = 0, !.SlotsFilled = 0,
                              !.Entries = [i \in DOMAIN @ |-> Unused]]
    /\ UNCHANGED resizing /\ Nothing

Free == Returned /\ table' = NewTable /\ UNCHANGED resizing /\ Nothing

Next == \/ \E p \in Pairs : Set(p[1], p[2])
        \/ \E n \in Reservations : Resize(n)
        \/ AddNext
        \/ Clone
        \/ Reset
        \/ Free

Spec == Init /\ [][Next]_vars

-----------------------------------------------------------------------------
(* Whatever was set and however often the table grew, even in the middle   *)
(* of growing, and in a clone, a search finds the value set last, and no   *)
(* key that was never set.  It never finds a key whose hash is one of the  *)
(* marks for unused and removed slots: "When looking up a value we perform *)
(* the same process" is not so, search_prehashed does not move such a hash *)
(* up.                                                                     *)
FindsLast ==
    Returned => \A k \in Keys :
                    Find(table, k) = IF Hash[k] < FIRST_VALID_HASH THEN Absent ELSE last[k]

(* "the hash table can never be full": less than LOAD_FACTOR_PERCENT of    *)
(* the slots are used, which is what ends the search for a free one.       *)
NeverFull ==
    Used(table) # {} =>
        Cardinality(Used(table)) * 100 < table.Allocated * LOAD_FACTOR_PERCENT

(* "Number of slots in use".  Not kept: growing counts entries again.      *)
CountIsUsed == table.Count = Cardinality(Used(table))
=============================================================================
