--------------------------- MODULE HashTableProofs ---------------------------
(***************************************************************************)
(* The hash table of MCContainers, proved for any keys, hashes, sizes and  *)
(* load factors: a search finds what was set last.  What its slots hold is *)
(* findable, counted and once there, also in the tables that a growth is   *)
(* still to move out of.                                                   *)
(***************************************************************************)
EXTENDS MCContainers, FiniteSetTheorems, SequenceTheorems, WellFoundedInduction, TLAPS

-----------------------------------------------------------------------------
(* Numbers and sequences, for the proofs of the other containers too.      *)

(* A set of numbers with 0 and every successor holds them all.             *)
LEMMA SetInduction ==
    ASSUME NEW S, 0 \in S, \A n \in Nat : n \in S => n + 1 \in S
    PROVE  Nat \subseteq S
<1> SUFFICES ASSUME Nat \ S # {} PROVE FALSE
  OBVIOUS
<1> DEFINE Less == {x \in Nat \X Nat : x[1] < x[2]}
<1>1. IsWellFoundedOn(Less, Nat)
  <2>1. OpToRel(<, Nat) = Less
    BY Zenon DEF OpToRel
  <2> QED BY <2>1, NatLessThanWellFounded
<1>2. PICK x \in Nat \ S : \A y \in Nat \ S : ~(<<y, x>> \in Less)
  BY <1>1, WFMin
<1>3. x - 1 \in Nat /\ x - 1 < x
  BY <1>2
<1>4. x - 1 \in S
  BY <1>2, <1>3
<1> QED BY <1>2, <1>3, <1>4

(* A set of numbers has a least one, and one with a bound a greatest.      *)
LEMMA Least == ASSUME NEW S, S \subseteq Nat, S # {} PROVE \E x \in S : \A y \in S : x <= y
<1> DEFINE R == {n \in Nat : \A x \in S : n <= x}
<1> SUFFICES ASSUME \A x \in S : \E y \in S : ~(x <= y) PROVE FALSE
  OBVIOUS
<1>1. 0 \in R
  OBVIOUS
<1>2. \A n \in Nat : n \in R => n + 1 \in R
  <2> SUFFICES ASSUME NEW n \in Nat, n \in R PROVE n + 1 \in R
    OBVIOUS
  <2>1. n \notin S
    BY DEF R
  <2> QED BY <2>1
<1>3. Nat \subseteq R
  <2> HIDE DEF R
  <2> QED BY <1>1, <1>2, SetInduction
<1>4. PICK x : x \in S
  OBVIOUS
<1>5. x + 1 \in R
  BY <1>3, <1>4
<1> QED BY <1>4, <1>5

LEMMA Greatest ==
    ASSUME NEW S, S \subseteq Int, S # {}, NEW b \in Int, \A x \in S : x <= b
    PROVE  \E x \in S : \A y \in S : y <= x
<1> DEFINE R == {b - x : x \in S}
<1>0. R \subseteq Nat
  OBVIOUS
<1>1. R \subseteq Nat /\ R # {}
  <2>1. PICK x : x \in S
    OBVIOUS
  <2>2. b - x \in R
    BY <2>1
  <2> QED BY <1>0, <2>2
<1>2. PICK d \in R : \A y \in R : d <= y
  BY <1>1, Least
<1>3. PICK x \in S : d = b - x
  BY <1>2
<1>4. ASSUME NEW y \in S PROVE y <= x
  <2>1. d <= b - y
    BY <1>2, <1>4
  <2> QED BY <2>1, <1>3
<1> QED BY <1>3, <1>4

(* What is left of a stack without its top.                                *)
LEMMA Popped ==
    ASSUME NEW S, NEW s \in Seq(S), s # << >>
    PROVE  /\ Len(s) \in Nat \ {0} /\ QS!Last(s) = s[Len(s)] /\ s[Len(s)] \in S
           /\ QS!Front(s) \in Seq(S) /\ Len(QS!Front(s)) = Len(s) - 1
           /\ \A k \in 1..(Len(s) - 1) : QS!Front(s)[k] = s[k]
<1>1. Len(s) \in Nat \ {0} /\ s[Len(s)] \in S
  BY EmptySeq, LenProperties, ElementOfSeq
<1>2. QS!Last(s) = s[Len(s)] /\ QS!Front(s) = SubSeq(s, 1, Len(s) - 1)
  BY DEF QS!Last, QS!Front
<1>3. /\ QS!Front(s) \in Seq(S) /\ Len(QS!Front(s)) = Len(s) - 1
      /\ \A k \in 1..(Len(s) - 1) : QS!Front(s)[k] = s[k]
  <2> DEFINE m == Len(s) - 1
             f == SubSeq(s, 1, m)
  <2>1. m \in Nat /\ m <= Len(s) /\ \A i \in 1..m : s[i] \in S
    BY <1>1, ElementOfSeq
  <2>2. /\ f \in Seq(S) /\ Len(f) = IF 1 <= m THEN m - 1 + 1 ELSE 0
        /\ \A k \in 1..(m - 1 + 1) : f[k] = s[1 + k - 1]
    <3>1. m \in Int /\ 1 \in Int
      BY <2>1
    <3> HIDE DEF m
    <3> QED BY <2>1, <3>1, SubSeqProperties
  <2> HIDE DEF f, m
  <2>3. Len(f) = m
    BY <2>1, <2>2
  <2>4. ASSUME NEW k \in 1..m PROVE f[k] = s[k]
    <3>1. k \in 1..(m - 1 + 1) /\ 1 + k - 1 = k
      BY <2>1
    <3> QED BY <2>2, <3>1
  <2> QED BY <1>2, <2>2, <2>3, <2>4 DEF f, m
<1> QED BY <1>1, <1>2, <1>3

-----------------------------------------------------------------------------
(* What a table holds.                                                     *)

(* An entry that was made from a key and a value, and what is in a slot.   *)
Entries == {e \in [Hash : Nat, Key : Keys, Value : HashValues] : e.Hash = HT!ValidHash(Hash[e.Key])}
InSlots == Entries \cup {HT!Unused}

TableTyped(t) ==
    /\ t \in [Entries : [0..(t.Allocated - 1) -> InSlots], Count : Nat, SlotsFilled : Nat,
              Allocated : Nat]
    /\ IF t.Allocated = 0 THEN t.SlotsFilled = 0
       ELSE t.Allocated \in Sizes /\ t.Allocated >= MINIMUM_SIZE

CallTyped(call) ==
    /\ call = [old |-> call.old, left |-> call.left, then |-> call.then]
    /\ call.left \subseteq Nat
    /\ \A j \in call.left : call.old[j] \in Entries
    /\ call.then \in InSlots

CallsTyped(calls) ==
    /\ calls \in Seq({calls[m] : m \in 1..Len(calls)})
    /\ \A m \in 1..Len(calls) : CallTyped(calls[m])

(* Where entries are: in a slot of the table, in a slot that one of the    *)
(* calls from k on has still to add from, in the hand of such a call for   *)
(* the end, and in the hand of add_prehashed.                              *)
IsPlace(t, calls, hand, k, a, b) ==
    \/ a = 0 /\ b \in HT!Used(t)
    \/ a \in k..Len(calls) /\ b \in calls[a].left
    \/ a \in k..Len(calls) /\ b = -1 /\ calls[a].then # HT!Unused
    \/ a = -1 /\ b = -1 /\ hand # HT!Unused

Places(t, calls, hand, k) == {p \in Int \X Int : IsPlace(t, calls, hand, k, p[1], p[2])}

EntryAt(t, calls, hand, p) ==
    IF p[1] = -1 THEN hand ELSE IF p[1] = 0 THEN t.Entries[p[2]]
    ELSE IF p[2] = -1 THEN calls[p[1]].then ELSE calls[p[1]].old[p[2]]

Placing(t, calls, hand) ==
    [p \in Places(t, calls, hand, 1) |-> EntryAt(t, calls, hand, p)]

Findable(e) == Hash[e.Key] >= HT!FIRST_VALID_HASH

(* Every key that can be found is there once, with the value set last.     *)
KeptOnce(f) == \A p, q \in DOMAIN f : Findable(f[p]) /\ f[p].Key = f[q].Key => p = q
KeptLast(f, values) ==
    /\ \A p \in DOMAIN f : Findable(f[p]) => f[p].Value = values[f[p].Key]
    /\ \A k \in Keys : Hash[k] >= HT!FIRST_VALID_HASH /\ values[k] # Absent =>
          \E p \in DOMAIN f : f[p].Key = k

(* There is no unused slot on the way from an entry's own slot to it.      *)
Probed(t) ==
    \A i \in HT!Used(t) : \E n \in 0..(t.Allocated - 1) :
        /\ i = HT!SlotAt(t, t.Entries[i].Hash, n)
        /\ \A m \in 0..(n - 1) : HT!SlotAt(t, t.Entries[i].Hash, m) \in HT!Used(t)

Fits(t, n) == n * 100 < t.Allocated * LOAD_FACTOR_PERCENT

(* What is counted, and that what was promised room has it.                *)
Counted(t) ==
    /\ HT!Used(t) # {} => t.Count > 0 /\ Fits(t, Cardinality(HT!Used(t)))
    /\ Cardinality(HT!Used(t)) <= t.SlotsFilled
RoomFor(t, calls, hand) ==
    /\ IsFiniteSet(Places(t, calls, hand, 1))
    /\ \A k \in 1..Len(calls) :
          calls[k].then # HT!Unused => Fits(t, Cardinality(Places(t, calls, hand, k)))

Sound(t, calls, hand, values) ==
    /\ TableTyped(t) /\ CallsTyped(calls) /\ hand \in InSlots
    /\ KeptOnce(Placing(t, calls, hand)) /\ KeptLast(Placing(t, calls, hand), values)
    /\ Probed(t) /\ Counted(t) /\ RoomFor(t, calls, hand)

TableInv == /\ last \in [Keys -> HashValues \cup {Absent}]
            /\ Sound(table, resizing, HT!Unused, last)

LEMMA EntryFacts ==
    ASSUME HT!HashTableAssumption
    PROVE  /\ \A e \in Entries : /\ e.Hash \in Nat /\ e.Hash >= 2 /\ e # HT!Unused
                                 /\ e.Key \in Keys /\ e.Value \in HashValues
           /\ HT!Unused.Hash = 0
           /\ \A k \in Keys, v \in HashValues :
                 HT!Entry(Hash[k], k, v) \in Entries
           /\ \A e \in Entries : HT!Entry(Hash[e.Key], e.Key, e.Value) = e
<1>1. HT!Unused.Hash = 0
  BY DEF HT!Unused
<1>2. \A k \in Keys : Hash[k] \in Nat
  BY DEF HT!HashTableAssumption
<1>3. \A h \in Nat : HT!ValidHash(h) \in Nat /\ HT!ValidHash(h) >= 2
  BY DEF HT!ValidHash, HT!FIRST_VALID_HASH
<1>4. ASSUME NEW e \in Entries
      PROVE  /\ e.Hash \in Nat /\ e.Hash >= 2 /\ e # HT!Unused
             /\ e.Key \in Keys /\ e.Value \in HashValues
             /\ HT!Entry(Hash[e.Key], e.Key, e.Value) = e
  <2>1. e \in [Hash : Nat, Key : Keys, Value : HashValues] /\ e.Hash = HT!ValidHash(Hash[e.Key])
    BY DEF Entries
  <2>2. e.Hash \in Nat /\ e.Hash >= 2 /\ e.Key \in Keys /\ e.Value \in HashValues
    BY <1>2, <1>3, <2>1
  <2>3. e # HT!Unused
    BY <1>1, <2>2
  <2>4. HT!Entry(Hash[e.Key], e.Key, e.Value) = e
    BY <2>1 DEF HT!Entry
  <2> QED BY <2>2, <2>3, <2>4
<1>5. ASSUME NEW k \in Keys, NEW v \in HashValues PROVE HT!Entry(Hash[k], k, v) \in Entries
  BY <1>2, <1>3 DEF HT!Entry, Entries
<1> QED BY <1>1, <1>4, <1>5

LEMMA UsedSlots ==
    ASSUME HT!HashTableAssumption, NEW t, TableTyped(t)
    PROVE  /\ t.Allocated \in Nat /\ HT!Used(t) \subseteq 0..(t.Allocated - 1)
           /\ HT!Used(t) = {i \in 0..(t.Allocated - 1) : t.Entries[i] # HT!Unused}
           /\ \A i \in HT!Used(t) : t.Entries[i] \in Entries
           /\ IsFiniteSet(HT!Used(t))
<1>1. t.Allocated \in Nat /\ \A i \in 0..(t.Allocated - 1) : t.Entries[i] \in InSlots
  BY DEF TableTyped
<1>2. \A i \in 0..(t.Allocated - 1) : t.Entries[i].Hash >= HT!FIRST_VALID_HASH <=> t.Entries[i] \in Entries
  BY <1>1, EntryFacts DEF InSlots, HT!FIRST_VALID_HASH
<1>3. \A i \in 0..(t.Allocated - 1) : t.Entries[i] # HT!Unused <=> t.Entries[i] \in Entries
  BY <1>1, EntryFacts DEF InSlots
<1>4. HT!Used(t) = {i \in 0..(t.Allocated - 1) : t.Entries[i] \in Entries}
  BY <1>2, Zenon DEF HT!Used
<1>5. IsFiniteSet(0..(t.Allocated - 1))
  <2>1. PICK a \in Nat : a = t.Allocated
    BY <1>1
  <2>2. 0 \in Int /\ a - 1 \in Int
    BY <2>1
  <2>3. IsFiniteSet(0..(a - 1))
    BY ONLY <2>2, FS_Interval, Zenon
  <2> QED BY <2>1, <2>3
<1>6. IsFiniteSet(HT!Used(t))
  BY <1>4, <1>5, FS_Subset
<1> QED BY <1>1, <1>3, <1>4, <1>6

LEMMA SlotFacts ==
    ASSUME NEW t, NEW h \in Nat, t.Allocated \in Nat \ {0}
    PROVE  /\ \A n \in 0..(t.Allocated - 1) : HT!SlotAt(t, h, n) \in 0..(t.Allocated - 1)
           /\ \A s \in 0..(t.Allocated - 1) : \E n \in 0..(t.Allocated - 1) : HT!SlotAt(t, h, n) = s
<1>1. PICK a \in Nat \ {0} : a = t.Allocated
  OBVIOUS
<1>2. PICK o \in 0..(a - 1) : o = h % a
  <2>1. h % a \in 0..(a - 1)
    OBVIOUS
  <2> QED BY <2>1
<1>3. \A n \in Int : HT!SlotAt(t, h, n) = IF o + n >= a THEN o + n - a ELSE o + n
  <2> SUFFICES ASSUME NEW n \in Int
               PROVE  HT!SlotAt(t, h, n) = IF o + n >= a THEN o + n - a ELSE o + n
    OBVIOUS
  <2>1. a = t.Allocated /\ o \in Int /\ o = h % a
    BY <1>1, <1>2
  <2> QED BY <2>1, SMT DEF HT!SlotAt
<1>4. \A n \in 0..(a - 1) : HT!SlotAt(t, h, n) \in 0..(a - 1)
  BY <1>3
<1>5. ASSUME NEW s \in 0..(a - 1) PROVE \E n \in 0..(a - 1) : HT!SlotAt(t, h, n) = s
  <2>1. CASE s >= o
    <3>1. s - o \in 0..(a - 1) /\ HT!SlotAt(t, h, s - o) = s
      BY <1>3, <2>1
    <3> QED BY <3>1
  <2>2. CASE s < o
    <3>1. s - o + a \in 0..(a - 1) /\ HT!SlotAt(t, h, s - o + a) = s
      BY <1>3, <2>2
    <3> QED BY <3>1
  <2> QED BY <2>1, <2>2
<1> QED BY <1>1, <1>4, <1>5

LEMMA MinIs ==
    ASSUME NEW S, S \subseteq Nat, S # {}
    PROVE  HT!Min(S) \in S /\ \A x \in S : HT!Min(S) <= x
  BY Least DEF HT!Min

LEMMA FreeSlotFacts ==
    ASSUME HT!HashTableAssumption, NEW t, TableTyped(t), NEW h \in Nat,
           NEW s \in 0..(t.Allocated - 1), s \notin HT!Used(t)
    PROVE  /\ HT!FreeSlot(t, h) \in 0..(t.Allocated - 1)
           /\ HT!FreeSlot(t, h) \notin HT!Used(t)
           /\ \E n \in 0..(t.Allocated - 1) :
                 /\ HT!FreeSlot(t, h) = HT!SlotAt(t, h, n)
                 /\ \A m \in 0..(n - 1) : HT!SlotAt(t, h, m) \in HT!Used(t)
<1>1. t.Allocated \in Nat \ {0}
  BY DEF TableTyped
<1> DEFINE S == {n \in 0..(t.Allocated - 1) : t.Entries[HT!SlotAt(t, h, n)] = HT!Unused}
<1>2. HT!FreeSlot(t, h) = HT!SlotAt(t, h, HT!Min(S))
  BY DEF HT!FreeSlot
<1>3. S # {}
  <2>1. PICK n \in 0..(t.Allocated - 1) : HT!SlotAt(t, h, n) = s
    BY <1>1, SlotFacts
  <2>2. t.Entries[s] = HT!Unused
    BY UsedSlots
  <2> QED BY <2>1, <2>2
<1>4. S \subseteq Nat
  BY <1>1
<1>5. PICK n \in S : n = HT!Min(S) /\ \A x \in S : n <= x
  <2> HIDE DEF S
  <2> QED BY <1>3, <1>4, MinIs
<1>6. n \in 0..(t.Allocated - 1) /\ t.Entries[HT!SlotAt(t, h, n)] = HT!Unused
  OBVIOUS
<1>7. HT!SlotAt(t, h, n) \in 0..(t.Allocated - 1) /\ HT!SlotAt(t, h, n) \notin HT!Used(t)
  BY <1>1, <1>6, SlotFacts, UsedSlots
<1>8. ASSUME NEW m \in 0..(n - 1) PROVE HT!SlotAt(t, h, m) \in HT!Used(t)
  <2>1. m \in 0..(t.Allocated - 1) /\ ~(n <= m)
    BY <1>1, <1>6
  <2>2. m \notin S
    BY <1>5, <2>1
  <2>3. t.Entries[HT!SlotAt(t, h, m)] # HT!Unused
    BY <2>1, <2>2
  <2>4. HT!SlotAt(t, h, m) \in 0..(t.Allocated - 1)
    BY <1>1, <2>1, SlotFacts
  <2> QED BY <2>3, <2>4, UsedSlots
<1> HIDE DEF S
<1> QED BY <1>2, <1>5, <1>6, <1>7, <1>8

(* A function that tells of every place now where its entry was before.    *)
LEMMA Moved ==
    ASSUME NEW f, NEW f2, NEW g,
           \A q \in DOMAIN f2 : g[q] \in DOMAIN f /\ f2[q] = f[g[q]],
           \A q, r \in DOMAIN f2 : g[q] = g[r] => q = r,
           \A p \in DOMAIN f : \E q \in DOMAIN f2 : g[q] = p,
           NEW values, KeptOnce(f), KeptLast(f, values)
    PROVE  KeptOnce(f2) /\ KeptLast(f2, values)
<1>1. KeptOnce(f2)
  <2> SUFFICES ASSUME NEW p \in DOMAIN f2, NEW q \in DOMAIN f2,
                      Findable(f2[p]), f2[p].Key = f2[q].Key
               PROVE  p = q
    BY DEF KeptOnce
  <2>1. g[p] = g[q]
    BY DEF KeptOnce
  <2> QED BY <2>1
<1>2. \A p \in DOMAIN f2 : Findable(f2[p]) => f2[p].Value = values[f2[p].Key]
  <2> SUFFICES ASSUME NEW p \in DOMAIN f2, Findable(f2[p]) PROVE f2[p].Value = values[f2[p].Key]
    OBVIOUS
  <2>1. PICK x : x = g[p]
    OBVIOUS
  <2>2. x \in DOMAIN f /\ f2[p] = f[x]
    BY <2>1
  <2> QED BY <2>2 DEF KeptLast
<1>3. ASSUME NEW k \in Keys, Hash[k] >= HT!FIRST_VALID_HASH, values[k] # Absent
      PROVE  \E p \in DOMAIN f2 : f2[p].Key = k
  <2>1. PICK p \in DOMAIN f : f[p].Key = k
    BY <1>3 DEF KeptLast
  <2>2. PICK q \in DOMAIN f2 : g[q] = p
    OBVIOUS
  <2> QED BY <2>1, <2>2
<1> QED BY <1>1, <1>2, <1>3 DEF KeptLast

LEMMA NotMore ==
    ASSUME NEW P, NEW Q, IsFiniteSet(P), NEW g, \A q \in Q : g[q] \in P,
           \A q, r \in Q : g[q] = g[r] => q = r
    PROVE  IsFiniteSet(Q) /\ Cardinality(Q) <= Cardinality(P)
<1> DEFINE f == [q \in Q |-> g[q]]
<1>1. f \in [Q -> P]
  OBVIOUS
<1>2. \A q, r \in Q : f[q] = f[r] => q = r
  OBVIOUS
<1> HIDE DEF f
<1>3. f \in Injection(Q, P)
  BY <1>1, <1>2 DEF Injection, IsInjective
<1> QED BY <1>3, FS_Injection

LEMMA PlacesFacts ==
    ASSUME NEW t, NEW calls, NEW hand, TableTyped(t), CallsTyped(calls), hand \in InSlots,
           NEW k \in Nat, k >= 1
    PROVE  /\ Places(t, calls, hand, k) \subseteq Places(t, calls, hand, 1)
           /\ \A p \in Places(t, calls, hand, k) : EntryAt(t, calls, hand, p) \in Entries
           /\ DOMAIN Placing(t, calls, hand) = Places(t, calls, hand, 1)
           /\ \A p \in Places(t, calls, hand, 1) :
                 Placing(t, calls, hand)[p] = EntryAt(t, calls, hand, p)
<1>1. Len(calls) \in Nat
  BY DEF CallsTyped
<1>2. ASSUME NEW p \in Places(t, calls, hand, k) PROVE p \in Places(t, calls, hand, 1)
  BY <1>1 DEF Places, IsPlace
<1>3. ASSUME NEW p \in Places(t, calls, hand, k) PROVE EntryAt(t, calls, hand, p) \in Entries
  <2>1. PICK a \in Int, b \in Int : p = <<a, b>> /\ IsPlace(t, calls, hand, k, a, b)
    BY DEF Places
  <2>2. CASE a = 0 /\ b \in HT!Used(t)
    <3>1. EntryAt(t, calls, hand, p) = t.Entries[b]
      BY <2>1, <2>2 DEF EntryAt
    <3> QED BY <2>2, <3>1, ContainersAssumption, UsedSlots
  <2>3. CASE a \in k..Len(calls) /\ b \in calls[a].left
    <3>1. CallTyped(calls[a]) /\ a # 0 /\ a # -1
      BY <1>1, <2>3 DEF CallsTyped
    <3>2. b # -1 /\ calls[a].old[b] \in Entries
      BY <2>3, <3>1 DEF CallTyped
    <3> QED BY <2>1, <3>1, <3>2 DEF EntryAt
  <2>4. CASE a \in k..Len(calls) /\ b = -1 /\ calls[a].then # HT!Unused
    <3>1. CallTyped(calls[a]) /\ a # 0 /\ a # -1
      BY <1>1, <2>4 DEF CallsTyped
    <3> QED BY <2>1, <2>4, <3>1 DEF EntryAt, CallTyped, InSlots
  <2>5. CASE a = -1 /\ b = -1 /\ hand # HT!Unused
    BY <2>1, <2>5 DEF EntryAt, InSlots
  <2> QED BY <2>1, <2>2, <2>3, <2>4, <2>5 DEF IsPlace
<1> QED BY <1>2, <1>3 DEF Placing

LEMMA Carried ==
    ASSUME NEW t, NEW calls, NEW hand, NEW values, Sound(t, calls, hand, values),
           NEW t2, NEW calls2, NEW hand2,
           TableTyped(t2), CallsTyped(calls2), hand2 \in InSlots, Probed(t2), Counted(t2),
           NEW g,
           \A q \in Places(t2, calls2, hand2, 1) :
               /\ g[q] \in Places(t, calls, hand, 1)
               /\ EntryAt(t2, calls2, hand2, q) = EntryAt(t, calls, hand, g[q]),
           \A q, r \in Places(t2, calls2, hand2, 1) : g[q] = g[r] => q = r,
           \A p \in Places(t, calls, hand, 1) : \E q \in Places(t2, calls2, hand2, 1) : g[q] = p,
           \A k \in 1..Len(calls2) : calls2[k].then # HT!Unused =>
               Fits(t2, Cardinality(Places(t2, calls2, hand2, k)))
    PROVE  Sound(t2, calls2, hand2, values)
<1> DEFINE f == Placing(t, calls, hand)
           f2 == Placing(t2, calls2, hand2)
<1>1. /\ DOMAIN f = Places(t, calls, hand, 1) /\ DOMAIN f2 = Places(t2, calls2, hand2, 1)
      /\ \A p \in DOMAIN f : f[p] = EntryAt(t, calls, hand, p)
      /\ \A p \in DOMAIN f2 : f2[p] = EntryAt(t2, calls2, hand2, p)
  BY PlacesFacts DEF Sound
<1>2. KeptOnce(f) /\ KeptLast(f, values)
  BY DEF Sound
<1>3. /\ \A q \in DOMAIN f2 : g[q] \in DOMAIN f /\ f2[q] = f[g[q]]
      /\ \A q, r \in DOMAIN f2 : g[q] = g[r] => q = r
      /\ \A p \in DOMAIN f : \E q \in DOMAIN f2 : g[q] = p
  <2> HIDE DEF f, f2
  <2> QED BY <1>1
<1>4. KeptOnce(f2) /\ KeptLast(f2, values)
  <2> HIDE DEF f, f2
  <2> QED BY ONLY <1>2, <1>3, Moved, Zenon
<1>5. IsFiniteSet(Places(t2, calls2, hand2, 1))
  <2>1. IsFiniteSet(Places(t, calls, hand, 1))
    BY DEF Sound, RoomFor
  <2> QED BY <2>1, NotMore
<1>6. RoomFor(t2, calls2, hand2)
  BY <1>5 DEF RoomFor
<1> QED BY <1>4, <1>6 DEF Sound

(* What had room still has.                                                *)
LEMMA RoomStays ==
    ASSUME HT!HashTableAssumption,
           NEW t, NEW calls, NEW hand, NEW values, Sound(t, calls, hand, values),
           NEW k \in 1..Len(calls), calls[k].then # HT!Unused,
           NEW t2, NEW Q, NEW g, t2.Allocated \in Nat, t2.Allocated >= t.Allocated,
           \A q \in Q : g[q] \in Places(t, calls, hand, k),
           \A q, r \in Q : g[q] = g[r] => q = r
    PROVE  Fits(t2, Cardinality(Q))
<1> DEFINE P == Places(t, calls, hand, k)
<1>1. IsFiniteSet(P)
  <2>1. Len(calls) \in Nat
    BY DEF Sound, CallsTyped
  <2>2. k \in Nat /\ k >= 1
    BY <2>1
  <2>3. P \subseteq Places(t, calls, hand, 1)
    BY <2>2, PlacesFacts DEF Sound
  <2>4. IsFiniteSet(Places(t, calls, hand, 1))
    BY DEF Sound, RoomFor
  <2> QED BY <2>3, <2>4, FS_Subset
<1>2. Fits(t, Cardinality(P))
  BY DEF Sound, RoomFor
<1> HIDE DEF P
<1>3. IsFiniteSet(Q) /\ Cardinality(Q) <= Cardinality(P)
  BY <1>1, NotMore DEF P
<1>4. Cardinality(P) \in Nat /\ Cardinality(Q) \in Nat
  BY <1>1, <1>3, FS_CardinalityType
<1>5. t.Allocated \in Nat /\ LOAD_FACTOR_PERCENT \in Nat
  BY DEF Sound, TableTyped, HT!HashTableAssumption
<1>6. Cardinality(P) * 100 < t.Allocated * LOAD_FACTOR_PERCENT
  BY <1>2 DEF Fits
<1>7. t.Allocated * LOAD_FACTOR_PERCENT <= t2.Allocated * LOAD_FACTOR_PERCENT
  BY <1>5, SMT
<1>8. Cardinality(Q) * 100 < t2.Allocated * LOAD_FACTOR_PERCENT
  <2>1. ASSUME NEW u \in Nat, NEW w \in Nat, NEW p \in Nat, NEW q \in Nat,
               p * 100 < u, u <= w, q <= p
        PROVE  q * 100 < w
    BY <2>1
  <2>2. t.Allocated * LOAD_FACTOR_PERCENT \in Nat /\ t2.Allocated * LOAD_FACTOR_PERCENT \in Nat
    BY <1>5
  <2> QED BY <1>3, <1>4, <1>6, <1>7, <2>1, <2>2
<1> QED BY <1>8 DEF Fits

LEMMA CallsSeq ==
    ASSUME NEW n \in Nat, NEW c, c = [m \in 1..n |-> c[m]], \A m \in 1..n : CallTyped(c[m])
    PROVE  CallsTyped(c) /\ Len(c) = n
<1> DEFINE S == {c[m] : m \in 1..n}
<1>1. c \in [1..n -> S]
  OBVIOUS
<1> HIDE DEF S
<1>2. c \in Seq(S) /\ Len(c) = n
  BY <1>1
<1> QED BY <1>2 DEF S, CallsTyped

LEMMA CallsFacts ==
    ASSUME NEW c, CallsTyped(c)
    PROVE  /\ Len(c) \in Nat /\ DOMAIN c = 1..Len(c)
           /\ c = [m \in 1..Len(c) |-> c[m]] /\ \A m \in 1..Len(c) : CallTyped(c[m])
           /\ c # << >> <=> Len(c) >= 1
<1> DEFINE S == {c[m] : m \in 1..Len(c)}
<1>1. c \in Seq(S)
  BY DEF CallsTyped
<1> HIDE DEF S
<1>2. Len(c) \in Nat /\ DOMAIN c = 1..Len(c) /\ c \in [1..Len(c) -> S] /\ (c # << >> <=> Len(c) >= 1)
  BY <1>1
<1> QED BY <1>2 DEF CallsTyped

LEMMA WithTop ==
    ASSUME NEW c, CallsTyped(c), c # << >>, NEW L, L \subseteq c[Len(c)].left
    PROVE  LET d == [c EXCEPT ![Len(c)].left = L]
           IN  /\ CallsTyped(d) /\ Len(d) = Len(c)
               /\ \A m \in 1..Len(c) : /\ d[m].old = c[m].old /\ d[m].then = c[m].then
                                       /\ d[m].left = IF m = Len(c) THEN L ELSE c[m].left
<1> DEFINE d == [c EXCEPT ![Len(c)].left = L]
<1>1. PICK n \in Nat : n = Len(c)
  BY CallsFacts
<1>2. n >= 1 /\ c = [m \in 1..n |-> c[m]] /\ \A m \in 1..n : CallTyped(c[m])
  BY <1>1, CallsFacts
<1>3. d = [m \in 1..n |-> IF m = n THEN [c[n] EXCEPT !.left = L] ELSE c[m]]
  BY <1>1, <1>2
<1>4. c[n] = [old |-> c[n].old, left |-> c[n].left, then |-> c[n].then]
  BY <1>2 DEF CallTyped
<1> HIDE DEF d
<1>5. d = [m \in 1..n |-> d[m]] /\ \A m \in 1..n : m # n => d[m] = c[m]
  BY <1>3
<1>6. d[n] = [c[n] EXCEPT !.left = L]
  <2>1. PICK x : x = [c[n] EXCEPT !.left = L]
    OBVIOUS
  <2>2. d = [m \in 1..n |-> IF m = n THEN x ELSE c[m]]
    BY ONLY <1>3, <2>1, Zenon
  <2>3. d[n] = x
    BY ONLY <1>2, <2>2
  <2> QED BY <2>1, <2>3
<1>7. d[n].old = c[n].old /\ d[n].then = c[n].then /\ d[n].left = L
      /\ d[n] = [old |-> c[n].old, left |-> L, then |-> c[n].then]
  BY <1>4, <1>6
<1>8. CallTyped(d[n])
  <2>1. CallTyped(c[n])
    BY <1>2
  <2>2. L \subseteq c[n].left
    BY <1>1
  <2> QED BY <1>7, <2>1, <2>2 DEF CallTyped
<1>9. \A m \in 1..n : CallTyped(d[m])
  BY <1>2, <1>5, <1>8
<1>10. CallsTyped(d) /\ Len(d) = n
  BY <1>5, <1>9, CallsSeq
<1>11. \A m \in 1..n : /\ d[m].old = c[m].old /\ d[m].then = c[m].then
                       /\ d[m].left = IF m = n THEN L ELSE c[m].left
  BY <1>5, <1>7
<1> QED BY <1>1, <1>10, <1>11 DEF d

(* The entry to add next leaves its slot.                                  *)
LEMMA Take ==
    ASSUME HT!HashTableAssumption,
           NEW t, NEW calls, NEW values, Sound(t, calls, HT!Unused, values), calls # << >>,
           NEW s \in calls[Len(calls)].left
    PROVE  /\ Sound(t, [calls EXCEPT ![Len(calls)].left = @ \ {s}],
                    calls[Len(calls)].old[s], values)
           /\ calls[Len(calls)].old[s] \in Entries
<1> DEFINE n == Len(calls)
           d == [calls EXCEPT ![Len(calls)].left = calls[Len(calls)].left \ {s}]
           e == calls[Len(calls)].old[s]
           was == <<n, s>>
           g == [q \in Places(t, d, e, 1) |-> IF q[1] = -1 THEN was ELSE q]
<1>1. /\ CallsTyped(d) /\ Len(d) = n
      /\ \A m \in 1..n : /\ d[m].old = calls[m].old /\ d[m].then = calls[m].then
                         /\ d[m].left = IF m = n THEN calls[n].left \ {s} ELSE calls[m].left
  <2> HIDE DEF n
  <2>1. CallsTyped(calls) /\ calls[n].left \ {s} \subseteq calls[n].left
    BY DEF Sound
  <2> QED BY <2>1, WithTop DEF n
<1>2. n \in Nat /\ n >= 1 /\ CallTyped(calls[n])
  BY CallsFacts DEF Sound
<1>3. e \in Entries /\ s \in Nat /\ e # HT!Unused /\ e \in InSlots
  <2>1. e \in Entries /\ s \in Nat
    BY <1>2 DEF CallTyped
  <2> QED BY <2>1, EntryFacts DEF InSlots
<1> HIDE DEF d, e, n
<1>4. ASSUME NEW k \in 1..n, NEW a \in Int, NEW b \in Int
      PROVE  /\ IsPlace(t, d, e, k, a, b) /\ a # -1 => IsPlace(t, calls, HT!Unused, k, a, b)
             /\ IsPlace(t, calls, HT!Unused, k, n, s)
             /\ ~IsPlace(t, d, e, k, n, s)
             /\ IsPlace(t, calls, HT!Unused, k, a, b) =>
                   IsPlace(t, d, e, k, a, b) \/ (a = n /\ b = s)
             /\ IsPlace(t, calls, HT!Unused, k, a, b) => a # -1
             /\ IsPlace(t, d, e, k, a, b) /\ a = -1 => b = -1
             /\ IsPlace(t, d, e, k, -1, -1)
  <2>1. Len(d) = Len(calls) /\ Len(calls) = n
    BY <1>1 DEF n
  <2> QED BY <1>1, <1>2, <1>3, <2>1 DEF IsPlace
<1>5. \A k \in 1..n : \A q \in Places(t, d, e, k) : g[q] \in Places(t, calls, HT!Unused, k)
  <2> SUFFICES ASSUME NEW k \in 1..n, NEW q \in Places(t, d, e, k)
               PROVE  g[q] \in Places(t, calls, HT!Unused, k)
    OBVIOUS
  <2>1. PICK a \in Int, b \in Int : q = <<a, b>> /\ IsPlace(t, d, e, k, a, b)
    BY DEF Places
  <2>2. q \in Places(t, d, e, 1)
    <3>1. TableTyped(t) /\ k \in Nat /\ k >= 1
      BY <1>2 DEF Sound
    <3> QED BY <1>1, <1>3, <3>1, PlacesFacts
  <2>3. CASE a = -1
    <3>1. g[q] = was
      BY <2>1, <2>2, <2>3
    <3>2. IsPlace(t, calls, HT!Unused, k, n, s)
      BY <1>4
    <3>3. was \in Places(t, calls, HT!Unused, k)
      BY <1>2, <1>3, <3>2 DEF Places
    <3> QED BY <3>1, <3>3
  <2>4. CASE a # -1
    <3>1. g[q] = q
      BY <2>1, <2>2, <2>4
    <3>2. IsPlace(t, calls, HT!Unused, k, a, b)
      BY <1>4, <2>1, <2>4
    <3>3. q \in Places(t, calls, HT!Unused, k)
      BY <2>1, <3>2 DEF Places
    <3> QED BY <3>1, <3>3
  <2> QED BY <2>3, <2>4
<1>6. 1 \in 1..n
  BY <1>2
<1>7. \A q \in Places(t, d, e, 1) :
         /\ g[q] \in Places(t, calls, HT!Unused, 1)
         /\ EntryAt(t, d, e, q) = EntryAt(t, calls, HT!Unused, g[q])
  <2> SUFFICES ASSUME NEW q \in Places(t, d, e, 1)
               PROVE  EntryAt(t, d, e, q) = EntryAt(t, calls, HT!Unused, g[q])
    BY <1>5, <1>6
  <2>1. PICK a \in Int, b \in Int : q = <<a, b>> /\ IsPlace(t, d, e, 1, a, b)
    BY DEF Places
  <2>2. CASE a = -1
    <3>1. g[q] = was /\ b = -1
      BY <2>1, <2>2, <1>4, <1>6
    <3>2. EntryAt(t, d, e, q) = e
      BY <2>1, <2>2 DEF EntryAt
    <3>3. EntryAt(t, calls, HT!Unused, was) = calls[n].old[s]
      BY <1>2, <1>3 DEF EntryAt
    <3> QED BY <3>1, <3>2, <3>3 DEF e, n
  <2>3. CASE a # -1
    <3>1. g[q] = q
      BY <2>1, <2>3
    <3>2. a # 0 => a \in 1..n
      BY <2>1, <2>3, <1>1 DEF IsPlace
    <3> QED BY <1>1, <2>1, <2>3, <3>1, <3>2 DEF EntryAt
  <2> QED BY <2>2, <2>3
<1>8. \A q, r \in Places(t, d, e, 1) : g[q] = g[r] => q = r
  <2> SUFFICES ASSUME NEW q \in Places(t, d, e, 1), NEW r \in Places(t, d, e, 1), g[q] = g[r]
               PROVE  q = r
    OBVIOUS
  <2>1. PICK a \in Int, b \in Int : q = <<a, b>> /\ IsPlace(t, d, e, 1, a, b)
    BY DEF Places
  <2>2. PICK x \in Int, y \in Int : r = <<x, y>> /\ IsPlace(t, d, e, 1, x, y)
    BY DEF Places
  <2>3. g[q] = (IF a = -1 THEN was ELSE q) /\ g[r] = (IF x = -1 THEN was ELSE r)
    BY <2>1, <2>2
  <2>4. ~IsPlace(t, d, e, 1, n, s) /\ (a = -1 => b = -1) /\ (x = -1 => y = -1)
    BY <1>4, <1>6, <2>1, <2>2
  <2> QED BY <2>1, <2>2, <2>3, <2>4
<1>9. \A p \in Places(t, calls, HT!Unused, 1) : \E q \in Places(t, d, e, 1) : g[q] = p
  <2> SUFFICES ASSUME NEW p \in Places(t, calls, HT!Unused, 1)
               PROVE  \E q \in Places(t, d, e, 1) : g[q] = p
    OBVIOUS
  <2>1. PICK a \in Int, b \in Int : p = <<a, b>> /\ IsPlace(t, calls, HT!Unused, 1, a, b)
    BY DEF Places
  <2>2. CASE a = n /\ b = s
    <3>1. <<-1, -1>> \in Places(t, d, e, 1)
      BY <1>4, <1>6 DEF Places
    <3>2. g[<<-1, -1>>] = was
      BY <3>1
    <3> QED BY <2>1, <2>2, <3>1, <3>2
  <2>3. CASE ~(a = n /\ b = s)
    <3>1. p \in Places(t, d, e, 1) /\ a # -1
      BY <1>4, <1>6, <2>1, <2>3 DEF Places
    <3>2. g[p] = p
      BY <2>1, <3>1
    <3> QED BY <3>1, <3>2
  <2> QED BY <2>2, <2>3
<1> HIDE DEF g
<1>10. ASSUME NEW k \in 1..Len(d), d[k].then # HT!Unused
       PROVE  Fits(t, Cardinality(Places(t, d, e, k)))
  <2> DEFINE Q == Places(t, d, e, k)
  <2>1. k \in 1..Len(calls) /\ calls[k].then # HT!Unused
    BY <1>1, <1>10 DEF n
  <2>2. Q \subseteq Places(t, d, e, 1)
    BY <1>1, <1>3, <2>1, <1>2, PlacesFacts DEF Sound, n
  <2>3. /\ \A q \in Q : g[q] \in Places(t, calls, HT!Unused, k)
        /\ \A q, r \in Q : g[q] = g[r] => q = r
    BY <1>1, <1>5, <1>8, <2>1, <2>2 DEF n
  <2>4. t.Allocated \in Nat /\ t.Allocated >= t.Allocated
    BY DEF Sound, TableTyped
  <2> HIDE DEF Q
  <2>5. Fits(t, Cardinality(Q))
    BY <2>1, <2>3, <2>4, RoomStays
  <2> QED BY <2>5 DEF Q
<1>11. TableTyped(t) /\ Probed(t) /\ Counted(t)
  BY DEF Sound
<1>12. Sound(t, d, e, values)
  BY <1>1, <1>3, <1>7, <1>8, <1>9, <1>10, <1>11, Carried
<1> QED BY <1>3, <1>12 DEF d, e

LEMMA Pushed1 ==
    ASSUME NEW c, CallsTyped(c), NEW x, CallTyped(x)
    PROVE  /\ CallsTyped(Append(c, x)) /\ Len(Append(c, x)) = Len(c) + 1
           /\ \A m \in 1..Len(c) : Append(c, x)[m] = c[m]
           /\ Append(c, x)[Len(c) + 1] = x
<1> DEFINE S == {c[m] : m \in 1..Len(c)} \cup {x}
           d == Append(c, x)
<1>1. c \in Seq(S)
  <2>1. c \in [1..Len(c) -> S] /\ Len(c) \in Nat
    BY CallsFacts
  <2> HIDE DEF S
  <2> QED BY <2>1
<1>2. x \in S
  OBVIOUS
<1> HIDE DEF S
<1>3. /\ d \in Seq(S) /\ Len(d) = Len(c) + 1
      /\ \A m \in 1..Len(c) : d[m] = c[m]
      /\ d[Len(c) + 1] = x
  BY <1>1, <1>2
<1>4. Len(c) + 1 \in Nat /\ DOMAIN d = 1..(Len(c) + 1) /\ d = [m \in 1..(Len(c) + 1) |-> d[m]]
  <2> HIDE DEF d
  <2>1. Len(c) \in Nat /\ DOMAIN d = 1..Len(d)
    BY <1>1, <1>3
  <2> QED BY <1>3, <2>1
<1>5. \A m \in 1..(Len(c) + 1) : CallTyped(d[m])
  BY <1>3, <1>4, CallsFacts
<1> HIDE DEF d
<1>6. CallsTyped(d) /\ Len(d) = Len(c) + 1
  BY <1>4, <1>5, CallsSeq
<1> QED BY <1>3, <1>6 DEF d

LEMMA Popped1 ==
    ASSUME NEW c, CallsTyped(c), c # << >>
    PROVE  /\ CallsTyped(HT!Front(c)) /\ Len(HT!Front(c)) = Len(c) - 1
           /\ \A m \in 1..(Len(c) - 1) : HT!Front(c)[m] = c[m]
<1> DEFINE S == {c[m] : m \in 1..Len(c)}
           d == HT!Front(c)
<1>1. c \in Seq(S) /\ Len(c) >= 1 /\ Len(c) \in Nat
  <2>1. c \in [1..Len(c) -> S] /\ Len(c) \in Nat /\ Len(c) >= 1
    BY CallsFacts
  <2> HIDE DEF S
  <2> QED BY <2>1
<1> HIDE DEF S
<1>2. d = QS!Front(c)
  BY DEF HT!Front, QS!Front
<1>3. /\ d \in Seq(S) /\ Len(d) = Len(c) - 1
      /\ \A m \in 1..(Len(c) - 1) : d[m] = c[m]
  BY <1>1, <1>2, Popped
<1>4. Len(c) - 1 \in Nat /\ DOMAIN d = 1..(Len(c) - 1) /\ d = [m \in 1..(Len(c) - 1) |-> d[m]]
  <2> HIDE DEF d
  <2> QED BY <1>1, <1>3
<1>5. \A m \in 1..(Len(c) - 1) : CallTyped(d[m])
  BY <1>1, <1>3, CallsFacts
<1> HIDE DEF d
<1>6. CallsTyped(d) /\ Len(d) = Len(c) - 1
  BY <1>4, <1>5, CallsSeq
<1> QED BY <1>3, <1>6 DEF d

(* With nothing left to add the entry for the end comes to hand, and has   *)
(* room.                                                                   *)
LEMMA Pop ==
    ASSUME HT!HashTableAssumption,
           NEW t, NEW calls, NEW values, Sound(t, calls, HT!Unused, values), calls # << >>,
           calls[Len(calls)].left = {}
    PROVE  /\ Sound(t, HT!Front(calls), calls[Len(calls)].then, values)
           /\ calls[Len(calls)].then # HT!Unused => Fits(t, Cardinality(HT!Used(t)) + 1)
<1> DEFINE n == Len(calls)
           d == HT!Front(calls)
           e == calls[Len(calls)].then
           was == <<n, -1>>
           g == [q \in Places(t, d, e, 1) |-> IF q[1] = -1 THEN was ELSE q]
<1>1. /\ CallsTyped(d) /\ Len(d) = n - 1
      /\ \A m \in 1..(n - 1) : d[m] = calls[m]
  BY Popped1 DEF Sound
<1>2. n \in Nat /\ n >= 1 /\ CallTyped(calls[n])
  BY CallsFacts DEF Sound
<1>3. e \in InSlots
  BY <1>2 DEF CallTyped
<1>4. e = calls[n].then /\ calls[n].left = {} /\ n = Len(calls)
  OBVIOUS
<1> HIDE DEF d, e, n
<1>5. ASSUME NEW k \in 1..n, NEW a \in Int, NEW b \in Int
      PROVE  /\ IsPlace(t, d, e, k, a, b) /\ a # -1 => IsPlace(t, calls, HT!Unused, k, a, b)
             /\ e # HT!Unused => IsPlace(t, calls, HT!Unused, k, n, -1)
             /\ ~IsPlace(t, d, e, k, n, -1)
             /\ IsPlace(t, calls, HT!Unused, k, a, b) =>
                   IsPlace(t, d, e, k, a, b) \/ (a = n /\ b = -1 /\ e # HT!Unused)
             /\ IsPlace(t, calls, HT!Unused, k, a, b) => a # -1
             /\ IsPlace(t, d, e, k, a, b) /\ a = -1 => b = -1 /\ e # HT!Unused
             /\ e # HT!Unused => IsPlace(t, d, e, k, -1, -1)
  BY <1>1, <1>2, <1>3, <1>4 DEF IsPlace
<1>6. \A k \in 1..n : \A q \in Places(t, d, e, k) : g[q] \in Places(t, calls, HT!Unused, k)
  <2> SUFFICES ASSUME NEW k \in 1..n, NEW q \in Places(t, d, e, k)
               PROVE  g[q] \in Places(t, calls, HT!Unused, k)
    OBVIOUS
  <2>1. PICK a \in Int, b \in Int : q = <<a, b>> /\ IsPlace(t, d, e, k, a, b)
    BY DEF Places
  <2>2. q \in Places(t, d, e, 1)
    <3>1. TableTyped(t) /\ k \in Nat /\ k >= 1
      BY <1>2 DEF Sound
    <3> QED BY <1>1, <1>3, <3>1, PlacesFacts
  <2>3. CASE a = -1
    <3>1. g[q] = was
      BY <2>1, <2>2, <2>3
    <3>2. IsPlace(t, calls, HT!Unused, k, n, -1)
      BY <1>5, <2>1, <2>3
    <3>3. was \in Places(t, calls, HT!Unused, k)
      BY <1>2, <3>2 DEF Places
    <3> QED BY <3>1, <3>3
  <2>4. CASE a # -1
    <3>1. g[q] = q
      BY <2>1, <2>2, <2>4
    <3>2. IsPlace(t, calls, HT!Unused, k, a, b)
      BY <1>5, <2>1, <2>4
    <3>3. q \in Places(t, calls, HT!Unused, k)
      BY <2>1, <3>2 DEF Places
    <3> QED BY <3>1, <3>3
  <2> QED BY <2>3, <2>4
<1>7. 1 \in 1..n
  BY <1>2
<1>8. \A q \in Places(t, d, e, 1) :
         /\ g[q] \in Places(t, calls, HT!Unused, 1)
         /\ EntryAt(t, d, e, q) = EntryAt(t, calls, HT!Unused, g[q])
  <2> SUFFICES ASSUME NEW q \in Places(t, d, e, 1)
               PROVE  EntryAt(t, d, e, q) = EntryAt(t, calls, HT!Unused, g[q])
    BY <1>6, <1>7
  <2>1. PICK a \in Int, b \in Int : q = <<a, b>> /\ IsPlace(t, d, e, 1, a, b)
    BY DEF Places
  <2>2. CASE a = -1
    <3>1. g[q] = was
      BY <2>1, <2>2
    <3>2. EntryAt(t, d, e, q) = e
      BY <2>1, <2>2 DEF EntryAt
    <3>3. EntryAt(t, calls, HT!Unused, was) = calls[n].then
      BY <1>2 DEF EntryAt
    <3> QED BY <1>4, <3>1, <3>2, <3>3
  <2>3. CASE a # -1
    <3>1. g[q] = q
      BY <2>1, <2>3
    <3>2. a # 0 => a \in 1..(n - 1)
      BY <2>1, <2>3, <1>1 DEF IsPlace
    <3> QED BY <1>1, <2>1, <2>3, <3>1, <3>2 DEF EntryAt
  <2> QED BY <2>2, <2>3
<1>9. \A q, r \in Places(t, d, e, 1) : g[q] = g[r] => q = r
  <2> SUFFICES ASSUME NEW q \in Places(t, d, e, 1), NEW r \in Places(t, d, e, 1), g[q] = g[r]
               PROVE  q = r
    OBVIOUS
  <2>1. PICK a \in Int, b \in Int : q = <<a, b>> /\ IsPlace(t, d, e, 1, a, b)
    BY DEF Places
  <2>2. PICK x \in Int, y \in Int : r = <<x, y>> /\ IsPlace(t, d, e, 1, x, y)
    BY DEF Places
  <2>3. g[q] = (IF a = -1 THEN was ELSE q) /\ g[r] = (IF x = -1 THEN was ELSE r)
    BY <2>1, <2>2
  <2>4. ~IsPlace(t, d, e, 1, n, -1) /\ (a = -1 => b = -1) /\ (x = -1 => y = -1)
    BY <1>5, <1>7, <2>1, <2>2
  <2> QED BY <2>1, <2>2, <2>3, <2>4
<1>10. \A p \in Places(t, calls, HT!Unused, 1) : \E q \in Places(t, d, e, 1) : g[q] = p
  <2> SUFFICES ASSUME NEW p \in Places(t, calls, HT!Unused, 1)
               PROVE  \E q \in Places(t, d, e, 1) : g[q] = p
    OBVIOUS
  <2>1. PICK a \in Int, b \in Int : p = <<a, b>> /\ IsPlace(t, calls, HT!Unused, 1, a, b)
    BY DEF Places
  <2>2. CASE a = n /\ b = -1 /\ e # HT!Unused
    <3>1. <<-1, -1>> \in Places(t, d, e, 1)
      BY <1>5, <1>7, <2>2 DEF Places
    <3>2. g[<<-1, -1>>] = was
      BY <3>1
    <3> QED BY <2>1, <2>2, <3>1, <3>2
  <2>3. CASE ~(a = n /\ b = -1 /\ e # HT!Unused)
    <3>1. p \in Places(t, d, e, 1) /\ a # -1
      BY <1>5, <1>7, <2>1, <2>3 DEF Places
    <3>2. g[p] = p
      BY <2>1, <3>1
    <3> QED BY <3>1, <3>2
  <2> QED BY <2>2, <2>3
<1> HIDE DEF g
<1>11. ASSUME NEW k \in 1..Len(d), d[k].then # HT!Unused
       PROVE  Fits(t, Cardinality(Places(t, d, e, k)))
  <2> DEFINE Q == Places(t, d, e, k)
  <2>1. k \in 1..Len(calls) /\ k \in 1..n /\ calls[k].then # HT!Unused
    BY <1>1, <1>2, <1>4, <1>11
  <2>2. Q \subseteq Places(t, d, e, 1)
    <3>1. k \in Nat /\ k >= 1 /\ TableTyped(t)
      BY <1>2, <2>1 DEF Sound
    <3> QED BY <1>1, <1>3, <3>1, PlacesFacts
  <2>3. /\ \A q \in Q : g[q] \in Places(t, calls, HT!Unused, k)
        /\ \A q, r \in Q : g[q] = g[r] => q = r
    BY <1>6, <1>9, <2>1, <2>2
  <2>4. t.Allocated \in Nat /\ t.Allocated >= t.Allocated
    BY DEF Sound, TableTyped
  <2> HIDE DEF Q
  <2>5. Fits(t, Cardinality(Q))
    BY <2>1, <2>3, <2>4, RoomStays
  <2> QED BY <2>5 DEF Q
<1>12. TableTyped(t) /\ Probed(t) /\ Counted(t)
  BY DEF Sound
<1>13. Sound(t, d, e, values)
  BY <1>1, <1>3, <1>8, <1>9, <1>10, <1>11, <1>12, Carried
<1>14. ASSUME e # HT!Unused PROVE Fits(t, Cardinality(HT!Used(t)) + 1)
  <2> DEFINE U == HT!Used(t) \cup {-1}
             h == [i \in U |-> IF i = -1 THEN was ELSE <<0, i>>]
  <2>1. HT!Used(t) \subseteq Nat /\ IsFiniteSet(HT!Used(t)) /\ t.Allocated \in Nat
    BY <1>12, UsedSlots
  <2>2. Cardinality(U) = Cardinality(HT!Used(t)) + 1
    <3>1. -1 \notin HT!Used(t)
      BY <2>1
    <3> QED BY <2>1, <3>1, FS_AddElement
  <2>3. n \in 1..Len(calls) /\ calls[n].then # HT!Unused
    BY <1>2, <1>4, <1>14
  <2>4. ASSUME NEW i \in U PROVE h[i] \in Places(t, calls, HT!Unused, n)
    <3>1. CASE i = -1
      <4>1. IsPlace(t, calls, HT!Unused, n, n, -1)
        BY <1>5, <1>2, <1>14
      <4>2. was \in Places(t, calls, HT!Unused, n)
        BY <1>2, <4>1 DEF Places
      <4> QED BY <3>1, <4>2
    <3>2. CASE i # -1
      <4>1. i \in HT!Used(t) /\ i \in Int
        BY <2>1, <3>2
      <4>2. <<0, i>> \in Places(t, calls, HT!Unused, n)
        BY <4>1 DEF Places, IsPlace
      <4> QED BY <3>2, <4>2
    <3> QED BY <3>1, <3>2
  <2>5. \A i, j \in U : h[i] = h[j] => i = j
    BY <1>2, <2>1
  <2>6. t.Allocated >= t.Allocated
    BY <2>1
  <2> HIDE DEF U, h
  <2>7. Fits(t, Cardinality(U))
    BY <2>1, <2>3, <2>4, <2>5, <2>6, RoomStays DEF n
  <2> QED BY <2>2, <2>7
<1> QED BY <1>13, <1>14 DEF d, e

(* A table without entries, and a call that is to add the old ones to it.  *)
LEMMA Grow ==
    ASSUME HT!HashTableAssumption,
           NEW t, NEW calls, NEW hand, NEW values, Sound(t, calls, hand, values),
           NEW t2, NEW old, TableTyped(t2), HT!Used(t2) = {},
           calls # << >> => t2.Allocated >= t.Allocated,
           \A i \in HT!Used(t) : old[i] = t.Entries[i],
           hand # HT!Unused => Fits(t2, Cardinality(HT!Used(t)) + 1)
    PROVE  Sound(t2, Append(calls, [old |-> old, left |-> HT!Used(t), then |-> hand]),
                 HT!Unused, values)
<1> DEFINE x == [old |-> old, left |-> HT!Used(t), then |-> hand]
           d == Append(calls, x)
           n == Len(calls) + 1
           g == [q \in Places(t2, d, HT!Unused, 1) |->
                    IF q[1] # n THEN q ELSE IF q[2] = -1 THEN <<-1, -1>> ELSE <<0, q[2]>>]
<1>1. /\ TableTyped(t) /\ CallsTyped(calls) /\ hand \in InSlots
      /\ HT!Used(t) \subseteq Nat /\ IsFiniteSet(HT!Used(t))
      /\ \A i \in HT!Used(t) : t.Entries[i] \in Entries
  <2>1. TableTyped(t) /\ CallsTyped(calls) /\ hand \in InSlots
    BY DEF Sound
  <2> QED BY <2>1, UsedSlots
<1>2. x.old = old /\ x.left = HT!Used(t) /\ x.then = hand /\ CallTyped(x)
  BY <1>1 DEF CallTyped
<1> HIDE DEF x
<1>3. /\ CallsTyped(d) /\ Len(d) = n /\ n \in Nat /\ n >= 1 /\ Len(calls) = n - 1
      /\ \A m \in 1..(n - 1) : d[m] = calls[m]
      /\ d[n] = x
  <2>1. Len(calls) \in Nat
    BY <1>1, CallsFacts
  <2>2. /\ CallsTyped(d) /\ Len(d) = Len(calls) + 1
        /\ \A m \in 1..Len(calls) : d[m] = calls[m]
        /\ d[Len(calls) + 1] = x
    BY <1>1, <1>2, Pushed1
  <2> HIDE DEF d
  <2> QED BY <2>1, <2>2
<1> HIDE DEF d, n
<1>4. TableTyped(t2) /\ HT!Used(t2) = {} /\ HT!Unused \in InSlots
  BY DEF InSlots
<1>5. ASSUME NEW k \in 1..n, NEW a \in Int, NEW b \in Int
      PROVE  /\ IsPlace(t2, d, HT!Unused, k, a, b) /\ a # n =>
                   IsPlace(t, calls, hand, k, a, b) /\ a # 0 /\ a # -1
             /\ IsPlace(t2, d, HT!Unused, k, a, b) /\ a = n /\ b # -1 => b \in HT!Used(t)
             /\ IsPlace(t2, d, HT!Unused, k, a, b) /\ a = n /\ b = -1 => hand # HT!Unused
             /\ IsPlace(t, calls, hand, k, a, b) =>
                   \/ a = 0 /\ b \in HT!Used(t)
                   \/ a = -1 /\ b = -1 /\ hand # HT!Unused
                   \/ a # n /\ IsPlace(t2, d, HT!Unused, k, a, b)
             /\ b \in HT!Used(t) => IsPlace(t2, d, HT!Unused, k, n, b) /\ b # -1
             /\ hand # HT!Unused => IsPlace(t2, d, HT!Unused, k, n, -1)
             /\ n # 0 /\ n # -1
  BY <1>1, <1>2, <1>3, <1>4 DEF IsPlace
<1>6. \A k \in 1..n : \A q \in Places(t2, d, HT!Unused, k) : g[q] \in Places(t, calls, hand, k)
  <2> SUFFICES ASSUME NEW k \in 1..n, NEW q \in Places(t2, d, HT!Unused, k)
               PROVE  g[q] \in Places(t, calls, hand, k)
    OBVIOUS
  <2>1. PICK a \in Int, b \in Int : q = <<a, b>> /\ IsPlace(t2, d, HT!Unused, k, a, b)
    BY DEF Places
  <2>2. q \in Places(t2, d, HT!Unused, 1)
    <3>1. k \in Nat /\ k >= 1
      BY <1>3
    <3> QED BY <1>3, <1>4, <3>1, PlacesFacts
  <2>3. CASE a # n
    <3>1. g[q] = q
      BY <2>1, <2>2, <2>3
    <3>2. IsPlace(t, calls, hand, k, a, b)
      BY <1>5, <2>1, <2>3
    <3>3. q \in Places(t, calls, hand, k)
      BY <2>1, <3>2 DEF Places
    <3> QED BY <3>1, <3>3
  <2>4. CASE a = n /\ b = -1
    <3>1. g[q] = <<-1, -1>>
      BY <2>1, <2>2, <2>4
    <3>2. hand # HT!Unused
      BY <1>5, <2>1, <2>4
    <3>3. <<-1, -1>> \in Places(t, calls, hand, k)
      BY <3>2 DEF Places, IsPlace
    <3> QED BY <3>1, <3>3
  <2>5. CASE a = n /\ b # -1
    <3>1. g[q] = <<0, b>>
      BY <2>1, <2>2, <2>5
    <3>2. b \in HT!Used(t)
      BY <1>5, <2>1, <2>5
    <3>3. <<0, b>> \in Places(t, calls, hand, k)
      BY <3>2 DEF Places, IsPlace
    <3> QED BY <3>1, <3>3
  <2> QED BY <2>3, <2>4, <2>5
<1>7. 1 \in 1..n
  BY <1>3
<1>8. \A q \in Places(t2, d, HT!Unused, 1) :
         /\ g[q] \in Places(t, calls, hand, 1)
         /\ EntryAt(t2, d, HT!Unused, q) = EntryAt(t, calls, hand, g[q])
  <2> SUFFICES ASSUME NEW q \in Places(t2, d, HT!Unused, 1)
               PROVE  EntryAt(t2, d, HT!Unused, q) = EntryAt(t, calls, hand, g[q])
    BY <1>6, <1>7
  <2>1. PICK a \in Int, b \in Int : q = <<a, b>> /\ IsPlace(t2, d, HT!Unused, 1, a, b)
    BY DEF Places
  <2>2. CASE a # n
    <3>1. g[q] = q
      BY <2>1, <2>2
    <3>2. a \in 1..(n - 1)
      BY <2>1, <2>2, <1>3, <1>5, <1>7 DEF IsPlace
    <3> QED BY <1>3, <2>1, <2>2, <3>1, <3>2 DEF EntryAt
  <2>3. CASE a = n /\ b = -1
    <3>1. g[q] = <<-1, -1>>
      BY <2>1, <2>3
    <3>2. EntryAt(t2, d, HT!Unused, q) = hand
      BY <1>2, <1>3, <2>1, <2>3 DEF EntryAt
    <3>3. EntryAt(t, calls, hand, <<-1, -1>>) = hand
      BY DEF EntryAt
    <3> QED BY <3>1, <3>2, <3>3
  <2>4. CASE a = n /\ b # -1
    <3>1. g[q] = <<0, b>>
      BY <2>1, <2>4
    <3>2. EntryAt(t2, d, HT!Unused, q) = old[b]
      BY <1>2, <1>3, <2>1, <2>4 DEF EntryAt
    <3>3. EntryAt(t, calls, hand, <<0, b>>) = t.Entries[b]
      BY DEF EntryAt
    <3>4. b \in HT!Used(t)
      BY <1>5, <1>7, <2>1, <2>4
    <3> QED BY <3>1, <3>2, <3>3, <3>4
  <2> QED BY <2>2, <2>3, <2>4
<1>9. \A q, r \in Places(t2, d, HT!Unused, 1) : g[q] = g[r] => q = r
  <2> SUFFICES ASSUME NEW q \in Places(t2, d, HT!Unused, 1),
                      NEW r \in Places(t2, d, HT!Unused, 1), g[q] = g[r]
               PROVE  q = r
    OBVIOUS
  <2>1. PICK a \in Int, b \in Int : q = <<a, b>> /\ IsPlace(t2, d, HT!Unused, 1, a, b)
    BY DEF Places
  <2>2. PICK u \in Int, v \in Int : r = <<u, v>> /\ IsPlace(t2, d, HT!Unused, 1, u, v)
    BY DEF Places
  <2>3. /\ g[q] = IF a # n THEN <<a, b>> ELSE IF b = -1 THEN <<-1, -1>> ELSE <<0, b>>
        /\ g[r] = IF u # n THEN <<u, v>> ELSE IF v = -1 THEN <<-1, -1>> ELSE <<0, v>>
    BY <2>1, <2>2
  <2>4. (a # n => a # 0 /\ a # -1) /\ (u # n => u # 0 /\ u # -1)
    BY <1>5, <1>7, <2>1, <2>2
  <2> HIDE DEF g
  <2> QED BY <2>1, <2>2, <2>3, <2>4
<1>10. \A p \in Places(t, calls, hand, 1) : \E q \in Places(t2, d, HT!Unused, 1) : g[q] = p
  <2> SUFFICES ASSUME NEW p \in Places(t, calls, hand, 1)
               PROVE  \E q \in Places(t2, d, HT!Unused, 1) : g[q] = p
    OBVIOUS
  <2>1. PICK a \in Int, b \in Int : p = <<a, b>> /\ IsPlace(t, calls, hand, 1, a, b)
    BY DEF Places
  <2>2. CASE a = 0 /\ b \in HT!Used(t)
    <3>1. IsPlace(t2, d, HT!Unused, 1, n, b) /\ b # -1
      BY <1>5, <1>7, <2>2
    <3>2. <<n, b>> \in Places(t2, d, HT!Unused, 1)
      BY <1>3, <3>1 DEF Places
    <3>3. g[<<n, b>>] = <<0, b>>
      BY <3>1, <3>2
    <3> QED BY <2>1, <2>2, <3>2, <3>3
  <2>3. CASE a = -1 /\ b = -1 /\ hand # HT!Unused
    <3>1. IsPlace(t2, d, HT!Unused, 1, n, -1)
      BY <1>5, <1>7, <2>3
    <3>2. <<n, -1>> \in Places(t2, d, HT!Unused, 1)
      BY <1>3, <3>1 DEF Places
    <3>3. g[<<n, -1>>] = <<-1, -1>>
      BY <3>2
    <3> QED BY <2>1, <2>3, <3>2, <3>3
  <2>4. CASE a # n /\ IsPlace(t2, d, HT!Unused, 1, a, b)
    <3>1. p \in Places(t2, d, HT!Unused, 1)
      BY <2>1, <2>4 DEF Places
    <3>2. g[p] = p
      BY <2>1, <2>4, <3>1
    <3> QED BY <3>1, <3>2
  <2> QED BY <1>5, <1>7, <2>1, <2>2, <2>3, <2>4
<1> HIDE DEF g
<1>11. ASSUME NEW k \in 1..Len(d), d[k].then # HT!Unused
       PROVE  Fits(t2, Cardinality(Places(t2, d, HT!Unused, k)))
  <2> DEFINE Q == Places(t2, d, HT!Unused, k)
  <2>1. k \in 1..n /\ k \in Nat /\ k >= 1
    BY <1>3, <1>11
  <2>2. Q \subseteq Places(t2, d, HT!Unused, 1)
    BY <1>3, <1>4, <2>1, PlacesFacts
  <2>3. CASE k # n
    <3>1. k \in 1..Len(calls) /\ calls[k].then # HT!Unused /\ calls # << >>
      BY <1>1, <1>3, <1>11, <2>1, <2>3, CallsFacts
    <3>2. /\ \A q \in Q : g[q] \in Places(t, calls, hand, k)
          /\ \A q, r \in Q : g[q] = g[r] => q = r
      BY <1>6, <1>9, <2>1, <2>2
    <3>3. t2.Allocated \in Nat /\ t2.Allocated >= t.Allocated
      BY <3>1 DEF TableTyped
    <3> HIDE DEF Q
    <3>4. Fits(t2, Cardinality(Q))
      BY <3>1, <3>2, <3>3, RoomStays
    <3> QED BY <3>4 DEF Q
  <2>4. CASE k = n
    <3> DEFINE U == HT!Used(t) \cup {-1}
               h == [q \in Q |-> q[2]]
    <3>1. Cardinality(U) = Cardinality(HT!Used(t)) + 1 /\ IsFiniteSet(U)
      <4>1. -1 \notin HT!Used(t)
        BY <1>1
      <4> QED BY <1>1, <4>1, FS_AddElement
    <3>2. ASSUME NEW q \in Q PROVE q[1] = n /\ h[q] \in U /\ q \in Int \X Int
      <4>1. PICK a \in Int, b \in Int : q = <<a, b>> /\ IsPlace(t2, d, HT!Unused, k, a, b)
        BY DEF Places
      <4>2. a = n /\ (b \in HT!Used(t) \/ b = -1)
        BY <4>1, <1>2, <1>3, <1>4, <2>4 DEF IsPlace
      <4> QED BY <4>1, <4>2
    <3>3. \A q, r \in Q : h[q] = h[r] => q = r
      BY <3>2
    <3> HIDE DEF U, h, Q
    <3>4. IsFiniteSet(Q) /\ Cardinality(Q) <= Cardinality(U)
      BY <3>1, <3>2, <3>3, NotMore
    <3>5. Cardinality(Q) \in Nat /\ Cardinality(U) \in Nat
      BY <3>1, <3>4, FS_CardinalityType
    <3>6. hand # HT!Unused
      BY <1>2, <1>3, <1>11, <2>4
    <3>7. Cardinality(U) * 100 < t2.Allocated * LOAD_FACTOR_PERCENT
      BY <3>1, <3>6 DEF Fits
    <3>8. t2.Allocated * LOAD_FACTOR_PERCENT \in Nat
      BY DEF TableTyped, HT!HashTableAssumption
    <3>9. Cardinality(Q) * 100 < t2.Allocated * LOAD_FACTOR_PERCENT
      <4>1. PICK w \in Nat : w = t2.Allocated * LOAD_FACTOR_PERCENT
        BY <3>8
      <4> QED BY ONLY <3>4, <3>5, <3>7, <4>1
    <3> QED BY <3>9 DEF Fits, Q
  <2> QED BY <2>3, <2>4
<1>12. Probed(t2) /\ Counted(t2)
  <2>1. Cardinality({}) = 0 /\ t2.SlotsFilled \in Nat
    BY FS_EmptySet DEF TableTyped
  <2> QED BY <1>4, <2>1 DEF Probed, Counted
<1>13. Sound(t2, d, HT!Unused, values)
  BY <1>3, <1>4, <1>8, <1>9, <1>10, <1>11, <1>12, Carried
<1> QED BY <1>13 DEF d, x

LEMMA HasFreeSlot ==
    ASSUME HT!HashTableAssumption, NEW t, TableTyped(t), Fits(t, Cardinality(HT!Used(t)) + 1)
    PROVE  t.Allocated # 0 /\ \E s \in 0..(t.Allocated - 1) : s \notin HT!Used(t)
<1>1. PICK a \in Nat : a = t.Allocated
  BY DEF TableTyped
<1>2. IsFiniteSet(HT!Used(t)) /\ HT!Used(t) \subseteq 0..(a - 1)
  BY <1>1, UsedSlots
<1>3. PICK c \in Nat : c = Cardinality(HT!Used(t))
  BY <1>2, FS_CardinalityType
<1>4. (c + 1) * 100 < a * LOAD_FACTOR_PERCENT /\ LOAD_FACTOR_PERCENT \in 51..99
  BY <1>1, <1>3 DEF Fits, HT!HashTableAssumption
<1>5. a * LOAD_FACTOR_PERCENT <= a * 100
  BY <1>4
<1>6. c < a
  <2>1. PICK w \in Int : w = a * LOAD_FACTOR_PERCENT
    BY <1>4
  <2> QED BY ONLY <1>1, <1>3, <1>4, <1>5, <2>1
<1>7. Cardinality(0..(a - 1)) = a
  <2>1. 0 \in Int /\ a - 1 \in Int
    OBVIOUS
  <2>2. Cardinality(0..(a - 1)) = IF 0 > a - 1 THEN 0 ELSE (a - 1) - 0 + 1
    BY ONLY <2>1, FS_Interval, Zenon
  <2> QED BY <2>2
<1>8. HT!Used(t) # 0..(a - 1)
  BY <1>3, <1>6, <1>7
<1>9. \E s \in 0..(a - 1) : s \notin HT!Used(t)
  BY <1>2, <1>8
<1>10. a # 0
  BY <1>6
<1> QED BY ONLY <1>1, <1>9, <1>10, Zenon

LEMMA PlacedFacts ==
    ASSUME HT!HashTableAssumption, NEW t, TableTyped(t), Probed(t), Counted(t),
           Fits(t, Cardinality(HT!Used(t)) + 1), NEW e \in Entries
    PROVE  /\ TableTyped(HT!Placed(t, e)) /\ Probed(HT!Placed(t, e)) /\ Counted(HT!Placed(t, e))
           /\ HT!Placed(t, e).Allocated = t.Allocated
           /\ \E s \in Nat : /\ s \notin HT!Used(t)
                             /\ HT!Used(HT!Placed(t, e)) = HT!Used(t) \cup {s}
                             /\ HT!Placed(t, e).Entries[s] = e
                             /\ \A i \in HT!Used(t) : HT!Placed(t, e).Entries[i] = t.Entries[i]
<1>1. PICK a \in Nat \ {0} : a = t.Allocated
  BY HasFreeSlot DEF TableTyped
<1>2. e.Hash \in Nat /\ e # HT!Unused /\ e \in InSlots
  BY EntryFacts DEF InSlots
<1>3. PICK s : s = HT!FreeSlot(t, e.Hash)
  OBVIOUS
<1>4. /\ s \in 0..(a - 1) /\ s \notin HT!Used(t)
      /\ \E n \in 0..(a - 1) : /\ s = HT!SlotAt(t, e.Hash, n)
                               /\ \A m \in 0..(n - 1) : HT!SlotAt(t, e.Hash, m) \in HT!Used(t)
  <2>1. PICK f \in 0..(t.Allocated - 1) : f \notin HT!Used(t)
    BY HasFreeSlot
  <2> QED BY <1>1, <1>2, <1>3, <2>1, FreeSlotFacts
<1>5. PICK v : v = HT!Placed(t, e)
  OBVIOUS
<1>6. v = [t EXCEPT !.Entries = [t.Entries EXCEPT ![s] = e],
                    !.Count = t.Count + 1, !.SlotsFilled = t.SlotsFilled + 1]
  BY <1>3, <1>5 DEF HT!Placed
<1>7. t \in [Entries : [0..(a - 1) -> InSlots], Count : Nat, SlotsFilled : Nat, Allocated : Nat]
  BY <1>1 DEF TableTyped
<1>8. /\ v.Entries = [t.Entries EXCEPT ![s] = e] /\ v.Count = t.Count + 1
      /\ v.SlotsFilled = t.SlotsFilled + 1 /\ v.Allocated = a
      /\ v = [Entries |-> v.Entries, Count |-> v.Count, SlotsFilled |-> v.SlotsFilled,
              Allocated |-> v.Allocated]
  BY <1>1, <1>6, <1>7
<1>9. v.Entries \in [0..(a - 1) -> InSlots]
      /\ \A i \in 0..(a - 1) : v.Entries[i] = IF i = s THEN e ELSE t.Entries[i]
  BY <1>2, <1>4, <1>7, <1>8
<1>10. TableTyped(v)
  <2>1. v \in [Entries : [0..(a - 1) -> InSlots], Count : Nat, SlotsFilled : Nat, Allocated : Nat]
    BY <1>7, <1>8, <1>9
  <2>2. t.Allocated \in Sizes /\ t.Allocated >= MINIMUM_SIZE
    BY <1>1 DEF TableTyped
  <2> QED BY <1>1, <1>8, <2>1, <2>2 DEF TableTyped
<1>11. /\ HT!Used(t) = {i \in 0..(a - 1) : t.Entries[i] # HT!Unused}
       /\ HT!Used(v) = {i \in 0..(a - 1) : v.Entries[i] # HT!Unused}
       /\ IsFiniteSet(HT!Used(t))
  BY <1>1, <1>8, <1>10, UsedSlots
<1>12. HT!Used(v) = HT!Used(t) \cup {s}
  BY <1>2, <1>4, <1>9, <1>11
<1>13. \A i \in HT!Used(t) : v.Entries[i] = t.Entries[i]
  BY <1>4, <1>9, <1>11
<1>14. v.Entries[s] = e
  BY <1>4, <1>9
<1>15. \A h, n : HT!SlotAt(v, h, n) = HT!SlotAt(t, h, n)
  BY <1>1, <1>8, Zenon DEF HT!SlotAt
<1>16. Probed(v)
  <2> SUFFICES ASSUME NEW i \in HT!Used(v)
               PROVE  \E n \in 0..(a - 1) :
                         /\ i = HT!SlotAt(v, v.Entries[i].Hash, n)
                         /\ \A m \in 0..(n - 1) : HT!SlotAt(v, v.Entries[i].Hash, m) \in HT!Used(v)
    BY <1>8 DEF Probed
  <2>1. CASE i = s
    <3>1. PICK n \in 0..(a - 1) : /\ s = HT!SlotAt(t, e.Hash, n)
                                  /\ \A m \in 0..(n - 1) : HT!SlotAt(t, e.Hash, m) \in HT!Used(t)
      BY <1>4
    <3> QED BY <1>12, <1>14, <1>15, <2>1, <3>1
  <2>2. CASE i # s
    <3>1. i \in HT!Used(t)
      BY <1>12, <2>2
    <3>2. PICK n \in 0..(a - 1) :
              /\ i = HT!SlotAt(t, t.Entries[i].Hash, n)
              /\ \A m \in 0..(n - 1) : HT!SlotAt(t, t.Entries[i].Hash, m) \in HT!Used(t)
      BY <1>1, <3>1 DEF Probed
    <3> QED BY <1>12, <1>13, <1>15, <3>1, <3>2
  <2> QED BY <2>1, <2>2
<1>17. Cardinality(HT!Used(v)) = Cardinality(HT!Used(t)) + 1
  <2>1. s \notin HT!Used(t) /\ IsFiniteSet(HT!Used(t))
    BY <1>4, <1>11
  <2> QED BY ONLY <2>1, <1>12, FS_AddElement
<1>18. Counted(v)
  <2>1. Fits(v, Cardinality(HT!Used(v)))
    BY <1>1, <1>8, <1>17 DEF Fits
  <2>2. Cardinality(HT!Used(t)) \in Nat /\ Cardinality(HT!Used(t)) <= t.SlotsFilled
    BY <1>11, FS_CardinalityType DEF Counted
  <2>3. v.Count > 0 /\ Cardinality(HT!Used(v)) <= v.SlotsFilled
    BY <1>7, <1>8, <1>17, <2>2
  <2> QED BY <2>1, <2>3 DEF Counted
<1> QED BY <1>1, <1>4, <1>5, <1>8, <1>10, <1>12, <1>13, <1>14, <1>16, <1>18

(* The entry in the hand finds its slot.                                   *)
LEMMA Place ==
    ASSUME HT!HashTableAssumption,
           NEW t, NEW calls, NEW e \in Entries, NEW values, Sound(t, calls, e, values),
           Fits(t, Cardinality(HT!Used(t)) + 1)
    PROVE  Sound(HT!Placed(t, e), calls, HT!Unused, values)
<1>1. PICK v : v = HT!Placed(t, e)
  OBVIOUS
<1>2. /\ TableTyped(v) /\ Probed(v) /\ Counted(v) /\ v.Allocated = t.Allocated
      /\ \E s \in Nat : /\ s \notin HT!Used(t)
                        /\ HT!Used(v) = HT!Used(t) \cup {s}
                        /\ v.Entries[s] = e
                        /\ \A i \in HT!Used(t) : v.Entries[i] = t.Entries[i]
  BY <1>1, PlacedFacts DEF Sound
<1>3. PICK s \in Nat : /\ s \notin HT!Used(t)
                       /\ HT!Used(v) = HT!Used(t) \cup {s}
                       /\ v.Entries[s] = e
                       /\ \A i \in HT!Used(t) : v.Entries[i] = t.Entries[i]
  BY <1>2
<1>4. PICK n \in Nat : n = Len(calls)
  BY CallsFacts DEF Sound
<1>5. TableTyped(t) /\ CallsTyped(calls) /\ e \in InSlots /\ e # HT!Unused
  BY EntryFacts DEF Sound
<1> DEFINE g == [q \in Places(v, calls, HT!Unused, 1) |->
                    IF q[1] = 0 /\ q[2] = s THEN <<-1, -1>> ELSE q]
<1>6. ASSUME NEW k \in Nat \ {0}, NEW a \in Int, NEW b \in Int
      PROVE  /\ IsPlace(v, calls, HT!Unused, k, a, b) =>
                   a # -1 /\ (~(a = 0 /\ b = s) => IsPlace(t, calls, e, k, a, b))
             /\ IsPlace(v, calls, HT!Unused, k, 0, s)
             /\ IsPlace(t, calls, e, k, -1, -1)
             /\ IsPlace(t, calls, e, k, a, b) =>
                   \/ a = -1 /\ b = -1
                   \/ IsPlace(v, calls, HT!Unused, k, a, b) /\ ~(a = 0 /\ b = s)
             /\ IsPlace(v, calls, HT!Unused, k, a, b) /\ a = 0 /\ b # s => b \in HT!Used(t)
  BY <1>3, <1>4, <1>5 DEF IsPlace
<1>one. 1 \in Nat \ {0}
  OBVIOUS
<1>7. ASSUME NEW k \in Nat \ {0}, NEW q \in Places(v, calls, HT!Unused, k)
      PROVE  g[q] \in Places(t, calls, e, k) /\ q \in Places(v, calls, HT!Unused, 1)
  <2>1. PICK a \in Int, b \in Int : q = <<a, b>> /\ IsPlace(v, calls, HT!Unused, k, a, b)
    BY DEF Places
  <2>2. q \in Places(v, calls, HT!Unused, 1)
    <3>1. HT!Unused \in InSlots
      BY DEF InSlots
    <3> QED BY <1>2, <1>5, <3>1, PlacesFacts
  <2>3. CASE a = 0 /\ b = s
    <3>1. g[q] = <<-1, -1>>
      BY <2>1, <2>2, <2>3
    <3>2. <<-1, -1>> \in Places(t, calls, e, k)
      BY <1>6 DEF Places
    <3> QED BY <2>2, <3>1, <3>2
  <2>4. CASE ~(a = 0 /\ b = s)
    <3>1. g[q] = q
      BY <2>1, <2>2, <2>4
    <3>2. IsPlace(t, calls, e, k, a, b)
      BY <1>6, <2>1, <2>4
    <3>3. q \in Places(t, calls, e, k)
      BY <2>1, <3>2 DEF Places
    <3> QED BY <2>2, <3>1, <3>3
  <2> QED BY <2>3, <2>4
<1>8. \A q \in Places(v, calls, HT!Unused, 1) :
         /\ g[q] \in Places(t, calls, e, 1)
         /\ EntryAt(v, calls, HT!Unused, q) = EntryAt(t, calls, e, g[q])
  <2> SUFFICES ASSUME NEW q \in Places(v, calls, HT!Unused, 1)
               PROVE  EntryAt(v, calls, HT!Unused, q) = EntryAt(t, calls, e, g[q])
    BY <1>7, <1>one
  <2>1. PICK a \in Int, b \in Int : q = <<a, b>> /\ IsPlace(v, calls, HT!Unused, 1, a, b)
    BY DEF Places
  <2>2. CASE a = 0 /\ b = s
    <3>1. g[q] = <<-1, -1>>
      BY <2>1, <2>2
    <3>2. EntryAt(v, calls, HT!Unused, q) = e
      BY <1>3, <2>1, <2>2 DEF EntryAt
    <3>3. EntryAt(t, calls, e, <<-1, -1>>) = e
      BY DEF EntryAt
    <3> QED BY <3>1, <3>2, <3>3
  <2>3. CASE ~(a = 0 /\ b = s)
    <3>1. g[q] = q
      BY <2>1, <2>3
    <3>2. a # -1 /\ (a = 0 => b \in HT!Used(t))
      BY <1>6, <1>one, <2>1, <2>3
    <3> QED BY <1>3, <2>1, <3>1, <3>2 DEF EntryAt
  <2> QED BY <2>2, <2>3
<1>9. \A q, r \in Places(v, calls, HT!Unused, 1) : g[q] = g[r] => q = r
  <2> SUFFICES ASSUME NEW q \in Places(v, calls, HT!Unused, 1),
                      NEW r \in Places(v, calls, HT!Unused, 1), g[q] = g[r]
               PROVE  q = r
    OBVIOUS
  <2>1. PICK a \in Int, b \in Int : q = <<a, b>> /\ IsPlace(v, calls, HT!Unused, 1, a, b)
    BY DEF Places
  <2>2. PICK x \in Int, y \in Int : r = <<x, y>> /\ IsPlace(v, calls, HT!Unused, 1, x, y)
    BY DEF Places
  <2>3. /\ g[q] = IF a = 0 /\ b = s THEN <<-1, -1>> ELSE <<a, b>>
        /\ g[r] = IF x = 0 /\ y = s THEN <<-1, -1>> ELSE <<x, y>>
    BY <2>1, <2>2
  <2>4. a # -1 /\ x # -1
    BY <1>6, <1>one, <2>1, <2>2
  <2> HIDE DEF g
  <2> QED BY <2>1, <2>2, <2>3, <2>4
<1>10. \A p \in Places(t, calls, e, 1) : \E q \in Places(v, calls, HT!Unused, 1) : g[q] = p
  <2> SUFFICES ASSUME NEW p \in Places(t, calls, e, 1)
               PROVE  \E q \in Places(v, calls, HT!Unused, 1) : g[q] = p
    OBVIOUS
  <2>1. PICK a \in Int, b \in Int : p = <<a, b>> /\ IsPlace(t, calls, e, 1, a, b)
    BY DEF Places
  <2>2. CASE a = -1 /\ b = -1
    <3>1. <<0, s>> \in Places(v, calls, HT!Unused, 1)
      BY <1>6, <1>one DEF Places
    <3>2. g[<<0, s>>] = <<-1, -1>>
      BY <3>1
    <3> QED BY <2>1, <2>2, <3>1, <3>2
  <2>3. CASE IsPlace(v, calls, HT!Unused, 1, a, b) /\ ~(a = 0 /\ b = s)
    <3>1. p \in Places(v, calls, HT!Unused, 1)
      BY <2>1, <2>3 DEF Places
    <3>2. g[p] = p
      BY <2>1, <2>3, <3>1
    <3> QED BY <3>1, <3>2
  <2> QED BY <1>6, <1>one, <2>1, <2>2, <2>3
<1> HIDE DEF g
<1>11. ASSUME NEW k \in 1..Len(calls), calls[k].then # HT!Unused
       PROVE  Fits(v, Cardinality(Places(v, calls, HT!Unused, k)))
  <2> DEFINE Q == Places(v, calls, HT!Unused, k)
  <2>1. k \in Nat \ {0}
    BY <1>4
  <2>2. /\ \A q \in Q : g[q] \in Places(t, calls, e, k)
        /\ \A q, r \in Q : g[q] = g[r] => q = r
    BY <1>7, <1>9, <2>1
  <2>3. v.Allocated \in Nat /\ v.Allocated >= t.Allocated
    BY <1>2 DEF TableTyped
  <2> HIDE DEF Q
  <2>4. Fits(v, Cardinality(Q))
    BY <1>11, <2>2, <2>3, RoomStays
  <2> QED BY <2>4 DEF Q
<1>12. HT!Unused \in InSlots
  BY DEF InSlots
<1>13. Sound(v, calls, HT!Unused, values)
  BY <1>2, <1>5, <1>8, <1>9, <1>10, <1>11, <1>12, Carried
<1> QED BY <1>1, <1>13

(* Without calls of resize entries are in the table only.                  *)
SettledOnce(t) == \A i, j \in HT!Used(t) :
                     Findable(t.Entries[i]) /\ t.Entries[i].Key = t.Entries[j].Key => i = j
SettledLast(t, values) ==
    /\ \A i \in HT!Used(t) : Findable(t.Entries[i]) => t.Entries[i].Value = values[t.Entries[i].Key]
    /\ \A k \in Keys : Hash[k] >= HT!FIRST_VALID_HASH /\ values[k] # Absent =>
          \E i \in HT!Used(t) : t.Entries[i].Key = k

LEMMA Settled ==
    ASSUME HT!HashTableAssumption, NEW t, NEW values, TableTyped(t)
    PROVE  LET f == Placing(t, << >>, HT!Unused)
           IN  KeptOnce(f) /\ KeptLast(f, values) <=> SettledOnce(t) /\ SettledLast(t, values)
<1> DEFINE P == Places(t, << >>, HT!Unused, 1)
           f == Placing(t, << >>, HT!Unused)
<1>1. HT!Used(t) \subseteq Int
  BY UsedSlots
<1>2. \A i \in HT!Used(t) : <<0, i>> \in P
  BY <1>1 DEF Places, IsPlace
<1>3. \A p \in P : p[1] = 0 /\ p[2] \in HT!Used(t) /\ p = <<0, p[2]>>
  <2> SUFFICES ASSUME NEW p \in P PROVE p[1] = 0 /\ p[2] \in HT!Used(t) /\ p = <<0, p[2]>>
    OBVIOUS
  <2>1. PICK a \in Int, b \in Int : p = <<a, b>> /\ IsPlace(t, << >>, HT!Unused, 1, a, b)
    BY DEF Places
  <2>2. Len(<< >>) = 0
    OBVIOUS
  <2>3. a = 0 /\ b \in HT!Used(t)
    BY <2>1, <2>2 DEF IsPlace
  <2> QED BY <2>1, <2>3
<1>4. DOMAIN f = P /\ \A p \in P : f[p] = t.Entries[p[2]]
  BY <1>3 DEF Placing, EntryAt
<1>5. \A i \in HT!Used(t) : f[<<0, i>>] = t.Entries[i]
  BY <1>2, <1>4
<1> HIDE DEF f, P
<1>6. KeptOnce(f) <=> SettledOnce(t)
  <2>1. ASSUME KeptOnce(f) PROVE SettledOnce(t)
    <3> SUFFICES ASSUME NEW i \in HT!Used(t), NEW j \in HT!Used(t),
                        Findable(t.Entries[i]), t.Entries[i].Key = t.Entries[j].Key
                 PROVE  i = j
      BY DEF SettledOnce
    <3>1. <<0, i>> \in DOMAIN f /\ <<0, j>> \in DOMAIN f
      BY <1>2, <1>4
    <3>2. <<0, i>> = <<0, j>>
      BY <1>5, <2>1, <3>1 DEF KeptOnce
    <3> QED BY <3>2
  <2>2. ASSUME SettledOnce(t) PROVE KeptOnce(f)
    <3> SUFFICES ASSUME NEW p \in P, NEW q \in P, Findable(f[p]), f[p].Key = f[q].Key
                 PROVE  p = q
      BY <1>4 DEF KeptOnce
    <3>1. p[2] = q[2]
      BY <1>3, <1>4, <2>2 DEF SettledOnce
    <3> QED BY <1>3, <3>1
  <2> QED BY <2>1, <2>2
<1>7. KeptLast(f, values) <=> SettledLast(t, values)
  <2>1. (\A p \in P : Findable(f[p]) => f[p].Value = values[f[p].Key])
        <=> \A i \in HT!Used(t) : Findable(t.Entries[i]) =>
                                      t.Entries[i].Value = values[t.Entries[i].Key]
    <3>1. ASSUME \A p \in P : Findable(f[p]) => f[p].Value = values[f[p].Key],
                 NEW i \in HT!Used(t), Findable(t.Entries[i])
          PROVE  t.Entries[i].Value = values[t.Entries[i].Key]
      BY <1>2, <1>5, <3>1
    <3>2. ASSUME \A i \in HT!Used(t) : Findable(t.Entries[i]) =>
                                           t.Entries[i].Value = values[t.Entries[i].Key],
                 NEW p \in P, Findable(f[p])
          PROVE  f[p].Value = values[f[p].Key]
      <4>1. PICK i \in HT!Used(t) : f[p] = t.Entries[i]
        BY <1>3, <1>4
      <4> QED BY <3>2, <4>1
    <3> QED BY <3>1, <3>2
  <2>2. \A k : (\E p \in P : f[p].Key = k) <=> \E i \in HT!Used(t) : t.Entries[i].Key = k
    <3> SUFFICES ASSUME NEW k
                 PROVE  (\E p \in P : f[p].Key = k) <=> \E i \in HT!Used(t) : t.Entries[i].Key = k
      OBVIOUS
    <3>1. ASSUME NEW p \in P, f[p].Key = k PROVE \E i \in HT!Used(t) : t.Entries[i].Key = k
      BY <1>3, <1>4, <3>1
    <3>2. ASSUME NEW i \in HT!Used(t), t.Entries[i].Key = k PROVE \E p \in P : f[p].Key = k
      BY <1>2, <1>5, <3>2
    <3> QED BY <3>1, <3>2
  <2> QED BY <1>4, <2>1, <2>2, Zenon DEF KeptLast, SettledLast
<1> QED BY <1>6, <1>7 DEF f

LEMMA SearchFacts ==
    ASSUME HT!HashTableAssumption, NEW t, TableTyped(t), Probed(t), Counted(t), NEW k \in Keys,
           NEW slot, slot = HT!Search(t, Hash[k], k)
    PROVE  /\ slot # -1 => /\ slot \in HT!Used(t) /\ t.Entries[slot].Key = k
                           /\ Hash[k] >= HT!FIRST_VALID_HASH
           /\ slot = -1 /\ Hash[k] >= HT!FIRST_VALID_HASH
                 => \A i \in HT!Used(t) : t.Entries[i].Key # k
<1> DEFINE E(n) == \/ t.Entries[HT!SlotAt(t, Hash[k], n)] = HT!Unused
                   \/ /\ t.Entries[HT!SlotAt(t, Hash[k], n)].Hash = Hash[k]
                      /\ t.Entries[HT!SlotAt(t, Hash[k], n)].Key = k
           ends == {n \in 0..(t.Allocated - 1) : E(n)}
           s == HT!SlotAt(t, Hash[k], HT!Min(ends))
<1>1. slot = IF t.Count = 0 \/ ends = {} THEN -1 ELSE IF t.Entries[s] = HT!Unused THEN -1 ELSE s
  BY Zenon DEF HT!Search
<1>2. Hash[k] \in Nat
  BY DEF HT!HashTableAssumption
<1>3. t.Allocated \in Nat
  BY DEF TableTyped
<1>4. ends \subseteq Nat /\ \A n \in ends : n \in 0..(t.Allocated - 1) /\ E(n)
  BY <1>3
<1>5. ASSUME ends # {} PROVE HT!Min(ends) \in ends /\ \A n \in ends : HT!Min(ends) <= n
  <2> HIDE DEF ends
  <2> QED BY <1>4, <1>5, MinIs
<1>6. ASSUME slot # -1
      PROVE  /\ slot \in HT!Used(t) /\ t.Entries[slot].Key = k
             /\ Hash[k] >= HT!FIRST_VALID_HASH
  <2>1. ends # {} /\ slot = s /\ t.Entries[s] # HT!Unused
    BY <1>1, <1>6
  <2>2. HT!Min(ends) \in 0..(t.Allocated - 1) /\ E(HT!Min(ends))
    BY <1>4, <1>5, <2>1
  <2>3. s \in 0..(t.Allocated - 1)
    <3> HIDE DEF ends
    <3>1. t.Allocated \in Nat \ {0}
      <4>1. PICK a \in Nat : a = t.Allocated
        BY <1>3
      <4>2. PICK x : x \in 0..(a - 1)
        BY <2>2, <4>1
      <4> QED BY <4>1, <4>2
    <3> QED BY <1>2, <2>2, <3>1, SlotFacts
  <2>4. t.Entries[s].Key = k /\ t.Entries[s].Hash = Hash[k]
    BY <2>1, <2>2
  <2> HIDE DEF s, ends
  <2>5. s \in HT!Used(t) /\ t.Entries[s] \in Entries
    BY <2>1, <2>3, UsedSlots
  <2>6. Hash[k] >= HT!FIRST_VALID_HASH
    BY <2>4, <2>5, EntryFacts DEF HT!FIRST_VALID_HASH
  <2> QED BY <2>1, <2>4, <2>5, <2>6
<1>7. ASSUME slot = -1, Hash[k] >= HT!FIRST_VALID_HASH, NEW i \in HT!Used(t), t.Entries[i].Key = k
      PROVE  FALSE
  <2>1. t.Count # 0
    BY DEF Counted
  <2>2. t.Entries[i] \in Entries /\ t.Entries[i] # HT!Unused /\ i \in 0..(t.Allocated - 1)
    BY UsedSlots
  <2>3. t.Entries[i].Hash = Hash[k]
    <3>1. PICK e \in Entries : e = t.Entries[i]
      BY <2>2
    <3>2. e.Hash = HT!ValidHash(Hash[k])
      BY <1>7, <3>1 DEF Entries
    <3>3. HT!ValidHash(Hash[k]) = Hash[k]
      BY <1>2, <1>7 DEF HT!ValidHash, HT!FIRST_VALID_HASH
    <3> QED BY <3>1, <3>2, <3>3
  <2>4. PICK n \in 0..(t.Allocated - 1) :
            /\ i = HT!SlotAt(t, Hash[k], n)
            /\ \A m \in 0..(n - 1) : HT!SlotAt(t, Hash[k], m) \in HT!Used(t)
    BY <2>3 DEF Probed
  <2>5. n \in ends
    BY <1>7, <2>3, <2>4
  <2>6. HT!Min(ends) \in ends /\ HT!Min(ends) <= n
    BY <1>5, <2>5
  <2>7. s \in HT!Used(t)
    <3>1. HT!Min(ends) \in Nat
      BY <1>4, <2>6
    <3>2. CASE HT!Min(ends) = n
      <4>1. s = i
        BY <2>4, <3>2, Zenon
      <4> QED BY <4>1
    <3>3. CASE HT!Min(ends) # n
      <4> HIDE DEF ends
      <4>1. HT!Min(ends) \in 0..(n - 1)
        BY <1>3, <2>4, <2>6, <3>1, <3>3
      <4> QED BY <2>4, <4>1
    <3> QED BY <3>2, <3>3
  <2>8. s \in 0..(t.Allocated - 1) /\ t.Entries[s] # HT!Unused
    <3> HIDE DEF s
    <3> QED BY <2>7, UsedSlots
  <2>9. slot = s
    <3>1. ends # {}
      BY <2>5
    <3> HIDE DEF s, ends
    <3> QED BY <1>1, <2>1, <2>8, <3>1
  <2>10. s >= 0
    <3> HIDE DEF s
    <3> QED BY <1>3, <2>8
  <2> HIDE DEF s
  <2> QED BY <1>7, <2>9, <2>10
<1> QED BY <1>6, <1>7

(* With no call of resize under way a search finds what was set last.      *)
LEMMA FindsWhatWasSet ==
    ASSUME HT!HashTableAssumption, NEW t, NEW values \in [Keys -> HashValues \cup {Absent}],
           Sound(t, << >>, HT!Unused, values), NEW k \in Keys
    PROVE  HT!Find(t, k) = IF Hash[k] < HT!FIRST_VALID_HASH THEN Absent ELSE values[k]
<1>1. PICK slot : slot = HT!Search(t, Hash[k], k)
  OBVIOUS
<1>2. TableTyped(t) /\ Probed(t) /\ Counted(t) /\ SettledOnce(t) /\ SettledLast(t, values)
  BY Settled DEF Sound
<1>3. HT!Find(t, k) = IF slot = -1 THEN Absent ELSE t.Entries[slot].Value
  BY <1>1, Zenon DEF HT!Find
<1>4. Hash[k] \in Nat
  BY DEF HT!HashTableAssumption
<1>5. CASE slot # -1
  <2>1. slot \in HT!Used(t) /\ t.Entries[slot].Key = k /\ Hash[k] >= HT!FIRST_VALID_HASH
    BY <1>1, <1>2, <1>5, SearchFacts
  <2>2. t.Entries[slot].Value = values[k]
    BY <1>2, <2>1 DEF SettledLast, Findable
  <2> QED BY <1>3, <1>4, <1>5, <2>1, <2>2 DEF HT!FIRST_VALID_HASH
<1>6. CASE slot = -1
  <2>1. Hash[k] >= HT!FIRST_VALID_HASH => \A i \in HT!Used(t) : t.Entries[i].Key # k
    BY <1>1, <1>2, <1>6, SearchFacts
  <2>2. Hash[k] >= HT!FIRST_VALID_HASH => values[k] = Absent
    BY <1>2, <2>1 DEF SettledLast
  <2> QED BY <1>3, <1>4, <1>6, <2>2 DEF HT!FIRST_VALID_HASH
<1> QED BY <1>5, <1>6

LEMMA Emptied ==
    ASSUME HT!HashTableAssumption, NEW t, TableTyped(t), HT!Used(t) = {}
    PROVE  Sound(t, << >>, HT!Unused, [k \in Keys |-> Absent])
<1>1. CallsTyped(<< >>) /\ Len(<< >>) = 0
  <2>1. << >> \in Seq({(<< >>)[m] : m \in 1..Len(<< >>)}) /\ Len(<< >>) = 0
    OBVIOUS
  <2> QED BY <2>1 DEF CallsTyped
<1>2. HT!Unused \in InSlots
  BY DEF InSlots
<1>3. Probed(t) /\ Counted(t)
  <2>1. Cardinality({}) = 0 /\ t.SlotsFilled \in Nat
    BY FS_EmptySet DEF TableTyped
  <2> QED BY <2>1 DEF Probed, Counted
<1>4. SettledOnce(t) /\ SettledLast(t, [k \in Keys |-> Absent])
  BY DEF SettledOnce, SettledLast
<1>5. /\ KeptOnce(Placing(t, << >>, HT!Unused))
      /\ KeptLast(Placing(t, << >>, HT!Unused), [k \in Keys |-> Absent])
  BY <1>4, Settled
<1>6. Places(t, << >>, HT!Unused, 1) = {}
  BY <1>1 DEF Places, IsPlace
<1>7. RoomFor(t, << >>, HT!Unused)
  BY <1>1, <1>6, FS_EmptySet DEF RoomFor
<1> QED BY <1>1, <1>2, <1>3, <1>5, <1>7 DEF Sound

LEMMA NewTableFacts == TableTyped(HT!NewTable) /\ HT!Used(HT!NewTable) = {}
<1>1. HT!NewTable.Allocated = 0 /\ 0..(0 - 1) = {}
  BY DEF HT!NewTable
<1>2. [i \in {} |-> 0] \in [0..(0 - 1) -> InSlots]
  BY <1>1
<1> QED BY <1>1, <1>2 DEF TableTyped, HT!Used, HT!NewTable

(* What resize makes of a table.                                           *)
LEMMA FreshFacts ==
    ASSUME HT!HashTableAssumption, NEW t, TableTyped(t), NEW n \in Nat, n >= t.Allocated,
           \E p \in Sizes : p >= n
    PROVE  LET v == HT!Fresh(t, HT!Target(n))
           IN  /\ TableTyped(v) /\ HT!Used(v) = {} /\ v.Allocated >= t.Allocated
               /\ v.Allocated >= n /\ v.Allocated >= MINIMUM_SIZE
<1> DEFINE S == {p \in Sizes : p >= n}
<1>1. PICK c : c = HT!CeilPow2(n)
  OBVIOUS
<1>2. c \in Sizes /\ c >= n
  <2>1. S \subseteq Nat /\ S # {}
    BY DEF HT!HashTableAssumption
  <2>2. HT!CeilPow2(n) = HT!Min(S)
    BY DEF HT!CeilPow2
  <2>3. HT!Min(S) \in S
    <3> HIDE DEF S
    <3> QED BY <2>1, MinIs
  <2> QED BY <1>1, <2>2, <2>3
<1>3. MINIMUM_SIZE \in Sizes /\ Sizes \subseteq Nat \ {0}
  BY DEF HT!HashTableAssumption
<1>4. PICK a : a = HT!Target(n)
  OBVIOUS
<1>5. a \in Sizes /\ a \in Nat \ {0} /\ a >= c /\ a >= MINIMUM_SIZE
  <2>1. a = CHOOSE x \in {c, MINIMUM_SIZE} : \A y \in {c, MINIMUM_SIZE} : x >= y
    BY <1>1, <1>4, Zenon DEF HT!Target, HT!Max
  <2>2. \E x \in {c, MINIMUM_SIZE} : \A y \in {c, MINIMUM_SIZE} : x >= y
    BY <1>2, <1>3
  <2>3. a \in {c, MINIMUM_SIZE} /\ \A y \in {c, MINIMUM_SIZE} : a >= y
    BY <2>1, <2>2
  <2> QED BY <1>2, <1>3, <2>3
<1>6. PICK v : v = HT!Fresh(t, a)
  OBVIOUS
<1>7. v = [t EXCEPT !.Entries = [i \in 0..(a - 1) |-> HT!Unused], !.Allocated = a]
  BY <1>6 DEF HT!Fresh
<1>8. t = [Entries |-> t.Entries, Count |-> t.Count, SlotsFilled |-> t.SlotsFilled,
           Allocated |-> t.Allocated]
      /\ t.Count \in Nat /\ t.SlotsFilled \in Nat /\ t.Allocated \in Nat
  BY DEF TableTyped
<1>9. v = [Entries |-> [i \in 0..(a - 1) |-> HT!Unused], Count |-> t.Count,
           SlotsFilled |-> t.SlotsFilled, Allocated |-> a]
  BY <1>7, <1>8
<1>10. [i \in 0..(a - 1) |-> HT!Unused] \in [0..(a - 1) -> InSlots]
  BY DEF InSlots
<1>11. TableTyped(v) /\ v.Allocated = a
  BY <1>5, <1>8, <1>9, <1>10 DEF TableTyped
<1>12. HT!Used(v) = {}
  <2>1. HT!Used(v) = {i \in 0..(a - 1) : v.Entries[i] # HT!Unused}
    BY <1>11, UsedSlots
  <2>2. \A i \in 0..(a - 1) : v.Entries[i] = HT!Unused
    BY <1>9
  <2> QED BY <2>1, <2>2
<1>13. a >= n /\ a >= t.Allocated
  <2>1. c \in Nat /\ t.Allocated \in Nat
    BY <1>2, <1>3, <1>8
  <2> QED BY <1>2, <1>5, <2>1
<1> QED BY <1>4, <1>5, <1>6, <1>11, <1>12, <1>13

LEMMA Multiplied == \A a, b, c \in Nat : a <= b => a * c <= b * c
  OBVIOUS

(* add_prehashed places an entry or grows, and keeps it for afterwards.    *)
LEMMA AddKeeps ==
    ASSUME HT!HashTableAssumption, NEW calls, NEW e \in Entries, NEW values,
           Sound(table, calls, e, values), HT!AddPrehashed(e, calls)
    PROVE  Sound(table', resizing', HT!Unused, values)
<1>1. /\ TableTyped(table) /\ Counted(table) /\ table.SlotsFilled \in Nat
      /\ table.Allocated \in Nat
  BY DEF Sound, TableTyped
<1>2. PICK u \in Nat : u = Cardinality(HT!Used(table)) /\ u <= table.SlotsFilled
  <2>1. IsFiniteSet(HT!Used(table))
    BY <1>1, UsedSlots
  <2> QED BY <1>1, <2>1, FS_CardinalityType DEF Counted
<1>3. PICK s \in Nat, a \in Nat : s = table.SlotsFilled /\ a = table.Allocated
  BY <1>1
<1>4. PICK f \in 51..99 : f = LOAD_FACTOR_PERCENT
  BY DEF HT!HashTableAssumption
<1>5. PICK z \in Nat \ {0} : z = MINIMUM_SIZE /\ z * (f - 50) > 100
  BY <1>4 DEF HT!HashTableAssumption
<1>6. \A b \in Nat : b >= z => b * f > 100 + b * 50
  <2> SUFFICES ASSUME NEW b \in Nat, b >= z PROVE b * f > 100 + b * 50
    OBVIOUS
  <2>1. PICK r \in Nat : r = f - 50
    OBVIOUS
  <2>2. z * r <= b * r
    BY <2>1, Multiplied
  <2>3. b * f = b * r + b * 50
    BY <2>1
  <2>4. z * r > 100
    BY <1>5, <2>1
  <2> QED
    <3>1. PICK x \in Nat, y \in Nat : x = z * r /\ y = b * r
      OBVIOUS
    <3> QED BY <2>2, <2>3, <2>4, <3>1
<1>7. CASE HT!MustGrow(table) /\ table.SlotsFilled * 2 >= table.Allocated
  <2> DEFINE v == HT!Fresh(table, HT!Target(table.SlotsFilled * 2))
             x == [old |-> table.Entries, left |-> HT!Used(table), then |-> e]
  <2>1. /\ \E p \in Sizes : p >= table.SlotsFilled * 2
        /\ table' = v /\ resizing' = Append(calls, x)
    BY <1>7 DEF HT!AddPrehashed, HT!Resized
  <2>2. /\ TableTyped(v) /\ HT!Used(v) = {} /\ v.Allocated >= table.Allocated
        /\ v.Allocated >= table.SlotsFilled * 2 /\ v.Allocated >= MINIMUM_SIZE
    <3>1. table.SlotsFilled * 2 \in Nat
      BY <1>1
    <3> QED BY <1>1, <1>7, <2>1, <3>1, FreshFacts
  <2> HIDE DEF v
  <2>3. Fits(v, Cardinality(HT!Used(table)) + 1)
    <3>1. PICK b \in Nat : b = v.Allocated
      BY <2>2 DEF TableTyped
    <3>2. b >= s * 2 /\ b * f > 100 + b * 50
      BY <1>3, <1>5, <1>6, <2>2, <3>1
    <3>3. (u + 1) * 100 < b * f
      <4>1. PICK x1 \in Nat : x1 = b * f
        OBVIOUS
      <4>2. u <= s
        BY <1>2, <1>3
      <4> QED BY <3>2, <4>1, <4>2
    <3> QED BY <1>2, <1>4, <3>1, <3>3 DEF Fits
  <2>4. Sound(v, Append(calls, x), HT!Unused, values)
    BY <2>2, <2>3, Grow
  <2> QED BY <2>1, <2>4
<1>8. CASE ~(HT!MustGrow(table) /\ table.SlotsFilled * 2 >= table.Allocated)
  <2>1. table' = HT!Placed(table, e) /\ resizing' = calls
    BY <1>8 DEF HT!AddPrehashed
  <2>2. (s + 1) * 100 < a * f
    <3>1. ASSUME (s + 1) * 100 >= a * f PROVE FALSE
      <4>1. HT!MustGrow(table)
        BY <1>3, <1>4, <3>1 DEF HT!MustGrow
      <4>2. s * 2 < a
        BY <1>3, <1>8, <4>1
      <4>3. a >= z
        BY <1>1, <1>3, <1>5, <4>2 DEF TableTyped
      <4>4. a * f > 100 + a * 50
        BY <1>6, <4>3
      <4>5. PICK x1 \in Nat : x1 = a * f
        OBVIOUS
      <4> QED BY <3>1, <4>2, <4>4, <4>5
    <3>2. PICK x1 \in Nat : x1 = a * f
      OBVIOUS
    <3> QED BY <3>1, <3>2
  <2>3. (u + 1) * 100 < a * f
    <3>1. PICK x1 \in Nat : x1 = a * f
      OBVIOUS
    <3> QED BY <1>2, <1>3, <2>2, <3>1
  <2>4. Fits(table, Cardinality(HT!Used(table)) + 1)
    BY <1>2, <1>3, <1>4, <2>3 DEF Fits
  <2>5. Sound(HT!Placed(table, e), calls, HT!Unused, values)
    BY <2>4, Place
  <2> QED BY <2>1, <2>5
<1> QED BY <1>7, <1>8

(* A key that is not there yet comes to hand with its value.               *)
LEMMA NewEntry ==
    ASSUME HT!HashTableAssumption, NEW t, NEW values \in [Keys -> HashValues \cup {Absent}],
           Sound(t, << >>, HT!Unused, values), NEW k \in Keys, NEW v \in HashValues,
           Hash[k] >= HT!FIRST_VALID_HASH => \A i \in HT!Used(t) : t.Entries[i].Key # k
    PROVE  Sound(t, << >>, HT!Entry(Hash[k], k, v), [values EXCEPT ![k] = v])
<1> DEFINE P == Places(t, << >>, HT!Unused, 1)
<1>1. PICK e : e = HT!Entry(Hash[k], k, v)
  OBVIOUS
<1>2. e \in Entries /\ e.Key = k /\ e.Value = v /\ e \in InSlots /\ e # HT!Unused
  BY <1>1, EntryFacts DEF HT!Entry, InSlots
<1>3. PICK w : w = [values EXCEPT ![k] = v]
  OBVIOUS
<1>4. w[k] = v /\ \A x \in Keys : x # k => w[x] = values[x]
  BY <1>3
<1>5. TableTyped(t) /\ CallsTyped(<< >>) /\ SettledOnce(t) /\ SettledLast(t, values)
  BY Settled DEF Sound
<1>6. HT!Unused \in InSlots /\ Len(<< >>) = 0 /\ HT!Used(t) \subseteq Int
  BY <1>5, UsedSlots DEF InSlots
<1> DEFINE Q == Places(t, << >>, e, 1)
           f == Placing(t, << >>, e)
<1>7. Q = P \cup {<<-1, -1>>}
  BY <1>2, <1>6 DEF Places, IsPlace
<1>8. ASSUME NEW q \in Q
      PROVE  \/ q = <<-1, -1>> /\ f[q] = e
             \/ /\ q[2] \in HT!Used(t) /\ q = <<0, q[2]>>
                /\ f[q] = t.Entries[q[2]]
  <2>1. PICK a \in Int, b \in Int : q = <<a, b>> /\ IsPlace(t, << >>, e, 1, a, b)
    BY DEF Places
  <2>2. f[q] = EntryAt(t, << >>, e, q)
    BY DEF Placing
  <2>3. CASE a = 0 /\ b \in HT!Used(t)
    BY <2>1, <2>2, <2>3 DEF EntryAt
  <2>4. CASE a = -1 /\ b = -1
    BY <2>1, <2>2, <2>4 DEF EntryAt
  <2> QED BY <1>6, <2>1, <2>3, <2>4 DEF IsPlace
<1>9. DOMAIN f = Q /\ <<-1, -1>> \in Q /\ \A i \in HT!Used(t) : <<0, i>> \in Q
  BY <1>2, <1>6 DEF Placing, Places, IsPlace
<1>10. IsFiniteSet(Q)
  <2>1. IsFiniteSet(P)
    BY DEF Sound, RoomFor
  <2> HIDE DEF P, Q
  <2> QED BY <1>7, <2>1, FS_AddElement
<1> HIDE DEF Q, f
<1>11. \A i \in HT!Used(t) : Findable(t.Entries[i]) => t.Entries[i].Key # k
  BY DEF Findable
<1>12. KeptOnce(f)
  <2> SUFFICES ASSUME NEW p \in Q, NEW q \in Q, Findable(f[p]), f[p].Key = f[q].Key
               PROVE  p = q
    BY <1>9 DEF KeptOnce
  <2>1. CASE p = <<-1, -1>> /\ q = <<-1, -1>>
    BY <2>1
  <2>2. CASE p = <<-1, -1>> /\ q # <<-1, -1>>
    <3>1. f[p] = e /\ q[2] \in HT!Used(t) /\ f[q] = t.Entries[q[2]]
      BY <1>8, <2>2
    <3>2. f[q].Key = k /\ Findable(f[q])
      BY <1>2, <3>1 DEF Findable
    <3> QED BY <1>11, <3>1, <3>2
  <2>3. CASE p # <<-1, -1>> /\ q = <<-1, -1>>
    <3>1. f[q] = e /\ p[2] \in HT!Used(t) /\ f[p] = t.Entries[p[2]]
      BY <1>8, <2>3
    <3> QED BY <1>2, <1>11, <3>1
  <2>4. CASE p # <<-1, -1>> /\ q # <<-1, -1>>
    <3>1. /\ p[2] \in HT!Used(t) /\ p = <<0, p[2]>> /\ f[p] = t.Entries[p[2]]
          /\ q[2] \in HT!Used(t) /\ q = <<0, q[2]>> /\ f[q] = t.Entries[q[2]]
      BY <1>8, <2>4
    <3>2. p[2] = q[2]
      BY <1>5, <3>1 DEF SettledOnce
    <3> QED BY <3>1, <3>2
  <2> QED BY <2>1, <2>2, <2>3, <2>4
<1>13. KeptLast(f, w)
  <2>1. ASSUME NEW q \in Q, Findable(f[q]) PROVE f[q].Value = w[f[q].Key]
    <3>1. CASE q = <<-1, -1>>
      <4>1. f[q] = e
        BY <1>6, <1>8, <3>1
      <4> QED BY <1>2, <1>4, <4>1
    <3>2. CASE q # <<-1, -1>>
      <4>1. q[2] \in HT!Used(t) /\ f[q] = t.Entries[q[2]]
        BY <1>8, <3>2
      <4>2. f[q].Key # k /\ f[q].Key \in Keys
        BY <1>5, <1>11, <2>1, <4>1, UsedSlots, EntryFacts
      <4>3. f[q].Value = values[f[q].Key]
        BY <1>5, <2>1, <4>1 DEF SettledLast
      <4> QED BY <1>4, <4>2, <4>3
    <3> QED BY <3>1, <3>2
  <2>2. ASSUME NEW x \in Keys, Hash[x] >= HT!FIRST_VALID_HASH, w[x] # Absent
        PROVE  \E q \in Q : f[q].Key = x
    <3>1. CASE x = k
      <4>1. f[<<-1, -1>>] = e
        BY <1>8, <1>9
      <4> QED BY <1>2, <1>9, <3>1, <4>1
    <3>2. CASE x # k
      <4>1. PICK i \in HT!Used(t) : t.Entries[i].Key = x
        BY <1>4, <1>5, <2>2, <3>2 DEF SettledLast
      <4>2. <<0, i>> \in Q
        BY <1>9
      <4>3. f[<<0, i>>] = t.Entries[i]
        BY <1>8, <4>2
      <4> QED BY <4>1, <4>2, <4>3
    <3> QED BY <3>1, <3>2
  <2> QED BY <1>9, <2>1, <2>2 DEF KeptLast
<1>14. RoomFor(t, << >>, e)
  BY <1>6, <1>10 DEF RoomFor, Q
<1>15. Probed(t) /\ Counted(t)
  BY DEF Sound
<1> QED BY <1>1, <1>2, <1>3, <1>5, <1>12, <1>13, <1>14, <1>15 DEF Sound, f

(* A key that is there gets its new value.                                 *)
LEMMA NewValue ==
    ASSUME HT!HashTableAssumption, NEW t, NEW values \in [Keys -> HashValues \cup {Absent}],
           Sound(t, << >>, HT!Unused, values), NEW k \in Keys, NEW v \in HashValues,
           NEW slot \in HT!Used(t), t.Entries[slot].Key = k, Hash[k] >= HT!FIRST_VALID_HASH
    PROVE  Sound([t EXCEPT !.Entries[slot].Value = v], << >>, HT!Unused,
                 [values EXCEPT ![k] = v])
<1>1. PICK w : w = [values EXCEPT ![k] = v]
  OBVIOUS
<1>2. w[k] = v /\ \A x \in Keys : x # k => w[x] = values[x]
  BY <1>1
<1>3. TableTyped(t) /\ CallsTyped(<< >>) /\ SettledOnce(t) /\ SettledLast(t, values)
  BY Settled DEF Sound
<1>4. HT!Unused \in InSlots /\ Len(<< >>) = 0
  BY DEF InSlots
<1>5. PICK a : a = t.Allocated
  OBVIOUS
<1>6. /\ a \in Nat /\ HT!Used(t) = {i \in 0..(a - 1) : t.Entries[i] # HT!Unused}
      /\ \A i \in HT!Used(t) : t.Entries[i] \in Entries
      /\ slot \in 0..(a - 1)
  BY <1>3, <1>5, UsedSlots
<1>7. PICK e : e = [t.Entries[slot] EXCEPT !.Value = v]
  OBVIOUS
<1>8. e \in Entries /\ e.Hash = t.Entries[slot].Hash /\ e.Key = k /\ e.Value = v
      /\ e \in InSlots /\ e # HT!Unused
  <2>1. PICK o \in Entries : o = t.Entries[slot]
    BY <1>6
  <2>2. o \in [Hash : Nat, Key : Keys, Value : HashValues] /\ o.Hash = HT!ValidHash(Hash[o.Key])
    BY DEF Entries
  <2>3. e = [Hash |-> o.Hash, Key |-> o.Key, Value |-> v]
    BY <1>7, <2>1, <2>2
  <2>4. e \in Entries
    BY <2>2, <2>3 DEF Entries
  <2> QED BY <2>1, <2>3, <2>4, EntryFacts DEF InSlots
<1>9. PICK d : d = [t EXCEPT !.Entries[slot].Value = v]
  OBVIOUS
<1>10. t \in [Entries : [0..(a - 1) -> InSlots], Count : Nat, SlotsFilled : Nat, Allocated : Nat]
  BY <1>3, <1>5 DEF TableTyped
<1>11. d = [t EXCEPT !.Entries = [t.Entries EXCEPT ![slot] = e]]
  BY <1>7, <1>9
<1>12. /\ d.Entries = [t.Entries EXCEPT ![slot] = e] /\ d.Count = t.Count
       /\ d.SlotsFilled = t.SlotsFilled /\ d.Allocated = a
       /\ d = [Entries |-> d.Entries, Count |-> d.Count, SlotsFilled |-> d.SlotsFilled,
               Allocated |-> d.Allocated]
  BY <1>5, <1>10, <1>11
<1>13. d.Entries \in [0..(a - 1) -> InSlots]
       /\ \A i \in 0..(a - 1) : d.Entries[i] = IF i = slot THEN e ELSE t.Entries[i]
  BY <1>6, <1>8, <1>10, <1>12
<1>14. TableTyped(d)
  <2>1. d \in [Entries : [0..(a - 1) -> InSlots], Count : Nat, SlotsFilled : Nat, Allocated : Nat]
    BY <1>6, <1>10, <1>12, <1>13
  <2> QED BY <1>3, <1>5, <1>12, <2>1 DEF TableTyped
<1>15. HT!Used(d) = {i \in 0..(a - 1) : d.Entries[i] # HT!Unused}
  BY <1>12, <1>14, UsedSlots
<1>16. HT!Used(d) = HT!Used(t)
  BY <1>6, <1>8, <1>13, <1>15
<1>17. \A i \in HT!Used(t) :
          /\ d.Entries[i].Hash = t.Entries[i].Hash /\ d.Entries[i].Key = t.Entries[i].Key
          /\ i # slot => d.Entries[i] = t.Entries[i]
          /\ t.Entries[i].Key \in Keys
  BY <1>6, <1>8, <1>13, EntryFacts
<1>18. \A h, n : HT!SlotAt(d, h, n) = HT!SlotAt(t, h, n)
  BY <1>5, <1>12, Zenon DEF HT!SlotAt
<1>19. Probed(d)
  <2>1. Probed(t)
    BY DEF Sound
  <2> SUFFICES ASSUME NEW i \in HT!Used(t)
               PROVE  \E n \in 0..(a - 1) :
                         /\ i = HT!SlotAt(d, d.Entries[i].Hash, n)
                         /\ \A m \in 0..(n - 1) : HT!SlotAt(d, d.Entries[i].Hash, m) \in HT!Used(t)
    BY <1>12, <1>16 DEF Probed
  <2>2. PICK n \in 0..(a - 1) :
            /\ i = HT!SlotAt(t, t.Entries[i].Hash, n)
            /\ \A m \in 0..(n - 1) : HT!SlotAt(t, t.Entries[i].Hash, m) \in HT!Used(t)
    BY <1>5, <2>1 DEF Probed
  <2> QED BY <1>17, <1>18, <2>2
<1>20. Counted(d)
  BY <1>5, <1>12, <1>16 DEF Sound, Counted, Fits
<1>21. SettledOnce(d)
  <2>1. ASSUME NEW i \in HT!Used(t), NEW j \in HT!Used(t),
               Findable(d.Entries[i]), d.Entries[i].Key = d.Entries[j].Key
        PROVE  i = j
    BY <1>3, <1>17, <2>1 DEF SettledOnce, Findable
  <2> QED BY <1>16, <2>1 DEF SettledOnce
<1>22. SettledLast(d, w)
  <2>1. ASSUME NEW i \in HT!Used(t), Findable(d.Entries[i])
        PROVE  d.Entries[i].Value = w[d.Entries[i].Key]
    <3>1. CASE i = slot
      BY <1>2, <1>6, <1>8, <1>13, <3>1
    <3>2. CASE i # slot
      <4>1. d.Entries[i] = t.Entries[i] /\ t.Entries[i].Key \in Keys
        BY <1>17, <3>2
      <4>2. t.Entries[i].Key # k
        BY <1>3, <2>1, <3>2, <4>1 DEF SettledOnce
      <4>3. t.Entries[i].Value = values[t.Entries[i].Key]
        BY <1>3, <2>1, <4>1 DEF SettledLast
      <4> QED BY <1>2, <4>1, <4>2, <4>3
    <3> QED BY <3>1, <3>2
  <2>2. ASSUME NEW x \in Keys, Hash[x] >= HT!FIRST_VALID_HASH, w[x] # Absent
        PROVE  \E i \in HT!Used(t) : d.Entries[i].Key = x
    <3>1. CASE x = k
      BY <1>17, <3>1
    <3>2. CASE x # k
      <4>1. PICK i \in HT!Used(t) : t.Entries[i].Key = x
        BY <1>2, <1>3, <2>2, <3>2 DEF SettledLast
      <4> QED BY <1>17, <4>1
    <3> QED BY <3>1, <3>2
  <2> QED BY <1>16, <2>1, <2>2 DEF SettledLast
<1>23. /\ KeptOnce(Placing(d, << >>, HT!Unused))
       /\ KeptLast(Placing(d, << >>, HT!Unused), w)
  BY <1>14, <1>21, <1>22, Settled
<1>24. RoomFor(d, << >>, HT!Unused)
  <2>1. Places(d, << >>, HT!Unused, 1) = Places(t, << >>, HT!Unused, 1)
    BY <1>16 DEF Places, IsPlace
  <2> QED BY <1>4, <2>1 DEF Sound, RoomFor
<1> QED BY <1>1, <1>3, <1>4, <1>9, <1>14, <1>19, <1>20, <1>23, <1>24 DEF Sound

LEMMA TableInit == ASSUME HT!HashTableAssumption, HT!Init PROVE TableInv
<1>1. table = HT!NewTable /\ resizing = << >> /\ last = [k \in Keys |-> Absent]
  BY DEF HT!Init
<1>2. Sound(table, << >>, HT!Unused, last)
  BY <1>1, NewTableFacts, Emptied
<1> QED BY <1>1, <1>2 DEF TableInv

LEMMA SetKeepsTable ==
    ASSUME HT!HashTableAssumption, TableInv, NEW k \in Keys, NEW v \in HashValues, HT!Set(k, v)
    PROVE  TableInv'
<1>1. resizing = << >> /\ last' = [last EXCEPT ![k] = v]
  BY DEF HT!Set, HT!Returned
<1>2. last \in [Keys -> HashValues \cup {Absent}] /\ Sound(table, << >>, HT!Unused, last)
  BY <1>1 DEF TableInv
<1>3. PICK slot : slot = HT!Search(table, Hash[k], k)
  OBVIOUS
<1>4. IF slot # -1
      THEN table' = [table EXCEPT !.Entries[slot].Value = v] /\ resizing' = resizing
      ELSE HT!AddPrehashed(HT!Entry(Hash[k], k, v), << >>)
  BY <1>3, Zenon DEF HT!Set
<1>5. /\ slot # -1 => /\ slot \in HT!Used(table) /\ table.Entries[slot].Key = k
                      /\ Hash[k] >= HT!FIRST_VALID_HASH
      /\ slot = -1 /\ Hash[k] >= HT!FIRST_VALID_HASH
            => \A i \in HT!Used(table) : table.Entries[i].Key # k
  <2>1. TableTyped(table) /\ Probed(table) /\ Counted(table)
    BY <1>2 DEF Sound
  <2> QED BY <1>3, <2>1, SearchFacts
<1>6. CASE slot # -1
  <2>1. Sound([table EXCEPT !.Entries[slot].Value = v], << >>, HT!Unused, last')
    <3>1. slot \in HT!Used(table) /\ table.Entries[slot].Key = k /\ Hash[k] >= HT!FIRST_VALID_HASH
      BY <1>5, <1>6
    <3>2. Sound([table EXCEPT !.Entries[slot].Value = v], << >>, HT!Unused,
                [last EXCEPT ![k] = v])
      BY <1>2, <3>1, NewValue
    <3> QED BY <1>1, <3>2
  <2>2. table' = [table EXCEPT !.Entries[slot].Value = v] /\ resizing' = << >>
    BY <1>1, <1>4, <1>6
  <2> QED BY <1>1, <1>2, <2>1, <2>2 DEF TableInv
<1>7. CASE slot = -1
  <2>1. HT!Entry(Hash[k], k, v) \in Entries
    BY EntryFacts
  <2>2. Sound(table, << >>, HT!Entry(Hash[k], k, v), [last EXCEPT ![k] = v])
    BY <1>2, <1>5, <1>7, NewEntry
  <2>3. HT!AddPrehashed(HT!Entry(Hash[k], k, v), << >>)
    BY <1>4, <1>7
  <2>4. Sound(table', resizing', HT!Unused, [last EXCEPT ![k] = v])
    BY <2>1, <2>2, <2>3, AddKeeps
  <2> QED BY <1>1, <1>2, <2>4 DEF TableInv
<1> QED BY <1>6, <1>7

LEMMA ResizeKeepsTable ==
    ASSUME HT!HashTableAssumption, TableInv, NEW n \in Reservations, HT!Resize(n)
    PROVE  TableInv'
<1> DEFINE v == HT!Fresh(table, HT!Target(n))
           x == [old |-> table.Entries, left |-> HT!Used(table), then |-> HT!Unused]
<1>1. /\ resizing = << >> /\ last' = last /\ n >= table.Allocated
      /\ \E p \in Sizes : p >= n
      /\ table' = v /\ resizing' = Append(<< >>, x)
  BY DEF HT!Resize, HT!Resized, HT!Returned
<1>2. Sound(table, << >>, HT!Unused, last)
  BY <1>1 DEF TableInv
<1>3. n \in Nat /\ TableTyped(table)
  BY <1>2 DEF HT!HashTableAssumption, Sound
<1>4. TableTyped(v) /\ HT!Used(v) = {}
  BY <1>1, <1>3, FreshFacts
<1> HIDE DEF v
<1>5. Sound(v, Append(<< >>, x), HT!Unused, last)
  BY <1>2, <1>4, Grow
<1> QED BY <1>1, <1>5 DEF TableInv

LEMMA CloneKeepsTable ==
    ASSUME HT!HashTableAssumption, TableInv, HT!Clone
    PROVE  TableInv'
<1> DEFINE old == [i \in HT!Used(table) |->
                      HT!Entry(Hash[table.Entries[i].Key], table.Entries[i].Key,
                               table.Entries[i].Value)]
           x == [old |-> old, left |-> HT!Used(table), then |-> HT!Unused]
<1>1. /\ resizing = << >> /\ last' = last /\ table' = HT!NewTable
      /\ resizing' = << x >>
  BY DEF HT!Clone, HT!Returned
<1>2. Sound(table, << >>, HT!Unused, last)
  BY <1>1 DEF TableInv
<1>3. \A i \in HT!Used(table) : old[i] = table.Entries[i]
  BY <1>2, UsedSlots, EntryFacts DEF Sound
<1> HIDE DEF old
<1>4. Sound(HT!NewTable, Append(<< >>, x), HT!Unused, last)
  BY <1>2, <1>3, NewTableFacts, Grow
<1>5. Append(<< >>, x) = << x >>
  OBVIOUS
<1> QED BY <1>1, <1>4, <1>5 DEF TableInv

LEMMA AddNextKeepsTable ==
    ASSUME HT!HashTableAssumption, TableInv, HT!AddNext
    PROVE  TableInv'
<1> DEFINE call == resizing[Len(resizing)]
           slot == HT!Min(call.left)
<1>1. /\ resizing # << >> /\ last' = last
      /\ IF call.left # {}
         THEN HT!AddPrehashed(call.old[slot],
                              [resizing EXCEPT ![Len(resizing)].left = @ \ {slot}])
         ELSE /\ table' = IF call.then = HT!Unused THEN table ELSE HT!Placed(table, call.then)
              /\ resizing' = HT!Front(resizing)
  BY DEF HT!AddNext, HT!Returned, HT!Last
<1>2. Sound(table, resizing, HT!Unused, last)
  BY DEF TableInv
<1>3. CallTyped(call)
  BY <1>1, <1>2, CallsFacts DEF Sound
<1>4. CASE call.left # {}
  <2>1. slot \in call.left
    <3>1. call.left \subseteq Nat
      BY <1>3 DEF CallTyped
    <3> HIDE DEF call
    <3> QED BY <1>4, <3>1, MinIs
  <2> DEFINE d == [resizing EXCEPT ![Len(resizing)].left = @ \ {slot}]
  <2>2. Sound(table, d, call.old[slot], last) /\ call.old[slot] \in Entries
    <3> HIDE DEF slot
    <3> QED BY <1>1, <1>2, <2>1, Take
  <2>3. HT!AddPrehashed(call.old[slot], d)
    BY <1>1, <1>4
  <2> HIDE DEF d, call, slot
  <2>4. Sound(table', resizing', HT!Unused, last)
    BY <2>2, <2>3, AddKeeps
  <2> QED BY <1>1, <2>4 DEF TableInv
<1>5. CASE call.left = {}
  <2>1. /\ Sound(table, HT!Front(resizing), call.then, last)
        /\ call.then # HT!Unused => Fits(table, Cardinality(HT!Used(table)) + 1)
    BY <1>1, <1>2, <1>5, Pop
  <2>2. /\ table' = IF call.then = HT!Unused THEN table ELSE HT!Placed(table, call.then)
        /\ resizing' = HT!Front(resizing)
    BY <1>1, <1>5
  <2>3. call.then \in InSlots
    BY <1>3 DEF CallTyped
  <2> HIDE DEF call
  <2>4. CASE call.then = HT!Unused
    BY <1>1, <2>1, <2>2, <2>4 DEF TableInv
  <2>5. CASE call.then # HT!Unused
    <3>1. call.then \in Entries
      BY <2>3, <2>5 DEF InSlots
    <3>2. Sound(HT!Placed(table, call.then), HT!Front(resizing), HT!Unused, last)
      BY <2>1, <2>5, <3>1, Place
    <3> QED BY <1>1, <2>2, <2>5, <3>2 DEF TableInv
  <2> QED BY <2>4, <2>5
<1> QED BY <1>4, <1>5

LEMMA ResetKeepsTable ==
    ASSUME HT!HashTableAssumption, TableInv, HT!Reset
    PROVE  TableInv'
<1>1. /\ resizing' = << >> /\ last' = [k \in Keys |-> Absent]
      /\ table' = [table EXCEPT !.Count = 0, !.SlotsFilled = 0,
                                !.Entries = [i \in DOMAIN table.Entries |-> HT!Unused]]
  BY DEF HT!Reset, HT!Returned, HT!Nothing
<1>2. TableTyped(table)
  BY DEF TableInv, Sound
<1>3. PICK a \in Nat : a = table.Allocated
  BY <1>2 DEF TableTyped
<1>4. DOMAIN table.Entries = 0..(a - 1)
      /\ table = [Entries |-> table.Entries, Count |-> table.Count,
                  SlotsFilled |-> table.SlotsFilled, Allocated |-> table.Allocated]
  BY <1>2, <1>3 DEF TableTyped
<1>5. table' = [Entries |-> [i \in 0..(a - 1) |-> HT!Unused], Count |-> 0, SlotsFilled |-> 0,
                Allocated |-> a]
  BY <1>1, <1>3, <1>4
<1>6. PICK v : v = table'
  OBVIOUS
<1>7. [i \in 0..(a - 1) |-> HT!Unused] \in [0..(a - 1) -> InSlots]
  BY DEF InSlots
<1>8. TableTyped(v)
  BY <1>2, <1>3, <1>5, <1>6, <1>7 DEF TableTyped
<1>9. HT!Used(v) = {}
  <2>1. HT!Used(v) = {i \in 0..(a - 1) : v.Entries[i] # HT!Unused}
    BY <1>5, <1>6, <1>8, UsedSlots
  <2>2. \A i \in 0..(a - 1) : v.Entries[i] = HT!Unused
    BY <1>5, <1>6
  <2> QED BY <2>1, <2>2
<1>10. Sound(v, << >>, HT!Unused, [k \in Keys |-> Absent])
  BY <1>8, <1>9, Emptied
<1> QED BY <1>1, <1>6, <1>10 DEF TableInv

LEMMA FreeKeepsTable ==
    ASSUME HT!HashTableAssumption, TableInv, HT!Free
    PROVE  TableInv'
<1>1. /\ resizing' = << >> /\ last' = [k \in Keys |-> Absent] /\ table' = HT!NewTable
  BY DEF HT!Free, HT!Returned, HT!Nothing
<1>2. Sound(HT!NewTable, << >>, HT!Unused, [k \in Keys |-> Absent])
  BY NewTableFacts, Emptied
<1> QED BY <1>1, <1>2 DEF TableInv

LEMMA TableKeeps == ASSUME HT!HashTableAssumption, TableInv, [HT!Next]_ht PROVE TableInv'
<1>1. CASE UNCHANGED ht
  BY <1>1 DEF ht, TableInv
<1>2. ASSUME NEW p \in Pairs, HT!Set(p[1], p[2]) PROVE TableInv'
  <2>1. p[1] \in Keys /\ p[2] \in HashValues
    BY DEF HT!HashTableAssumption
  <2> QED BY <1>2, <2>1, SetKeepsTable
<1>3. ASSUME HT!Next PROVE TableInv'
  BY <1>2, <1>3, ResizeKeepsTable, AddNextKeepsTable, CloneKeepsTable, ResetKeepsTable,
     FreeKeepsTable DEF HT!Next
<1> QED BY <1>1, <1>3

LEMMA TableInvSuffices == ASSUME HT!HashTableAssumption, TableInv PROVE HT!FindsLast /\ HT!NeverFull
<1>1. HT!FindsLast
  <2> SUFFICES ASSUME resizing = << >>, NEW k \in Keys
               PROVE  HT!Find(table, k) = IF Hash[k] < HT!FIRST_VALID_HASH THEN Absent ELSE last[k]
    BY DEF HT!FindsLast, HT!Returned
  <2> QED BY FindsWhatWasSet DEF TableInv
<1>2. HT!NeverFull
  <2>1. Counted(table)
    BY DEF TableInv, Sound
  <2>2. HT!Cardinality(HT!Used(table)) = Cardinality(HT!Used(table))
    BY DEF HT!Cardinality, Cardinality
  <2> QED BY <2>1, <2>2 DEF Counted, Fits, HT!NeverFull
<1> QED BY <1>1, <1>2
=============================================================================
