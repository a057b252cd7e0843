----------------------------- MODULE ArrayProofs -----------------------------
(***************************************************************************)
(* The dynamic arrays, proved for any elements, arrays and blocks: an      *)
(* owner holds what its own operations made, through growth that moves it  *)
(* and whatever is done with views on it, and the searching and comparing  *)
(* loops find the first or last occurrence and the first difference.       *)
(***************************************************************************)
EXTENDS XarProofs

-----------------------------------------------------------------------------
(* The array that an operation works on, in its memory.                    *)

(* What is in a block, and what an array is.                               *)
Contents == Cells \cup {Junk}
Refs == [Data : Blocks \cup {NoData}, First : Nat, Count : Nat, Allocated : Nat]
Stores == [Blocks -> Seq(Contents)]
Memories == [blocks : Stores, a : Refs]

(* The array of a memory shows l, and owns its block.                      *)
Shows(m, l) ==
    /\ l \in Seq(Contents) /\ m.a.Count = Len(l)
    /\ Len(l) > 0 => m.a.Data \in Blocks /\ m.a.First + Len(l) <= Len(m.blocks[m.a.Data])
    /\ \A i \in 1..Len(l) : m.blocks[m.a.Data][m.a.First + i] = l[i]

OwnsAll(m) ==
    /\ m.a.Data \in Blocks /\ m.a.First = 0 /\ m.a.Count <= m.a.Allocated
    /\ m.a.Allocated = Len(m.blocks[m.a.Data])

(* The blocks of the others, O, are as in B; what is not theirs is its own *)
(* or free.                                                                *)
Leaves(m, O, B) ==
    /\ \A b \in O : m.blocks[b] = B[b]
    /\ m.a.Allocated > 0 => m.a.Data \notin O
    /\ \A b \in Blocks \ O : m.blocks[b] # << >> => m.a.Allocated > 0 /\ b = m.a.Data

Whole(m, l, O, B) ==
    m \in Memories /\ Shows(m, l) /\ (m.a.Allocated > 0 => OwnsAll(m)) /\ Leaves(m, O, B)
Owner(m, l, O, B) == Whole(m, l, O, B) /\ m.a.Allocated > 0

(* Memory suffices, and the others' blocks are not free.                   *)
Spare(O, B) ==
    /\ O \subseteq Blocks /\ B \in Stores /\ \A b \in O : B[b] # << >>
    /\ \A d : \E b \in Blocks : b \notin O /\ b # d

LEMMA SeqFromFun ==
    ASSUME NEW S, NEW n \in Nat, NEW f \in [1..n -> S]
    PROVE  f \in Seq(S) /\ Len(f) = n /\ DOMAIN f = 1..n
OBVIOUS

LEMMA PartOf ==
    ASSUME NEW S, NEW s \in Seq(S), NEW p \in Nat, NEW n \in Nat, n > 0 => p + n <= Len(s)
    PROVE  /\ SubSeq(s, p + 1, p + n) \in Seq(S) /\ Len(SubSeq(s, p + 1, p + n)) = n
           /\ \A i \in 1..n : SubSeq(s, p + 1, p + n)[i] = s[p + i]
<1>1. CASE n = 0
  <2>1. SubSeq(s, p + 1, p + n) = << >>
    BY <1>1
  <2> QED BY <1>1, <2>1
<1>2. CASE n > 0
  <2>1. p + n <= Len(s) /\ Len(s) \in Nat
    BY <1>2
  <2> QED BY <1>2, <2>1, SMTT(30)
<1> QED BY <1>1, <1>2

(* What the array owns, with other cells and another count.                *)
LEMMA Rewritten ==
    ASSUME NEW m, NEW l, NEW O, NEW B, Owner(m, l, O, B),
           NEW cells \in Seq(Contents), Len(cells) = m.a.Allocated,
           NEW l2 \in Seq(Contents), Len(l2) <= Len(cells), \A i \in 1..Len(l2) : cells[i] = l2[i],
           NEW m2, m2 = [blocks |-> [m.blocks EXCEPT ![m.a.Data] = cells],
                         a |-> [m.a EXCEPT !.Count = Len(l2)]]
    PROVE  Owner(m2, l2, O, B) /\ m2.a.Allocated = m.a.Allocated
<1>1. PICK d, a, k : d = m.a.Data /\ a = m.a /\ k = m.blocks
  OBVIOUS
<1>2. /\ a \in Refs /\ k \in Stores /\ d \in Blocks /\ d = a.Data /\ a.First = 0 /\ a.Allocated > 0
      /\ d \notin O /\ a.Allocated = Len(k[d])
      /\ \A b \in O : k[b] = B[b]
      /\ \A b \in Blocks \ O : k[b] # << >> => b = d
  BY <1>1 DEF Owner, Whole, OwnsAll, Leaves, Memories
<1>3. PICK k2, c2 : k2 = m2.blocks /\ c2 = m2.a
  OBVIOUS
<1>4. k2 = [k EXCEPT ![d] = cells] /\ c2 = [a EXCEPT !.Count = Len(l2)] /\ m2 = [blocks |-> k2, a |-> c2]
  BY <1>1, <1>3
<1>5. Len(l2) \in Nat /\ Len(cells) = a.Allocated
  BY <1>1
<1>6. /\ k2 \in Stores /\ k2[d] = cells /\ \A b \in Blocks : b # d => k2[b] = k[b]
  BY <1>2, <1>4 DEF Stores
<1>7. c2 \in Refs /\ c2.Data = d /\ c2.First = 0 /\ c2.Allocated = a.Allocated /\ c2.Count = Len(l2)
  BY <1>2, <1>4, <1>5 DEF Refs
<1>8. m2 \in Memories
  <2>1. m2 = [blocks |-> k2, a |-> c2] /\ k2 \in Stores /\ c2 \in Refs
    BY <1>4, <1>6, <1>7
  <2> QED BY ONLY <2>1 DEF Memories
<1>9. Shows(m2, l2)
  <2>1. \A i \in 1..Len(l2) : k2[d][0 + i] = l2[i]
    BY <1>5, <1>6
  <2>2. 0 + Len(l2) <= Len(k2[d])
    BY <1>5, <1>6
  <2> QED BY <1>2, <1>3, <1>7, <2>1, <2>2 DEF Shows
<1>10. OwnsAll(m2)
  BY <1>2, <1>3, <1>5, <1>6, <1>7 DEF OwnsAll
<1>11. Leaves(m2, O, B)
  <2>1. \A b \in O : b \in Blocks => k2[b] = B[b]
    BY <1>2, <1>6
  <2>2. \A b \in O : b \notin Blocks => k2[b] = B[b]
    BY <1>2, <1>4 DEF Stores
  <2>3. \A b \in Blocks \ O : k2[b] # << >> => b = d
    BY <1>2, <1>6
  <2> QED BY <1>2, <1>3, <1>7, <2>1, <2>2, <2>3 DEF Leaves
<1> QED BY <1>1, <1>2, <1>3, <1>7, <1>8, <1>9, <1>10, <1>11 DEF Owner, Whole

-----------------------------------------------------------------------------
(* Growth: reserve and maybe_grow.                                         *)

LEMMA MaxOfTwo ==
    ASSUME NEW x \in Nat, NEW y \in Nat
    PROVE  AL!Max({x, y}) \in {x, y} /\ AL!Max({x, y}) >= x /\ AL!Max({x, y}) >= y
<1>1. PICK S : S = {x, y}
  OBVIOUS
<1>2. \E z \in S : \A w \in S : z >= w
  <2>1. x >= y \/ y >= x
    OBVIOUS
  <2>2. CASE x >= y
    BY <1>1, <2>2
  <2>3. CASE y >= x
    BY <1>1, <2>3
  <2> QED BY <2>1, <2>2, <2>3
<1>3. AL!Max(S) \in S /\ \A w \in S : AL!Max(S) >= w
  BY <1>2 DEF AL!Max
<1> QED BY <1>1, <1>3

(* A power of 2 is above its exponent.                                     *)
LEMMA CeilFits ==
    ASSUME NEW x \in Nat PROVE AL!CeilPowOf2(x) \in Nat /\ x <= AL!CeilPowOf2(x)
<1>1. AL!Pow2 = XA!Pow2
  BY DEF AL!Pow2, XA!Pow2
<1> DEFINE Above == {n \in Nat : n <= XA!Pow2[n]}
<1>2. 0 \in Above /\ \A n \in Nat : n \in Above => n + 1 \in Above
  BY Pow2Facts, Pow2Grows
<1>3. Nat \subseteq Above
  <2> HIDE DEF Above
  <2> QED BY <1>2, SetInduction
<1> DEFINE S == {n \in 0..x : x <= AL!Pow2[n]}
<1>4. x \in S /\ S \subseteq Nat
  BY <1>1, <1>3
<1>5. \E z \in S : \A w \in S : z <= w
  <2> HIDE DEF S
  <2> QED BY <1>4, Least
<1>6. AL!Min(S) \in S
  <2> HIDE DEF S
  <2> QED BY <1>5 DEF AL!Min
<1>7. AL!Pow2[AL!Min(S)] \in Nat /\ x <= AL!Pow2[AL!Min(S)]
  BY <1>1, <1>6, Pow2Facts
<1> QED BY <1>7 DEF AL!CeilPowOf2

(* realloc, or malloc and a copy: the elements are what they were.         *)
LEMMA ReservedKeeps ==
    ASSUME AL!ArrayLikeAssumption, NEW O, NEW B, Spare(O, B), NEW m, NEW l, Whole(m, l, O, B),
           NEW n \in Int, n <= 0 \/ n >= Len(l), NEW moves \in BOOLEAN
    PROVE  /\ Owner(AL!Reserved(m, n, moves), l, O, B)
           /\ AL!Reserved(m, n, moves).a.Allocated >= n
<1>1. PICK a, k, d : a = m.a /\ k = m.blocks /\ d = a.Data
  OBVIOUS
<1>2. /\ a \in Refs /\ k \in Stores
      /\ l \in Seq(Contents) /\ Len(l) \in Nat /\ a.Count = Len(l)
      /\ Len(l) > 0 => d \in Blocks /\ a.First + Len(l) <= Len(k[d])
      /\ \A i \in 1..Len(l) : k[d][a.First + i] = l[i]
      /\ a.Allocated > 0 => /\ d \in Blocks /\ a.First = 0 /\ Len(l) <= a.Allocated
                            /\ a.Allocated = Len(k[d]) /\ d \notin O
      /\ \A b \in O : k[b] = B[b]
      /\ \A b \in Blocks \ O : k[b] # << >> => a.Allocated > 0 /\ b = d
  BY <1>1 DEF Whole, Shows, OwnsAll, Leaves, Memories
<1>3. /\ a.First \in Nat /\ a.Allocated \in Nat /\ d \in Blocks \cup {NoData}
      /\ a = [Data |-> d, First |-> a.First, Count |-> Len(l), Allocated |-> a.Allocated]
  BY <1>1, <1>2 DEF Refs
<1> DEFINE size == IF n <= 0 THEN AL!Max({a.Count, MinAllocated}) ELSE n
           held == IF a.Data = NoData THEN << >>
                   ELSE SubSeq(k[a.Data], a.First + 1,
                               a.First + IF a.Allocated > 0 THEN a.Allocated ELSE a.Count)
           to == IF a.Allocated > 0 /\ ~moves THEN a.Data
                 ELSE CHOOSE b \in Blocks : k[b] = << >>
           cells == [i \in 1..size |-> IF i <= Len(held) THEN held[i] ELSE Junk]
           others == IF a.Allocated > 0 THEN [k EXCEPT ![a.Data] = << >>] ELSE k
           m2 == [blocks |-> [others EXCEPT ![to] = cells],
                  a |-> [Data |-> to, First |-> 0, Count |-> a.Count, Allocated |-> size]]
<1>4. AL!Reserved(m, n, moves) = m2
  BY <1>1 DEF AL!Reserved
<1>5. size \in Nat /\ size > 0 /\ size >= Len(l) /\ size >= n
  <2>1. MinAllocated \in Nat /\ MinAllocated > 0
    BY DEF AL!ArrayLikeAssumption
  <2>2. AL!Max({Len(l), MinAllocated}) \in {Len(l), MinAllocated} /\ AL!Max({Len(l), MinAllocated}) >= Len(l)
        /\ AL!Max({Len(l), MinAllocated}) >= MinAllocated
    BY <1>2, <2>1, MaxOfTwo
  <2> QED BY <1>2, <2>1, <2>2
<1>6. held \in Seq(Contents) /\ Len(held) >= Len(l) /\ \A i \in 1..Len(l) : held[i] = l[i]
  <2>1. CASE d = NoData
    <3>1. Len(l) = 0
      BY <1>2, <2>1 DEF AL!ArrayLikeAssumption
    <3> QED BY <1>1, <2>1, <3>1
  <2>2. CASE d # NoData
    <3>1. PICK q : q = IF a.Allocated > 0 THEN a.Allocated ELSE a.Count
      OBVIOUS
    <3>2. d \in Blocks /\ k[d] \in Seq(Contents) /\ q \in Nat /\ q >= Len(l)
      BY <1>2, <1>3, <2>2, <3>1 DEF Stores
    <3>3. q > 0 => a.First + q <= Len(k[d])
      BY <1>2, <1>3, <3>1
    <3>4. PICK f, s : f = a.First /\ s = k[d]
      OBVIOUS
    <3>5. /\ SubSeq(s, f + 1, f + q) \in Seq(Contents) /\ Len(SubSeq(s, f + 1, f + q)) = q
          /\ \A i \in 1..q : SubSeq(s, f + 1, f + q)[i] = s[f + i]
      <4>1. s \in Seq(Contents) /\ f \in Nat /\ q \in Nat /\ (q > 0 => f + q <= Len(s))
        BY <1>3, <3>2, <3>3, <3>4
      <4> QED BY ONLY <4>1, PartOf
    <3>6. held = SubSeq(s, f + 1, f + q)
      BY <1>1, <2>2, <3>1, <3>4
    <3> HIDE DEF held
    <3>7. \A i \in 1..Len(l) : i \in 1..q /\ s[f + i] = l[i]
      BY <1>2, <3>2, <3>4
    <3> QED BY <3>2, <3>5, <3>6, <3>7
  <2> QED BY <2>1, <2>2
<1> HIDE DEF size, held
<1>7. /\ cells \in Seq(Contents) /\ Len(cells) = size
      /\ \A i \in 1..Len(l) : cells[i] = l[i]
  <2>1. \A i \in 1..size : (IF i <= Len(held) THEN held[i] ELSE Junk) \in Contents
    <3>1. Junk \in Contents /\ Len(held) \in Nat
      BY <1>6 DEF Contents
    <3> QED BY <1>5, <1>6, <3>1
  <2>2. cells \in [1..size -> Contents]
    BY <2>1
  <2>3. \A i \in 1..Len(l) : cells[i] = l[i]
    BY <1>2, <1>5, <1>6
  <2> HIDE DEF cells
  <2> QED BY <1>5, <2>2, <2>3, SeqFromFun
<1> HIDE DEF cells
<1>8. PICK free \in Blocks : free \notin O /\ free # d
  BY DEF Spare
<1>9. k[free] = << >>
  BY <1>2, <1>8
<1>10. to \in Blocks /\ to \notin O /\ (a.Allocated > 0 /\ ~moves => to = d)
  <2>1. CASE a.Allocated > 0 /\ ~moves
    BY <1>1, <1>2, <2>1
  <2>2. CASE ~(a.Allocated > 0 /\ ~moves)
    <3>1. to \in Blocks /\ k[to] = << >>
      BY <1>8, <1>9, <2>2
    <3>2. to \notin O
      BY <1>2, <3>1 DEF Spare
    <3> QED BY <2>2, <3>1, <3>2
  <2> QED BY <2>1, <2>2
<1> HIDE DEF to
<1>11. /\ others \in Stores /\ \A b \in O : others[b] = B[b]
       /\ \A b \in Blocks \ O : b # to => others[b] = << >>
  <2>1. CASE a.Allocated > 0
    <3>1. d \in Blocks /\ d \notin O /\ others = [k EXCEPT ![d] = << >>] /\ << >> \in Seq(Contents)
      BY <1>1, <1>2, <2>1
    <3>2. others \in Stores
      BY <1>2, <3>1 DEF Stores
    <3>3. \A b \in O : others[b] = k[b]
      <4>1. O \subseteq Blocks
        BY DEF Spare
      <4> QED BY <1>2, <3>1, <4>1 DEF Stores
    <3>4. \A b \in Blocks \ O : others[b] = << >>
      BY <1>2, <3>1 DEF Stores
    <3> HIDE DEF others
    <3> QED BY <1>2, <3>2, <3>3, <3>4
  <2>2. CASE ~(a.Allocated > 0)
    BY <1>2, <2>2
  <2> QED BY <2>1, <2>2
<1> HIDE DEF others
<1>12. PICK k2, c2 : /\ k2 = [others EXCEPT ![to] = cells]
                     /\ c2 = [Data |-> to, First |-> 0, Count |-> Len(l), Allocated |-> size]
  OBVIOUS
<1>13. m2 = [blocks |-> k2, a |-> c2]
  BY <1>2, <1>12
<1>14. k2 \in Stores /\ k2[to] = cells /\ \A b \in Blocks : b # to => k2[b] = others[b]
  BY <1>7, <1>10, <1>11, <1>12 DEF Stores
<1>15. c2 \in Refs /\ c2.Data = to /\ c2.First = 0 /\ c2.Count = Len(l) /\ c2.Allocated = size
  BY <1>2, <1>5, <1>10, <1>12 DEF Refs
<1> HIDE DEF m2
<1>16. m2 \in Memories /\ m2.blocks = k2 /\ m2.a = c2
  <2>1. k2 \in Stores /\ c2 \in Refs
    BY <1>14, <1>15
  <2> QED BY ONLY <1>13, <2>1 DEF Memories
<1>17. Shows(m2, l)
  <2>1. \A i \in 1..Len(l) : k2[to][0 + i] = l[i]
    BY <1>2, <1>7, <1>14
  <2>2. 0 + Len(l) <= Len(k2[to])
    BY <1>2, <1>5, <1>7, <1>14
  <2> QED BY <1>2, <1>10, <1>15, <1>16, <2>1, <2>2 DEF Shows
<1>18. OwnsAll(m2)
  BY <1>5, <1>7, <1>10, <1>14, <1>15, <1>16 DEF OwnsAll
<1>19. Leaves(m2, O, B)
  <2>1. \A b \in O : b \in Blocks /\ b # to
    BY <1>10 DEF Spare
  <2>2. \A b \in O : k2[b] = B[b]
    BY <1>11, <1>14, <2>1
  <2>3. \A b \in Blocks \ O : k2[b] # << >> => b = to
    BY <1>11, <1>14
  <2> QED BY <1>5, <1>10, <1>15, <1>16, <2>2, <2>3 DEF Leaves
<1>20. m2.a.Allocated > 0 /\ m2.a.Allocated >= n
  BY <1>5, <1>15, <1>16
<1> QED BY <1>4, <1>16, <1>17, <1>18, <1>19, <1>20 DEF Owner, Whole

(* maybe_grow: there is room for as many elements more.                    *)
LEMMA GrownKeeps ==
    ASSUME AL!ArrayLikeAssumption, NEW O, NEW B, Spare(O, B), NEW m, NEW l, Whole(m, l, O, B),
           NEW fit \in Nat, fit > 0, NEW moves \in BOOLEAN
    PROVE  /\ Owner(AL!MaybeGrown(m, fit, moves), l, O, B)
           /\ AL!MaybeGrown(m, fit, moves).a.Allocated >= Len(l) + fit
<1>1. m.a.Count = Len(l) /\ Len(l) \in Nat /\ m.a.Allocated \in Nat
  BY DEF Whole, Shows, Memories, Refs
<1>2. CASE m.a.Count + fit <= m.a.Allocated
  <2>1. AL!MaybeGrown(m, fit, moves) = m /\ m.a.Allocated > 0
    BY <1>1, <1>2 DEF AL!MaybeGrown
  <2> QED BY <1>1, <1>2, <2>1 DEF Owner
<1>3. CASE ~(m.a.Count + fit <= m.a.Allocated)
  <2>1. PICK n : n = AL!Max({AL!CeilPowOf2(m.a.Count + fit + 1), MinAllocated})
    OBVIOUS
  <2>2. n \in Nat /\ n >= Len(l) + fit
    <3>1. PICK c, x : c = AL!CeilPowOf2(x) /\ x = m.a.Count + fit + 1
      OBVIOUS
    <3>2. x \in Nat /\ c \in Nat /\ x <= c /\ MinAllocated \in Nat
      BY <1>1, <3>1, CeilFits DEF AL!ArrayLikeAssumption
    <3>3. AL!Max({c, MinAllocated}) \in {c, MinAllocated} /\ AL!Max({c, MinAllocated}) >= c
      BY <3>2, MaxOfTwo
    <3> QED BY <1>1, <2>1, <3>1, <3>2, <3>3
  <2>3. AL!MaybeGrown(m, fit, moves) = AL!Reserved(m, n, moves)
    BY <1>3, <2>1 DEF AL!MaybeGrown
  <2>4. n \in Int /\ n >= Len(l)
    BY <1>1, <2>2
  <2>5. Owner(AL!Reserved(m, n, moves), l, O, B) /\ AL!Reserved(m, n, moves).a.Allocated >= n
    BY <2>4, ReservedKeeps
  <2>6. AL!Reserved(m, n, moves).a.Allocated \in Nat
    BY <2>5 DEF Owner, Whole, Memories, Refs
  <2> QED BY <1>1, <2>2, <2>3, <2>5, <2>6
<1> QED BY <1>2, <1>3

-----------------------------------------------------------------------------
(* Cells moved and written, and what they make of the elements.            *)

LEMMA CopiedIs ==
    ASSUME NEW c \in Seq(Contents), NEW to \in Nat, NEW from \in Nat, NEW n \in Int,
           n > 0 => to + n <= Len(c) /\ from + n <= Len(c)
    PROVE  /\ AL!Copied(c, to, from, n) \in Seq(Contents) /\ Len(AL!Copied(c, to, from, n)) = Len(c)
           /\ \A i \in 1..Len(c) : AL!Copied(c, to, from, n)[i]
                 = IF to < i /\ i <= to + n THEN c[i - to + from] ELSE c[i]
<1>1. Len(c) \in Nat /\ DOMAIN c = 1..Len(c)
  OBVIOUS
<1>2. PICK f : f = AL!Copied(c, to, from, n)
  OBVIOUS
<1>3. f = [i \in 1..Len(c) |-> IF i - 1 \in to..(to + n - 1) THEN c[i - to + from] ELSE c[i]]
  BY <1>1, <1>2 DEF AL!Copied
<1>4. \A i \in 1..Len(c) : i - 1 \in to..(to + n - 1) <=> to < i /\ i <= to + n
  BY <1>1
<1>5. \A i \in 1..Len(c) : f[i] = IF to < i /\ i <= to + n THEN c[i - to + from] ELSE c[i]
  BY <1>3, <1>4
<1>6. \A i \in 1..Len(c) : f[i] \in Contents
  <2> SUFFICES ASSUME NEW i \in 1..Len(c) PROVE f[i] \in Contents
    OBVIOUS
  <2>1. CASE to < i /\ i <= to + n
    <3>1. i - to + from \in 1..Len(c)
      BY <1>1, <2>1
    <3> QED BY <1>5, <2>1, <3>1
  <2>2. CASE ~(to < i /\ i <= to + n)
    BY <1>5, <2>2
  <2> QED BY <2>1, <2>2
<1>7. f \in [1..Len(c) -> Contents]
  BY <1>3, <1>6
<1>8. f \in Seq(Contents) /\ Len(f) = Len(c)
  BY <1>1, <1>7, SeqFromFun
<1> QED BY <1>2, <1>5, <1>8

LEMMA WrittenIs ==
    ASSUME NEW c \in Seq(Contents), NEW to \in Nat, NEW s \in Seq(Contents)
    PROVE  /\ AL!Written(c, to, s) \in Seq(Contents) /\ Len(AL!Written(c, to, s)) = Len(c)
           /\ \A i \in 1..Len(c) : AL!Written(c, to, s)[i]
                 = IF to < i /\ i <= to + Len(s) THEN s[i - to] ELSE c[i]
<1>1. Len(c) \in Nat /\ DOMAIN c = 1..Len(c) /\ Len(s) \in Nat
  OBVIOUS
<1>2. PICK f : f = AL!Written(c, to, s)
  OBVIOUS
<1>3. f = [i \in 1..Len(c) |-> IF i - to \in 1..Len(s) THEN s[i - to] ELSE c[i]]
  BY <1>1, <1>2 DEF AL!Written
<1>4. \A i \in 1..Len(c) : i - to \in 1..Len(s) <=> to < i /\ i <= to + Len(s)
  BY <1>1
<1>5. \A i \in 1..Len(c) : f[i] = IF to < i /\ i <= to + Len(s) THEN s[i - to] ELSE c[i]
  BY <1>3, <1>4
<1>6. \A i \in 1..Len(c) : f[i] \in Contents
  BY <1>1, <1>3
<1>7. f \in [1..Len(c) -> Contents]
  BY <1>3, <1>6
<1>8. f \in Seq(Contents) /\ Len(f) = Len(c)
  BY <1>1, <1>7, SeqFromFun
<1> QED BY <1>2, <1>5, <1>8

(* l with what is between b and e replaced by s.                           *)
Splice(l, b, e, s) == SubSeq(l, 1, b) \o s \o SubSeq(l, e + 1, Len(l))

IsSplice(z, l, b, e, s) ==
    /\ Len(z) = Len(l) - (e - b) + Len(s)
    /\ \A i \in 1..Len(z) : z[i] = IF i <= b THEN l[i]
                                   ELSE IF i <= b + Len(s) THEN s[i - b]
                                   ELSE l[i - Len(s) + (e - b)]

LEMMA SpliceIs ==
    ASSUME NEW V, NEW l \in Seq(V), NEW s \in Seq(V), NEW b \in Nat, NEW e \in Nat, b <= e, e <= Len(l)
    PROVE  Splice(l, b, e, s) \in Seq(V) /\ IsSplice(Splice(l, b, e, s), l, b, e, s)
<1>1. PICK z, p, q, r : /\ z = Splice(l, b, e, s) /\ p = SubSeq(l, 1, b)
                        /\ q = p \o s /\ r = SubSeq(l, e + 1, Len(l))
  OBVIOUS
<1>2. Len(l) \in Nat /\ Len(s) \in Nat /\ e \in 0..Len(l)
  OBVIOUS
<1>3. p \in Seq(V) /\ Len(p) = b /\ \A i \in 1..b : p[i] = l[i]
  BY <1>1, <1>2
<1>4. r \in Seq(V) /\ Len(r) = Len(l) - e /\ \A i \in 1..(Len(l) - e) : r[i] = l[e + i]
  BY <1>1, <1>2, Rest
<1>5. /\ q \in Seq(V) /\ Len(q) = b + Len(s)
      /\ \A i \in 1..b : q[i] = l[i]
      /\ \A i \in 1..Len(s) : q[b + i] = s[i]
  <2>1. p \in Seq(V) /\ s \in Seq(V)
    BY <1>3
  <2>2. /\ p \o s \in Seq(V) /\ Len(p \o s) = Len(p) + Len(s)
        /\ \A i \in 1..Len(p) : (p \o s)[i] = p[i]
        /\ \A i \in 1..Len(s) : (p \o s)[Len(p) + i] = s[i]
    BY ONLY <2>1, Joined
  <2>3. q = p \o s
    BY <1>1
  <2> QED BY ONLY <1>3, <2>2, <2>3
<1>6. z = q \o r
  BY <1>1 DEF Splice
<1>7. /\ z \in Seq(V) /\ Len(z) = Len(q) + Len(r)
      /\ \A i \in 1..Len(q) : z[i] = q[i]
      /\ \A i \in 1..Len(r) : z[Len(q) + i] = r[i]
  <2>1. q \in Seq(V) /\ r \in Seq(V)
    BY <1>4, <1>5
  <2> QED BY ONLY <1>6, <2>1, Joined
<1>8. Len(z) = Len(l) - (e - b) + Len(s)
  BY <1>2, <1>4, <1>5, <1>7
<1>9. ASSUME NEW i \in 1..Len(z)
      PROVE  z[i] = IF i <= b THEN l[i] ELSE IF i <= b + Len(s) THEN s[i - b] ELSE l[i - Len(s) + (e - b)]
  <2>0. i \in Nat /\ i >= 1 /\ i <= Len(z)
    BY <1>2, <1>8
  <2>1. CASE i <= b
    <3>1. i \in 1..b /\ i \in 1..(b + Len(s))
      BY <1>2, <2>0, <2>1
    <3>2. z[i] = q[i] /\ q[i] = l[i]
      BY <1>5, <1>7, <3>1
    <3> QED BY <2>1, <3>2
  <2>2. CASE ~(i <= b) /\ i <= b + Len(s)
    <3>1. PICK k : k = i - b
      OBVIOUS
    <3>2. k \in 1..Len(s) /\ b + k = i /\ i \in 1..(b + Len(s))
      BY <1>2, <2>0, <2>2, <3>1
    <3>3. z[i] = q[i] /\ q[b + k] = s[k]
      BY <1>5, <1>7, <3>2
    <3> QED BY <2>2, <3>1, <3>2, <3>3
  <2>3. CASE ~(i <= b) /\ ~(i <= b + Len(s))
    <3>1. PICK k : k = i - (b + Len(s))
      OBVIOUS
    <3>2. k \in 1..(Len(l) - e) /\ (b + Len(s)) + k = i /\ e + k = i - Len(s) + (e - b)
      BY <1>2, <1>8, <2>0, <2>3, <3>1
    <3>3. z[Len(q) + k] = r[k] /\ r[k] = l[e + k] /\ Len(q) = b + Len(s)
      BY <1>4, <1>5, <1>7, <3>2
    <3> QED BY <2>3, <3>2, <3>3
  <2> QED BY <2>1, <2>2, <2>3
<1> QED BY <1>1, <1>7, <1>8, <1>9 DEF IsSplice

LEMMA WrittenNothing ==
    ASSUME NEW c \in Seq(Contents), NEW to \in Nat PROVE AL!Written(c, to, << >>) = c
<1>1. << >> \in Seq(Contents) /\ Len(<< >>) = 0 /\ Len(c) \in Nat
  OBVIOUS
<1>2. PICK f, s : f = AL!Written(c, to, s) /\ s = << >>
  OBVIOUS
<1>3. /\ f \in Seq(Contents) /\ Len(f) = Len(c)
      /\ \A i \in 1..Len(c) : f[i] = IF to < i /\ i <= to + Len(s) THEN s[i - to] ELSE c[i]
  <2>1. c \in Seq(Contents) /\ to \in Nat /\ s \in Seq(Contents) /\ f = AL!Written(c, to, s)
    BY <1>1, <1>2
  <2> QED BY ONLY <2>1, WrittenIs
<1>4. \A i \in 1..Len(c) : f[i] = c[i]
  BY <1>1, <1>2, <1>3
<1>5. f = c
  BY <1>3, <1>4, SeqEqual
<1> QED BY <1>2, <1>5

(* What stands behind e is moved, then s is written from b on.             *)
MovedAside(c, l, b, e, s) == AL!Copied(c, b + Len(s), e, Len(l) - e)

(* The cells c begin with l.                                               *)
Begins(c, l) ==
    /\ c \in Seq(Contents) /\ l \in Seq(Contents) /\ Len(l) \in Nat /\ Len(l) <= Len(c)
    /\ \A i \in 1..Len(l) : c[i] = l[i]

(* There is room for s instead of what is between b and e.                 *)
HasRoom(c, l, b, e, s) ==
    /\ b \in Nat /\ e \in Nat /\ b <= e /\ e <= Len(l) /\ s \in Seq(Contents)
    /\ Len(l) - (e - b) + Len(s) <= Len(c)

LEMMA SplicedCells ==
    ASSUME NEW c, NEW l, Begins(c, l), NEW b, NEW e, NEW s, HasRoom(c, l, b, e, s),
           NEW cells, cells = AL!Written(MovedAside(c, l, b, e, s), b, s)
    PROVE  /\ Begins(cells, Splice(l, b, e, s)) /\ Len(cells) = Len(c)
           /\ Len(Splice(l, b, e, s)) = Len(l) - (e - b) + Len(s)
<1>0. /\ c \in Seq(Contents) /\ l \in Seq(Contents) /\ Len(l) <= Len(c) /\ \A i \in 1..Len(l) : c[i] = l[i]
      /\ b \in Nat /\ e \in Nat /\ b <= e /\ e <= Len(l) /\ s \in Seq(Contents)
      /\ Len(l) - (e - b) + Len(s) <= Len(c)
  BY DEF Begins, HasRoom
<1>1. PICK z : z = Splice(l, b, e, s)
  OBVIOUS
<1>2. z \in Seq(Contents) /\ IsSplice(z, l, b, e, s)
  BY <1>0, <1>1, SpliceIs
<1>3. Len(l) \in Nat /\ Len(c) \in Nat /\ Len(s) \in Nat /\ Len(z) \in Nat
  BY <1>0, <1>2
<1>4. PICK k, to, n : k = MovedAside(c, l, b, e, s) /\ to = b + Len(s) /\ n = Len(l) - e
  OBVIOUS
<1>5. to \in Nat /\ n \in Nat /\ to + n <= Len(c) /\ e + n <= Len(c) /\ k = AL!Copied(c, to, e, n)
  BY <1>0, <1>3, <1>4 DEF MovedAside
<1>6. /\ k \in Seq(Contents) /\ Len(k) = Len(c)
      /\ \A i \in 1..Len(c) : k[i] = IF to < i /\ i <= to + n THEN c[i - to + e] ELSE c[i]
  <2>1. c \in Seq(Contents) /\ to \in Nat /\ e \in Nat /\ n \in Int
    BY <1>0, <1>5
  <2>2. n > 0 => to + n <= Len(c) /\ e + n <= Len(c)
    BY <1>5
  <2>3. k = AL!Copied(c, to, e, n)
    BY <1>5
  <2> QED BY ONLY <2>1, <2>2, <2>3, CopiedIs
<1>7. /\ cells \in Seq(Contents) /\ Len(cells) = Len(k)
      /\ \A i \in 1..Len(k) : cells[i] = IF b < i /\ i <= b + Len(s) THEN s[i - b] ELSE k[i]
  <2>1. cells = AL!Written(k, b, s)
    BY <1>0, <1>4
  <2>2. k \in Seq(Contents) /\ b \in Nat /\ s \in Seq(Contents)
    BY <1>0, <1>6
  <2> QED BY ONLY <2>1, <2>2, WrittenIs
<1>8. Len(z) = Len(l) - (e - b) + Len(s) /\ Len(z) = to + n
  BY <1>0, <1>2, <1>3, <1>4 DEF IsSplice
<1>9. ASSUME NEW i \in 1..Len(z) PROVE cells[i] = z[i]
  <2>1. i \in Nat /\ i >= 1 /\ i <= to + n /\ i \in 1..Len(c)
    BY <1>0, <1>3, <1>5, <1>8
  <2>2. /\ cells[i] = IF b < i /\ i <= b + Len(s) THEN s[i - b] ELSE k[i]
        /\ k[i] = IF to < i /\ i <= to + n THEN c[i - to + e] ELSE c[i]
        /\ z[i] = IF i <= b THEN l[i] ELSE IF i <= b + Len(s) THEN s[i - b] ELSE l[i - Len(s) + (e - b)]
    BY <1>0, <1>2, <1>6, <1>7, <2>1 DEF IsSplice
  <2>3. CASE i <= b
    <3>1. cells[i] = c[i] /\ z[i] = l[i] /\ i \in 1..Len(l)
      BY <1>0, <1>3, <1>4, <2>1, <2>2, <2>3
    <3> QED BY <1>0, <3>1
  <2>4. CASE b < i /\ i <= b + Len(s)
    BY <1>0, <2>1, <2>2, <2>4
  <2>5. CASE i > b + Len(s)
    <3>1. PICK j : j = i - to + e
      OBVIOUS
    <3>2. j \in 1..Len(l) /\ j = i - Len(s) + (e - b)
      <4>1. /\ b \in Nat /\ e \in Nat /\ b <= e /\ e <= Len(l) /\ Len(l) \in Nat /\ Len(s) \in Nat
            /\ to = b + Len(s) /\ n = Len(l) - e /\ i \in Nat /\ i <= to + n /\ i > b + Len(s)
        BY <1>0, <1>3, <1>4, <2>1, <2>5
      <4> QED BY ONLY <3>1, <4>1
    <3>3. cells[i] = k[i] /\ k[i] = c[j] /\ z[i] = l[j]
      <4>1. b \in Nat /\ Len(s) \in Nat /\ i \in Nat /\ to = b + Len(s) /\ i <= to + n /\ i > b + Len(s)
        BY <1>0, <1>3, <1>4, <2>1, <2>5
      <4>2. ~(i <= b) /\ ~(i <= b + Len(s)) /\ to < i /\ i <= to + n
        BY ONLY <4>1
      <4>3. cells[i] = k[i] /\ k[i] = c[i - to + e] /\ z[i] = l[i - Len(s) + (e - b)]
        BY ONLY <2>2, <4>2
      <4> QED BY ONLY <3>1, <3>2, <4>3
    <3> QED BY <1>0, <3>2, <3>3
  <2> QED BY <1>0, <1>3, <2>1, <2>3, <2>4, <2>5
<1>10. Len(z) <= Len(cells)
  BY <1>3, <1>5, <1>6, <1>7, <1>8
<1> QED BY <1>1, <1>2, <1>3, <1>6, <1>7, <1>8, <1>9, <1>10 DEF Begins

(* The owner of a block, with what is between b and e replaced.            *)
LEMMA SplicedIn ==
    ASSUME NEW m, NEW l, NEW O, NEW B, Owner(m, l, O, B),
           NEW b \in Nat, NEW e \in Nat, b <= e, e <= Len(l), NEW s \in Seq(Contents),
           Len(l) - (e - b) + Len(s) <= m.a.Allocated,
           NEW m2, m2 = [blocks |-> [m.blocks EXCEPT ![m.a.Data] =
                                        AL!Written(MovedAside(m.blocks[m.a.Data], l, b, e, s), b, s)],
                         a |-> [m.a EXCEPT !.Count = Len(l) - (e - b) + Len(s)]]
    PROVE  Owner(m2, Splice(l, b, e, s), O, B)
<1>1. PICK c, z, cells : /\ c = m.blocks[m.a.Data] /\ z = Splice(l, b, e, s)
                         /\ cells = AL!Written(MovedAside(c, l, b, e, s), b, s)
  OBVIOUS
<1>2. /\ l \in Seq(Contents) /\ c \in Seq(Contents) /\ Len(c) = m.a.Allocated /\ Len(l) <= Len(c)
      /\ \A i \in 1..Len(l) : c[i] = l[i]
  <2>1. /\ l \in Seq(Contents) /\ Len(c) = m.a.Allocated /\ m.a.First = 0 /\ m.a.Count = Len(l)
        /\ m.a.Count <= m.a.Allocated /\ \A i \in 1..Len(l) : c[m.a.First + i] = l[i]
    BY <1>1 DEF Owner, Whole, Shows, OwnsAll
  <2>2. c \in Seq(Contents)
    BY <1>1 DEF Owner, Whole, OwnsAll, Memories, Stores
  <2>3. \A i \in 1..Len(l) : 0 + i = i
    OBVIOUS
  <2> QED BY <2>1, <2>2, <2>3
<1>3. /\ cells \in Seq(Contents) /\ Len(cells) = Len(c)
      /\ z \in Seq(Contents) /\ Len(z) \in Nat /\ Len(z) <= Len(cells)
      /\ Len(z) = Len(l) - (e - b) + Len(s)
      /\ \A i \in 1..Len(z) : cells[i] = z[i]
  <2>1. HasRoom(c, l, b, e, s)
    BY <1>2 DEF HasRoom
  <2>2. Begins(c, l)
    <3>1. Len(l) \in Nat
      BY <1>2
    <3> QED BY <1>2, <3>1 DEF Begins
  <2>3. Begins(cells, z) /\ Len(cells) = Len(c) /\ Len(z) = Len(l) - (e - b) + Len(s)
    BY <1>1, <2>1, <2>2, SplicedCells
  <2> QED BY <2>3 DEF Begins
<1>4. Len(z) <= Len(cells)
  BY <1>2, <1>3
<1>5. m2 = [blocks |-> [m.blocks EXCEPT ![m.a.Data] = cells], a |-> [m.a EXCEPT !.Count = Len(z)]]
  BY <1>1, <1>3
<1>6. Len(cells) = m.a.Allocated
  BY <1>2, <1>3
<1>7. Owner(m, l, O, B)
  OBVIOUS
<1>8. Owner(m2, z, O, B)
  BY ONLY <1>3, <1>4, <1>5, <1>6, <1>7, Rewritten
<1> QED BY <1>1, <1>8

LEMMA OwnerFacts ==
    ASSUME NEW m, NEW l, NEW O, NEW B, Owner(m, l, O, B)
    PROVE  /\ l \in Seq(Contents) /\ Len(l) \in Nat /\ m.a.Count = Len(l) /\ m.a.First = 0
           /\ Len(l) <= m.a.Allocated /\ m.a.Allocated \in Nat
           /\ m.a.Data \in Blocks /\ m.blocks[m.a.Data] \in Seq(Contents)
           /\ Len(m.blocks[m.a.Data]) = m.a.Allocated
           /\ \A i \in 1..Len(l) : m.blocks[m.a.Data][i] = l[i]
<1>1. /\ m \in Memories /\ l \in Seq(Contents) /\ m.a.Count = Len(l) /\ m.a.First = 0
      /\ m.a.Data \in Blocks /\ m.a.Count <= m.a.Allocated /\ m.a.Allocated = Len(m.blocks[m.a.Data])
      /\ \A i \in 1..Len(l) : m.blocks[m.a.Data][m.a.First + i] = l[i]
  BY DEF Owner, Whole, Shows, OwnsAll
<1>2. m.blocks[m.a.Data] \in Seq(Contents)
  BY <1>1 DEF Memories, Stores
<1>3. Len(l) \in Nat /\ m.a.Allocated \in Nat
  BY <1>1, <1>2
<1>4. \A i \in 1..Len(l) : 0 + i = i
  OBVIOUS
<1> QED BY <1>1, <1>2, <1>3, <1>4

-----------------------------------------------------------------------------
(* What each operation makes of the elements.                              *)

LEMMA SpliceNothing ==
    ASSUME NEW l \in Seq(Contents), NEW i \in Nat, i <= Len(l) PROVE Splice(l, i, i, << >>) = l
<1>1. PICK z, s : z = Splice(l, i, i, s) /\ s = << >>
  OBVIOUS
<1>2. s \in Seq(Contents) /\ Len(s) = 0 /\ Len(l) \in Nat
  BY <1>1
<1>3. z \in Seq(Contents) /\ IsSplice(z, l, i, i, s)
  <2>1. i <= i /\ i <= Len(l) /\ s \in Seq(Contents)
    BY <1>2
  <2>2. Splice(l, i, i, s) \in Seq(Contents) /\ IsSplice(Splice(l, i, i, s), l, i, i, s)
    BY ONLY <2>1, l \in Seq(Contents), i \in Nat, SpliceIs
  <2> QED BY <1>1, <2>2
<1>4. Len(z) = Len(l) /\ \A k \in 1..Len(l) : z[k] = l[k]
  <2>1. Len(z) = Len(l)
    BY <1>2, <1>3 DEF IsSplice
  <2>2. ASSUME NEW k \in 1..Len(l) PROVE z[k] = l[k]
    <3>1. z[k] = IF k <= i THEN l[k] ELSE IF k <= i + 0 THEN s[k - i] ELSE l[k - 0 + (i - i)]
      BY <1>2, <1>3, <2>1 DEF IsSplice
    <3>2. k \in Nat /\ i + 0 = i /\ k - 0 + (i - i) = k
      BY <1>2
    <3> QED BY <3>1, <3>2
  <2> QED BY <2>1, <2>2
<1>5. z = l
  BY <1>3, <1>4, SeqEqual
<1> QED BY <1>1, <1>5

LEMMA InsertedKeeps ==
    ASSUME AL!ArrayLikeAssumption, NEW O, NEW B, Spare(O, B), NEW m, NEW l, Whole(m, l, O, B),
           NEW index \in Int, NEW i \in Nat, i = AL!Translate(index, Len(l)), i <= Len(l),
           NEW s \in Seq(Contents), NEW moves \in BOOLEAN
    PROVE  /\ Whole(AL!Inserted(m, index, s, moves), Splice(l, i, i, s), O, B)
           /\ m.a.Allocated > 0 \/ s # << >> =>
                  Owner(AL!Inserted(m, index, s, moves), Splice(l, i, i, s), O, B)
<1>1. CASE s = << >>
  <2>1. l \in Seq(Contents) /\ AL!Inserted(m, index, s, moves) = m
    BY <1>1 DEF Whole, Shows, AL!Inserted
  <2>2. Splice(l, i, i, s) = l
    BY <1>1, <2>1, SpliceNothing
  <2> QED BY <1>1, <2>1, <2>2 DEF Owner
<1>2. CASE s # << >>
  <2>1. PICK g : g = AL!MaybeGrown(m, Len(s), moves)
    OBVIOUS
  <2>2. Len(s) \in Nat /\ Len(s) > 0
    BY <1>2
  <2>3. Owner(g, l, O, B) /\ g.a.Allocated >= Len(l) + Len(s)
    BY <2>1, <2>2, GrownKeeps
  <2>4. PICK c : c = g.blocks[g.a.Data]
    OBVIOUS
  <2>5. g.a.First = 0 /\ g.a.Count = Len(l) /\ Len(l) \in Nat
    BY <2>3, OwnerFacts
  <2>6. AL!Copied(c, g.a.First + i + Len(s), g.a.First + i, g.a.First + g.a.Count - (g.a.First + i))
        = MovedAside(c, l, i, i, s)
    <3>1. /\ 0 + i + Len(s) = i + Len(s) /\ 0 + i = i
          /\ 0 + Len(l) - (0 + i) = Len(l) - i
      BY <2>2, <2>5
    <3> QED BY <2>5, <3>1 DEF MovedAside
  <2>7. g.a.First + i = i /\ g.a.Count + Len(s) = Len(l) - (i - i) + Len(s)
    BY <2>2, <2>5
  <2>8. PICK m2 : m2 = [blocks |-> [g.blocks EXCEPT ![g.a.Data] = AL!Written(MovedAside(c, l, i, i, s), i, s)],
                        a |-> [g.a EXCEPT !.Count = Len(l) - (i - i) + Len(s)]]
    OBVIOUS
  <2>9. AL!Inserted(m, index, s, moves) = m2
    <3>1. AL!Translate(index, g.a.Count) = i
      BY <2>5
    <3>2. [g.a EXCEPT !.Count = @ + Len(s)] = [g.a EXCEPT !.Count = Len(l) - (i - i) + Len(s)]
      BY <2>7
    <3> QED BY <1>2, <2>1, <2>4, <2>6, <2>7, <2>8, <3>1, <3>2 DEF AL!Inserted
  <2>10. Owner(m2, Splice(l, i, i, s), O, B)
    <3>1. Len(l) - (i - i) + Len(s) <= g.a.Allocated
      BY <2>2, <2>3, <2>5, OwnerFacts
    <3> QED BY <2>3, <2>4, <2>8, <3>1, SplicedIn
  <2> QED BY <2>9, <2>10 DEF Owner
<1> QED BY <1>1, <1>2

(* Elements moved down over those that are removed.                        *)
LEMMA Removed ==
    ASSUME NEW m, NEW l, NEW O, NEW B, Owner(m, l, O, B),
           NEW b \in Nat, NEW e \in Nat, b <= e, e <= Len(l),
           NEW m2, m2 = [blocks |-> [m.blocks EXCEPT ![m.a.Data] =
                                        AL!Copied(m.blocks[m.a.Data], b, e, Len(l) - e)],
                         a |-> [m.a EXCEPT !.Count = Len(l) - (e - b)]]
    PROVE  Owner(m2, Splice(l, b, e, << >>), O, B)
<1>1. PICK c, s : c = m.blocks[m.a.Data] /\ s = << >>
  OBVIOUS
<1>2. /\ s \in Seq(Contents) /\ Len(s) = 0 /\ l \in Seq(Contents) /\ Len(l) \in Nat /\ c \in Seq(Contents)
      /\ Len(l) <= m.a.Allocated /\ m.a.Allocated \in Nat /\ m.a.Allocated = Len(c)
  BY <1>1, OwnerFacts
<1>3. Len(l) - (e - b) + Len(s) = Len(l) - (e - b) /\ b + Len(s) = b /\ Len(l) - (e - b) + Len(s) <= m.a.Allocated
  BY <1>2
<1>4. PICK k : k = AL!Copied(c, b, e, Len(l) - e)
  OBVIOUS
<1>5. k \in Seq(Contents)
  <2>1. /\ Len(l) - e \in Int /\ Len(l) - e > 0 => b + (Len(l) - e) <= Len(c) /\ e + (Len(l) - e) <= Len(c)
    BY <1>2
  <2> QED BY <1>2, <1>4, <2>1, CopiedIs
<1>6. AL!Written(k, b, s) = k
  BY <1>1, <1>5, WrittenNothing
<1>7. MovedAside(c, l, b, e, s) = k
  BY <1>3, <1>4 DEF MovedAside
<1>8. m2 = [blocks |-> [m.blocks EXCEPT ![m.a.Data] = AL!Written(MovedAside(c, l, b, e, s), b, s)],
            a |-> [m.a EXCEPT !.Count = Len(l) - (e - b) + Len(s)]]
  BY <1>1, <1>3, <1>4, <1>6, <1>7
<1>9. Owner(m2, Splice(l, b, e, s), O, B)
  BY <1>1, <1>2, <1>3, <1>8, SplicedIn
<1> QED BY <1>1, <1>9

LEMMA RemovedRangeKeeps ==
    ASSUME NEW O, NEW B, NEW m, NEW l, Owner(m, l, O, B), NEW begin, NEW end,
           NEW b \in Nat, NEW e \in Nat, b <= e, e <= Len(l),
           b = AL!Translate(begin, Len(l)), e = AL!Translate(end, Len(l))
    PROVE  Owner(AL!RemovedRange(m, begin, end), Splice(l, b, e, << >>), O, B)
<1>1. PICK m2 : m2 = [blocks |-> [m.blocks EXCEPT ![m.a.Data] =
                                      AL!Copied(m.blocks[m.a.Data], b, e, Len(l) - e)],
                      a |-> [m.a EXCEPT !.Count = Len(l) - (e - b)]]
  OBVIOUS
<1>2. m.a.Count = Len(l) /\ m.a.First = 0 /\ 0 + b = b /\ 0 + e = e
  BY OwnerFacts
<1>3. AL!RemovedRange(m, begin, end) = m2
  BY <1>1, <1>2 DEF AL!RemovedRange
<1> QED BY <1>1, <1>3, Removed

LEMMA RemovedOrderedAtKeeps ==
    ASSUME NEW O, NEW B, NEW m, NEW l, Owner(m, l, O, B), NEW index,
           NEW i \in Nat, i < Len(l), i = AL!Translate(index, Len(l))
    PROVE  Owner(AL!RemovedOrderedAt(m, index), Splice(l, i, i + 1, << >>), O, B)
<1>1. PICK e : e = i + 1
  OBVIOUS
<1>2. PICK m2 : m2 = [blocks |-> [m.blocks EXCEPT ![m.a.Data] =
                                      AL!Copied(m.blocks[m.a.Data], i, e, Len(l) - e)],
                      a |-> [m.a EXCEPT !.Count = Len(l) - (e - i)]]
  OBVIOUS
<1>3. m.a.Count = Len(l) /\ m.a.First = 0 /\ 0 + i = i /\ Len(l) \in Nat
  BY OwnerFacts
<1>4. 0 + Len(l) - i - 1 = Len(l) - e /\ Len(l) - 1 = Len(l) - (e - i) /\ e \in Nat /\ i <= e /\ e <= Len(l)
  BY <1>1, <1>3
<1>5. AL!RemovedOrderedAt(m, index) = m2
  BY <1>1, <1>2, <1>3, <1>4 DEF AL!RemovedOrderedAt
<1> QED BY <1>1, <1>2, <1>4, <1>5, Removed

(* The last element in the place of the one that goes.                     *)
LEMMA RemovedUnorderedAtKeeps ==
    ASSUME NEW O, NEW B, NEW m, NEW l, Owner(m, l, O, B), NEW index,
           NEW i \in Nat, i < Len(l), i = AL!Translate(index, Len(l))
    PROVE  Owner(AL!RemovedUnorderedAt(m, index), AL!Front([l EXCEPT ![i + 1] = AL!Last(l)]), O, B)
<1>1. PICK c, l2, l3, n : /\ c = m.blocks[m.a.Data] /\ l3 = [l EXCEPT ![i + 1] = l[Len(l)]]
                          /\ n = Len(l) - 1 /\ l2 = SubSeq(l3, 1, n)
  OBVIOUS
<1>2. /\ l \in Seq(Contents) /\ Len(l) \in Nat /\ m.a.Count = Len(l) /\ m.a.First = 0
      /\ Len(l) <= m.a.Allocated /\ m.a.Allocated \in Nat
      /\ c \in Seq(Contents) /\ Len(c) = m.a.Allocated /\ \A k \in 1..Len(l) : c[k] = l[k]
  BY <1>1, OwnerFacts
<1>3. l3 \in Seq(Contents) /\ Len(l3) = Len(l)
      /\ \A k \in 1..Len(l) : l3[k] = IF k = i + 1 THEN l[Len(l)] ELSE l[k]
  BY <1>1, <1>2
<1>4. AL!Front([l EXCEPT ![i + 1] = AL!Last(l)]) = l2
  BY <1>1, <1>3 DEF AL!Front, AL!Last
<1>5. n \in Nat /\ n + 1 = Len(l) /\ i \in 0..n
  BY <1>1, <1>2
<1>6. l2 \in Seq(Contents) /\ Len(l2) = n /\ \A k \in 1..n : l2[k] = l3[k]
  BY <1>1, <1>3, <1>5
<1>7. PICK s, cells : s = <<c[Len(l)]>> /\ cells = AL!Written(c, i, s)
  OBVIOUS
<1>8. s \in Seq(Contents) /\ Len(s) = 1 /\ s[1] = c[Len(l)]
  BY <1>2, <1>7
<1>9. /\ cells \in Seq(Contents) /\ Len(cells) = Len(c)
      /\ \A k \in 1..Len(c) : cells[k] = IF i < k /\ k <= i + 1 THEN s[k - i] ELSE c[k]
  <2>1. c \in Seq(Contents) /\ s \in Seq(Contents) /\ Len(s) = 1
    BY <1>2, <1>8
  <2>2. /\ AL!Written(c, i, s) \in Seq(Contents) /\ Len(AL!Written(c, i, s)) = Len(c)
        /\ \A k \in 1..Len(c) : AL!Written(c, i, s)[k]
               = IF i < k /\ k <= i + Len(s) THEN s[k - i] ELSE c[k]
    BY <2>1, WrittenIs
  <2> QED BY <1>7, <2>1, <2>2
<1>10. ASSUME NEW k \in 1..Len(l2) PROVE cells[k] = l2[k]
  <2>1. k \in 1..Len(l) /\ k \in 1..Len(c) /\ k \in 1..n /\ Len(l) \in 1..Len(l)
    BY <1>2, <1>5, <1>6
  <2>2. CASE k = i + 1
    <3>1. cells[k] = s[k - i] /\ k - i = 1
      BY <1>9, <2>1, <2>2
    <3>2. c[Len(l)] = l[Len(l)] /\ l3[k] = l[Len(l)] /\ l2[k] = l3[k]
      BY <1>2, <1>3, <1>6, <2>1, <2>2
    <3> QED BY ONLY <1>8, <3>1, <3>2
  <2>3. CASE k # i + 1
    <3>1. cells[k] = c[k]
      BY <1>9, <2>1, <2>3
    <3> QED BY <1>2, <1>3, <1>6, <2>1, <2>3, <3>1
  <2> QED BY <2>2, <2>3
<1>11. PICK m2 : m2 = [blocks |-> [m.blocks EXCEPT ![m.a.Data] = cells], a |-> [m.a EXCEPT !.Count = Len(l2)]]
  OBVIOUS
<1>12. AL!RemovedUnorderedAt(m, index) = m2
  <2>1. 0 + Len(l) = Len(l) /\ 0 + i = i /\ Len(l) - 1 = Len(l2)
    BY <1>2, <1>5, <1>6
  <2> QED BY <1>1, <1>2, <1>7, <1>11, <2>1 DEF AL!RemovedUnorderedAt
<1>13. Owner(m2, l2, O, B)
  <2>1. Len(cells) = m.a.Allocated /\ Len(l2) <= Len(cells)
    BY <1>2, <1>5, <1>6, <1>9
  <2> QED BY <1>6, <1>9, <1>10, <1>11, <2>1, Rewritten
<1> QED BY <1>4, <1>12, <1>13

LEMMA ReplacedRangeKeeps ==
    ASSUME AL!ArrayLikeAssumption, NEW O, NEW B, Spare(O, B), NEW m, NEW l, Owner(m, l, O, B),
           NEW begin, NEW end, NEW b \in Nat, NEW e \in Nat, b <= e, e <= Len(l),
           b = AL!Translate(begin, Len(l)), e = AL!Translate(end, Len(l)),
           NEW s \in Seq(Contents), NEW moves \in BOOLEAN
    PROVE  Owner(AL!ReplacedRange(m, begin, end, s, moves), Splice(l, b, e, s), O, B)
<1>1. PICK diff : diff = Len(s) - (e - b)
  OBVIOUS
<1>2. PICK g : g = IF diff > 0 THEN AL!MaybeGrown(m, diff, moves) ELSE m
  OBVIOUS
<1>3. /\ Len(s) \in Nat /\ diff \in Int /\ Len(l) \in Nat
      /\ m.a.Count = Len(l) /\ m.a.First = 0 /\ Len(l) <= m.a.Allocated /\ m.a.Allocated \in Nat
  <2>1. Owner(m, l, O, B)
    OBVIOUS
  <2>2. /\ Len(l) \in Nat /\ m.a.Count = Len(l) /\ m.a.First = 0
        /\ Len(l) <= m.a.Allocated /\ m.a.Allocated \in Nat
    BY ONLY <2>1, OwnerFacts
  <2>3. Len(s) \in Nat
    OBVIOUS
  <2> QED BY <1>1, <2>2, <2>3, SMTT(30)
<1>4. Owner(g, l, O, B) /\ Len(l) + diff <= g.a.Allocated
  <2>1. CASE diff > 0
    <3>1. diff \in Nat /\ Whole(m, l, O, B)
      BY <1>3, <2>1 DEF Owner
    <3> QED BY <1>2, <2>1, <3>1, GrownKeeps
  <2>2. CASE ~(diff > 0)
    BY <1>2, <1>3, <2>2
  <2> QED BY <2>1, <2>2
<1>5. PICK c : c = g.blocks[g.a.Data]
  OBVIOUS
<1>6. g.a.Count = Len(l) /\ g.a.First = 0
  BY <1>4, OwnerFacts
<1>7. /\ 0 + b + Len(s) = b + Len(s) /\ 0 + b + (e - b) = e /\ Len(l) - b - (e - b) = Len(l) - e
      /\ 0 + b = b /\ Len(l) + diff = Len(l) - (e - b) + Len(s)
  <2>1. PICK x, y : x = Len(l) /\ y = Len(s)
    OBVIOUS
  <2>2. x \in Nat /\ y \in Nat /\ b \in Nat /\ e \in Nat /\ diff = y - (e - b)
    BY <1>1, <1>3, <2>1
  <2>3. /\ 0 + b + y = b + y /\ 0 + b + (e - b) = e /\ x - b - (e - b) = x - e
        /\ 0 + b = b /\ x + diff = x - (e - b) + y
    BY ONLY <2>2
  <2> QED BY <2>1, <2>3
<1>8. PICK m2 : m2 = [blocks |-> [g.blocks EXCEPT ![g.a.Data] = AL!Written(MovedAside(c, l, b, e, s), b, s)],
                      a |-> [g.a EXCEPT !.Count = Len(l) - (e - b) + Len(s)]]
  OBVIOUS
<1>9. AL!ReplacedRange(m, begin, end, s, moves) = m2
  <2>1. AL!Translate(begin, m.a.Count) = b /\ AL!Translate(end, m.a.Count) = e
    BY <1>3
  <2>2. g.a.First + b = b /\ b + (e - b) = e
    BY <1>6, <1>7
  <2>3. [g.a EXCEPT !.Count = @ + diff] = [g.a EXCEPT !.Count = Len(l) - (e - b) + Len(s)]
    BY <1>6, <1>7
  <2>4. AL!Copied(c, b + Len(s), b + (e - b), g.a.Count - b - (e - b)) = MovedAside(c, l, b, e, s)
    BY <1>6, <1>7, <2>2 DEF MovedAside
  <2>5. AL!Copied(c, g.a.First + b + Len(s), g.a.First + b + (e - b), g.a.Count - b - (e - b))
        = MovedAside(c, l, b, e, s)
    BY <2>2, <2>4
  <2>6. AL!ReplacedRange(m, begin, end, s, moves)
        = [blocks |-> [g.blocks EXCEPT ![g.a.Data] =
               AL!Written(AL!Copied(c, g.a.First + b + Len(s), g.a.First + b + (e - b), g.a.Count - b - (e - b)),
                          g.a.First + b, s)],
           a |-> [g.a EXCEPT !.Count = @ + diff]]
    BY <1>1, <1>2, <1>5, <2>1 DEF AL!ReplacedRange
  <2> QED BY ONLY <1>8, <2>2, <2>3, <2>5, <2>6
<1>10. Owner(m2, Splice(l, b, e, s), O, B)
  BY <1>4, <1>5, <1>7, <1>8, SplicedIn
<1> QED BY <1>9, <1>10

-----------------------------------------------------------------------------
(* The inductive invariant, and the actions that keep it.                  *)

Memory(B, r) == [blocks |-> B, a |-> r]

(* The blocks that the other arrays own.                                   *)
Others(R, x) == {R[y].Data : y \in {z \in Arrays \ {x} : R[z].Allocated > 0}}

IsOwner(B, r, l) == OwnsAll(Memory(B, r)) /\ Shows(Memory(B, r), l)

Typed(B, R, W) ==
    /\ B \in Stores /\ R \in [Arrays -> Refs] /\ W \in [Arrays -> Seq(Contents)]
    /\ \A x \in Arrays : R[x].Count > 0 => R[x].Data \in Blocks

(* No block has two owners, or none unless it is free.                     *)
OneOwner(B, R) ==
    /\ \A x \in Arrays : \A y \in Arrays :
          x # y /\ R[x].Allocated > 0 /\ R[y].Allocated > 0 => R[x].Data # R[y].Data
    /\ \A b \in Blocks : B[b] # << >> => \E x \in Arrays : R[x].Allocated > 0 /\ R[x].Data = b

Kept(B, R, W) ==
    /\ Typed(B, R, W) /\ OneOwner(B, R)
    /\ \A x \in Arrays : R[x].Allocated > 0 => IsOwner(B, R[x], W[x])

(* The inductive invariant.                                                *)
ArrayInv == Kept(blocks, arr, want)

LEMMA OthersFacts ==
    ASSUME AL!ArrayLikeAssumption, NEW B, NEW R, NEW W, Kept(B, R, W), NEW x \in Arrays
    PROVE  Spare(Others(R, x), B)
<1> DEFINE O == Others(R, x)
<1>1. ASSUME NEW b \in O PROVE b \in Blocks /\ B[b] # << >>
  <2>1. PICK y \in Arrays : y # x /\ R[y].Allocated > 0 /\ b = R[y].Data
    BY DEF Others
  <2>2. OwnsAll(Memory(B, R[y]))
    BY <2>1 DEF Kept, IsOwner
  <2>3. b \in Blocks /\ Len(B[b]) > 0
    BY <2>1, <2>2 DEF OwnsAll, Memory
  <2>4. Len(<< >>) = 0
    OBVIOUS
  <2> QED BY <2>3, <2>4
<1>2. B \in Stores
  BY DEF Kept, Typed
<1>3. /\ IsFiniteSet(Arrays) /\ IsFiniteSet(Blocks) /\ Cardinality(Arrays) < Cardinality(Blocks)
  <2>1. AL!IsFiniteSet(Arrays) /\ AL!IsFiniteSet(Blocks) /\ AL!Cardinality(Arrays) < AL!Cardinality(Blocks)
    BY DEF AL!ArrayLikeAssumption
  <2>2. IsFiniteSet(Arrays) /\ IsFiniteSet(Blocks)
    BY <2>1 DEF AL!IsFiniteSet, IsFiniteSet
  <2>3. AL!Cardinality(Arrays) = Cardinality(Arrays)
    BY DEF AL!Cardinality, Cardinality
  <2>4. AL!Cardinality(Blocks) = Cardinality(Blocks)
    BY DEF AL!Cardinality, Cardinality
  <2> QED BY <2>1, <2>2, <2>3, <2>4
<1>4. IsFiniteSet(O) /\ Cardinality(O) <= Cardinality(Arrays \ {x}) /\ IsFiniteSet(Arrays \ {x})
  <2> DEFINE g == [b \in O |-> CHOOSE y \in Arrays \ {x} : R[y].Data = b]
  <2>1. \A b \in O : \E y \in Arrays \ {x} : R[y].Data = b
    BY DEF Others
  <2>2. \A b \in O : g[b] \in Arrays \ {x} /\ R[g[b]].Data = b
    BY <2>1
  <2>3. \A b, d \in O : g[b] = g[d] => b = d
    BY <2>2
  <2>4. IsFiniteSet(Arrays \ {x})
    BY <1>3, FS_RemoveElement
  <2> HIDE DEF g, O
  <2> QED BY <2>2, <2>3, <2>4, NotMore
<1>5. Cardinality(Arrays \ {x}) = Cardinality(Arrays) - 1
  BY <1>3, FS_RemoveElement
<1> HIDE DEF O
<1>6. ASSUME NEW d PROVE \E b \in Blocks : b \notin O /\ b # d
  <2> SUFFICES ASSUME \A b \in Blocks : b \in O \cup {d} PROVE FALSE
    OBVIOUS
  <2>1. Blocks \in SUBSET (O \cup {d})
    OBVIOUS
  <2>2. IsFiniteSet(O \cup {d})
        /\ Cardinality(O \cup {d}) = IF d \in O THEN Cardinality(O) ELSE Cardinality(O) + 1
    BY <1>4, FS_AddElement
  <2>3. Cardinality(Blocks) <= Cardinality(O \cup {d})
    BY <2>1, <2>2, FS_Subset
  <2>4. /\ Cardinality(O) \in Nat /\ Cardinality(Blocks) \in Nat /\ Cardinality(Arrays) \in Nat
        /\ Cardinality(Arrays \ {x}) \in Nat
    BY <1>3, <1>4, FS_CardinalityType
  <2> QED BY <1>3, <1>4, <1>5, <2>2, <2>3, <2>4
<1> QED BY <1>1, <1>2, <1>6 DEF Spare, O

(* An operation begins with what the array shows.                          *)
LEMMA Shown ==
    ASSUME NEW B, NEW R, NEW W, Kept(B, R, W), NEW x \in Arrays,
           NEW l, l \in Seq(Contents), R[x].Count = Len(l),
           Len(l) > 0 => R[x].First + Len(l) <= Len(B[R[x].Data]),
           \A i \in 1..Len(l) : B[R[x].Data][R[x].First + i] = l[i]
    PROVE  Whole(Memory(B, R[x]), l, Others(R, x), B)
<1>1. PICK m, r : m = Memory(B, r) /\ r = R[x]
  OBVIOUS
<1>2. m.blocks = B /\ m.a = r
  BY <1>1 DEF Memory
<1>3. r \in Refs /\ B \in Stores /\ (r.Count > 0 => r.Data \in Blocks)
  BY <1>1 DEF Kept, Typed
<1>4. m \in Memories
  BY <1>1, <1>3 DEF Memories, Memory
<1>5. Shows(m, l)
  BY <1>1, <1>2, <1>3 DEF Shows
<1>6. r.Allocated > 0 => OwnsAll(m)
  BY <1>1 DEF Kept, IsOwner
<1>7. r.Allocated > 0 => r.Data \notin Others(R, x)
  BY <1>1 DEF Kept, OneOwner, Others
<1>8. ASSUME NEW b \in Blocks, b \notin Others(R, x), B[b] # << >> PROVE r.Allocated > 0 /\ b = r.Data
  <2>1. PICK y \in Arrays : R[y].Allocated > 0 /\ R[y].Data = b
    BY <1>8 DEF Kept, OneOwner
  <2>2. y = x
    BY <1>8, <2>1 DEF Others
  <2> QED BY <1>1, <2>1, <2>2
<1>9. Leaves(m, Others(R, x), B)
  BY <1>2, <1>7, <1>8 DEF Leaves
<1> QED BY <1>1, <1>2, <1>4, <1>5, <1>6, <1>9 DEF Whole

LEMMA OwnedShown ==
    ASSUME NEW B, NEW R, NEW W, Kept(B, R, W), NEW x \in Arrays, R[x].Allocated > 0
    PROVE  /\ Owner(Memory(B, R[x]), W[x], Others(R, x), B)
           /\ W[x] \in Seq(Contents) /\ Len(W[x]) \in Nat /\ R[x].Count = Len(W[x])
<1>1. PICK m, r, l : m = Memory(B, r) /\ r = R[x] /\ l = W[x]
  OBVIOUS
<1>2. m.blocks = B /\ m.a = r
  BY <1>1 DEF Memory
<1>3. Shows(m, l)
  BY <1>1 DEF Kept, IsOwner
<1>4. /\ l \in Seq(Contents) /\ r.Count = Len(l) /\ (Len(l) > 0 => r.First + Len(l) <= Len(B[r.Data]))
      /\ \A i \in 1..Len(l) : B[r.Data][r.First + i] = l[i]
  BY <1>2, <1>3 DEF Shows
<1>5. Whole(m, l, Others(R, x), B)
  BY <1>1, <1>4, Shown
<1> QED BY <1>1, <1>2, <1>4, <1>5 DEF Owner

(* What something owns is not disturbed by what leaves its block alone.    *)
LEMMA OwnerStays ==
    ASSUME NEW B, NEW r, NEW l, IsOwner(B, r, l), NEW B2, B2[r.Data] = B[r.Data]
    PROVE  IsOwner(B2, r, l)
<1>1. PICK m, m2 : m = Memory(B, r) /\ m2 = Memory(B2, r)
  OBVIOUS
<1>2. m.blocks = B /\ m.a = r /\ m2.blocks = B2 /\ m2.a = r
  BY <1>1 DEF Memory
<1>3. OwnsAll(m2)
  BY <1>1, <1>2 DEF OwnsAll, IsOwner
<1>4. Shows(m2, l)
  BY <1>1, <1>2 DEF Shows, IsOwner
<1> QED BY <1>1, <1>3, <1>4 DEF IsOwner

(* The array goes on with what an operation made of its memory.            *)
LEMMA GoesOn ==
    ASSUME NEW B, NEW R, NEW W, Kept(B, R, W), NEW x \in Arrays,
           NEW m, NEW l, Whole(m, l, Others(R, x), B),
           NEW w \in Seq(Contents), m.a.Allocated > 0 => w = l
    PROVE  Kept(m.blocks, [R EXCEPT ![x] = m.a], [W EXCEPT ![x] = w])
<1>1. PICK B2, r, R2, W2, O : /\ B2 = m.blocks /\ r = m.a /\ R2 = [R EXCEPT ![x] = r]
                              /\ W2 = [W EXCEPT ![x] = w] /\ O = Others(R, x)
  OBVIOUS
<1>2. /\ B \in Stores /\ R \in [Arrays -> Refs] /\ W \in [Arrays -> Seq(Contents)]
      /\ \A y \in Arrays : R[y].Count > 0 => R[y].Data \in Blocks
  BY DEF Kept, Typed
<1>3. /\ m \in Memories /\ m = Memory(B2, r) /\ B2 \in Stores /\ r \in Refs
  BY <1>1 DEF Whole, Memories, Memory
<1>4. /\ l \in Seq(Contents) /\ r.Count = Len(l) /\ (r.Count > 0 => r.Data \in Blocks) /\ Shows(m, l)
      /\ r.Allocated > 0 => OwnsAll(m)
  BY <1>1 DEF Whole, Shows
<1>5. /\ \A b \in O : B2[b] = B[b]
      /\ r.Allocated > 0 => r.Data \notin O
      /\ \A b \in Blocks \ O : B2[b] # << >> => r.Allocated > 0 /\ b = r.Data
  BY <1>1 DEF Whole, Leaves
<1>6. R2[x] = r /\ W2[x] = w /\ \A y \in Arrays : y # x => R2[y] = R[y] /\ W2[y] = W[y]
  BY <1>1, <1>2
<1>7. R2 \in [Arrays -> Refs] /\ W2 \in [Arrays -> Seq(Contents)]
  BY <1>1, <1>2, <1>3, <1>4
<1>8. Typed(B2, R2, W2)
  <2>1. \A y \in Arrays : R2[y].Count > 0 => R2[y].Data \in Blocks
    BY <1>2, <1>4, <1>6
  <2> QED BY <1>3, <1>7, <2>1 DEF Typed
<1>9. \A y \in Arrays : y # x /\ R[y].Allocated > 0 => R[y].Data \in O
  BY <1>1 DEF Others
<1>10. OneOwner(B2, R2)
  <2>1. ASSUME NEW y \in Arrays, NEW z \in Arrays, y # z, R2[y].Allocated > 0, R2[z].Allocated > 0
        PROVE  R2[y].Data # R2[z].Data
    <3>1. CASE y # x /\ z # x
      BY <1>6, <2>1, <3>1 DEF Kept, OneOwner
    <3>2. CASE y = x
      BY <1>5, <1>6, <1>9, <2>1, <3>2
    <3>3. CASE z = x
      BY <1>5, <1>6, <1>9, <2>1, <3>3
    <3> QED BY <3>1, <3>2, <3>3
  <2>2. ASSUME NEW b \in Blocks, B2[b] # << >> PROVE \E y \in Arrays : R2[y].Allocated > 0 /\ R2[y].Data = b
    <3>1. CASE b \in O
      <4>1. PICK y \in Arrays : y # x /\ R[y].Allocated > 0 /\ R[y].Data = b
        BY <1>1, <3>1 DEF Others
      <4> QED BY <1>6, <4>1
    <3>2. CASE b \notin O
      BY <1>5, <1>6, <2>2, <3>2
    <3> QED BY <3>1, <3>2
  <2> QED BY <2>1, <2>2 DEF OneOwner
<1>11. ASSUME NEW y \in Arrays, R2[y].Allocated > 0 PROVE IsOwner(B2, R2[y], W2[y])
  <2>1. CASE y = x
    <3>1. R2[y] = r /\ W2[y] = w /\ r.Allocated > 0
      BY <1>6, <1>11, <2>1
    <3>2. w = l
      BY <1>1, <3>1
    <3> QED BY <1>3, <1>4, <3>1, <3>2 DEF IsOwner
  <2>2. CASE y # x
    <3>1. R2[y] = R[y] /\ W2[y] = W[y]
      BY <1>6, <2>2
    <3>2. IsOwner(B, R[y], W[y])
      BY <1>11, <3>1 DEF Kept
    <3>3. B2[R[y].Data] = B[R[y].Data]
      BY <1>5, <1>9, <1>11, <2>2, <3>1
    <3> QED BY <3>1, <3>2, <3>3, OwnerStays
  <2> QED BY <2>1, <2>2
<1> QED BY <1>1, <1>8, <1>10, <1>11 DEF Kept

LEMMA BeginningOf ==
    ASSUME NEW V, NEW s \in Seq(V), NEW n \in Nat, n <= Len(s)
    PROVE  /\ SubSeq(s, 1, n) \in Seq(V) /\ Len(SubSeq(s, 1, n)) = n
           /\ \A k \in 1..n : SubSeq(s, 1, n)[k] = s[k]
<1>1. Len(s) \in Nat
  OBVIOUS
<1> QED BY <1>1

LEMMA BecomesKeeps ==
    ASSUME ArrayInv, NEW x \in Arrays, NEW m, NEW l, Whole(m, l, Others(arr, x), blocks), AL!Becomes(x, m, l)
    PROVE  ArrayInv'
<1>1. PICK O, B, R, W : O = Others(R, x) /\ B = blocks /\ R = arr /\ W = want
  OBVIOUS
<1>2. PICK B2, R2, W2 : B2 = blocks' /\ R2 = arr' /\ W2 = want'
  OBVIOUS
<1>3. Kept(B, R, W) /\ Whole(m, l, O, B)
  <2>1. Kept(blocks, arr, want) /\ Whole(m, l, Others(arr, x), blocks)
    BY DEF ArrayInv
  <2> QED BY ONLY <1>1, <2>1
<1>4. /\ R2 = [R EXCEPT ![x] = m.a] /\ W2 = [W EXCEPT ![x] = l]
      /\ B2 = IF m.a.Allocated = 0 THEN m.blocks
              ELSE [m.blocks EXCEPT ![m.a.Data] =
                      SubSeq(@, 1, m.a.Count) \o [i \in 1..(Len(@) - m.a.Count) |-> Junk]]
  BY <1>1, <1>2 DEF AL!Becomes
<1>5. PICK m2 : m2 = Memory(B2, m.a)
  OBVIOUS
<1>6. m2.blocks = B2 /\ m2.a = m.a
  BY <1>5 DEF Memory
<1>7. Whole(m2, l, O, B)
  <2>1. CASE m.a.Allocated = 0
    <3>1. m2 = m
      BY <1>3, <1>4, <1>5, <2>1 DEF Memory, Whole, Memories
    <3> QED BY <1>3, <3>1
  <2>2. CASE m.a.Allocated # 0
    <3>1. Owner(m, l, O, B)
      BY <1>3, <2>2 DEF Owner, Whole, Memories, Refs
    <3>2. PICK c, n, p, q, cells : /\ c = m.blocks[m.a.Data] /\ n = Len(l) /\ p = SubSeq(c, 1, n)
                                   /\ q = [i \in 1..(Len(c) - n) |-> Junk] /\ cells = p \o q
      OBVIOUS
    <3>3. /\ l \in Seq(Contents) /\ n \in Nat /\ m.a.Count = n /\ n <= m.a.Allocated
          /\ m.a.Allocated \in Nat /\ c \in Seq(Contents) /\ Len(c) = m.a.Allocated
          /\ \A i \in 1..n : c[i] = l[i]
      <4>1. /\ l \in Seq(Contents) /\ Len(l) \in Nat /\ m.a.Count = Len(l)
            /\ Len(l) <= m.a.Allocated /\ m.a.Allocated \in Nat
            /\ m.blocks[m.a.Data] \in Seq(Contents) /\ Len(m.blocks[m.a.Data]) = m.a.Allocated
            /\ \A i \in 1..Len(l) : m.blocks[m.a.Data][i] = l[i]
        BY ONLY <3>1, OwnerFacts
      <4> QED BY ONLY <3>2, <4>1
    <3>4. p \in Seq(Contents) /\ Len(p) = n /\ \A i \in 1..n : p[i] = c[i]
      <4>1. c \in Seq(Contents) /\ n \in Nat /\ n <= Len(c) /\ p = SubSeq(c, 1, n)
        BY ONLY <3>2, <3>3
      <4> QED BY ONLY <4>1, BeginningOf
    <3>5. q \in Seq(Contents) /\ Len(q) = Len(c) - n
      <4>1. PICK k \in Nat : k = Len(c) - n
        BY <3>3
      <4>2. q \in [1..k -> Contents]
        BY <3>2, <4>1 DEF Contents
      <4> QED BY <4>1, <4>2, SeqFromFun
    <3>6. /\ p \o q \in Seq(Contents) /\ Len(p \o q) = Len(p) + Len(q)
          /\ \A i \in 1..Len(p) : (p \o q)[i] = p[i]
      BY <3>4, <3>5, Joined, ZenonT(30)
    <3>7. cells \in Seq(Contents) /\ Len(cells) = m.a.Allocated /\ \A i \in 1..Len(l) : cells[i] = l[i]
      <4>1. Len(p) + Len(q) = m.a.Allocated
        BY <3>3, <3>4, <3>5
      <4>2. \A i \in 1..n : (p \o q)[i] = l[i]
        BY ONLY <3>3, <3>4, <3>6
      <4> QED BY ONLY <3>2, <3>6, <4>1, <4>2
    <3>8. m2 = [blocks |-> [m.blocks EXCEPT ![m.a.Data] = cells], a |-> [m.a EXCEPT !.Count = Len(l)]]
      <4>1. [m.a EXCEPT !.Count = Len(l)] = m.a
        BY <3>1, <3>2, <3>3 DEF Owner, Whole, Memories, Refs
      <4>2. B2 = [m.blocks EXCEPT ![m.a.Data] = cells]
        BY <1>4, <2>2, <3>2, <3>3
      <4> QED BY <1>5, <4>1, <4>2 DEF Memory
    <3>9. Owner(m2, l, O, B)
      <4>1. Len(l) <= Len(cells)
        BY <3>2, <3>3, <3>7, ZenonT(30)
      <4> QED BY <3>1, <3>3, <3>7, <3>8, <4>1, Rewritten
    <3> QED BY <3>9 DEF Owner
  <2> QED BY <2>1, <2>2
<1>8. Kept(B2, R2, W2)
  <2>1. Kept(m2.blocks, [R EXCEPT ![x] = m2.a], [W EXCEPT ![x] = l])
    <3>1. l \in Seq(Contents)
      BY DEF Whole, Shows
    <3> QED BY <1>1, <1>3, <1>7, <3>1, GoesOn
  <2> QED BY <1>4, <1>6, <2>1
<1> QED BY <1>2, <1>8 DEF ArrayInv

(* The elements a view or an owner shows.                                  *)
Part(B, r) == IF r.Count = 0 THEN << >> ELSE SubSeq(B[r.Data], r.First + 1, r.First + r.Count)

Within(B, r) ==
    /\ B \in Stores /\ r \in Refs
    /\ r.Count > 0 => r.Data \in Blocks /\ r.First + r.Count <= Len(B[r.Data])

Reads(B, r, l) ==
    /\ l \in Seq(Contents) /\ Len(l) = r.Count /\ Len(l) \in Nat
    /\ \A i \in 1..Len(l) : B[r.Data][r.First + i] = l[i]

LEMMA SubSeqShown == ASSUME NEW B, NEW r, Within(B, r) PROVE Reads(B, r, Part(B, r))
<1>0. PICK l : l = Part(B, r)
  OBVIOUS
<1>1. r.Count \in Nat /\ r.First \in Nat
  BY DEF Refs, Within
<1>2. CASE r.Count = 0
  <2>1. l = << >>
    BY <1>0, <1>2 DEF Part
  <2> QED BY <1>0, <1>2, <2>1 DEF Reads
<1>3. CASE r.Count # 0
  <2>1. PICK s, p, n : s = B[r.Data] /\ p = r.First /\ n = r.Count
    OBVIOUS
  <2>2. s \in Seq(Contents) /\ p \in Nat /\ n \in Nat /\ (n > 0 => p + n <= Len(s))
    BY <1>1, <1>3, <2>1 DEF Stores, Within
  <2>3. /\ SubSeq(s, p + 1, p + n) \in Seq(Contents) /\ Len(SubSeq(s, p + 1, p + n)) = n
        /\ \A i \in 1..n : SubSeq(s, p + 1, p + n)[i] = s[p + i]
    BY ONLY <2>2, PartOf
  <2>4. l = SubSeq(s, p + 1, p + n)
    BY <1>0, <1>3, <2>1 DEF Part
  <2> QED BY <1>0, <1>1, <2>1, <2>3, <2>4 DEF Reads
<1> QED BY <1>2, <1>3

LEMMA UsableShown ==
    ASSUME ArrayInv, NEW x \in Arrays, AL!Usable(x), NEW l, l = AL!Elements(arr[x])
    PROVE  /\ Whole(AL!Memory(x), l, Others(arr, x), blocks)
           /\ l \in Seq(Contents) /\ Len(l) = arr[x].Count /\ Len(l) \in Nat
<1>1. PICK B, R, W, r : B = blocks /\ R = arr /\ W = want /\ r = R[x]
  OBVIOUS
<1>2. Kept(B, R, W) /\ AL!Memory(x) = Memory(B, r)
  BY <1>1 DEF ArrayInv, AL!Memory, Memory
<1>3. B \in Stores /\ r \in Refs /\ (r.Count > 0 => r.Data \in Blocks)
  BY <1>1, <1>2 DEF Kept, Typed
<1>4. r.Count > 0 => r.First + r.Count <= Len(B[r.Data])
  BY <1>1 DEF AL!Usable
<1>5. l = Part(B, r)
  BY <1>1 DEF AL!Elements, Part
<1>6. /\ l \in Seq(Contents) /\ Len(l) = r.Count /\ Len(l) \in Nat
      /\ \A i \in 1..Len(l) : B[r.Data][r.First + i] = l[i]
  <2>1. Reads(B, r, l)
    BY <1>3, <1>4, <1>5, SubSeqShown DEF Within
  <2> QED BY <2>1 DEF Reads
<1>7. Whole(Memory(B, R[x]), l, Others(R, x), B)
  BY <1>1, <1>2, <1>4, <1>6, Shown
<1> QED BY <1>1, <1>2, <1>6, <1>7

LEMMA OwnedElements ==
    ASSUME ArrayInv, NEW x \in Arrays, AL!Owns(x)
    PROVE  /\ Owner(AL!Memory(x), want[x], Others(arr, x), blocks)
           /\ want[x] \in Seq(Contents) /\ Len(want[x]) \in Nat /\ arr[x].Count = Len(want[x])
           /\ AL!Usable(x) /\ AL!Elements(arr[x]) = want[x]
<1>1. PICK B, R, W, r, w : B = blocks /\ R = arr /\ W = want /\ r = R[x] /\ w = want[x]
  OBVIOUS
<1>2. Kept(B, R, W) /\ AL!Memory(x) = Memory(B, r) /\ r.Allocated > 0
  BY <1>1 DEF ArrayInv, AL!Memory, Memory, AL!Owns
<1>3. /\ Owner(Memory(B, r), w, Others(R, x), B)
      /\ w \in Seq(Contents) /\ Len(w) \in Nat /\ r.Count = Len(w)
  BY <1>1, <1>2, OwnedShown
<1>4. /\ (Len(w) > 0 => r.First + Len(w) <= Len(B[r.Data]))
      /\ \A i \in 1..Len(w) : B[r.Data][r.First + i] = w[i]
  BY <1>3 DEF Owner, Whole, Shows, Memory
<1>5. AL!Usable(x)
  BY <1>1, <1>3, <1>4 DEF AL!Usable
<1>6. PICK l : l = AL!Elements(arr[x])
  OBVIOUS
<1>7. l = w
  <2>1. B \in Stores /\ r \in Refs /\ (r.Count > 0 => r.Data \in Blocks)
    BY <1>1, <1>2 DEF Kept, Typed
  <2>2. r.Count > 0 => r.First + r.Count <= Len(B[r.Data])
    BY <1>3, <1>4
  <2>3. l = Part(B, r)
    BY <1>1, <1>6 DEF AL!Elements, Part
  <2>4. Reads(B, r, l)
    BY <2>1, <2>2, <2>3, SubSeqShown DEF Within
  <2> QED BY <1>3, <1>4, <2>4, SeqEqual DEF Reads
<1> QED BY <1>1, <1>2, <1>3, <1>5, <1>6, <1>7

LEMMA InsertKeeps ==
    ASSUME AL!ArrayLikeAssumption, ArrayInv, NEW x \in Arrays, NEW index \in Int, NEW s \in Seq(Contents),
           NEW moves \in BOOLEAN, AL!Insert(x, index, s, moves)
    PROVE  ArrayInv'
<1>1. PICK l, i, m, O, z : /\ l = AL!Elements(arr[x]) /\ i = AL!Translate(index, Len(l))
                           /\ m = AL!Memory(x) /\ O = Others(arr, x) /\ z = Splice(l, i, i, s)
  OBVIOUS
<1>2. Whole(m, l, O, blocks) /\ l \in Seq(Contents) /\ Len(l) = arr[x].Count /\ Len(l) \in Nat
  BY <1>1, UsableShown DEF AL!Insert
<1>3. i \in Nat /\ i <= Len(l)
  BY <1>1, <1>2 DEF AL!Insert, AL!InBounds
<1>4. Spare(O, blocks)
  BY <1>1, OthersFacts DEF ArrayInv
<1>5. Whole(AL!Inserted(m, index, s, moves), z, O, blocks)
  BY <1>1, <1>2, <1>3, <1>4, InsertedKeeps
<1>6. AL!Becomes(x, AL!Inserted(m, index, s, moves), z)
  BY <1>1 DEF AL!Insert, Splice
<1> QED BY <1>1, <1>5, <1>6, BecomesKeeps

LEMMA SpliceEnd ==
    ASSUME NEW l \in Seq(Contents), NEW s \in Seq(Contents)
    PROVE  Splice(l, Len(l), Len(l), s) = l \o s
<1>1. PICK n : n = Len(l)
  OBVIOUS
<1>2. n \in Nat /\ n <= n /\ n <= Len(l) /\ Len(s) \in Nat
  BY <1>1
<1>3. PICK z, y : z = Splice(l, n, n, s) /\ y = l \o s
  OBVIOUS
<1>4. z \in Seq(Contents) /\ IsSplice(z, l, n, n, s)
  <2>1. Splice(l, n, n, s) \in Seq(Contents) /\ IsSplice(Splice(l, n, n, s), l, n, n, s)
    BY ONLY <1>2, l \in Seq(Contents), s \in Seq(Contents), SpliceIs
  <2> QED BY <1>3, <2>1
<1>5. /\ y \in Seq(Contents) /\ Len(y) = n + Len(s)
      /\ \A i \in 1..n : y[i] = l[i]
      /\ \A i \in 1..Len(s) : y[n + i] = s[i]
  BY <1>1, <1>3, Joined
<1>6. Len(z) = n + Len(s)
  BY <1>1, <1>2, <1>4 DEF IsSplice
<1>7. ASSUME NEW i \in 1..Len(z) PROVE z[i] = y[i]
  <2>1. z[i] = IF i <= n THEN l[i] ELSE IF i <= n + Len(s) THEN s[i - n] ELSE l[i - Len(s) + (n - n)]
    BY <1>4 DEF IsSplice
  <2>2. CASE i <= n
    BY <1>2, <1>5, <1>6, <2>1, <2>2
  <2>3. CASE ~(i <= n)
    <3>1. i - n \in 1..Len(s) /\ n + (i - n) = i /\ i <= n + Len(s)
      BY <1>2, <1>6, <2>3
    <3>2. y[n + (i - n)] = s[i - n]
      BY <1>5, <3>1
    <3> QED BY <2>1, <2>3, <3>1, <3>2
  <2> QED BY <2>2, <2>3
<1>8. z = y
  BY <1>4, <1>5, <1>6, <1>7, SeqEqual
<1> QED BY <1>1, <1>3, <1>8

LEMMA AddArrayKeeps ==
    ASSUME AL!ArrayLikeAssumption, ArrayInv, NEW x \in Arrays, NEW y \in Arrays, AL!AddArray(x, y)
    PROVE  ArrayInv'
<1>1. PICK l, n, s, m, O, z : /\ l = want[x] /\ n = arr[x].Count /\ s = AL!Elements(arr[y])
                              /\ m = AL!Memory(x) /\ O = Others(arr, x) /\ z = l \o s
  OBVIOUS
<1>2. Owner(m, l, O, blocks) /\ l \in Seq(Contents) /\ n = Len(l) /\ n \in Nat
  BY <1>1, OwnedElements DEF AL!AddArray
<1>3. s \in Seq(Contents)
  BY <1>1, UsableShown DEF AL!AddArray
<1>4. Spare(O, blocks)
  BY <1>1, OthersFacts DEF ArrayInv
<1>5. n = AL!Translate(n, Len(l)) /\ n <= Len(l) /\ n \in Int
  BY <1>2 DEF AL!Translate
<1>6. Splice(l, n, n, s) = z
  BY <1>1, <1>2, <1>3, SpliceEnd
<1>7. Whole(m, l, O, blocks)
  BY <1>2 DEF Owner
<1>8. Whole(AL!Inserted(m, n, s, FALSE), Splice(l, n, n, s), O, blocks)
  <2>1. FALSE \in BOOLEAN /\ n \in Nat
    BY <1>2
  <2> QED BY <1>3, <1>4, <1>5, <1>7, <2>1, InsertedKeeps
<1>9. AL!Becomes(x, AL!Inserted(m, n, s, FALSE), z)
  BY <1>1 DEF AL!AddArray
<1> QED BY <1>1, <1>6, <1>8, <1>9, BecomesKeeps

LEMMA ReserveArrayKeeps ==
    ASSUME AL!ArrayLikeAssumption, ArrayInv, NEW x \in Arrays, NEW n \in Int, NEW moves \in BOOLEAN,
           AL!Reserve(x, n, moves)
    PROVE  ArrayInv'
<1>1. PICK l, m, O : l = AL!Elements(arr[x]) /\ m = AL!Memory(x) /\ O = Others(arr, x)
  OBVIOUS
<1>2. Whole(m, l, O, blocks) /\ l \in Seq(Contents) /\ Len(l) = arr[x].Count /\ Len(l) \in Nat
  BY <1>1, UsableShown DEF AL!Reserve
<1>3. n <= 0 \/ n >= Len(l)
  BY <1>2 DEF AL!Reserve
<1>4. Spare(O, blocks)
  BY <1>1, OthersFacts DEF ArrayInv
<1>5. Owner(AL!Reserved(m, n, moves), l, O, blocks)
  BY <1>2, <1>3, <1>4, ReservedKeeps
<1>6. AL!Becomes(x, AL!Reserved(m, n, moves), l)
  BY <1>1 DEF AL!Reserve
<1> QED BY <1>1, <1>5, <1>6, BecomesKeeps DEF Owner

LEMMA SpliceOut ==
    ASSUME NEW l \in Seq(Contents), NEW b \in Nat, NEW e \in Nat, b <= e, e <= Len(l)
    PROVE  SubSeq(l, 1, b) \o SubSeq(l, e + 1, Len(l)) = Splice(l, b, e, << >>)
<1>1. PICK p : p = SubSeq(l, 1, b)
  OBVIOUS
<1>2. p \in Seq(Contents)
  <2>1. Len(l) \in Nat /\ b <= Len(l)
    OBVIOUS
  <2> QED BY <1>1, <2>1
<1>3. p \o << >> = p
  BY <1>2
<1> QED BY <1>1, <1>3 DEF Splice

LEMMA RemoveAtKeeps ==
    ASSUME AL!ArrayLikeAssumption, ArrayInv, NEW x \in Arrays, NEW index \in Int,
           AL!Owns(x), AL!InBounds(index, arr[x].Count, FALSE),
           NEW i, i = AL!Translate(index, arr[x].Count),
           AL!Becomes(x, AL!RemovedOrderedAt(AL!Memory(x), index), AL!RemoveAt(want[x], i + 1))
    PROVE  ArrayInv'
<1>1. PICK l, m, O : l = want[x] /\ m = AL!Memory(x) /\ O = Others(arr, x)
  OBVIOUS
<1>2. Owner(m, l, O, blocks) /\ l \in Seq(Contents) /\ arr[x].Count = Len(l) /\ Len(l) \in Nat
  BY <1>1, OwnedElements
<1>3. i \in Nat /\ i < Len(l) /\ i = AL!Translate(index, Len(l))
  BY <1>2 DEF AL!InBounds
<1>4. Owner(AL!RemovedOrderedAt(m, index), Splice(l, i, i + 1, << >>), O, blocks)
  <2>1. i < Len(l)
    BY <1>3
  <2> QED BY ONLY <1>2, <1>3, <2>1, RemovedOrderedAtKeeps
<1>5. AL!RemoveAt(l, i + 1) = Splice(l, i, i + 1, << >>)
  <2>1. PICK e : e = i + 1
    OBVIOUS
  <2>2. e \in Nat /\ i <= e /\ e <= Len(l) /\ e - 1 = i
    BY <1>2, <1>3, <2>1
  <2>3. SubSeq(l, 1, i) \o SubSeq(l, e + 1, Len(l)) = Splice(l, i, e, << >>)
    BY <1>2, <1>3, <2>2, SpliceOut
  <2> QED BY <2>1, <2>2, <2>3 DEF AL!RemoveAt
<1> QED BY <1>1, <1>4, <1>5, BecomesKeeps DEF Owner

LEMMA RemoveOrderedAtKeeps ==
    ASSUME AL!ArrayLikeAssumption, ArrayInv, NEW x \in Arrays, NEW index \in Int, AL!RemoveOrderedAt(x, index)
    PROVE  ArrayInv'
BY RemoveAtKeeps DEF AL!RemoveOrderedAt

LEMMA RemoveUnorderedAtKeeps ==
    ASSUME AL!ArrayLikeAssumption, ArrayInv, NEW x \in Arrays, NEW index \in Int, AL!RemoveUnorderedAt(x, index)
    PROVE  ArrayInv'
<1>1. PICK l, m, O, i, z : /\ l = want[x] /\ m = AL!Memory(x) /\ O = Others(arr, x)
                           /\ i = AL!Translate(index, arr[x].Count)
                           /\ z = AL!Front([l EXCEPT ![i + 1] = AL!Last(l)])
  OBVIOUS
<1>2. Owner(m, l, O, blocks) /\ l \in Seq(Contents) /\ arr[x].Count = Len(l) /\ Len(l) \in Nat
  BY <1>1, OwnedElements DEF AL!RemoveUnorderedAt
<1>3. i \in Nat /\ i < Len(l) /\ i = AL!Translate(index, Len(l))
  BY <1>1, <1>2 DEF AL!InBounds, AL!RemoveUnorderedAt
<1>4. Owner(AL!RemovedUnorderedAt(m, index), z, O, blocks)
  BY <1>1, <1>2, <1>3, RemovedUnorderedAtKeeps
<1>5. AL!Becomes(x, AL!RemovedUnorderedAt(m, index), z)
  BY <1>1 DEF AL!RemoveUnorderedAt
<1> QED BY <1>1, <1>4, <1>5, BecomesKeeps DEF Owner

LEMMA RemoveRangeKeeps ==
    ASSUME AL!ArrayLikeAssumption, ArrayInv, NEW x \in Arrays, NEW begin \in Int, NEW end \in Int,
           AL!RemoveRange(x, begin, end)
    PROVE  ArrayInv'
<1>1. PICK l, m, O, b, e : /\ l = want[x] /\ m = AL!Memory(x) /\ O = Others(arr, x)
                           /\ b = AL!Translate(begin, arr[x].Count) /\ e = AL!Translate(end, arr[x].Count)
  OBVIOUS
<1>2. Owner(m, l, O, blocks) /\ l \in Seq(Contents) /\ arr[x].Count = Len(l) /\ Len(l) \in Nat
  BY <1>1, OwnedElements DEF AL!RemoveRange
<1>3. /\ b \in Nat /\ e \in Nat /\ b <= e /\ e <= Len(l)
      /\ b = AL!Translate(begin, Len(l)) /\ e = AL!Translate(end, Len(l))
  BY <1>1, <1>2 DEF AL!InBounds, AL!RemoveRange
<1>4. Owner(AL!RemovedRange(m, begin, end), Splice(l, b, e, << >>), O, blocks)
  BY <1>2, <1>3, RemovedRangeKeeps
<1>5. SubSeq(l, 1, b) \o SubSeq(l, e + 1, Len(l)) = Splice(l, b, e, << >>)
  BY <1>2, <1>3, SpliceOut
<1>6. AL!Becomes(x, AL!RemovedRange(m, begin, end), SubSeq(l, 1, b) \o SubSeq(l, e + 1, Len(l)))
  BY <1>1, <1>2 DEF AL!RemoveRange
<1> QED BY <1>1, <1>4, <1>5, <1>6, BecomesKeeps DEF Owner

LEMMA ReplaceRangeKeeps ==
    ASSUME AL!ArrayLikeAssumption, ArrayInv, NEW x \in Arrays, NEW begin \in Int, NEW end \in Int,
           NEW s \in Seq(Contents), NEW moves \in BOOLEAN, AL!ReplaceRange(x, begin, end, s, moves)
    PROVE  ArrayInv'
<1>1. PICK l, m, O, b, e : /\ l = want[x] /\ m = AL!Memory(x) /\ O = Others(arr, x)
                           /\ b = AL!Translate(begin, arr[x].Count) /\ e = AL!Translate(end, arr[x].Count)
  OBVIOUS
<1>2. Owner(m, l, O, blocks) /\ l \in Seq(Contents) /\ arr[x].Count = Len(l) /\ Len(l) \in Nat
  BY <1>1, OwnedElements DEF AL!ReplaceRange
<1>3. /\ b \in Nat /\ e \in Nat /\ b <= e /\ e <= Len(l)
      /\ b = AL!Translate(begin, Len(l)) /\ e = AL!Translate(end, Len(l))
  BY <1>1, <1>2 DEF AL!InBounds, AL!ReplaceRange
<1>4. Spare(O, blocks)
  BY <1>1, OthersFacts DEF ArrayInv
<1>5. Owner(AL!ReplacedRange(m, begin, end, s, moves), Splice(l, b, e, s), O, blocks)
  BY <1>2, <1>3, <1>4, ReplacedRangeKeeps
<1>6. AL!Becomes(x, AL!ReplacedRange(m, begin, end, s, moves), Splice(l, b, e, s))
  BY <1>1, <1>2 DEF AL!ReplaceRange, Splice
<1> QED BY <1>1, <1>5, <1>6, BecomesKeeps DEF Owner

-----------------------------------------------------------------------------
(* The loops that search.                                                  *)

LEMMA LeastInt ==
    ASSUME NEW S, S \subseteq Int, S # {}, NEW b \in Int, \A x \in S : b <= x
    PROVE  \E x \in S : \A y \in S : x <= y
<1> DEFINE R == {x - b : x \in S}
<1>1. R \subseteq Nat
  OBVIOUS
<1>2. R # {}
  <2>1. PICK x : x \in S
    OBVIOUS
  <2>2. x - b \in R
    BY <2>1
  <2> QED BY <2>2
<1>3. PICK d \in R : \A y \in R : d <= y
  <2> HIDE DEF R
  <2> QED BY <1>1, <1>2, Least
<1>4. PICK x \in S : d = x - b
  BY <1>3
<1>5. ASSUME NEW y \in S PROVE x <= y
  <2>1. d <= y - b
    BY <1>3, <1>5
  <2> QED BY <2>1, <1>4
<1> QED BY <1>4, <1>5

(* Loops over lo..hi, upwards or downwards, that end with v at the first   *)
(* index in D.                                                             *)
LoopsUp(f, lo, hi, D, v) == f = [i \in lo..hi |-> IF i \in D THEN v[i] ELSE f[i + 1]]
LoopsDown(f, lo, hi, D, v) == f = [i \in lo..hi |-> IF i \in D THEN v[i] ELSE f[i - 1]]

IsNext(d, i, hi, D) == d \in i..hi /\ d \in D /\ \A j \in i..(d - 1) : j \notin D
IsPrevious(d, i, lo, D) == d \in lo..i /\ d \in D /\ \A j \in (d + 1)..i : j \notin D

LEMMA LoopUp ==
    ASSUME NEW lo \in Int, NEW hi \in Int, NEW D, hi \in D, NEW v
    PROVE  /\ \E f : LoopsUp(f, lo, hi, D, v)
           /\ \A f : LoopsUp(f, lo, hi, D, v) =>
                 \A i \in lo..hi : \E d : IsNext(d, i, hi, D) /\ f[i] = v[d]
<1>1. ASSUME NEW i \in lo..hi PROVE \E d : IsNext(d, i, hi, D)
  <2> DEFINE S == D \cap i..hi
  <2>1. S \subseteq Int /\ S # {} /\ i \in Int /\ \A x \in S : i <= x
    OBVIOUS
  <2>2. PICK d \in S : \A y \in S : d <= y
    <3> HIDE DEF S
    <3> QED BY <2>1, LeastInt
  <2>3. \A j \in i..(d - 1) : j \notin D
    BY <2>2
  <2> QED BY <2>2, <2>3 DEF IsNext
<1>2. ASSUME NEW i \in lo..hi, NEW d, NEW e, IsNext(d, i, hi, D), IsNext(e, i, hi, D) PROVE d = e
  <2>1. d \in Int /\ e \in Int
    BY <1>2 DEF IsNext
  <2>2. ~(d < e) /\ ~(e < d)
    BY <1>2, <2>1 DEF IsNext
  <2> QED BY <2>1, <2>2
<1>3. \A i \in lo..hi : i \in D => IsNext(i, i, hi, D)
  BY DEF IsNext
<1>4. ASSUME NEW i \in lo..hi, i \notin D PROVE i + 1 \in lo..hi /\ \A d : IsNext(d, i + 1, hi, D) => IsNext(d, i, hi, D)
  <2>1. i # hi /\ i + 1 \in lo..hi
    BY <1>4
  <2>2. ASSUME NEW d, IsNext(d, i + 1, hi, D) PROVE IsNext(d, i, hi, D)
    <3>1. d \in i..hi /\ d \in D
      BY <1>4, <2>2 DEF IsNext
    <3>2. \A j \in i..(d - 1) : j = i \/ j \in (i + 1)..(d - 1)
      BY <3>1
    <3> QED BY <1>4, <2>2, <3>1, <3>2 DEF IsNext
  <2> QED BY <2>1, <2>2
<1> DEFINE near(i) == CHOOSE d : IsNext(d, i, hi, D)
           g == [i \in lo..hi |-> v[near(i)]]
<1>5. ASSUME NEW i \in lo..hi PROVE IsNext(near(i), i, hi, D)
  BY <1>1
<1> HIDE DEF near
<1>6. LoopsUp(g, lo, hi, D, v)
  <2>1. ASSUME NEW i \in lo..hi PROVE g[i] = IF i \in D THEN v[i] ELSE g[i + 1]
    <3>1. CASE i \in D
      <4>1. near(i) = i
        BY <1>2, <1>3, <1>5, <3>1
      <4> QED BY <3>1, <4>1
    <3>2. CASE i \notin D
      <4>1. i + 1 \in lo..hi /\ IsNext(near(i + 1), i, hi, D)
        BY <1>4, <1>5, <3>2
      <4>2. near(i) = near(i + 1)
        BY <1>2, <1>5, <4>1
      <4> QED BY <3>2, <4>1, <4>2
    <3> QED BY <3>1, <3>2
  <2>2. g = [i \in lo..hi |-> g[i]]
    OBVIOUS
  <2> HIDE DEF g
  <2> QED BY <2>1, <2>2 DEF LoopsUp
<1>7. ASSUME NEW f, LoopsUp(f, lo, hi, D, v), NEW k \in lo..hi
      PROVE  \E d : IsNext(d, k, hi, D) /\ f[k] = v[d]
  <2>1. \A i \in lo..hi : f[i] = IF i \in D THEN v[i] ELSE f[i + 1]
    BY <1>7 DEF LoopsUp
  <2> DEFINE Good(i) == \E d : IsNext(d, i, hi, D) /\ f[i] = v[d]
             S == {n \in Nat : hi - n >= lo => Good(hi - n)}
  <2>2. ASSUME NEW i \in lo..hi, i \in D PROVE Good(i)
    BY <1>3, <2>1, <2>2
  <2>3. ASSUME NEW i \in lo..hi, i \notin D, Good(i + 1) PROVE Good(i)
    BY <1>4, <2>1, <2>3
  <2> HIDE DEF Good
  <2>4. 0 \in S
    <3>1. hi - 0 = hi
      OBVIOUS
    <3>2. hi >= lo => hi \in lo..hi
      OBVIOUS
    <3> QED BY <2>2, <3>1, <3>2
  <2>5. ASSUME NEW n \in Nat, n \in S PROVE n + 1 \in S
    <3> SUFFICES ASSUME hi - (n + 1) >= lo PROVE Good(hi - (n + 1))
      OBVIOUS
    <3>1. PICK i : i = hi - (n + 1)
      OBVIOUS
    <3>2. i \in lo..hi /\ i + 1 = hi - n /\ hi - n >= lo
      BY <3>1
    <3>3. Good(i + 1)
      BY <2>5, <3>2
    <3> QED BY <2>2, <2>3, <3>1, <3>2, <3>3
  <2>6. Nat \subseteq S
    <3> HIDE DEF S
    <3> QED BY <2>4, <2>5, SetInduction
  <2>7. hi - k \in Nat /\ hi - (hi - k) = k /\ k >= lo
    OBVIOUS
  <2>8. Good(k)
    BY <2>6, <2>7
  <2> QED BY <2>8 DEF Good
<1> HIDE DEF g
<1> QED BY <1>6, <1>7

LEMMA LoopDown ==
    ASSUME NEW lo \in Int, NEW hi \in Int, NEW D, lo \in D, NEW v
    PROVE  /\ \E f : LoopsDown(f, lo, hi, D, v)
           /\ \A f : LoopsDown(f, lo, hi, D, v) =>
                 \A i \in lo..hi : \E d : IsPrevious(d, i, lo, D) /\ f[i] = v[d]
<1>1. ASSUME NEW i \in lo..hi PROVE \E d : IsPrevious(d, i, lo, D)
  <2> DEFINE S == D \cap lo..i
  <2>1. S \subseteq Int /\ S # {} /\ i \in Int /\ \A x \in S : x <= i
    OBVIOUS
  <2>2. PICK d \in S : \A y \in S : y <= d
    <3> HIDE DEF S
    <3> QED BY <2>1, Greatest
  <2>3. \A j \in (d + 1)..i : j \notin D
    BY <2>2
  <2> QED BY <2>2, <2>3 DEF IsPrevious
<1>2. ASSUME NEW i \in lo..hi, NEW d, NEW e, IsPrevious(d, i, lo, D), IsPrevious(e, i, lo, D) PROVE d = e
  <2>1. d \in Int /\ e \in Int
    BY <1>2 DEF IsPrevious
  <2>2. ~(d < e) /\ ~(e < d)
    BY <1>2, <2>1 DEF IsPrevious
  <2> QED BY <2>1, <2>2
<1>3. \A i \in lo..hi : i \in D => IsPrevious(i, i, lo, D)
  BY DEF IsPrevious
<1>4. ASSUME NEW i \in lo..hi, i \notin D
      PROVE  i - 1 \in lo..hi /\ \A d : IsPrevious(d, i - 1, lo, D) => IsPrevious(d, i, lo, D)
  <2>1. i # lo /\ i - 1 \in lo..hi
    BY <1>4
  <2>2. ASSUME NEW d, IsPrevious(d, i - 1, lo, D) PROVE IsPrevious(d, i, lo, D)
    <3>1. d \in lo..i /\ d \in D
      BY <1>4, <2>2 DEF IsPrevious
    <3>2. \A j \in (d + 1)..i : j = i \/ j \in (d + 1)..(i - 1)
      BY <3>1
    <3> QED BY <1>4, <2>2, <3>1, <3>2 DEF IsPrevious
  <2> QED BY <2>1, <2>2
<1> DEFINE near(i) == CHOOSE d : IsPrevious(d, i, lo, D)
           g == [i \in lo..hi |-> v[near(i)]]
<1>5. ASSUME NEW i \in lo..hi PROVE IsPrevious(near(i), i, lo, D)
  BY <1>1
<1> HIDE DEF near
<1>6. LoopsDown(g, lo, hi, D, v)
  <2>1. ASSUME NEW i \in lo..hi PROVE g[i] = IF i \in D THEN v[i] ELSE g[i - 1]
    <3>1. CASE i \in D
      <4>1. near(i) = i
        BY <1>2, <1>3, <1>5, <3>1
      <4> QED BY <3>1, <4>1
    <3>2. CASE i \notin D
      <4>1. i - 1 \in lo..hi /\ IsPrevious(near(i - 1), i, lo, D)
        BY <1>4, <1>5, <3>2
      <4>2. near(i) = near(i - 1)
        BY <1>2, <1>5, <4>1
      <4> QED BY <3>2, <4>1, <4>2
    <3> QED BY <3>1, <3>2
  <2>2. g = [i \in lo..hi |-> g[i]]
    OBVIOUS
  <2> HIDE DEF g
  <2> QED BY <2>1, <2>2 DEF LoopsDown
<1>7. ASSUME NEW f, LoopsDown(f, lo, hi, D, v), NEW k \in lo..hi
      PROVE  \E d : IsPrevious(d, k, lo, D) /\ f[k] = v[d]
  <2>1. \A i \in lo..hi : f[i] = IF i \in D THEN v[i] ELSE f[i - 1]
    BY <1>7 DEF LoopsDown
  <2> DEFINE Good(i) == \E d : IsPrevious(d, i, lo, D) /\ f[i] = v[d]
             S == {n \in Nat : lo + n <= hi => Good(lo + n)}
  <2>2. ASSUME NEW i \in lo..hi, i \in D PROVE Good(i)
    BY <1>3, <2>1, <2>2
  <2>3. ASSUME NEW i \in lo..hi, i \notin D, Good(i - 1) PROVE Good(i)
    BY <1>4, <2>1, <2>3
  <2> HIDE DEF Good
  <2>4. 0 \in S
    <3>1. lo + 0 = lo
      OBVIOUS
    <3>2. lo <= hi => lo \in lo..hi
      OBVIOUS
    <3> QED BY <2>2, <3>1, <3>2
  <2>5. ASSUME NEW n \in Nat, n \in S PROVE n + 1 \in S
    <3> SUFFICES ASSUME lo + (n + 1) <= hi PROVE Good(lo + (n + 1))
      OBVIOUS
    <3>1. PICK i : i = lo + (n + 1)
      OBVIOUS
    <3>2. i \in lo..hi /\ i - 1 = lo + n /\ lo + n <= hi
      BY <3>1
    <3>3. Good(i - 1)
      BY <2>5, <3>2
    <3> QED BY <2>2, <2>3, <3>1, <3>2, <3>3
  <2>6. Nat \subseteq S
    <3> HIDE DEF S
    <3> QED BY <2>4, <2>5, SetInduction
  <2>7. k - lo \in Nat /\ lo + (k - lo) = k /\ k <= hi
    OBVIOUS
  <2>8. Good(k)
    BY <2>6, <2>7
  <2> QED BY <2>8 DEF Good
<1> HIDE DEF g
<1> QED BY <1>6, <1>7

LEMMA EndsOf ==
    ASSUME NEW x \in Int, NEW y \in Int, x <= y
    PROVE  AL!Min({x, y}) = x /\ AL!Max({x, y}) = y /\ AL!Min({y, x}) = x /\ AL!Max({y, x}) = y
<1>1. PICK S : S = {x, y}
  OBVIOUS
<1>2. \E z \in S : \A w \in S : z <= w
  BY <1>1
<1>3. \E z \in S : \A w \in S : z >= w
  BY <1>1
<1>4. AL!Min(S) \in S /\ \A w \in S : AL!Min(S) <= w
  BY <1>2 DEF AL!Min
<1>5. AL!Max(S) \in S /\ \A w \in S : AL!Max(S) >= w
  BY <1>3 DEF AL!Max
<1>6. PICK p, q : p = AL!Min(S) /\ q = AL!Max(S)
  OBVIOUS
<1>7. p = x /\ q = y
  <2>1. p \in {x, y} /\ p <= x /\ p <= y /\ q \in {x, y} /\ q >= x /\ q >= y
    BY <1>1, <1>4, <1>5, <1>6
  <2> QED BY <2>1
<1>8. {y, x} = S
  BY <1>1
<1> QED BY <1>1, <1>6, <1>7, <1>8

FoundUp(r, start, end, hits) ==
    \E d : IsNext(d, start, end, hits \cup {end}) /\ r = IF d = end THEN -1 ELSE d

LEMMA LoopToUp ==
    ASSUME NEW start \in Int, NEW end \in Int, start <= end, NEW hits
    PROVE  FoundUp(AL!LoopTo(start, end, 1, hits), start, end, hits)
<1> DEFINE Is(f) == f = [i \in AL!Min({start, end})..AL!Max({start, end}) |->
                            IF i = end THEN -1 ELSE IF i \in hits THEN i ELSE f[i + 1]]
           D == hits \cup {end}
           v == [i \in start..end |-> IF i = end THEN -1 ELSE i]
           F == CHOOSE f : Is(f)
<1>1. AL!LoopTo(start, end, 1, hits) = F[start]
  BY DEF AL!LoopTo
<1>2. ASSUME NEW f PROVE Is(f) <=> LoopsUp(f, start, end, D, v)
  <2>1. AL!Min({start, end}) = start /\ AL!Max({start, end}) = end
    BY EndsOf
  <2>2. \A i \in start..end : (IF i = end THEN -1 ELSE IF i \in hits THEN i ELSE f[i + 1])
                              = (IF i \in D THEN v[i] ELSE f[i + 1])
    OBVIOUS
  <2>3. [i \in start..end |-> IF i = end THEN -1 ELSE IF i \in hits THEN i ELSE f[i + 1]]
        = [i \in start..end |-> IF i \in D THEN v[i] ELSE f[i + 1]]
    BY <2>2
  <2> HIDE DEF D, v
  <2> QED BY <2>1, <2>3 DEF LoopsUp
<1>3. end \in D /\ start \in start..end
  OBVIOUS
<1> HIDE DEF D, Is
<1>4. /\ \E f : LoopsUp(f, start, end, D, v)
      /\ \A f : LoopsUp(f, start, end, D, v) =>
            \A i \in start..end : \E d : IsNext(d, i, end, D) /\ f[i] = v[d]
  <2> HIDE DEF v
  <2> QED BY ONLY <1>3, start \in Int, end \in Int, LoopUp
<1>5. Is(F)
  BY <1>2, <1>4
<1> HIDE DEF F
<1>6. PICK d : IsNext(d, start, end, D) /\ F[start] = v[d]
  <2> HIDE DEF v
  <2> QED BY <1>2, <1>3, <1>4, <1>5
<1>7. v[d] = IF d = end THEN -1 ELSE d
  BY <1>6 DEF IsNext
<1> QED BY <1>1, <1>6, <1>7 DEF D, FoundUp

LEMMA LoopToDown ==
    ASSUME NEW start \in Int, -1 <= start, NEW hits
    PROVE  IsPrevious(AL!LoopTo(start, -1, -1, hits), start, -1, hits \cup {-1})
<1> DEFINE Is(f) == f = [i \in AL!Min({start, -1})..AL!Max({start, -1}) |->
                            IF i = -1 THEN -1 ELSE IF i \in hits THEN i ELSE f[i + (-1)]]
           D == hits \cup {-1}
           v == [i \in (-1)..start |-> i]
           F == CHOOSE f : Is(f)
<1>1. AL!LoopTo(start, -1, -1, hits) = F[start]
  BY DEF AL!LoopTo
<1>2. ASSUME NEW f PROVE Is(f) <=> LoopsDown(f, -1, start, D, v)
  <2>1. AL!Min({start, -1}) = -1 /\ AL!Max({start, -1}) = start
    BY EndsOf
  <2>2. \A i \in (-1)..start : (IF i = -1 THEN -1 ELSE IF i \in hits THEN i ELSE f[i + (-1)])
                               = (IF i \in D THEN v[i] ELSE f[i - 1])
    <3>1. \A i \in (-1)..start : i + (-1) = i - 1
      OBVIOUS
    <3> QED BY <3>1
  <2>3. [i \in (-1)..start |-> IF i = -1 THEN -1 ELSE IF i \in hits THEN i ELSE f[i + (-1)]]
        = [i \in (-1)..start |-> IF i \in D THEN v[i] ELSE f[i - 1]]
    BY <2>2
  <2> HIDE DEF D, v
  <2> QED BY <2>1, <2>3 DEF LoopsDown
<1>3. -1 \in D /\ start \in (-1)..start /\ -1 \in Int
  OBVIOUS
<1> HIDE DEF D, Is
<1>4. /\ \E f : LoopsDown(f, -1, start, D, v)
      /\ \A f : LoopsDown(f, -1, start, D, v) =>
            \A i \in (-1)..start : \E d : IsPrevious(d, i, -1, D) /\ f[i] = v[d]
  <2>1. PICK lo, w : lo = -1 /\ w = v
    OBVIOUS
  <2>2. lo \in Int /\ start \in Int /\ lo \in D
    BY <1>3, <2>1
  <2>3. /\ \E f : LoopsDown(f, lo, start, D, w)
        /\ \A f : LoopsDown(f, lo, start, D, w) =>
              \A i \in lo..start : \E d : IsPrevious(d, i, lo, D) /\ f[i] = w[d]
    BY ONLY <2>2, LoopDown
  <2> HIDE DEF v
  <2> QED BY <2>1, <2>3
<1>5. Is(F)
  BY <1>2, <1>4
<1> HIDE DEF F
<1>6. PICK d : IsPrevious(d, start, -1, D) /\ F[start] = v[d]
  <2> HIDE DEF v
  <2> QED BY <1>2, <1>3, <1>4, <1>5
<1>7. v[d] = d
  BY <1>6 DEF IsPrevious
<1> QED BY <1>1, <1>6, <1>7 DEF D

(* How far t agrees with s from index it on.                               *)
Agrees(p, s, it, t) ==
    /\ p \in 0..Len(t)
    /\ \A k \in 1..p : it + k <= Len(s) /\ s[it + k] = t[k]
    /\ p < Len(t) /\ it + p < Len(s) => s[it + p + 1] # t[p + 1]

LEMMA ProgressIs ==
    ASSUME NEW s, NEW t, NEW it \in Int, Len(t) \in Nat, Len(s) \in Nat
    PROVE  Agrees(AL!Progress(s, it, t), s, it, t)
<1> DEFINE Is(f) == f = [n \in 0..Len(t) |->
                            IF n < Len(t) /\ it + n < Len(s) /\ s[it + n + 1] = t[n + 1]
                            THEN f[n + 1] ELSE n]
           D == {n \in 0..Len(t) : ~(n < Len(t) /\ it + n < Len(s) /\ s[it + n + 1] = t[n + 1])}
           v == [n \in 0..Len(t) |-> n]
           F == CHOOSE f : Is(f)
<1>1. AL!Progress(s, it, t) = F[0]
  BY DEF AL!Progress
<1>2. ASSUME NEW f PROVE Is(f) <=> LoopsUp(f, 0, Len(t), D, v)
  <2>1. \A n \in 0..Len(t) : (IF n < Len(t) /\ it + n < Len(s) /\ s[it + n + 1] = t[n + 1]
                              THEN f[n + 1] ELSE n)
                             = (IF n \in D THEN v[n] ELSE f[n + 1])
    OBVIOUS
  <2>2. [n \in 0..Len(t) |-> IF n < Len(t) /\ it + n < Len(s) /\ s[it + n + 1] = t[n + 1]
                             THEN f[n + 1] ELSE n]
        = [n \in 0..Len(t) |-> IF n \in D THEN v[n] ELSE f[n + 1]]
    BY <2>1
  <2> HIDE DEF D, v
  <2> QED BY <2>2 DEF LoopsUp
<1>3. Len(t) \in D /\ 0 \in 0..Len(t) /\ 0 \in Int /\ Len(t) \in Int
  OBVIOUS
<1> HIDE DEF D, Is
<1>4. /\ \E f : LoopsUp(f, 0, Len(t), D, v)
      /\ \A f : LoopsUp(f, 0, Len(t), D, v) =>
            \A i \in 0..Len(t) : \E d : IsNext(d, i, Len(t), D) /\ f[i] = v[d]
  <2>1. PICK lo, hi, w : lo = 0 /\ hi = Len(t) /\ w = v
    OBVIOUS
  <2>2. lo \in Int /\ hi \in Int /\ hi \in D
    BY <1>3, <2>1
  <2>3. /\ \E f : LoopsUp(f, lo, hi, D, w)
        /\ \A f : LoopsUp(f, lo, hi, D, w) =>
              \A i \in lo..hi : \E d : IsNext(d, i, hi, D) /\ f[i] = w[d]
    BY ONLY <2>2, LoopUp
  <2> HIDE DEF v
  <2> QED BY <2>1, <2>3
<1>5. Is(F)
  BY <1>2, <1>4
<1> HIDE DEF F
<1>6. PICK d : IsNext(d, 0, Len(t), D) /\ F[0] = v[d]
  <2> HIDE DEF v
  <2> QED BY <1>2, <1>3, <1>4, <1>5
<1>7. v[d] = d /\ d \in 0..Len(t) /\ d \in D /\ \A j \in 0..(d - 1) : j \notin D
  BY <1>6 DEF IsNext
<1>8. ASSUME NEW k \in 1..d PROVE it + k <= Len(s) /\ s[it + k] = t[k]
  <2>1. PICK j : j = k - 1
    OBVIOUS
  <2>2. j \in 0..(d - 1) /\ j \in 0..Len(t) /\ it + j + 1 = it + k /\ j + 1 = k
    BY <1>7, <2>1
  <2>3. it + j < Len(s) /\ s[it + j + 1] = t[j + 1]
    BY <1>7, <2>2 DEF D
  <2> QED BY <2>2, <2>3
<1>9. d < Len(t) /\ it + d < Len(s) => s[it + d + 1] # t[d + 1]
  BY <1>7 DEF D
<1> HIDE DEF v
<1> QED BY <1>1, <1>6, <1>7, <1>8, <1>9 DEF Agrees

Occurs(s, i, t) == i + Len(t) <= Len(s) /\ \A k \in 1..Len(t) : s[i + k] = t[k]

LEMMA ProgressOccurs ==
    ASSUME NEW s, NEW t, Len(t) \in Nat, Len(s) \in Nat, NEW i \in Nat, i <= Len(s)
    PROVE  AL!Progress(s, i, t) = Len(t) <=> Occurs(s, i, t)
<1>1. PICK p : p = AL!Progress(s, i, t)
  OBVIOUS
<1>2. Agrees(p, s, i, t)
  BY <1>1, ProgressIs
<1>3. ASSUME p = Len(t) PROVE Occurs(s, i, t)
  <2>1. \A k \in 1..Len(t) : i + k <= Len(s) /\ s[i + k] = t[k]
    BY <1>2, <1>3 DEF Agrees
  <2>2. i + Len(t) <= Len(s)
    <3>1. CASE Len(t) = 0
      BY <3>1
    <3>2. CASE Len(t) # 0
      <4>1. Len(t) \in 1..Len(t)
        BY <3>2
      <4> QED BY <2>1, <4>1
    <3> QED BY <3>1, <3>2
  <2> QED BY <2>1, <2>2 DEF Occurs
<1>4. ASSUME Occurs(s, i, t), p # Len(t) PROVE FALSE
  <2>1. p \in Nat /\ p < Len(t)
    BY <1>2, <1>4 DEF Agrees
  <2>2. p + 1 \in 1..Len(t) /\ i + p < Len(s) /\ i + (p + 1) = i + p + 1
    BY <1>4, <2>1 DEF Occurs
  <2> QED BY <1>2, <1>4, <2>1, <2>2 DEF Agrees, Occurs
<1> QED BY <1>1, <1>3, <1>4

(* The first occurrence from start on, or the last one up to there.        *)
IsFirst(r, s, start, t) ==
    \/ r = -1 /\ \A j \in start..(Len(s) - 1) : ~Occurs(s, j, t)
    \/ r \in start..(Len(s) - 1) /\ Occurs(s, r, t) /\ \A j \in start..(r - 1) : ~Occurs(s, j, t)

IsLast(r, s, start, t) ==
    \/ r = -1 /\ \A j \in 0..start : ~Occurs(s, j, t)
    \/ r \in 0..start /\ Occurs(s, r, t) /\ \A j \in (r + 1)..start : ~Occurs(s, j, t)

LEMMA SearchFirst ==
    ASSUME NEW V, NEW s \in Seq(V), NEW t \in Seq(V), t # << >>, NEW start \in 0..(Len(s) - 1)
    PROVE  IsFirst(AL!Search(s, t, start, FALSE), s, start, t)
<1>0. Len(s) \in Nat /\ Len(t) \in Nat /\ start \in Nat /\ start < Len(s) /\ s # << >>
  OBVIOUS
<1> DEFINE hits == {i \in 0..(Len(s) - 1) : AL!Progress(s, i, t) = Len(t)}
<1>1. AL!Search(s, t, start, FALSE) = AL!LoopTo(start, Len(s), 1, hits)
  BY <1>0 DEF AL!Search, AL!Translate
<1>2. \A i \in 0..(Len(s) - 1) : i \in hits <=> Occurs(s, i, t)
  BY <1>0, ProgressOccurs
<1>3. hits \subseteq 0..(Len(s) - 1)
  OBVIOUS
<1> HIDE DEF hits
<1>4. PICK d : /\ IsNext(d, start, Len(s), hits \cup {Len(s)})
               /\ AL!LoopTo(start, Len(s), 1, hits) = IF d = Len(s) THEN -1 ELSE d
  <2>1. PICK e : e = Len(s)
    OBVIOUS
  <2>2. start \in Int /\ e \in Int /\ start <= e
    BY <1>0, <2>1
  <2>3. FoundUp(AL!LoopTo(start, e, 1, hits), start, e, hits)
    BY ONLY <2>2, LoopToUp
  <2> QED BY <2>1, <2>3 DEF FoundUp
<1>5. /\ d \in start..Len(s) /\ d \in hits \cup {Len(s)}
      /\ \A j \in start..(d - 1) : j \notin hits
  BY <1>4 DEF IsNext
<1>6. \A j \in start..(d - 1) : ~Occurs(s, j, t)
  BY <1>0, <1>2, <1>5
<1>7. CASE d = Len(s)
  BY <1>1, <1>4, <1>6, <1>7 DEF IsFirst
<1>8. CASE d # Len(s)
  <2>1. d \in start..(Len(s) - 1) /\ Occurs(s, d, t)
    BY <1>0, <1>2, <1>3, <1>5, <1>8
  <2> QED BY <1>1, <1>4, <1>6, <1>8, <2>1 DEF IsFirst
<1> QED BY <1>7, <1>8

LEMMA SearchLast ==
    ASSUME NEW V, NEW s \in Seq(V), NEW t \in Seq(V), t # << >>, NEW start \in 0..(Len(s) - 1)
    PROVE  IsLast(AL!Search(s, t, start, TRUE), s, start, t)
<1>0. Len(s) \in Nat /\ Len(t) \in Nat /\ start \in Nat /\ start < Len(s) /\ s # << >>
  OBVIOUS
<1> DEFINE hits == {i \in 0..(Len(s) - 1) : AL!Progress(s, i, t) = Len(t)}
<1>1. AL!Search(s, t, start, TRUE) = AL!LoopTo(start, -1, -1, hits)
  BY <1>0 DEF AL!Search, AL!Translate
<1>2. \A i \in 0..(Len(s) - 1) : i \in hits <=> Occurs(s, i, t)
  BY <1>0, ProgressOccurs
<1>3. hits \subseteq 0..(Len(s) - 1)
  OBVIOUS
<1> HIDE DEF hits
<1>4. PICK d : d = AL!LoopTo(start, -1, -1, hits)
  OBVIOUS
<1>5. /\ d \in (-1)..start /\ d \in hits \cup {-1}
      /\ \A j \in (d + 1)..start : j \notin hits
  <2>1. IsPrevious(d, start, -1, hits \cup {-1})
    BY <1>0, <1>4, LoopToDown
  <2> QED BY <2>1 DEF IsPrevious
<1>6. \A j \in (d + 1)..start : ~Occurs(s, j, t)
  BY <1>0, <1>2, <1>5
<1>7. CASE d = -1
  <2>1. \A j \in 0..start : ~Occurs(s, j, t)
    BY <1>6, <1>7
  <2> QED BY <1>1, <1>4, <1>7, <2>1 DEF IsLast
<1>8. CASE d # -1
  <2>1. d \in 0..start /\ Occurs(s, d, t)
    BY <1>0, <1>2, <1>3, <1>5, <1>8
  <2> QED BY <1>1, <1>4, <1>6, <2>1 DEF IsLast
<1> QED BY <1>7, <1>8

-----------------------------------------------------------------------------
(* The actions that search, and views.                                     *)

SearchFor(s, element) == AL!SearchPredicate(s, LAMBDA e : e = element, 0, FALSE)

LEMMA SearchElement ==
    ASSUME NEW V, NEW s \in Seq(V), NEW element, NEW i, i = SearchFor(s, element), i # -1
    PROVE  i \in 0..(Len(s) - 1) /\ s[i + 1] = element /\ \A j \in 1..i : s[j] # element
<1>0. Len(s) \in Nat
  OBVIOUS
<1>1. s # << >>
  BY DEF AL!SearchPredicate, SearchFor
<1>2. Len(s) > 0
  BY <1>1
<1>3. PICK start, end, hits : start = 0 /\ end = Len(s) /\ hits = {k \in 0..(Len(s) - 1) : s[k + 1] = element}
  OBVIOUS
<1>4. i = AL!LoopTo(start, end, 1, hits)
  <2>1. AL!Translate(0, Len(s)) = 0
    BY DEF AL!Translate
  <2> QED BY <1>1, <1>3, <2>1 DEF AL!SearchPredicate, SearchFor
<1>5. FoundUp(i, start, end, hits)
  <2>1. start \in Int /\ end \in Int /\ start <= end
    BY <1>0, <1>3
  <2> QED BY <1>4, <2>1, LoopToUp
<1>6. PICK d : IsNext(d, start, end, hits \cup {end}) /\ i = IF d = end THEN -1 ELSE d
  BY <1>5 DEF FoundUp
<1>7. d # end /\ i = d
  BY <1>6
<1>8. i \in 0..Len(s) /\ i \in hits /\ \A j \in 0..(i - 1) : j \notin hits
  BY <1>3, <1>6, <1>7 DEF IsNext
<1>9. ASSUME NEW j \in 1..i PROVE s[j] # element
  <2>1. PICK k : k = j - 1
    OBVIOUS
  <2>2. PICK n : n = Len(s)
    OBVIOUS
  <2>3. i \in 0..n /\ n \in Nat /\ j \in 1..i
    BY <1>0, <1>8, <2>2
  <2>4. k \in 0..(i - 1) /\ k \in 0..(n - 1) /\ k + 1 = j
    BY ONLY <2>1, <2>3
  <2> QED BY <1>3, <1>8, <2>2, <2>4
<1> QED BY <1>3, <1>8, <1>9

LEMMA RemoveElementKeeps ==
    ASSUME AL!ArrayLikeAssumption, ArrayInv, NEW x \in Arrays, NEW element, NEW ordered \in BOOLEAN,
           AL!RemoveElement(x, element, ordered)
    PROVE  ArrayInv'
<1>1. PICK l, i : l = AL!Elements(arr[x]) /\ i = SearchFor(l, element)
  OBVIOUS
<1>2. /\ AL!Owns(x) /\ i # -1
      /\ IF ordered
         THEN AL!Becomes(x, AL!RemovedOrderedAt(AL!Memory(x), i), AL!RemoveFirst(want[x], element))
         ELSE AL!RemoveUnorderedAt(x, i)
  BY <1>1 DEF AL!RemoveElement, SearchFor
<1>3. l = want[x] /\ l \in Seq(Contents) /\ Len(l) \in Nat /\ arr[x].Count = Len(l)
  BY <1>1, <1>2, OwnedElements
<1>4. i \in 0..(Len(l) - 1) /\ l[i + 1] = element /\ \A j \in 1..i : l[j] # element
  BY <1>1, <1>2, <1>3, SearchElement
<1>5. i \in Int
  BY <1>4
<1>6. CASE ~ordered
  BY <1>2, <1>5, <1>6, RemoveUnorderedAtKeeps
<1>7. CASE ordered
  <2>1. PICK S : S = {j \in 1..Len(l) : l[j] = element}
    OBVIOUS
  <2>2. i + 1 \in S /\ S \subseteq Int /\ \A j \in S : i + 1 <= j
    <3>1. i + 1 \in 1..Len(l)
      BY <1>3, <1>4
    <3>2. ASSUME NEW j \in S PROVE i + 1 <= j
      <4>1. j \in 1..Len(l) /\ l[j] = element
        BY <2>1, <3>2
      <4>2. j \notin 1..i
        BY <1>4, <4>1
      <4> QED BY <1>3, <1>4, <4>1, <4>2
    <3> QED BY <1>4, <2>1, <3>1, <3>2
  <2>3. AL!Min(S) = i + 1
    <3>1. AL!Min(S) \in S /\ \A j \in S : AL!Min(S) <= j
      BY <2>2 DEF AL!Min
    <3>2. PICK q : q = AL!Min(S)
      OBVIOUS
    <3>3. q \in Int /\ q <= i + 1 /\ i + 1 <= q
      BY <2>2, <3>1, <3>2
    <3> QED BY <1>5, <3>2, <3>3
  <2>4. AL!RemoveFirst(l, element) = AL!RemoveAt(l, i + 1)
    <3>1. \E j \in 1..Len(l) : l[j] = element
      BY <2>1, <2>2
    <3>2. AL!SelectInSeq(l, LAMBDA w : w = element) = i + 1
      BY <2>1, <2>2, <2>3 DEF AL!SelectInSeq
    <3> QED BY <3>1, <3>2 DEF AL!RemoveFirst
  <2>5. AL!InBounds(i, arr[x].Count, FALSE) /\ i = AL!Translate(i, arr[x].Count)
    BY <1>3, <1>4 DEF AL!InBounds, AL!Translate
  <2>6. AL!Becomes(x, AL!RemovedOrderedAt(AL!Memory(x), i), AL!RemoveAt(want[x], i + 1))
    BY <1>2, <1>3, <1>7, <2>4
  <2> QED BY <1>2, <1>5, <2>5, <2>6, RemoveAtKeeps
<1> QED BY <1>6, <1>7

LEMMA SliceKeeps ==
    ASSUME ArrayInv, NEW x \in Arrays, NEW y \in Arrays, NEW begin \in Int, NEW end \in Int,
           AL!Slice(x, y, begin, end)
    PROVE  ArrayInv'
<1>1. PICK B, R, W, r, b, e : /\ B = blocks /\ R = arr /\ W = want /\ r = R[x]
                              /\ b = AL!Translate(begin, r.Count) /\ e = AL!Translate(end, r.Count)
  OBVIOUS
<1>2. PICK q : q = [Data |-> r.Data, First |-> r.First + b, Count |-> e - b, Allocated |-> 0]
  OBVIOUS
<1>3. Kept(B, R, W)
  BY <1>1 DEF ArrayInv
<1>4. /\ arr' = [R EXCEPT ![y] = q] /\ want' = [W EXCEPT ![y] = << >>] /\ blocks' = B
      /\ ~(R[y].Allocated > 0)
  BY <1>1, <1>2 DEF AL!Slice, AL!Owns
<1>5. AL!Usable(x) /\ r.Data # NoData
  BY <1>1 DEF AL!Slice
<1>6. /\ B \in Stores /\ r \in Refs /\ r.Data \in Blocks /\ r.First \in Nat /\ r.Count \in Nat
  BY <1>1, <1>3, <1>5 DEF Kept, Typed, Refs
<1>7. b \in Nat /\ e \in Nat /\ b <= e /\ e <= r.Count
  BY <1>1, <1>6 DEF AL!Slice, AL!InBounds
<1>8. q \in Refs /\ q.Data = r.Data /\ q.First = r.First + b /\ q.Count = e - b /\ q.Allocated = 0
  BY <1>2, <1>6, <1>7 DEF Refs
<1>9. q.Count > 0 => q.First + q.Count <= Len(B[q.Data])
  <2>1. r.Count > 0 => r.First + r.Count <= Len(B[r.Data])
    BY <1>1, <1>5 DEF AL!Usable
  <2>2. Len(B[r.Data]) \in Nat
    BY <1>6 DEF Stores
  <2>3. PICK f, c, n : f = r.First /\ c = r.Count /\ n = Len(B[r.Data])
    OBVIOUS
  <2>4. f \in Nat /\ c \in Nat /\ n \in Nat /\ b \in Nat /\ e \in Nat /\ b <= e /\ e <= c /\ (c > 0 => f + c <= n)
    BY <1>6, <1>7, <2>1, <2>2, <2>3
  <2>5. e - b > 0 => f + b + (e - b) <= n
    BY ONLY <2>4
  <2>6. q.First = f + b /\ q.Count = e - b /\ Len(B[q.Data]) = n
    BY <1>8, <2>3
  <2> QED BY ONLY <2>5, <2>6
<1>10. PICK l, m : l = Part(B, q) /\ m = Memory(B, q)
  OBVIOUS
<1>11. Reads(B, q, l)
  BY <1>6, <1>8, <1>9, <1>10, SubSeqShown DEF Within
<1>12. m.blocks = B /\ m.a = q /\ m \in Memories
  BY <1>6, <1>8, <1>10 DEF Memory, Memories
<1>13. Shows(m, l)
  BY <1>6, <1>8, <1>9, <1>11, <1>12 DEF Reads, Shows
<1>14. Leaves(m, Others(R, y), B)
  <2>1. ASSUME NEW k \in Blocks, k \notin Others(R, y), B[k] # << >> PROVE FALSE
    <3>1. PICK z \in Arrays : R[z].Allocated > 0 /\ R[z].Data = k
      BY <1>3, <2>1 DEF Kept, OneOwner
    <3>2. z # y
      <4>1. R[y] \in Refs
        BY <1>3 DEF Kept, Typed
      <4> QED BY <1>4, <3>1, <4>1 DEF Refs
    <3> QED BY <2>1, <3>1, <3>2 DEF Others
  <2> QED BY <1>8, <1>12, <2>1 DEF Leaves
<1>15. Whole(m, l, Others(R, y), B)
  BY <1>8, <1>12, <1>13, <1>14 DEF Whole
<1>16. Kept(m.blocks, [R EXCEPT ![y] = m.a], [W EXCEPT ![y] = << >>])
  <2>1. PICK w : w = << >>
    OBVIOUS
  <2>2. w \in Seq(Contents) /\ (m.a.Allocated > 0 => w = l)
    BY <1>8, <1>12, <2>1
  <2>3. Kept(m.blocks, [R EXCEPT ![y] = m.a], [W EXCEPT ![y] = w])
    BY ONLY <1>3, <1>15, <2>2, y \in Arrays, GoesOn
  <2> QED BY <2>1, <2>3
<1> QED BY <1>4, <1>12, <1>16 DEF ArrayInv

LEMMA CloneArrayKeeps ==
    ASSUME AL!ArrayLikeAssumption, ArrayInv, NEW x \in Arrays, NEW y \in Arrays, AL!Clone(x, y)
    PROVE  ArrayInv'
<1>1. PICK l, O, m, z, s0 : /\ l = AL!Elements(arr[x]) /\ O = Others(arr, y) /\ s0 = << >>
                            /\ m = [blocks |-> blocks, a |-> AL!NewArray] /\ z = Splice(s0, 0, 0, l)
  OBVIOUS
<1>2. l \in Seq(Contents)
  BY <1>1, UsableShown DEF AL!Clone
<1>3. m \in Memories /\ m.blocks = blocks /\ m.a.Data = NoData /\ m.a.First = 0 /\ m.a.Count = 0 /\ m.a.Allocated = 0
  BY <1>1 DEF Memories, AL!NewArray, Refs, ArrayInv, Kept, Typed
<1>4. s0 \in Seq(Contents) /\ Len(s0) = 0
  BY <1>1
<1>5. Shows(m, s0)
  BY <1>3, <1>4 DEF Shows
<1>6. Leaves(m, O, blocks)
  <2>1. ASSUME NEW k \in Blocks, k \notin O, blocks[k] # << >> PROVE FALSE
    <3>1. PICK w \in Arrays : arr[w].Allocated > 0 /\ arr[w].Data = k
      BY <2>1 DEF ArrayInv, Kept, OneOwner
    <3>2. w # y
      BY <3>1 DEF AL!Clone, AL!Owns
    <3> QED BY <1>1, <2>1, <3>1, <3>2 DEF Others
  <2> QED BY <1>3, <2>1 DEF Leaves
<1>7. Whole(m, s0, O, blocks)
  BY <1>3, <1>5, <1>6 DEF Whole
<1>8. Spare(O, blocks)
  BY <1>1, OthersFacts DEF ArrayInv
<1>9. z = l
  <2>1. Splice(s0, Len(s0), Len(s0), l) = s0 \o l
    BY <1>2, <1>4, SpliceEnd
  <2>2. s0 \o l = l
    BY <1>1, <1>2
  <2> QED BY <1>1, <1>4, <2>1, <2>2
<1>10. Whole(AL!Inserted(m, 0, l, TRUE), z, O, blocks)
  <2>1. PICK n : n = 0
    OBVIOUS
  <2>2. n \in Int /\ n \in Nat /\ n = AL!Translate(n, Len(s0)) /\ n <= Len(s0) /\ TRUE \in BOOLEAN
    BY <1>4, <2>1 DEF AL!Translate
  <2>3. Whole(AL!Inserted(m, n, l, TRUE), Splice(s0, n, n, l), O, blocks)
    BY <1>2, <1>7, <1>8, <2>2, InsertedKeeps
  <2> QED BY <1>1, <2>1, <2>3
<1>11. AL!Becomes(y, AL!Inserted(m, 0, l, TRUE), l)
  BY <1>1 DEF AL!Clone
<1> QED BY <1>1, <1>9, <1>10, <1>11, BecomesKeeps

LEMMA FreeArrayKeeps == ASSUME ArrayInv, NEW x \in Arrays, AL!Free(x) PROVE ArrayInv'
<1>1. PICK B, R, W, r, q, B2 : /\ B = blocks /\ R = arr /\ W = want /\ r = R[x]
                               /\ q = [r EXCEPT !.Count = 0, !.Allocated = 0] /\ B2 = blocks'
  OBVIOUS
<1>2. Kept(B, R, W)
  BY <1>1 DEF ArrayInv
<1>3. /\ B2 = IF r.Allocated > 0 THEN [B EXCEPT ![r.Data] = << >>] ELSE B
      /\ arr' = [R EXCEPT ![x] = q] /\ want' = [W EXCEPT ![x] = << >>]
  BY <1>1, <1>2 DEF AL!Free, AL!Owns, Kept, Typed
<1>4. B \in Stores /\ r \in Refs
  BY <1>1, <1>2 DEF Kept, Typed
<1>5. q \in Refs /\ q.Count = 0 /\ q.Allocated = 0
  BY <1>1, <1>4 DEF Refs
<1>6. r.Allocated > 0 => r.Data \in Blocks /\ r.Data \notin Others(R, x)
  <2>1. r.Allocated > 0 => r.Data \in Blocks
    BY <1>1, <1>2 DEF Kept, IsOwner, OwnsAll, Memory
  <2> QED BY <1>1, <1>2, <2>1 DEF Kept, OneOwner, Others
<1>7. /\ B2 \in Stores
      /\ \A k \in Blocks : k # r.Data \/ ~(r.Allocated > 0) => B2[k] = B[k]
      /\ r.Allocated > 0 => B2[r.Data] = << >>
  BY <1>3, <1>4, <1>6 DEF Stores
<1>8. PICK m, s0 : m = Memory(B2, q) /\ s0 = << >>
  OBVIOUS
<1>9. m.blocks = B2 /\ m.a = q /\ m \in Memories
  BY <1>5, <1>7, <1>8 DEF Memory, Memories
<1>10. s0 \in Seq(Contents) /\ Len(s0) = 0
  BY <1>8
<1>11. Shows(m, s0)
  BY <1>5, <1>9, <1>10 DEF Shows
<1>12. ASSUME NEW k \in Blocks, k \notin Others(R, x), B[k] # << >> PROVE r.Allocated > 0 /\ k = r.Data
  <2>1. PICK z \in Arrays : R[z].Allocated > 0 /\ R[z].Data = k
    BY <1>2, <1>12 DEF Kept, OneOwner
  <2>2. z = x
    BY <1>12, <2>1 DEF Others
  <2> QED BY <1>1, <2>1, <2>2
<1>13. Leaves(m, Others(R, x), B)
  <2>1. \A k \in Others(R, x) : k \in Blocks => B2[k] = B[k]
    BY <1>6, <1>7
  <2>2. \A k \in Others(R, x) : k \in Blocks
    BY <1>2 DEF Others, Kept, IsOwner, OwnsAll, Memory
  <2>3. \A k \in Blocks \ Others(R, x) : B2[k] = << >>
    BY <1>7, <1>12
  <2> QED BY <1>5, <1>9, <2>1, <2>2, <2>3 DEF Leaves
<1>14. Whole(m, s0, Others(R, x), B)
  BY <1>5, <1>9, <1>11, <1>13 DEF Whole
<1>15. Kept(m.blocks, [R EXCEPT ![x] = m.a], [W EXCEPT ![x] = s0])
  <2>1. s0 \in Seq(Contents) /\ (m.a.Allocated > 0 => s0 = s0)
    BY <1>10
  <2> QED BY ONLY <1>2, <1>14, <2>1, x \in Arrays, GoesOn
<1> QED BY <1>1, <1>3, <1>8, <1>9, <1>15 DEF ArrayInv

-----------------------------------------------------------------------------
(* replace_all.                                                            *)

LEMMA PrefixOccurs ==
    ASSUME NEW V, NEW s \in Seq(V), NEW t \in Seq(V), NEW i \in 1..Len(s)
    PROVE  AL!IsPrefix(t, SubSeq(s, i, Len(s))) <=> Occurs(s, i - 1, t)
<1>1. PICK w, n, p, L : w = SubSeq(s, i, Len(s)) /\ n = Len(t) /\ p = i - 1 /\ L = Len(s)
  OBVIOUS
<1>2. p \in 0..L /\ p + 1 = i /\ L \in Nat /\ n \in Nat /\ p \in Nat
  BY <1>1
<1>3. w \in Seq(V) /\ Len(w) = L - p /\ \A k \in 1..(L - p) : w[k] = s[p + k]
  BY <1>1, <1>2, Rest
<1>4. n <= Len(w) <=> p + n <= L
  BY <1>2, <1>3
<1>5. ASSUME n <= Len(w) PROVE SubSeq(t, 1, n) = SubSeq(w, 1, n) <=> \A k \in 1..n : s[p + k] = t[k]
  <2>1. PICK a, b : a = SubSeq(t, 1, n) /\ b = SubSeq(w, 1, n)
    OBVIOUS
  <2>2. a \in Seq(V) /\ Len(a) = n /\ \A k \in 1..n : a[k] = t[k]
    BY <1>1, <1>2, <2>1
  <2>3. b \in Seq(V) /\ Len(b) = n /\ \A k \in 1..n : b[k] = w[k]
    BY <1>2, <1>3, <1>5, <2>1
  <2>4. \A k \in 1..n : w[k] = s[p + k]
    BY <1>2, <1>3, <1>5
  <2>5. (\A k \in 1..n : a[k] = b[k]) => a = b
    BY <2>2, <2>3, SeqEqual
  <2>6. (\A k \in 1..n : a[k] = b[k]) <=> (\A k \in 1..n : s[p + k] = t[k])
    BY <2>2, <2>3, <2>4
  <2> QED BY <2>1, <2>5, <2>6
<1> QED BY <1>1, <1>4, <1>5 DEF AL!IsPrefix, Occurs

(* What replacing from every index on makes of s.                          *)
ReplacesFrom(F, s, t, r) ==
    /\ F \in [1..(Len(s) + 1) -> Seq(Contents)] /\ F[Len(s) + 1] = << >>
    /\ \A i \in 1..Len(s) : F[i] = IF Occurs(s, i - 1, t) THEN r \o F[i + Len(t)] ELSE <<s[i]>> \o F[i + 1]

LEMMA AllReplacedIs ==
    ASSUME NEW s \in Seq(Contents), NEW t \in Seq(Contents), t # << >>, NEW r \in Seq(Contents)
    PROVE  \E F : ReplacesFrom(F, s, t, r) /\ AL!AllReplaced(s, t, r) = F[1]
<1>1. PICK L, n : L = Len(s) /\ n = Len(t)
  OBVIOUS
<1>2. L \in Nat /\ n \in Nat /\ n > 0
  BY <1>1
<1> DEFINE Is(f) == f = [i \in 1..(Len(s) + 1) |->
                           IF i > Len(s) THEN << >>
                           ELSE IF AL!IsPrefix(t, SubSeq(s, i, Len(s)))
                           THEN r \o f[i + Len(t)] ELSE <<s[i]>> \o f[i + 1]]
           From(g, i) == IF i > L THEN << >>
                         ELSE IF Occurs(s, i - 1, t) THEN r \o g[i + n] ELSE <<s[i]>> \o g[i + 1]
           G == CHOOSE f : Is(f)
<1>3. AL!AllReplaced(s, t, r) = G[1]
  BY DEF AL!AllReplaced
<1>4. ASSUME NEW f PROVE Is(f) <=> f = [i \in 1..(L + 1) |-> From(f, i)]
  <2>1. \A i \in 1..(L + 1) : i > L \/ i \in 1..Len(s)
    BY <1>1, <1>2
  <2>2. ASSUME NEW i \in 1..(L + 1)
        PROVE (IF i > Len(s) THEN << >>
               ELSE IF AL!IsPrefix(t, SubSeq(s, i, Len(s)))
               THEN r \o f[i + Len(t)] ELSE <<s[i]>> \o f[i + 1]) = From(f, i)
    <3>1. CASE i > L
      BY <1>1, <3>1
    <3>2. CASE ~(i > L)
      <4>1. i \in 1..Len(s)
        BY <2>1, <3>2
      <4>2. AL!IsPrefix(t, SubSeq(s, i, Len(s))) <=> Occurs(s, i - 1, t)
        BY <4>1, PrefixOccurs
      <4> QED BY <1>1, <3>2, <4>2
    <3> QED BY <3>1, <3>2
  <2> HIDE DEF From
  <2> QED BY <1>1, <2>2
<1>5. ASSUME NEW i \in 1..(L + 1), ~(i > L) PROVE i \in 1..L /\ i + 1 \in 1..(L + 1) /\ i + 1 > i
  BY <1>2, <1>5
<1>6. ASSUME NEW i \in 1..(L + 1), Occurs(s, i - 1, t) PROVE i + n \in 1..(L + 1) /\ i + n > i
  <2>1. i - 1 + n <= L
    BY <1>1, <1>6 DEF Occurs
  <2> QED BY <1>2, <2>1
<1>7. ASSUME NEW g, NEW i \in 1..(L + 1), \A j \in 1..(L + 1) : j > i => g[j] \in Seq(Contents)
      PROVE  From(g, i) \in Seq(Contents)
  <2>1. CASE i > L
    BY <2>1
  <2>2. CASE ~(i > L) /\ Occurs(s, i - 1, t)
    <3>1. g[i + n] \in Seq(Contents)
      BY <1>6, <1>7, <2>2
    <3> QED BY <2>2, <3>1
  <2>3. CASE ~(i > L) /\ ~Occurs(s, i - 1, t)
    <3>1. g[i + 1] \in Seq(Contents) /\ i \in 1..L
      BY <1>5, <1>7, <2>3
    <3>2. s[i] \in Contents
      BY <1>1, <3>1
    <3>3. <<s[i]>> \in Seq(Contents)
      BY <3>2
    <3> QED BY <2>3, <3>1, <3>3
  <2> QED BY <2>1, <2>2, <2>3
<1>8. ASSUME NEW g, NEW h, NEW i \in 1..(L + 1), \A j \in 1..(L + 1) : j > i => g[j] = h[j]
      PROVE  From(g, i) = From(h, i)
  <2>1. CASE i > L
    BY <2>1
  <2>2. CASE ~(i > L)
    BY <1>5, <1>6, <1>8, <2>2
  <2> QED BY <2>1, <2>2
<1> HIDE DEF Is, From
<1> DEFINE Upto(k) == {g \in [1..(L + 1) -> Seq(Contents)] :
                          \A i \in 1..(L + 1) : i > L + 1 - k => g[i] = From(g, i)}
           Some == {k \in Nat : Upto(k) # {}}
<1>9. 0 \in Some
  <2>1. [i \in 1..(L + 1) |-> << >>] \in Upto(0)
    BY <1>2
  <2> QED BY <2>1
<1>10. ASSUME NEW k \in Nat, k \in Some PROVE k + 1 \in Some
  <2>1. PICK g : g \in Upto(k)
    BY <1>10
  <2>2. PICK m : m = L + 1 - k
    OBVIOUS
  <2>3. m \in Int /\ L + 1 - (k + 1) = m - 1
    BY <1>2, <2>2
  <2>4. CASE m \in 1..(L + 1)
    <3> DEFINE h == [g EXCEPT ![m] = From(g, m)]
    <3>1. g \in [1..(L + 1) -> Seq(Contents)] /\ \A i \in 1..(L + 1) : i > m => g[i] = From(g, i)
      BY <2>1, <2>2
    <3>2. From(g, m) \in Seq(Contents)
      BY <1>7, <2>4, <3>1
    <3>3. /\ h \in [1..(L + 1) -> Seq(Contents)] /\ h[m] = From(g, m)
          /\ \A i \in 1..(L + 1) : i # m => h[i] = g[i]
      BY <2>4, <3>1, <3>2
    <3> HIDE DEF h
    <3>4. ASSUME NEW i \in 1..(L + 1), i > m - 1 PROVE h[i] = From(h, i)
      <4>1. \A j \in 1..(L + 1) : j > i => g[j] = h[j]
        BY <2>3, <3>3, <3>4
      <4>2. From(g, i) = From(h, i)
        BY <1>8, <4>1
      <4>3. i = m \/ (i > m /\ i # m)
        BY <2>3, <3>4
      <4> QED BY <3>1, <3>3, <4>2, <4>3
    <3>5. h \in Upto(k + 1)
      BY <2>3, <3>3, <3>4
    <3> HIDE DEF Upto
    <3> QED BY <3>5
  <2>5. CASE m \notin 1..(L + 1)
    <3>1. \A i \in 1..(L + 1) : i > L + 1 - (k + 1) => i > L + 1 - k
      BY <1>2, <2>2, <2>3, <2>5
    <3>2. g \in Upto(k + 1)
      BY <2>1, <3>1
    <3> HIDE DEF Upto
    <3> QED BY <3>2
  <2> QED BY <2>4, <2>5
<1>11. Nat \subseteq Some
  <2> HIDE DEF Some
  <2> QED BY <1>9, <1>10, SetInduction
<1>12. PICK g : g \in Upto(L + 1)
  <2>1. L + 1 \in Nat
    BY <1>2
  <2> QED BY <1>11, <2>1
<1>13. Is(g)
  <2>1. \A i \in 1..(L + 1) : g[i] = From(g, i)
    <3>1. \A i \in 1..(L + 1) : i > L + 1 - (L + 1)
      BY <1>2
    <3> QED BY <1>12, <3>1
  <2>2. g = [i \in 1..(L + 1) |-> g[i]]
    BY <1>12
  <2> QED BY <1>4, <2>1, <2>2
<1>14. Is(G)
  BY <1>13
<1> HIDE DEF G
<1>15. G = [i \in 1..(L + 1) |-> From(G, i)]
  BY <1>4, <1>14
<1>16. \A i \in 1..(L + 1) : G[i] = From(G, i)
  BY <1>15
<1> DEFINE Good == {k \in Nat : \A i \in 1..(L + 1) : i > L + 1 - k => G[i] \in Seq(Contents)}
<1>17. 0 \in Good
  BY <1>2
<1>18. ASSUME NEW k \in Nat, k \in Good PROVE k + 1 \in Good
  <2>1. ASSUME NEW i \in 1..(L + 1), i > L + 1 - (k + 1) PROVE G[i] \in Seq(Contents)
    <3>1. \A j \in 1..(L + 1) : j > i => G[j] \in Seq(Contents)
      BY <1>2, <1>18, <2>1
    <3>2. From(G, i) \in Seq(Contents)
      BY <1>7, <3>1
    <3> QED BY <1>16, <3>2
  <2> QED BY <2>1
<1>19. Nat \subseteq Good
  <2> HIDE DEF Good
  <2> QED BY <1>17, <1>18, SetInduction
<1>20. \A i \in 1..(L + 1) : G[i] \in Seq(Contents)
  <2>1. L + 1 \in Good
    <3>1. L + 1 \in Nat
      BY <1>2
    <3> HIDE DEF Good
    <3> QED BY <1>19, <3>1
  <2>2. \A i \in 1..(L + 1) : i > L + 1 - (L + 1)
    BY <1>2
  <2> QED BY <2>1, <2>2
<1>21. G \in [1..(L + 1) -> Seq(Contents)]
  BY <1>15, <1>20
<1>22. G[L + 1] = << >>
  <2>1. L + 1 \in 1..(L + 1) /\ L + 1 > L
    BY <1>2
  <2> QED BY <1>16, <2>1 DEF From
<1>23. ASSUME NEW i \in 1..L PROVE G[i] = IF Occurs(s, i - 1, t) THEN r \o G[i + n] ELSE <<s[i]>> \o G[i + 1]
  <2>1. i \in 1..(L + 1) /\ ~(i > L)
    BY <1>2
  <2> QED BY <1>16, <2>1 DEF From
<1>24. ReplacesFrom(G, s, t, r)
  BY <1>1, <1>21, <1>22, <1>23 DEF ReplacesFrom
<1> QED BY <1>3, <1>24

(* A loop that has come to index i of the elements l2, of which the rest   *)
(* are those of l from q on; what it should make of l is what it has made  *)
(* so far and what replacing makes of this rest.                           *)
Rests(l2, i, q, l, F) ==
    /\ l2 \in Seq(Contents) /\ i \in Nat /\ i <= Len(l2) /\ q \in 1..(Len(l) + 1)
    /\ Len(l2) - i = Len(l) + 1 - q
    /\ \A k \in 1..(Len(l) + 1 - q) : l2[i + k] = l[q - 1 + k]
    /\ SubSeq(l2, 1, i) \o F[q] = F[1]

LEMMA RestOccurs ==
    ASSUME NEW l \in Seq(Contents), NEW F, NEW l2, NEW i, NEW q, Rests(l2, i, q, l, F),
           NEW t \in Seq(Contents), NEW j \in Nat
    PROVE  Occurs(l2, i + j, t) <=> Occurs(l, q - 1 + j, t)
<1>1. PICK L, L2, n, p : L = Len(l) /\ L2 = Len(l2) /\ n = Len(t) /\ p = q - 1
  OBVIOUS
<1>2. /\ L \in Nat /\ L2 \in Nat /\ n \in Nat /\ i \in Nat /\ p \in Nat /\ L2 - i = L - p
      /\ \A k \in 1..(L - p) : l2[i + k] = l[p + k]
  <2>1. /\ l2 \in Seq(Contents) /\ i \in Nat /\ q \in 1..(L + 1) /\ L2 - i = L + 1 - q
        /\ \A k \in 1..(L + 1 - q) : l2[i + k] = l[q - 1 + k]
    BY <1>1 DEF Rests
  <2>2. L \in Nat /\ L2 \in Nat /\ n \in Nat
    BY <1>1, <2>1
  <2>3. L + 1 - q = L - p /\ p \in Nat
    BY <1>1, <2>1, <2>2
  <2> QED BY <1>1, <2>1, <2>2, <2>3
<1>3. i + j + n <= L2 <=> p + j + n <= L
  <2>1. L \in Nat /\ L2 \in Nat /\ n \in Nat /\ i \in Nat /\ p \in Nat /\ j \in Nat /\ L2 - i = L - p
    BY <1>2
  <2> QED BY ONLY <2>1
<1>4. ASSUME p + j + n <= L, NEW k \in 1..n PROVE l2[i + j + k] = l[p + j + k]
  <2>1. j + k \in 1..(L - p) /\ i + (j + k) = i + j + k /\ p + (j + k) = p + j + k
    BY <1>2, <1>4
  <2> QED BY <1>2, <2>1
<1> QED BY <1>1, <1>3, <1>4 DEF Occurs

Regroups(s, t, u) == (s \o t) \o u = s \o (t \o u)

LEMMA Regrouped ==
    ASSUME NEW s \in Seq(Contents), NEW t \in Seq(Contents), NEW u \in Seq(Contents)
    PROVE  Regroups(s, t, u)
  BY ConcatAssociative, SMTT(30) DEF Regroups

(* An element that no occurrence begins with stays.                        *)
LEMMA RestGoesOn ==
    ASSUME NEW l \in Seq(Contents), NEW t \in Seq(Contents), NEW r \in Seq(Contents),
           NEW F, ReplacesFrom(F, l, t, r), NEW l2, NEW i, NEW q, Rests(l2, i, q, l, F),
           q <= Len(l), ~Occurs(l, q - 1, t)
    PROVE  Rests(l2, i + 1, q + 1, l, F)
<1>1. PICK L, L2, p : L = Len(l) /\ L2 = Len(l2) /\ p = q - 1
  OBVIOUS
<1>2. /\ l2 \in Seq(Contents) /\ i \in Nat /\ q \in 1..(L + 1) /\ L2 - i = L + 1 - q
      /\ \A k \in 1..(L + 1 - q) : l2[i + k] = l[q - 1 + k]
      /\ SubSeq(l2, 1, i) \o F[q] = F[1] /\ i <= L2
  BY <1>1 DEF Rests
<1>3. L \in Nat /\ L2 \in Nat /\ q \in 1..L
  BY <1>1, <1>2, SMTT(30)
<1>4. i + 1 \in Nat /\ i + 1 <= L2 /\ q + 1 \in 1..(L + 1) /\ L2 - (i + 1) = L + 1 - (q + 1)
  BY <1>2, <1>3
<1>5. ASSUME NEW k \in 1..(L + 1 - (q + 1)) PROVE l2[i + 1 + k] = l[q + 1 - 1 + k]
  <2>1. 1 + k \in 1..(L + 1 - q) /\ i + (1 + k) = i + 1 + k /\ q - 1 + (1 + k) = q + 1 - 1 + k
    BY <1>2, <1>3
  <2> QED BY <1>2, <2>1
<1>6. l2[i + 1] = l[q]
  <2>1. 1 \in 1..(L + 1 - q) /\ q - 1 + 1 = q
    BY <1>3
  <2> QED BY <1>2, <2>1
<1>7. PICK a, b, c, e : a = SubSeq(l2, 1, i) /\ b = SubSeq(l2, 1, i + 1) /\ c = F[q + 1] /\ e = <<l[q]>>
  OBVIOUS
<1>8. F[q] = e \o c
  BY <1>1, <1>3, <1>7 DEF ReplacesFrom
<1>9. c \in Seq(Contents)
  BY <1>1, <1>4, <1>7 DEF ReplacesFrom
<1>10. e \in Seq(Contents) /\ Len(e) = 1 /\ e[1] = l[q]
  <2>1. l[q] \in Contents
    BY <1>1, <1>3
  <2> QED BY <1>7, <2>1
<1>11. a \in Seq(Contents) /\ Len(a) = i /\ \A k \in 1..i : a[k] = l2[k]
  BY <1>1, <1>2, <1>7, BeginningOf
<1>12. b \in Seq(Contents) /\ Len(b) = i + 1 /\ \A k \in 1..(i + 1) : b[k] = l2[k]
  BY <1>1, <1>2, <1>4, <1>7, BeginningOf
<1>13. b = a \o e
  <2>1. /\ a \o e \in Seq(Contents) /\ Len(a \o e) = i + 1
        /\ \A k \in 1..i : (a \o e)[k] = a[k]
        /\ (a \o e)[i + 1] = e[1]
    <3>1. /\ a \o e \in Seq(Contents) /\ Len(a \o e) = Len(a) + Len(e)
          /\ \A k \in 1..Len(a) : (a \o e)[k] = a[k]
          /\ \A k \in 1..Len(e) : (a \o e)[Len(a) + k] = e[k]
      <4>1. a \in Seq(Contents) /\ e \in Seq(Contents)
        BY <1>10, <1>11
      <4> QED BY ONLY <4>1, Joined
    <3>2. Len(a) = i /\ Len(e) = 1 /\ 1 \in 1..1
      BY <1>10, <1>11
    <3> QED BY ONLY <3>1, <3>2
  <2>2. ASSUME NEW k \in 1..(i + 1) PROVE b[k] = (a \o e)[k]
    <3>1. CASE k = i + 1
      BY <1>6, <1>10, <1>12, <2>1, <3>1
    <3>2. CASE k # i + 1
      <4>1. k \in 1..i
        BY <1>2, <3>2
      <4> QED BY <1>11, <1>12, <2>1, <4>1
    <3> QED BY <3>1, <3>2
  <2>3. Len(b) = Len(a \o e) /\ \A k \in 1..Len(b) : b[k] = (a \o e)[k]
    BY <1>12, <2>1, <2>2
  <2> QED BY <1>12, <2>1, <2>3, SeqEqual
<1>14. b \o c = F[1]
  <2>1. Regroups(a, e, c)
    <3>1. a \in Seq(Contents) /\ e \in Seq(Contents) /\ c \in Seq(Contents)
      BY <1>9, <1>10, <1>11
    <3> QED BY ONLY <3>1, Regrouped
  <2> QED BY <1>2, <1>7, <1>8, <1>13, <2>1 DEF Regroups
<1>15. PICK i2, q2 : i2 = i + 1 /\ q2 = q + 1
  OBVIOUS
<1>16. /\ l2 \in Seq(Contents) /\ i2 \in Nat /\ i2 <= Len(l2) /\ q2 \in 1..(Len(l) + 1)
       /\ Len(l2) - i2 = Len(l) + 1 - q2
  BY <1>1, <1>2, <1>4, <1>15
<1>16a. \A k \in 1..(Len(l) + 1 - q2) : l2[i2 + k] = l[q2 - 1 + k]
  <2> SUFFICES ASSUME NEW k \in 1..(Len(l) + 1 - q2) PROVE l2[i2 + k] = l[q2 - 1 + k]
    OBVIOUS
  <2>1. k \in 1..(L + 1 - (q + 1))
    BY <1>1, <1>15
  <2>2. l2[i + 1 + k] = l[q + 1 - 1 + k]
    BY <1>5, <2>1
  <2>3. i2 + k = i + 1 + k /\ q2 - 1 + k = q + 1 - 1 + k
    <3>1. i \in Nat /\ q \in Nat /\ k \in Nat /\ i2 = i + 1 /\ q2 = q + 1
      BY <1>2, <1>3, <1>15
    <3> QED BY ONLY <3>1
  <2> QED BY ONLY <2>2, <2>3
<1>16b. SubSeq(l2, 1, i2) \o F[q2] = F[1]
  BY <1>7, <1>14, <1>15
<1>17. Rests(l2, i2, q2, l, F)
  BY <1>16, <1>16a, <1>16b DEF Rests
<1> QED BY <1>15, <1>17

LEMMA RestSkips ==
    ASSUME NEW l \in Seq(Contents), NEW t \in Seq(Contents), NEW r \in Seq(Contents),
           NEW F, ReplacesFrom(F, l, t, r), NEW l2, NEW i, NEW q, Rests(l2, i, q, l, F),
           NEW n \in Nat, q + n <= Len(l) + 1, \A j \in 0..(n - 1) : ~Occurs(l, q - 1 + j, t)
    PROVE  Rests(l2, i + n, q + n, l, F)
<1> DEFINE S == {k \in Nat : k <= n => Rests(l2, i + k, q + k, l, F)}
<1>0. Len(l) \in Nat /\ i \in Nat /\ q \in Nat
  BY DEF Rests
<1>1. 0 \in S
  <2>1. i + 0 = i /\ q + 0 = q
    BY <1>0
  <2> QED BY <2>1
<1>2. ASSUME NEW k \in Nat, k \in S PROVE k + 1 \in S
  <2> SUFFICES ASSUME k + 1 <= n PROVE Rests(l2, i + (k + 1), q + (k + 1), l, F)
    OBVIOUS
  <2>1. PICK a, b : a = i + k /\ b = q + k
    OBVIOUS
  <2>2. Rests(l2, a, b, l, F)
    BY <1>2, <2>1
  <2>3. b <= Len(l) /\ b - 1 = q - 1 + k /\ a + 1 = i + (k + 1) /\ b + 1 = q + (k + 1) /\ k \in 0..(n - 1)
    BY <1>0, <2>1
  <2>4. ~Occurs(l, b - 1, t)
    BY <2>3
  <2>5. Rests(l2, a + 1, b + 1, l, F)
    BY <2>2, <2>3, <2>4, RestGoesOn
  <2> QED BY <2>3, <2>5
<1>3. Nat \subseteq S
  <2> HIDE DEF S
  <2> QED BY <1>1, <1>2, SetInduction
<1> QED BY <1>3

(* An occurrence is replaced.                                              *)
LEMMA RestReplaced ==
    ASSUME NEW l \in Seq(Contents), NEW t \in Seq(Contents), NEW r \in Seq(Contents),
           NEW F, ReplacesFrom(F, l, t, r), NEW l2, NEW i, NEW q, Rests(l2, i, q, l, F),
           t # << >>, Occurs(l, q - 1, t)
    PROVE  /\ i + Len(t) <= Len(l2) /\ q + Len(t) <= Len(l) + 1
           /\ Rests(Splice(l2, i, i + Len(t), r), i + Len(r), q + Len(t), l, F)
<1>1. PICK L, L2, n, m, z, e : /\ L = Len(l) /\ L2 = Len(l2) /\ n = Len(t) /\ m = Len(r)
                               /\ e = i + n /\ z = Splice(l2, i, e, r)
  OBVIOUS
<1>2. /\ l2 \in Seq(Contents) /\ i \in Nat /\ q \in 1..(L + 1) /\ L2 - i = L + 1 - q
      /\ \A k \in 1..(L + 1 - q) : l2[i + k] = l[q - 1 + k]
      /\ SubSeq(l2, 1, i) \o F[q] = F[1] /\ i <= L2
  BY <1>1 DEF Rests
<1>3. L \in Nat /\ L2 \in Nat /\ n \in Nat /\ m \in Nat /\ n > 0
  <2>0. l2 \in Seq(Contents)
    BY ONLY <1>2
  <2>1. L \in Nat /\ L2 \in Nat /\ n \in Nat /\ m \in Nat
    BY <1>1, <2>0, SMTT(30)
  <2>2. n # 0
    BY <1>1
  <2> QED BY ONLY <2>1, <2>2
<1>4. q - 1 + n <= L
  BY <1>1 DEF Occurs
<1>5. e \in Nat /\ i <= e /\ e <= L2 /\ q \in 1..L /\ q + n \in 1..(L + 1)
  <2>1. /\ L \in Nat /\ L2 \in Nat /\ n \in Nat /\ n > 0 /\ i \in Nat /\ q \in 1..(L + 1)
        /\ L2 - i = L + 1 - q /\ q - 1 + n <= L /\ e = i + n
    BY <1>1, <1>2, <1>3, <1>4
  <2> QED BY ONLY <2>1
<1>5a. /\ L \in Nat /\ L2 \in Nat /\ n \in Nat /\ m \in Nat /\ n > 0 /\ i \in Nat /\ e \in Nat
       /\ e = i + n /\ e <= L2 /\ L2 - i = L + 1 - q /\ q \in Nat /\ q >= 1
  BY <1>1, <1>2, <1>3, <1>5
<1>6. z \in Seq(Contents) /\ IsSplice(z, l2, i, e, r)
  <2>1. e <= Len(l2) /\ r \in Seq(Contents)
    BY <1>1, <1>5
  <2>2. Splice(l2, i, e, r) \in Seq(Contents) /\ IsSplice(Splice(l2, i, e, r), l2, i, e, r)
    BY ONLY <1>2, <1>5, <2>1, SpliceIs
  <2> QED BY <1>1, <2>2
<1>7. Len(z) = L2 - n + m
  <2>1. Len(z) = L2 - (e - i) + m
    BY <1>1, <1>6 DEF IsSplice
  <2> QED BY <1>1, <1>2, <1>3, <2>1
<1>8. /\ \A k \in 1..i : z[k] = l2[k]
      /\ \A k \in 1..m : z[i + k] = r[k]
      /\ \A k \in 1..(L2 - e) : z[i + m + k] = l2[e + k]
  <2>0. \A k \in 1..Len(z) : z[k] = IF k <= i THEN l2[k] ELSE IF k <= i + m THEN r[k - i] ELSE l2[k - m + (e - i)]
    BY <1>1, <1>6 DEF IsSplice
  <2>1. ASSUME NEW k \in 1..i PROVE z[k] = l2[k]
    <3>1. k \in 1..Len(z) /\ k <= i
      BY ONLY <1>5a, <1>7
    <3> QED BY ONLY <2>0, <3>1
  <2>2. ASSUME NEW k \in 1..m PROVE z[i + k] = r[k]
    <3>1. PICK j : j = i + k
      OBVIOUS
    <3>2. j \in 1..Len(z) /\ ~(j <= i) /\ j <= i + m /\ j - i = k
      BY ONLY <1>5a, <1>7, <3>1
    <3>3. z[j] = r[j - i]
      BY ONLY <2>0, <3>2
    <3> QED BY ONLY <3>1, <3>2, <3>3
  <2>3. ASSUME NEW k \in 1..(L2 - e) PROVE z[i + m + k] = l2[e + k]
    <3>1. PICK j : j = i + m + k
      OBVIOUS
    <3>2. /\ j \in 1..Len(z) /\ ~(j <= i) /\ ~(j <= i + m)
          /\ j - m + (e - i) = e + k
      BY ONLY <1>5a, <1>7, <3>1
    <3>3. z[j] = l2[j - m + (e - i)]
      BY ONLY <2>0, <3>2
    <3> QED BY ONLY <3>1, <3>2, <3>3
  <2> QED BY <2>1, <2>2, <2>3
<1>9. i + m \in Nat /\ i + m <= Len(z) /\ Len(z) - (i + m) = L + 1 - (q + n) /\ L + 1 - (q + n) = L2 - e
  BY ONLY <1>5a, <1>7
<1>10. ASSUME NEW k \in 1..(L + 1 - (q + n)) PROVE z[i + m + k] = l[q + n - 1 + k]
  <2>1. k \in 1..(L2 - e) /\ n + k \in 1..(L + 1 - q) /\ i + (n + k) = e + k /\ q - 1 + (n + k) = q + n - 1 + k
    BY ONLY <1>5a, <1>9
  <2>2. z[i + m + k] = l2[e + k]
    BY <1>8, <2>1
  <2>3. l2[i + (n + k)] = l[q - 1 + (n + k)]
    BY <1>2, <2>1
  <2> QED BY ONLY <2>1, <2>2, <2>3
<1>11. PICK a, b, c : a = SubSeq(l2, 1, i) /\ b = SubSeq(z, 1, i + m) /\ c = F[q + n]
  OBVIOUS
<1>12. F[q] = r \o c
  BY <1>1, <1>5, <1>11 DEF ReplacesFrom
<1>13. c \in Seq(Contents)
  BY <1>1, <1>5, <1>11 DEF ReplacesFrom
<1>14. a \in Seq(Contents) /\ Len(a) = i /\ \A k \in 1..i : a[k] = l2[k]
  BY <1>1, <1>2, <1>11, BeginningOf
<1>15. b \in Seq(Contents) /\ Len(b) = i + m /\ \A k \in 1..(i + m) : b[k] = z[k]
  BY <1>6, <1>9, <1>11, BeginningOf
<1>16. b = a \o r
  <2>1. /\ a \o r \in Seq(Contents) /\ Len(a \o r) = i + m
        /\ \A k \in 1..i : (a \o r)[k] = a[k]
        /\ \A k \in 1..m : (a \o r)[i + k] = r[k]
    <3>1. /\ a \o r \in Seq(Contents) /\ Len(a \o r) = Len(a) + Len(r)
          /\ \A k \in 1..Len(a) : (a \o r)[k] = a[k]
          /\ \A k \in 1..Len(r) : (a \o r)[Len(a) + k] = r[k]
      <4>1. a \in Seq(Contents) /\ r \in Seq(Contents)
        BY <1>14
      <4> QED BY ONLY <4>1, Joined
    <3> QED BY <1>1, <1>14, <3>1
  <2>2. ASSUME NEW k \in 1..(i + m) PROVE b[k] = (a \o r)[k]
    <3>1. CASE k <= i
      <4>1. k \in 1..i
        BY ONLY <1>5a, <3>1
      <4>2. b[k] = z[k]
        BY <1>15
      <4>3. z[k] = l2[k] /\ a[k] = l2[k] /\ (a \o r)[k] = a[k]
        BY <1>8, <1>14, <2>1, <4>1
      <4> QED BY ONLY <4>2, <4>3
    <3>2. CASE ~(k <= i)
      <4>1. k - i \in 1..m /\ i + (k - i) = k
        BY ONLY <1>5a, <3>2
      <4>2. PICK j \in 1..m : k = i + j
        BY ONLY <4>1
      <4>3. z[i + j] = r[j] /\ (a \o r)[i + j] = r[j] /\ b[k] = z[k]
        BY <1>8, <1>15, <2>1
      <4> QED BY ONLY <4>2, <4>3
    <3> QED BY <3>1, <3>2
  <2>3. Len(b) = Len(a \o r) /\ \A k \in 1..Len(b) : b[k] = (a \o r)[k]
    BY <1>15, <2>1, <2>2
  <2> QED BY <1>15, <2>1, <2>3, SeqEqual
<1>17. b \o c = F[1]
  <2>1. Regroups(a, r, c)
    <3>1. a \in Seq(Contents) /\ r \in Seq(Contents) /\ c \in Seq(Contents)
      BY <1>13, <1>14
    <3> QED BY ONLY <3>1, Regrouped
  <2> QED BY <1>2, <1>11, <1>12, <1>16, <2>1 DEF Regroups
<1>18. Rests(z, i + m, q + n, l, F)
  <2>1. PICK i2, q2 : i2 = i + m /\ q2 = q + n
    OBVIOUS
  <2>2. /\ z \in Seq(Contents) /\ i2 \in Nat /\ i2 <= Len(z) /\ q2 \in 1..(Len(l) + 1)
        /\ Len(z) - i2 = Len(l) + 1 - q2
    BY <1>1, <1>5, <1>6, <1>9, <2>1
  <2>2a. \A k \in 1..(Len(l) + 1 - q2) : z[i2 + k] = l[q2 - 1 + k]
    <3> SUFFICES ASSUME NEW k \in 1..(Len(l) + 1 - q2) PROVE z[i2 + k] = l[q2 - 1 + k]
      OBVIOUS
    <3>1. k \in 1..(L + 1 - (q + n))
      BY <1>1, <2>1
    <3>2. z[i + m + k] = l[q + n - 1 + k]
      BY <1>10, <3>1
    <3>3. i2 + k = i + m + k /\ q2 - 1 + k = q + n - 1 + k
      <4>1. i \in Nat /\ q \in Nat /\ k \in Nat /\ m \in Nat /\ n \in Nat /\ i2 = i + m /\ q2 = q + n
        BY <1>2, <1>3, <1>5, <2>1
      <4> QED BY ONLY <4>1
    <3> QED BY ONLY <3>2, <3>3
  <2>2b. SubSeq(z, 1, i2) \o F[q2] = F[1]
    BY <1>11, <1>17, <2>1
  <2>3. Rests(z, i2, q2, l, F)
    BY <2>2, <2>2a, <2>2b DEF Rests
  <2> QED BY <2>1, <2>3
<1>19. i + n <= L2 /\ q + n <= L + 1
  BY <1>1, <1>3, <1>5
<1> QED BY <1>1, <1>18, <1>19

(* h takes n steps from first on, as long as it stays in S.                *)
Takes(h, n, S, first, step) ==
    h[0] = first /\ \A k \in 1..n : h[k - 1] \in S => h[k] = step[h[k - 1]]

(* There are such steps, and they end with nothing left.                   *)
StepsEnd(n, S, first, step, left) ==
    /\ \E g \in [0..n -> S] : Takes(g, n, S, first, step)
    /\ \A h : Takes(h, n, S, first, step) => h[n] \in S /\ left[h[n]] = 0

StepsLess(S, step, left) == \A w \in S : left[step[w]] < left[w] \/ left[step[w]] = 0

LEMMA Taking ==
    ASSUME NEW S, NEW n \in Nat, NEW first \in S, NEW step \in [S -> S], NEW left \in [S -> Nat],
           left[first] <= n, StepsLess(S, step, left)
    PROVE  StepsEnd(n, S, first, step, left)
<1>1. \E g \in [0..n -> S] : Takes(g, n, S, first, step)
  <2> DEFINE steps == [k \in Nat |-> step]
  <2>1. steps \in Steps(S)
    BY DEF Steps
  <2>2. \A k \in Nat : steps[k] = step
    OBVIOUS
  <2> HIDE DEF steps
  <2>3. PICK f : Repeats(f, S, first, steps)
    BY <2>1, Recursion
  <2>4. f \in [Nat -> S] /\ f[0] = first /\ \A k \in Nat : f[k + 1] = step[f[k]]
    BY <2>2, <2>3 DEF Repeats
  <2>5. PICK g : g = [k \in 0..n |-> f[k]]
    OBVIOUS
  <2>6. g \in [0..n -> S] /\ g[0] = first /\ \A k \in 0..n : g[k] = f[k]
    BY <2>4, <2>5
  <2>7. ASSUME NEW k \in 1..n PROVE g[k] = step[g[k - 1]]
    <3>1. PICK j : j = k - 1
      OBVIOUS
    <3>2. j \in Nat /\ j \in 0..n /\ k \in 0..n /\ j + 1 = k
      BY <3>1
    <3> QED BY <2>4, <2>6, <3>1, <3>2
  <2> QED BY <2>6, <2>7 DEF Takes
<1>2. ASSUME NEW h, Takes(h, n, S, first, step) PROVE h[n] \in S /\ left[h[n]] = 0
  <2> DEFINE K == {k \in Nat : k <= n => h[k] \in S /\ (left[h[k]] <= n - k \/ left[h[k]] = 0)}
  <2>1. 0 \in K
    <3>1. h[0] = first /\ n - 0 = n
      BY <1>2 DEF Takes
    <3> QED BY <3>1
  <2>2. ASSUME NEW k \in Nat, k \in K PROVE k + 1 \in K
    <3> SUFFICES ASSUME k + 1 <= n
                 PROVE  h[k + 1] \in S /\ (left[h[k + 1]] <= n - (k + 1) \/ left[h[k + 1]] = 0)
      OBVIOUS
    <3>1. PICK i : i = k + 1
      OBVIOUS
    <3>2. i \in 1..n /\ i - 1 = k /\ k <= n /\ n - i = n - k - 1
      BY <3>1
    <3>3. h[k] \in S /\ (left[h[k]] <= n - k \/ left[h[k]] = 0)
      BY <2>2, <3>2
    <3>4. h[i] = step[h[k]]
      BY <1>2, <3>2, <3>3 DEF Takes
    <3>5. h[i] \in S /\ left[h[i]] \in Nat /\ left[h[k]] \in Nat
      BY <3>3, <3>4
    <3>6. left[h[i]] < left[h[k]] \/ left[h[i]] = 0
      BY <3>3, <3>4 DEF StepsLess
    <3>7. left[h[i]] <= n - i \/ left[h[i]] = 0
      BY <3>2, <3>3, <3>5, <3>6
    <3> QED BY <3>1, <3>5, <3>7
  <2>3. Nat \subseteq K
    <3> HIDE DEF K
    <3> QED BY <2>1, <2>2, SetInduction
  <2>4. h[n] \in S /\ (left[h[n]] <= n - n \/ left[h[n]] = 0)
    BY <2>3
  <2>5. left[h[n]] \in Nat
    BY <2>4
  <2> QED BY <2>4, <2>5
<1> QED BY <1>1, <1>2 DEF StepsEnd

LEMMA WayBegins ==
    ASSUME NEW O, NEW B, NEW m, NEW l, Owner(m, l, O, B), NEW t, NEW r, NEW F, ReplacesFrom(F, l, t, r)
    PROVE  Rests(l, 0, 1, l, F)
<1>1. l \in Seq(Contents) /\ Len(l) \in Nat
  BY OwnerFacts
<1>2. F[1] \in Seq(Contents)
  <2>1. F \in [1..(Len(l) + 1) -> Seq(Contents)] /\ 1 \in 1..(Len(l) + 1)
    BY <1>1 DEF ReplacesFrom
  <2> QED BY <2>1
<1>3. SubSeq(l, 1, 0) \o F[1] = F[1]
  <2>1. SubSeq(l, 1, 0) = << >>
    BY <1>1
  <2> QED BY <1>2, <2>1
<1>4. \A k \in 1..(Len(l) + 1 - 1) : l[0 + k] = l[1 - 1 + k]
  <2> SUFFICES ASSUME NEW k \in 1..(Len(l) + 1 - 1) PROVE l[0 + k] = l[1 - 1 + k]
    OBVIOUS
  <2>1. 0 + k = 1 - 1 + k
    BY <1>1
  <2> QED BY <2>1
<1> QED BY <1>1, <1>3, <1>4 DEF Rests

LEMMA WayEnds ==
    ASSUME NEW l, l \in Seq(Contents), NEW t, NEW r, NEW F, ReplacesFrom(F, l, t, r),
           NEW l2, NEW i, NEW q, Rests(l2, i, q, l, F), i = Len(l2)
    PROVE  l2 = F[1]
<1>1. /\ l2 \in Seq(Contents) /\ i \in Nat /\ Len(l2) - i = Len(l) + 1 - q /\ q \in 1..(Len(l) + 1)
      /\ SubSeq(l2, 1, i) \o F[q] = F[1]
  BY DEF Rests
<1>2. q = Len(l) + 1
  <2>1. Len(l) \in Nat /\ Len(l2) \in Nat
    BY <1>1
  <2> QED BY <1>1, <2>1
<1>3. F[q] = << >>
  BY <1>2 DEF ReplacesFrom
<1>4. SubSeq(l2, 1, i) = l2
  BY <1>1
<1>5. l2 \o << >> = l2
  BY <1>1
<1> QED BY <1>1, <1>3, <1>4, <1>5

LEMMA ElementsShown ==
    ASSUME NEW O, NEW B, NEW m, NEW l, Owner(m, l, O, B) PROVE AL!ElementsOf(m) = l
<1>1. PICK c : c = m.blocks[m.a.Data]
  OBVIOUS
<1>2. /\ l \in Seq(Contents) /\ Len(l) \in Nat /\ m.a.Count = Len(l) /\ m.a.First = 0
      /\ c \in Seq(Contents) /\ Len(l) <= Len(c) /\ \A i \in 1..Len(l) : c[i] = l[i]
  BY <1>1, OwnerFacts
<1>3. CASE Len(l) = 0
  <2>1. l = << >>
    BY <1>2, <1>3
  <2> QED BY <1>2, <1>3, <2>1 DEF AL!ElementsOf
<1>4. CASE Len(l) # 0
  <2>1. PICK w : w = SubSeq(c, 1, Len(l))
    OBVIOUS
  <2>2. AL!ElementsOf(m) = w
    <3>1. 0 + 1 = 1 /\ 0 + Len(l) = Len(l)
      BY <1>2
    <3> QED BY <1>1, <1>2, <1>4, <2>1, <3>1 DEF AL!ElementsOf
  <2>3. w \in Seq(Contents) /\ Len(w) = Len(l) /\ \A i \in 1..Len(l) : w[i] = c[i]
    <3>1. \A i \in 1..Len(l) : i \in 1..Len(c)
      BY <1>2
    <3> QED BY <1>2, <2>1, <3>1
  <2>4. \A i \in 1..Len(w) : w[i] = l[i]
    BY <1>2, <2>3
  <2> QED BY <1>2, <2>2, <2>3, <2>4, SeqEqual
<1> QED BY <1>3, <1>4

(* One turn of the loop over equal counts.                                 *)
InPlaceTurn(m, search, replace, was) ==
    IF was.p >= m.a.Count THEN was
    ELSE IF AL!Progress(AL!ElementsOf(was.m), was.p, search) = Len(search)
    THEN [m |-> [was.m EXCEPT !.blocks[m.a.Data] = AL!Written(@, m.a.First + was.p, replace)],
          p |-> was.p + Len(replace)]
    ELSE [was EXCEPT !.p = @ + 1]

LEMMA OverwrittenKeeps ==
    ASSUME NEW O, NEW B, NEW m, NEW l, Owner(m, l, O, B), NEW i \in Nat, NEW r \in Seq(Contents),
           i + Len(r) <= Len(l),
           NEW m2, m2 = [m EXCEPT !.blocks[m.a.Data] = AL!Written(@, i, r)]
    PROVE  Owner(m2, Splice(l, i, i + Len(r), r), O, B) /\ m2.a = m.a
<1>1. PICK d, c, e, z : d = m.a.Data /\ c = m.blocks[d] /\ e = i + Len(r) /\ z = Splice(l, i, e, r)
  OBVIOUS
<1>2. /\ l \in Seq(Contents) /\ Len(l) \in Nat /\ m.a.Count = Len(l) /\ Len(l) <= m.a.Allocated
      /\ d \in Blocks /\ c \in Seq(Contents) /\ Len(c) = m.a.Allocated
      /\ \A k \in 1..Len(l) : c[k] = l[k]
  BY <1>1, OwnerFacts
<1>3. Len(r) \in Nat /\ e \in Nat /\ i <= e /\ e <= Len(l)
  BY <1>1
<1>4. z \in Seq(Contents) /\ IsSplice(z, l, i, e, r)
  <2>1. Splice(l, i, e, r) \in Seq(Contents) /\ IsSplice(Splice(l, i, e, r), l, i, e, r)
    BY ONLY <1>2, <1>3, r \in Seq(Contents), i \in Nat, SpliceIs
  <2> QED BY <1>1, <2>1
<1>5. PICK w : w = AL!Written(c, i, r)
  OBVIOUS
<1>6. /\ w \in Seq(Contents) /\ Len(w) = Len(c)
      /\ \A k \in 1..Len(c) : w[k] = IF i < k /\ k <= i + Len(r) THEN r[k - i] ELSE c[k]
  <2>1. c \in Seq(Contents) /\ i \in Nat /\ r \in Seq(Contents)
    BY <1>2
  <2> QED BY ONLY <1>5, <2>1, WrittenIs
<1>7. Len(z) = Len(l)
  <2>1. Len(z) = Len(l) - (e - i) + Len(r)
    BY <1>4 DEF IsSplice
  <2> QED BY <1>1, <1>2, <1>3, <2>1
<1>8. ASSUME NEW k \in 1..Len(z) PROVE w[k] = z[k]
  <2>1. k \in 1..Len(l) /\ k \in 1..Len(c) /\ k - Len(r) + (e - i) = k
    <3>1. k \in 1..Len(l) /\ Len(l) \in Nat /\ Len(c) \in Nat /\ Len(l) <= Len(c)
      BY <1>2, <1>7
    <3>2. Len(r) \in Nat /\ i \in Nat /\ e = i + Len(r)
      BY <1>1, <1>3
    <3> QED BY ONLY <3>1, <3>2
  <2>2. z[k] = IF k <= i THEN l[k] ELSE IF k <= i + Len(r) THEN r[k - i] ELSE l[k - Len(r) + (e - i)]
    BY <1>4 DEF IsSplice
  <2>3. w[k] = IF i < k /\ k <= i + Len(r) THEN r[k - i] ELSE l[k]
    BY <1>2, <1>6, <2>1
  <2>4. CASE k <= i
    BY <2>2, <2>3, <2>4
  <2>5. CASE ~(k <= i) /\ k <= i + Len(r)
    <3>1. i < k
      BY <2>5
    <3> QED BY <2>2, <2>3, <2>5, <3>1
  <2>6. CASE ~(k <= i) /\ ~(k <= i + Len(r))
    BY <2>1, <2>2, <2>3, <2>6
  <2> QED BY <2>4, <2>5, <2>6
<1>9. m.a \in Refs /\ m.blocks \in Stores /\ m = [blocks |-> m.blocks, a |-> m.a]
  BY DEF Owner, Whole, Memories
<1>10. [m.a EXCEPT !.Count = Len(z)] = m.a
  BY <1>2, <1>7, <1>9 DEF Refs
<1>11. m2 = [blocks |-> [m.blocks EXCEPT ![d] = w], a |-> m.a]
  <2>1. m2 = [m EXCEPT !.blocks = [m.blocks EXCEPT ![d] = w]]
    BY <1>1, <1>5
  <2> QED BY <1>9, <2>1
<1>12. Owner(m2, z, O, B)
  <2>1. m2 = [blocks |-> [m.blocks EXCEPT ![m.a.Data] = w], a |-> [m.a EXCEPT !.Count = Len(z)]]
    BY <1>1, <1>10, <1>11
  <2>2. Len(w) = m.a.Allocated /\ Len(z) <= Len(w)
    BY <1>2, <1>6, <1>7
  <2>3. \A k \in 1..Len(z) : w[k] = z[k]
    BY <1>8
  <2>4. w \in Seq(Contents) /\ z \in Seq(Contents)
    BY <1>4, <1>6
  <2>5. Owner(m, l, O, B)
    OBVIOUS
  <2>6. w \in Seq(Contents) /\ Len(w) = m.a.Allocated
    BY <2>2, <2>4
  <2>7. z \in Seq(Contents) /\ Len(z) <= Len(w)
    BY <2>2, <2>4
  <2>8. Owner(m2, z, O, B)
    BY ONLY <2>1, <2>3, <2>5, <2>6, <2>7, Rewritten
  <2> QED BY <2>8
<1> QED BY <1>1, <1>11, <1>12

(* What a turn goes on from, and what it leaves.                           *)
InPlaceStates(m, l, F, O, B) ==
    {w \in [m : Memories, p : Nat] :
        /\ w.m.a = m.a
        /\ \E l2, q : Owner(w.m, l2, O, B) /\ Rests(l2, w.p, q, l, F) /\ Len(l2) = Len(l)}

LEMMA InPlaceGoesOn ==
    ASSUME NEW O, NEW B, NEW m, NEW l, Owner(m, l, O, B),
           NEW t \in Seq(Contents), NEW r \in Seq(Contents), t # << >>, Len(t) = Len(r),
           NEW F, ReplacesFrom(F, l, t, r), NEW S, S = InPlaceStates(m, l, F, O, B),
           NEW w \in S, NEW v, v = InPlaceTurn(m, t, r, w)
    PROVE  /\ v \in S /\ w.p \in Nat /\ w.p <= Len(l) /\ v.p <= Len(l)
           /\ Len(l) - v.p < Len(l) - w.p \/ Len(l) - v.p = 0
<1>1. l \in Seq(Contents) /\ Len(l) \in Nat /\ m.a.Count = Len(l) /\ m.a.First = 0
  BY OwnerFacts
<1>2. PICK l2, q, m1, i : /\ m1 = w.m /\ i = w.p /\ Owner(m1, l2, O, B) /\ Rests(l2, i, q, l, F)
                          /\ Len(l2) = Len(l) /\ m1.a = m.a /\ w = [m |-> m1, p |-> i]
  BY DEF InPlaceStates
<1>3. l2 \in Seq(Contents) /\ i \in Nat /\ i <= Len(l2) /\ q \in 1..(Len(l) + 1) /\ Len(l2) - i = Len(l) + 1 - q
  BY <1>2 DEF Rests
<1>3a. q = i + 1
  BY <1>1, <1>2, <1>3
<1>4. \A m3, l3, j, p : /\ Owner(m3, l3, O, B) /\ Rests(l3, j, p, l, F) /\ Len(l3) = Len(l) /\ m3.a = m.a
                        => [m |-> m3, p |-> j] \in S
  <2> SUFFICES ASSUME NEW m3, NEW l3, NEW j, NEW p,
                      Owner(m3, l3, O, B), Rests(l3, j, p, l, F), Len(l3) = Len(l), m3.a = m.a
               PROVE  [m |-> m3, p |-> j] \in S
    OBVIOUS
  <2>1. m3 \in Memories /\ j \in Nat
    BY DEF Owner, Whole, Rests
  <2>2. PICK z : z = [m |-> m3, p |-> j]
    OBVIOUS
  <2>3. z \in [m : Memories, p : Nat] /\ z.m = m3 /\ z.p = j
    BY <2>1, <2>2
  <2> QED BY <2>2, <2>3 DEF InPlaceStates
<1>5. CASE i >= Len(l)
  <2>1. v = w
    BY <1>1, <1>2, <1>5 DEF InPlaceTurn
  <2> QED BY <1>1, <1>2, <1>3, <1>5, <2>1
<1>6. CASE ~(i >= Len(l))
  <2>1. AL!ElementsOf(m1) = l2
    BY <1>2, ElementsShown
  <2>2. AL!Progress(l2, i, t) = Len(t) <=> Occurs(l2, i, t)
    <3>1. Len(t) \in Nat /\ Len(l2) \in Nat
      BY <1>1, <1>2
    <3> QED BY <1>3, <3>1, ProgressOccurs
  <2>3. Occurs(l2, i, t) <=> Occurs(l, q - 1, t)
    <3>1. Occurs(l2, i + 0, t) <=> Occurs(l, q - 1 + 0, t)
      BY <1>1, <1>2, RestOccurs
    <3>2. i + 0 = i /\ q - 1 + 0 = q - 1
      BY <1>1, <1>3
    <3> QED BY <3>1, <3>2
  <2>4. CASE Occurs(l2, i, t)
    <3>1. PICK m3, j, e : /\ m3 = [m1 EXCEPT !.blocks[m1.a.Data] = AL!Written(@, i, r)]
                          /\ j = i + Len(r) /\ e = q + Len(t)
      OBVIOUS
    <3>2. v = [m |-> m3, p |-> j]
      <4>1. 0 + i = i
        BY <1>3
      <4> QED BY <1>1, <1>2, <1>6, <2>1, <2>2, <2>4, <3>1, <4>1 DEF InPlaceTurn
    <3>3. /\ i + Len(t) <= Len(l2) /\ q + Len(t) <= Len(l) + 1
          /\ Rests(Splice(l2, i, i + Len(t), r), i + Len(r), q + Len(t), l, F)
      BY <1>1, <1>2, <2>3, <2>4, RestReplaced
    <3>4. PICK z : z = Splice(l2, i, i + Len(r), r)
      OBVIOUS
    <3>5. Owner(m3, z, O, B) /\ m3.a = m1.a
      <4>1. Owner(m1, l2, O, B) /\ i \in Nat /\ r \in Seq(Contents) /\ i + Len(r) <= Len(l2)
        BY <1>2, <1>3, <3>3
      <4>2. m3 = [m1 EXCEPT !.blocks[m1.a.Data] = AL!Written(@, i, r)]
        BY <3>1
      <4>3. Owner(m3, Splice(l2, i, i + Len(r), r), O, B) /\ m3.a = m1.a
        BY ONLY <4>1, <4>2, OverwrittenKeeps
      <4> QED BY <3>4, <4>3
    <3>6. Rests(z, j, e, l, F)
      BY <3>1, <3>3, <3>4
    <3>7. Len(z) = Len(l)
      <4>1. z \in Seq(Contents) /\ j \in Nat /\ Len(z) - j = Len(l) + 1 - e
        BY <3>6 DEF Rests
      <4>2. Len(z) \in Nat /\ Len(r) \in Nat
        BY <4>1
      <4>3. Len(l) \in Nat /\ i \in Nat /\ q = i + 1 /\ j = i + Len(r) /\ e = q + Len(r)
        BY <1>1, <1>3, <1>3a, <3>1
      <4> QED BY ONLY <4>1, <4>2, <4>3
    <3>8. v \in S
      BY <1>2, <1>4, <3>2, <3>5, <3>6, <3>7
    <3>9. v.p = i + Len(r) /\ Len(r) > 0 /\ Len(r) \in Nat /\ i + Len(r) <= Len(l)
      BY <1>2, <3>1, <3>2, <3>3
    <3> QED BY <1>1, <1>2, <1>3, <3>8, <3>9
  <2>5. CASE ~Occurs(l2, i, t)
    <3>1. v = [m |-> m1, p |-> i + 1]
      BY <1>1, <1>2, <1>6, <2>1, <2>2, <2>5 DEF InPlaceTurn
    <3>2. q <= Len(l)
      BY <1>1, <1>3, <1>3a, <1>6
    <3>3. Rests(l2, i + 1, q + 1, l, F)
      BY <1>1, <1>2, <2>3, <2>5, <3>2, RestGoesOn
    <3>4. v \in S
      BY <1>2, <1>4, <3>1, <3>3
    <3> QED BY <1>1, <1>2, <1>3, <1>6, <3>1, <3>4
  <2> QED BY <2>4, <2>5
<1> QED BY <1>5, <1>6

LEMMA ReplacedInPlaceKeeps ==
    ASSUME NEW O, NEW B, NEW m, NEW l, Owner(m, l, O, B),
           NEW t \in Seq(Contents), NEW r \in Seq(Contents), t # << >>, Len(t) = Len(r),
           NEW F, ReplacesFrom(F, l, t, r)
    PROVE  Owner(AL!ReplacedInPlace(m, t, r), F[1], O, B)
<1>1. PICK n, S, first : n = Len(l) /\ S = InPlaceStates(m, l, F, O, B) /\ first = [m |-> m, p |-> 0]
  OBVIOUS
<1>2. l \in Seq(Contents) /\ n \in Nat /\ m.a.Count = n
  BY <1>1, OwnerFacts
<1>3. first \in S
  <2>1. Rests(l, 0, 1, l, F)
    BY WayBegins
  <2>2. m \in Memories
    BY DEF Owner, Whole
  <2>3. first \in [m : Memories, p : Nat] /\ first.m = m /\ first.p = 0
    BY <1>1, <2>2
  <2> QED BY <1>1, <2>1, <2>3 DEF InPlaceStates
<1>4. \A w \in S : /\ InPlaceTurn(m, t, r, w) \in S /\ n - w.p \in Nat
                   /\ \/ n - InPlaceTurn(m, t, r, w).p < n - w.p
                      \/ n - InPlaceTurn(m, t, r, w).p = 0
  <2> SUFFICES ASSUME NEW w \in S
               PROVE  /\ InPlaceTurn(m, t, r, w) \in S /\ n - w.p \in Nat
                      /\ \/ n - InPlaceTurn(m, t, r, w).p < n - w.p
                         \/ n - InPlaceTurn(m, t, r, w).p = 0
    OBVIOUS
  <2>1. PICK v : v = InPlaceTurn(m, t, r, w)
    OBVIOUS
  <2>2. /\ v \in S /\ w.p \in Nat /\ w.p <= Len(l) /\ v.p <= Len(l)
        /\ Len(l) - v.p < Len(l) - w.p \/ Len(l) - v.p = 0
    BY <1>1, <2>1, InPlaceGoesOn
  <2> QED BY <1>1, <1>2, <2>1, <2>2
<1> DEFINE Turn(w) == InPlaceTurn(m, t, r, w)
<1>5. PICK step, left : step = [w \in S |-> Turn(w)] /\ left = [w \in S |-> n - w.p]
  OBVIOUS
<1>6. \A w \in S : step[w] = Turn(w) /\ left[w] = n - w.p
  BY <1>5
<1>7. step \in [S -> S] /\ left \in [S -> Nat] /\ left[first] <= n
      /\ StepsLess(S, step, left)
  <2>1. step \in [S -> S]
    BY <1>4, <1>5
  <2>2. left \in [S -> Nat]
    BY <1>4, <1>5
  <2>3. left[first] <= n
    <3>1. left[first] = n - 0
      BY <1>1, <1>3, <1>6
    <3> QED BY <1>2, <3>1
  <2>4. ASSUME NEW w \in S PROVE left[step[w]] < left[w] \/ left[step[w]] = 0
    BY <1>4, <1>6
  <2> QED BY <2>1, <2>2, <2>3, <2>4 DEF StepsLess
<1> DEFINE Is(f) == f = [turn \in 0..m.a.Count |->
                           IF turn = 0 THEN [m |-> m, p |-> 0] ELSE Turn(f[turn - 1])]
           h == CHOOSE f : Is(f)
<1>8. AL!ReplacedInPlace(m, t, r) = h[m.a.Count].m
  BY DEF AL!ReplacedInPlace, InPlaceTurn
<1> HIDE DEF Turn
<1>9. /\ \E g \in [0..n -> S] : Takes(g, n, S, first, step)
      /\ \A f : Takes(f, n, S, first, step) => f[n] \in S /\ left[f[n]] = 0
  <2>1. n \in Nat /\ first \in S
    BY <1>2, <1>3
  <2>2. StepsEnd(n, S, first, step, left)
    BY ONLY <1>7, <2>1, Taking
  <2> QED BY <2>2 DEF StepsEnd
<1>10. Is(h)
  <2>1. PICK g \in [0..n -> S] : Takes(g, n, S, first, step)
    BY <1>9
  <2>2. ASSUME NEW k \in 0..n PROVE g[k] = IF k = 0 THEN [m |-> m, p |-> 0] ELSE Turn(g[k - 1])
    <3>1. CASE k = 0
      BY <1>1, <2>1, <3>1 DEF Takes
    <3>2. CASE k # 0
      <4>1. k \in 1..n /\ k - 1 \in 0..n
        BY <1>2, <3>2
      <4>2. g[k - 1] \in S
        BY <4>1
      <4>3. g[k] = step[g[k - 1]]
        BY <2>1, <4>1, <4>2 DEF Takes
      <4> QED BY <1>6, <3>2, <4>2, <4>3
    <3> QED BY <3>1, <3>2
  <2>3. g = [k \in 0..n |-> g[k]]
    OBVIOUS
  <2>4. Is(g)
    BY <1>2, <2>2, <2>3
  <2> HIDE DEF Is
  <2> QED BY <2>4
<1>11. Takes(h, n, S, first, step)
  <2>1. PICK f : f = h
    OBVIOUS
  <2>2. f = [turn \in 0..n |-> IF turn = 0 THEN [m |-> m, p |-> 0] ELSE Turn(f[turn - 1])]
    BY <1>2, <1>10, <2>1
  <2>3. f[0] = first
    BY <1>1, <1>2, <2>2
  <2>4. ASSUME NEW k \in 1..n, f[k - 1] \in S PROVE f[k] = step[f[k - 1]]
    <3>1. k \in 0..n /\ k # 0
      BY <1>2
    <3>2. f[k] = Turn(f[k - 1])
      BY <2>2, <3>1
    <3> QED BY <1>6, <2>4, <3>2
  <2>5. Takes(f, n, S, first, step)
    BY <2>3, <2>4 DEF Takes
  <2> QED BY <2>1, <2>5
<1>12. PICK w : w = h[n]
  OBVIOUS
<1>13. w \in S /\ n - w.p = 0
  <2>1. w \in S /\ left[w] = 0
    BY <1>9, <1>11, <1>12
  <2> QED BY <1>6, <2>1
<1>14. PICK l2, q : Owner(w.m, l2, O, B) /\ Rests(l2, w.p, q, l, F) /\ Len(l2) = Len(l)
  BY <1>1, <1>13 DEF InPlaceStates
<1>15. w.p = Len(l2)
  <2>1. w.p \in Nat
    BY <1>14 DEF Rests
  <2> QED BY <1>1, <1>2, <1>13, <1>14, <2>1
<1>16. l2 = F[1]
  BY <1>2, <1>14, <1>15, WayEnds
<1> HIDE DEF h
<1> QED BY <1>2, <1>8, <1>12, <1>14, <1>16

(* One turn of the loop over other counts.                                 *)
OneByOneTurn(search, replace, moves, was) ==
    LET found == AL!Search(AL!ElementsOf(was.m), search, was.i, FALSE)
    IN  IF was.i >= was.m.a.Count THEN was
        ELSE IF found = -1 THEN [was EXCEPT !.i = was.m.a.Count]
        ELSE [m |-> AL!ReplacedRange(was.m, found, found + Len(search), replace, moves),
              i |-> found + Len(replace)]

OneByOneStates(l, F, O, B) ==
    {w \in [m : Memories, i : Nat] : \E l2, q : Owner(w.m, l2, O, B) /\ Rests(l2, w.i, q, l, F)}

Ahead(w) == w.m.a.Count - w.i

LEMMA OnWay ==
    ASSUME NEW l, NEW F, NEW O, NEW B, NEW m3, NEW l3, NEW j, NEW p,
           Owner(m3, l3, O, B), Rests(l3, j, p, l, F),
           NEW w, w = [m |-> m3, i |-> j]
    PROVE  w \in OneByOneStates(l, F, O, B) /\ Ahead(w) = Len(l) + 1 - p /\ Ahead(w) \in Nat
<1>1. m3 \in Memories /\ j \in Nat /\ Len(l3) - j = Len(l) + 1 - p /\ j <= Len(l3) /\ l3 \in Seq(Contents)
  BY DEF Owner, Whole, Rests
<1>2. w \in [m : Memories, i : Nat] /\ w.m = m3 /\ w.i = j
  BY <1>1
<1>3. m3.a.Count = Len(l3) /\ Len(l3) \in Nat
  BY OwnerFacts
<1>4. w \in OneByOneStates(l, F, O, B)
  BY <1>2 DEF OneByOneStates
<1>5. Ahead(w) = Len(l3) - j /\ Len(l3) - j \in Nat
  BY <1>1, <1>2, <1>3 DEF Ahead
<1> QED BY <1>1, <1>4, <1>5

LEMMA OneByOneGoesOn ==
    ASSUME AL!ArrayLikeAssumption, NEW O, NEW B, Spare(O, B), NEW l \in Seq(Contents),
           NEW t \in Seq(Contents), NEW r \in Seq(Contents), t # << >>, NEW moves \in BOOLEAN,
           NEW F, ReplacesFrom(F, l, t, r), NEW S, S = OneByOneStates(l, F, O, B),
           NEW w \in S, NEW v, v = OneByOneTurn(t, r, moves, w)
    PROVE  v \in S /\ Ahead(w) \in Nat /\ (Ahead(v) < Ahead(w) \/ Ahead(v) = 0)
<1>1. Len(l) \in Nat /\ Len(t) \in Nat /\ Len(t) > 0
  OBVIOUS
<1>2. PICK l2, q, m1, i : /\ m1 = w.m /\ i = w.i /\ Owner(m1, l2, O, B) /\ Rests(l2, i, q, l, F)
                          /\ w = [m |-> m1, i |-> i]
  BY DEF OneByOneStates
<1>3. l2 \in Seq(Contents) /\ i \in Nat /\ i <= Len(l2) /\ q \in 1..(Len(l) + 1) /\ Len(l2) - i = Len(l) + 1 - q
  BY <1>2 DEF Rests
<1>4. m1.a.Count = Len(l2) /\ AL!ElementsOf(m1) = l2 /\ Len(l2) \in Nat
  BY <1>2, OwnerFacts, ElementsShown
<1>5. Ahead(w) = Len(l) + 1 - q /\ Ahead(w) \in Nat
  BY ONLY <1>2, OnWay
<1>6. PICK found : found = AL!Search(l2, t, i, FALSE)
  OBVIOUS
<1>7. v = IF i >= Len(l2) THEN w
          ELSE IF found = -1 THEN [m |-> m1, i |-> Len(l2)]
          ELSE [m |-> AL!ReplacedRange(m1, found, found + Len(t), r, moves), i |-> found + Len(r)]
  <2>1. [w EXCEPT !.i = Len(l2)] = [m |-> m1, i |-> Len(l2)]
    BY <1>2
  <2> QED BY <1>2, <1>4, <1>6, <2>1 DEF OneByOneTurn
<1>8. CASE i >= Len(l2)
  <2>1. v = w /\ Ahead(w) = 0
    BY <1>1, <1>3, <1>4, <1>5, <1>7, <1>8
  <2> QED BY <1>5, <2>1
<1>9. CASE ~(i >= Len(l2))
  <2>1. IsFirst(found, l2, i, t)
    <3>1. i \in 0..(Len(l2) - 1)
      BY <1>3, <1>4, <1>9
    <3>2. l2 \in Seq(Contents) /\ t \in Seq(Contents)
      BY <1>3
    <3>3. t # << >>
      OBVIOUS
    <3> QED BY ONLY <1>6, <3>1, <3>2, <3>3, SearchFirst
  <2>2. ASSUME NEW n \in Nat, i + n <= Len(l2), \A j \in i..(i + n - 1) : ~Occurs(l2, j, t)
        PROVE  Rests(l2, i + n, q + n, l, F)
    <3>1. q + n <= Len(l) + 1
      BY <1>1, <1>3, <1>4, <2>2
    <3>2. ASSUME NEW j \in 0..(n - 1) PROVE ~Occurs(l, q - 1 + j, t)
      <4>1. j \in Nat /\ i + j \in i..(i + n - 1)
        BY <1>3
      <4>2. Occurs(l2, i + j, t) <=> Occurs(l, q - 1 + j, t)
        BY <1>2, <4>1, RestOccurs
      <4> QED BY <2>2, <4>1, <4>2
    <3> QED BY <1>2, <3>1, <3>2, RestSkips
  <2>3. CASE found = -1
    <3>1. PICK n, e, p : n = Len(l2) - i /\ e = i + n /\ p = q + n
      OBVIOUS
    <3>2. n \in Nat /\ e = Len(l2) /\ p = Len(l) + 1 /\ i + n <= Len(l2)
      BY <1>1, <1>3, <1>4, <3>1
    <3>3. \A j \in i..(i + n - 1) : ~Occurs(l2, j, t)
      BY <1>3, <2>1, <2>3, <3>1, <3>2 DEF IsFirst
    <3>4. Rests(l2, e, p, l, F)
      BY <2>2, <3>1, <3>2, <3>3
    <3>5. v = [m |-> m1, i |-> e]
      BY <1>7, <1>9, <2>3, <3>2
    <3>6. v \in OneByOneStates(l, F, O, B) /\ Ahead(v) = Len(l) + 1 - p
      BY <1>2, <3>4, <3>5, OnWay
    <3> QED BY <1>1, <1>5, <3>2, <3>6
  <2>4. CASE found # -1
    <3>1. found \in i..(Len(l2) - 1) /\ Occurs(l2, found, t) /\ \A j \in i..(found - 1) : ~Occurs(l2, j, t)
      BY <2>1, <2>4 DEF IsFirst
    <3>2. PICK n, p : n = found - i /\ p = q + n
      OBVIOUS
    <3>3. n \in Nat /\ found \in Nat /\ i + n = found /\ found <= Len(l2) /\ p \in Nat
      BY <1>3, <1>4, <3>1, <3>2
    <3>4. Rests(l2, found, p, l, F)
      <4>1. \A j \in i..(i + n - 1) : ~Occurs(l2, j, t)
        <5>1. i + n - 1 = found - 1
          BY <1>3, <3>3
        <5>2. \A j \in i..(found - 1) : ~Occurs(l2, j, t)
          BY <3>1
        <5> QED BY ONLY <5>1, <5>2
      <4> QED BY <2>2, <3>2, <3>3, <4>1
    <3>5. Occurs(l, p - 1, t)
      <4>1. Occurs(l2, found + 0, t) <=> Occurs(l, p - 1 + 0, t)
        BY <3>4, RestOccurs
      <4>2. found + 0 = found /\ p - 1 + 0 = p - 1
        BY <3>3
      <4> QED BY <3>1, <4>1, <4>2
    <3>6. PICK e, j, p2, z, m3 : /\ e = found + Len(t) /\ j = found + Len(r) /\ p2 = p + Len(t)
                                 /\ z = Splice(l2, found, e, r)
                                 /\ m3 = AL!ReplacedRange(m1, found, e, r, moves)
      OBVIOUS
    <3>7. e <= Len(l2) /\ p2 <= Len(l) + 1 /\ Rests(z, j, p2, l, F)
      BY <3>4, <3>5, <3>6, RestReplaced
    <3>8. Owner(m3, z, O, B)
      <4>1. e \in Nat /\ found <= e
        BY <1>1, <3>3, <3>6
      <4>2. found = AL!Translate(found, Len(l2)) /\ e = AL!Translate(e, Len(l2))
        BY <3>3, <4>1 DEF AL!Translate
      <4>3. AL!ArrayLikeAssumption /\ Spare(O, B) /\ Owner(m1, l2, O, B)
        BY <1>2
      <4>4. found \in Nat /\ r \in Seq(Contents) /\ moves \in BOOLEAN
        BY <3>3
      <4>5. Owner(AL!ReplacedRange(m1, found, e, r, moves), Splice(l2, found, e, r), O, B)
        BY ONLY <3>7, <4>1, <4>2, <4>3, <4>4, ReplacedRangeKeeps
      <4> QED BY <3>6, <4>5
    <3>9. v = [m |-> m3, i |-> j]
      BY <1>7, <1>9, <2>4, <3>6
    <3>10. v \in OneByOneStates(l, F, O, B) /\ Ahead(v) = Len(l) + 1 - p2
      BY <3>7, <3>8, <3>9, OnWay
    <3>11. Len(l) + 1 - p2 < Len(l) + 1 - q
      BY <1>1, <1>3, <3>2, <3>3, <3>6
    <3> QED BY <1>5, <3>10, <3>11
  <2> QED BY <2>3, <2>4
<1> QED BY <1>8, <1>9

LEMMA ReplacedOneByOneKeeps ==
    ASSUME AL!ArrayLikeAssumption, NEW O, NEW B, Spare(O, B), NEW m, NEW l, Owner(m, l, O, B),
           NEW t \in Seq(Contents), NEW r \in Seq(Contents), t # << >>, NEW moves \in BOOLEAN,
           NEW F, ReplacesFrom(F, l, t, r)
    PROVE  Owner(AL!ReplacedOneByOne(m, t, r, moves), F[1], O, B)
<1>1. PICK n, S, first : n = Len(l) /\ S = OneByOneStates(l, F, O, B) /\ first = [m |-> m, i |-> 0]
  OBVIOUS
<1>2. l \in Seq(Contents) /\ n \in Nat /\ m.a.Count = n
  BY <1>1, OwnerFacts
<1>3. first \in S /\ Ahead(first) <= n
  <2>1. Rests(l, 0, 1, l, F)
    BY WayBegins
  <2>2. Owner(m, l, O, B)
    OBVIOUS
  <2>3. first \in OneByOneStates(l, F, O, B) /\ Ahead(first) = Len(l) + 1 - 1
    BY <1>1, <2>1, <2>2, OnWay
  <2> QED BY <1>1, <1>2, <2>3
<1>4. \A w \in S : /\ OneByOneTurn(t, r, moves, w) \in S /\ Ahead(w) \in Nat
                   /\ \/ Ahead(OneByOneTurn(t, r, moves, w)) < Ahead(w)
                      \/ Ahead(OneByOneTurn(t, r, moves, w)) = 0
  <2> SUFFICES ASSUME NEW w \in S
               PROVE  /\ OneByOneTurn(t, r, moves, w) \in S /\ Ahead(w) \in Nat
                      /\ \/ Ahead(OneByOneTurn(t, r, moves, w)) < Ahead(w)
                         \/ Ahead(OneByOneTurn(t, r, moves, w)) = 0
    OBVIOUS
  <2>1. PICK v : v = OneByOneTurn(t, r, moves, w)
    OBVIOUS
  <2>2. v \in S /\ Ahead(w) \in Nat /\ (Ahead(v) < Ahead(w) \/ Ahead(v) = 0)
    BY <1>1, <1>2, <2>1, OneByOneGoesOn
  <2> QED BY <2>1, <2>2
<1> DEFINE Turn(w) == OneByOneTurn(t, r, moves, w)
<1>5. PICK step, left : step = [w \in S |-> Turn(w)] /\ left = [w \in S |-> Ahead(w)]
  OBVIOUS
<1>6. \A w \in S : step[w] = Turn(w) /\ left[w] = Ahead(w)
  BY <1>5
<1>7. step \in [S -> S] /\ left \in [S -> Nat] /\ left[first] <= n
      /\ StepsLess(S, step, left)
  <2>1. step \in [S -> S]
    BY <1>4, <1>5
  <2>2. left \in [S -> Nat]
    BY <1>4, <1>5
  <2>3. left[first] <= n
    BY <1>3, <1>6
  <2>4. ASSUME NEW w \in S PROVE left[step[w]] < left[w] \/ left[step[w]] = 0
    BY <1>4, <1>6
  <2> QED BY <2>1, <2>2, <2>3, <2>4 DEF StepsLess
<1> DEFINE Is(f) == f = [turn \in 0..m.a.Count |->
                           IF turn = 0 THEN [m |-> m, i |-> 0] ELSE Turn(f[turn - 1])]
           h == CHOOSE f : Is(f)
<1>8. AL!ReplacedOneByOne(m, t, r, moves) = h[m.a.Count].m
  BY DEF AL!ReplacedOneByOne, OneByOneTurn
<1> HIDE DEF Turn
<1>9. /\ \E g \in [0..n -> S] : Takes(g, n, S, first, step)
      /\ \A f : Takes(f, n, S, first, step) => f[n] \in S /\ left[f[n]] = 0
  <2>1. n \in Nat /\ first \in S
    BY <1>2, <1>3
  <2>2. StepsEnd(n, S, first, step, left)
    BY ONLY <1>7, <2>1, Taking
  <2> QED BY <2>2 DEF StepsEnd
<1>10. Is(h)
  <2>1. PICK g \in [0..n -> S] : Takes(g, n, S, first, step)
    BY <1>9
  <2>2. ASSUME NEW k \in 0..n PROVE g[k] = IF k = 0 THEN [m |-> m, i |-> 0] ELSE Turn(g[k - 1])
    <3>1. CASE k = 0
      BY <1>1, <2>1, <3>1 DEF Takes
    <3>2. CASE k # 0
      <4>1. k \in 1..n /\ k - 1 \in 0..n
        BY <1>2, <3>2
      <4>2. g[k - 1] \in S
        BY <4>1
      <4>3. g[k] = step[g[k - 1]]
        BY <2>1, <4>1, <4>2 DEF Takes
      <4> QED BY <1>6, <3>2, <4>2, <4>3
    <3> QED BY <3>1, <3>2
  <2>3. g = [k \in 0..n |-> g[k]]
    OBVIOUS
  <2>4. Is(g)
    BY <1>2, <2>2, <2>3
  <2> HIDE DEF Is
  <2> QED BY <2>4
<1>11. Takes(h, n, S, first, step)
  <2>1. PICK f : f = h
    OBVIOUS
  <2>2. f = [turn \in 0..n |-> IF turn = 0 THEN [m |-> m, i |-> 0] ELSE Turn(f[turn - 1])]
    BY <1>2, <1>10, <2>1
  <2>3. f[0] = first
    BY <1>1, <1>2, <2>2
  <2>4. ASSUME NEW k \in 1..n, f[k - 1] \in S PROVE f[k] = step[f[k - 1]]
    <3>1. k \in 0..n /\ k # 0
      BY <1>2
    <3>2. f[k] = Turn(f[k - 1])
      BY <2>2, <3>1
    <3> QED BY <1>6, <2>4, <3>2
  <2>5. Takes(f, n, S, first, step)
    BY <2>3, <2>4 DEF Takes
  <2> QED BY <2>1, <2>5
<1>12. PICK w : w = h[n]
  OBVIOUS
<1>13. w \in S /\ Ahead(w) = 0
  <2>1. w \in S /\ left[w] = 0
    BY <1>9, <1>11, <1>12
  <2> QED BY <1>6, <2>1
<1>14. PICK l2, q : Owner(w.m, l2, O, B) /\ Rests(l2, w.i, q, l, F)
  BY <1>1, <1>13 DEF OneByOneStates
<1>15. w.i = Len(l2)
  <2>1. w.i \in Nat /\ w.m.a.Count = Len(l2) /\ Len(l2) \in Nat
    BY <1>14, OwnerFacts DEF Rests
  <2> QED BY <1>13, <2>1 DEF Ahead
<1>16. l2 = F[1]
  BY <1>2, <1>14, <1>15, WayEnds
<1> HIDE DEF h
<1> QED BY <1>2, <1>8, <1>12, <1>14, <1>16

LEMMA ReplacedAllKeeps ==
    ASSUME AL!ArrayLikeAssumption, NEW O, NEW B, Spare(O, B), NEW m, NEW l, Owner(m, l, O, B),
           NEW t \in Seq(Contents), NEW r \in Seq(Contents), t # << >>, NEW moves \in BOOLEAN
    PROVE  Owner(AL!ReplacedAll(m, t, r, moves), AL!AllReplaced(l, t, r), O, B)
<1>1. l \in Seq(Contents) /\ Len(l) \in Nat /\ m.a.Count = Len(l)
  BY OwnerFacts
<1>2. PICK F : ReplacesFrom(F, l, t, r) /\ AL!AllReplaced(l, t, r) = F[1]
  BY <1>1, AllReplacedIs
<1>3. CASE Len(l) = 0
  <2>1. F[1] = << >> /\ l = << >>
    BY <1>1, <1>2, <1>3 DEF ReplacesFrom
  <2> QED BY <1>1, <1>2, <1>3, <2>1 DEF AL!ReplacedAll
<1>4. CASE Len(l) # 0 /\ Len(t) = Len(r)
  <2>1. Owner(AL!ReplacedInPlace(m, t, r), F[1], O, B)
    BY <1>2, <1>4, ReplacedInPlaceKeeps
  <2> QED BY <1>1, <1>2, <1>4, <2>1 DEF AL!ReplacedAll
<1>5. CASE Len(l) # 0 /\ Len(t) # Len(r)
  <2>1. Owner(AL!ReplacedOneByOne(m, t, r, moves), F[1], O, B)
    BY <1>2, ReplacedOneByOneKeeps
  <2> QED BY <1>1, <1>2, <1>5, <2>1 DEF AL!ReplacedAll
<1> QED BY <1>3, <1>4, <1>5

LEMMA ReplaceEveryKeeps ==
    ASSUME AL!ArrayLikeAssumption, ArrayInv, NEW x \in Arrays,
           NEW t \in Seq(Contents), NEW r \in Seq(Contents), NEW moves \in BOOLEAN,
           AL!ReplaceEvery(x, t, r, moves)
    PROVE  ArrayInv'
<1>1. AL!Owns(x) /\ t # << >>
  BY DEF AL!ReplaceEvery
<1>2. PICK all, m : all = AL!AllReplaced(want[x], t, r) /\ m = AL!ReplacedAll(AL!Memory(x), t, r, moves)
  OBVIOUS
<1>3. AL!Becomes(x, m, all)
  BY <1>2 DEF AL!ReplaceEvery
<1>4. Owner(AL!Memory(x), want[x], Others(arr, x), blocks)
  BY <1>1, OwnedElements
<1>5. Spare(Others(arr, x), blocks)
  BY OthersFacts DEF ArrayInv
<1>6. Owner(m, all, Others(arr, x), blocks)
  BY <1>1, <1>2, <1>4, <1>5, ReplacedAllKeeps
<1>7. Whole(m, all, Others(arr, x), blocks)
  BY <1>6 DEF Owner
<1> QED BY <1>3, <1>7, BecomesKeeps

-----------------------------------------------------------------------------
(* What the runs check of the arrays.                                      *)

LEMMA ArrayInit == AL!Init => ArrayInv
<1> SUFFICES ASSUME AL!Init PROVE ArrayInv
  OBVIOUS
<1>1. /\ blocks = [b \in Blocks |-> << >>] /\ arr = [x \in Arrays |-> AL!NewArray]
      /\ want = [x \in Arrays |-> << >>]
  BY DEF AL!Init
<1>2. PICK new : new = AL!NewArray
  OBVIOUS
<1>3. new \in Refs /\ new.Count = 0 /\ new.Allocated = 0
  BY <1>2 DEF AL!NewArray, Refs
<1>4. \A x \in Arrays : arr[x].Count = 0 /\ arr[x].Allocated = 0
  BY <1>1, <1>2, <1>3
<1>5. Typed(blocks, arr, want)
  <2>1. << >> \in Seq(Contents)
    OBVIOUS
  <2>2. blocks \in Stores
    BY <1>1, <2>1 DEF Stores
  <2>3. arr \in [Arrays -> Refs]
    BY <1>1, <1>2, <1>3
  <2>4. want \in [Arrays -> Seq(Contents)]
    BY <1>1, <2>1, SMTT(30)
  <2> QED BY <1>4, <2>2, <2>3, <2>4 DEF Typed
<1>6. OneOwner(blocks, arr)
  BY <1>1, <1>4 DEF OneOwner
<1> QED BY <1>4, <1>5, <1>6 DEF ArrayInv, Kept

LEMMA ArrayKeeps == AL!ArrayLikeAssumption /\ ArrayInv /\ [AL!Next]_al => ArrayInv'
<1> SUFFICES ASSUME AL!ArrayLikeAssumption, ArrayInv, [AL!Next]_al PROVE ArrayInv'
  OBVIOUS
<1>1. CASE UNCHANGED al
  BY <1>1 DEF al, ArrayInv
<1>2. CASE AL!Next
  <2>1. PICK x \in Arrays :
          \/ \E i \in AL!Indices(x), s \in Given, moves \in BOOLEAN : AL!Insert(x, i, s, moves)
          \/ \E y \in Arrays : AL!AddArray(x, y)
          \/ \E n \in {-1, MaxCount[x]}, moves \in BOOLEAN : AL!Reserve(x, n, moves)
          \/ \E i \in AL!Indices(x) : AL!RemoveOrderedAt(x, i) \/ AL!RemoveUnorderedAt(x, i)
          \/ \E e \in Cells, ordered \in BOOLEAN : AL!RemoveElement(x, e, ordered)
          \/ \E i, j \in AL!Indices(x) : AL!RemoveRange(x, i, j)
          \/ \E i, j \in AL!Indices(x), s \in Given, moves \in BOOLEAN : AL!ReplaceRange(x, i, j, s, moves)
          \/ \E s, r \in Given, moves \in BOOLEAN : AL!ReplaceEvery(x, s, r, moves)
          \/ \E y \in Arrays, i, j \in AL!Indices(x) : AL!Slice(x, y, i, j)
          \/ \E y \in Arrays : AL!Clone(x, y)
          \/ AL!Free(x)
    BY <1>2 DEF AL!Next
  <2>2. MaxCount[x] \in Nat
    BY DEF AL!ArrayLikeAssumption
  <2>3. \A i \in AL!Indices(x) : i \in Int
    BY <2>2 DEF AL!Indices
  <2>4. \A s \in Given : s \in Seq(Contents)
    <3> SUFFICES ASSUME NEW s \in Given PROVE s \in Seq(Contents)
      OBVIOUS
    <3>1. s \in Seq(Cells) /\ Cells \subseteq Contents
      BY DEF AL!ArrayLikeAssumption, Contents
    <3> QED BY ONLY <3>1
  <2>5. ASSUME NEW i \in AL!Indices(x), NEW s \in Given, NEW moves \in BOOLEAN, AL!Insert(x, i, s, moves)
        PROVE  ArrayInv'
    <3>1. i \in Int /\ s \in Seq(Contents)
      BY <2>3, <2>4
    <3> QED BY <2>5, <3>1, InsertKeeps
  <2>6. ASSUME NEW y \in Arrays, AL!AddArray(x, y) PROVE ArrayInv'
    BY <2>6, AddArrayKeeps
  <2>7. ASSUME NEW n \in {-1, MaxCount[x]}, NEW moves \in BOOLEAN, AL!Reserve(x, n, moves)
        PROVE  ArrayInv'
    <3>1. n \in Int
      BY <2>2
    <3> QED BY <2>7, <3>1, ReserveArrayKeeps
  <2>8. ASSUME NEW i \in AL!Indices(x), AL!RemoveOrderedAt(x, i) PROVE ArrayInv'
    <3>1. i \in Int
      BY <2>3
    <3> QED BY <2>8, <3>1, RemoveOrderedAtKeeps
  <2>9. ASSUME NEW i \in AL!Indices(x), AL!RemoveUnorderedAt(x, i) PROVE ArrayInv'
    <3>1. i \in Int
      BY <2>3
    <3> QED BY <2>9, <3>1, RemoveUnorderedAtKeeps
  <2>10. ASSUME NEW e \in Cells, NEW ordered \in BOOLEAN, AL!RemoveElement(x, e, ordered) PROVE ArrayInv'
    BY <2>10, RemoveElementKeeps
  <2>11. ASSUME NEW i \in AL!Indices(x), NEW j \in AL!Indices(x), AL!RemoveRange(x, i, j) PROVE ArrayInv'
    <3>1. i \in Int /\ j \in Int
      BY <2>3
    <3> QED BY <2>11, <3>1, RemoveRangeKeeps
  <2>12. ASSUME NEW i \in AL!Indices(x), NEW j \in AL!Indices(x), NEW s \in Given, NEW moves \in BOOLEAN,
                AL!ReplaceRange(x, i, j, s, moves)
         PROVE  ArrayInv'
    <3>1. i \in Int /\ j \in Int /\ s \in Seq(Contents)
      BY <2>3, <2>4
    <3> QED BY <2>12, <3>1, ReplaceRangeKeeps
  <2>13. ASSUME NEW s \in Given, NEW r \in Given, NEW moves \in BOOLEAN, AL!ReplaceEvery(x, s, r, moves)
         PROVE  ArrayInv'
    <3>1. s \in Seq(Contents) /\ r \in Seq(Contents)
      BY <2>4
    <3> QED BY <2>13, <3>1, ReplaceEveryKeeps
  <2>14. ASSUME NEW y \in Arrays, NEW i \in AL!Indices(x), NEW j \in AL!Indices(x), AL!Slice(x, y, i, j)
         PROVE  ArrayInv'
    <3>1. i \in Int /\ j \in Int
      BY <2>3
    <3> QED BY <2>14, <3>1, SliceKeeps
  <2>15. ASSUME NEW y \in Arrays, AL!Clone(x, y) PROVE ArrayInv'
    BY <2>15, CloneArrayKeeps
  <2>16. CASE AL!Free(x)
    BY <2>16, FreeArrayKeeps
  <2> QED BY ONLY <2>1, <2>5, <2>6, <2>7, <2>8, <2>9, <2>10, <2>11, <2>12, <2>13, <2>14, <2>15, <2>16
<1> QED BY <1>1, <1>2

LEMMA ArrayInvHolds == ArrayInv => AL!ArraysHold
<1> SUFFICES ASSUME ArrayInv PROVE AL!ArraysHold
  OBVIOUS
<1>1. ASSUME NEW x \in Arrays, AL!Owns(x)
      PROVE  /\ arr[x].Allocated = Len(blocks[arr[x].Data])
             /\ arr[x].Count <= arr[x].Allocated /\ AL!Elements(arr[x]) = want[x]
  <2>1. AL!Elements(arr[x]) = want[x]
    BY <1>1, OwnedElements
  <2>2. IsOwner(blocks, arr[x], want[x])
    BY <1>1 DEF ArrayInv, Kept, AL!Owns
  <2> QED BY <2>1, <2>2 DEF IsOwner, OwnsAll, Memory
<1>2. /\ \A x, y \in Arrays : x # y /\ AL!Owns(x) /\ AL!Owns(y) => arr[x].Data # arr[y].Data
      /\ \A b \in Blocks : blocks[b] # << >> => \E x \in Arrays : AL!Owns(x) /\ arr[x].Data = b
  BY DEF ArrayInv, Kept, OneOwner, AL!Owns
<1> QED BY <1>1, <1>2 DEF AL!ArraysHold

LEMMA PrefixIs ==
    ASSUME NEW V, NEW a \in Seq(V), NEW b \in Seq(V)
    PROVE  AL!IsPrefix(a, b) <=> Len(a) <= Len(b) /\ \A k \in 1..Len(a) : a[k] = b[k]
<1>1. PICK n : n = Len(a)
  OBVIOUS
<1>2. n \in Nat /\ Len(b) \in Nat
  BY <1>1
<1>3. ASSUME n <= Len(b) PROVE SubSeq(a, 1, n) = SubSeq(b, 1, n) <=> \A k \in 1..n : a[k] = b[k]
  <2>1. PICK c, d : c = SubSeq(a, 1, n) /\ d = SubSeq(b, 1, n)
    OBVIOUS
  <2>2. n \in 0..Len(a) /\ n \in 0..Len(b)
    BY <1>1, <1>2, <1>3
  <2>3. c \in Seq(V) /\ Len(c) = n /\ \A k \in 1..n : c[k] = a[k]
    BY <2>1, <2>2, BeginningOf
  <2>4. d \in Seq(V) /\ Len(d) = n /\ \A k \in 1..n : d[k] = b[k]
    BY <2>1, <2>2, BeginningOf
  <2>5. (\A k \in 1..n : c[k] = d[k]) => c = d
    BY <2>3, <2>4, SeqEqual
  <2>6. (\A k \in 1..n : c[k] = d[k]) <=> (\A k \in 1..n : a[k] = b[k])
    BY <2>3, <2>4
  <2> QED BY <2>1, <2>5, <2>6
<1> QED BY <1>1, <1>3 DEF AL!IsPrefix

(* The first p elements of s and t are the same, and not one more.         *)
CommonTo(p, s, t) ==
    /\ p \in Nat /\ p <= Len(s) /\ p <= Len(t) /\ \A k \in 1..p : s[k] = t[k]
    /\ p < Len(s) /\ p < Len(t) => s[p + 1] # t[p + 1]

LEMMA LongestIs ==
    ASSUME NEW V, NEW s \in Seq(V), NEW t \in Seq(V), NEW p, CommonTo(p, s, t)
    PROVE  Len(AL!LongestCommonPrefix({s, t})) = p
<1>1. PICK C, c : C = AL!CommonPrefixes({s, t}) /\ c = SubSeq(s, 1, p)
  OBVIOUS
<1>2. /\ Len(s) \in Nat /\ Len(t) \in Nat /\ p \in Nat /\ p <= Len(s) /\ p <= Len(t)
      /\ \A k \in 1..p : s[k] = t[k]
      /\ p < Len(s) /\ p < Len(t) => s[p + 1] # t[p + 1]
  BY DEF CommonTo
<1>3. c \in Seq(V) /\ Len(c) = p /\ \A k \in 1..p : c[k] = s[k]
  <2>1. p \in 0..Len(s)
    BY <1>2
  <2> QED BY <1>1, <2>1, BeginningOf
<1>4. c \in C
  <2>1. c \in AL!Prefixes(s)
    BY <1>1, <1>2 DEF AL!Prefixes
  <2>2. AL!IsPrefix(c, s) /\ AL!IsPrefix(c, t)
    BY <1>2, <1>3, PrefixIs
  <2> QED BY <1>1, <2>1, <2>2 DEF AL!CommonPrefixes
<1>5. ASSUME NEW d \in C PROVE Len(d) \in Nat /\ Len(d) <= p
  <2>1. \E w \in {s, t} : d \in AL!Prefixes(w)
    BY <1>1 DEF AL!CommonPrefixes
  <2>2. AL!IsPrefix(d, s) /\ AL!IsPrefix(d, t)
    BY <1>1 DEF AL!CommonPrefixes
  <2>3. PICK w \in {s, t} : d \in AL!Prefixes(w)
    BY <2>1
  <2>4. w \in Seq(V)
    OBVIOUS
  <2>5. PICK n \in 0..Len(w) : d = SubSeq(w, 1, n)
    BY <2>3 DEF AL!Prefixes
  <2>6. d \in Seq(V)
    BY ONLY <2>4, n \in 0..Len(w), <2>5, BeginningOf
  <2>7. Len(d) <= Len(s) /\ \A k \in 1..Len(d) : d[k] = s[k]
    BY <2>2, <2>6, PrefixIs
  <2>8. Len(d) <= Len(t) /\ \A k \in 1..Len(d) : d[k] = t[k]
    BY <2>2, <2>6, PrefixIs
  <2>9. Len(d) \in Nat
    BY <2>6
  <2>10. ASSUME Len(d) > p PROVE FALSE
    <3>1. p + 1 \in 1..Len(d) /\ p < Len(s) /\ p < Len(t)
      BY <1>2, <2>7, <2>8, <2>9, <2>10
    <3>2. s[p + 1] = t[p + 1]
      BY <2>7, <2>8, <3>1
    <3> QED BY <1>2, <3>1, <3>2
  <2> QED BY <1>2, <2>9, <2>10
<1>6. PICK g : g = AL!LongestCommonPrefix({s, t})
  OBVIOUS
<1>7. g \in C /\ \A d \in C : Len(d) <= Len(g)
  <2>1. \E e \in C : \A d \in C : Len(d) <= Len(e)
    BY <1>3, <1>4, <1>5
  <2>2. g = CHOOSE e \in C : \A d \in C : Len(d) <= Len(e)
    BY <1>1, <1>6 DEF AL!LongestCommonPrefix
  <2> QED BY <2>1, <2>2
<1>8. Len(g) \in Nat /\ Len(g) <= p
  BY <1>5, <1>7
<1>9. p <= Len(g)
  BY <1>3, <1>4, <1>7
<1>10. Len(g) = p
  BY ONLY <1>2, <1>8, <1>9
<1> QED BY <1>6, <1>10

LEMMA ProgressCommon ==
    ASSUME NEW V, NEW s \in Seq(V), NEW t \in Seq(V)
    PROVE  CommonTo(AL!Progress(s, 0, t), s, t)
<1>1. Len(s) \in Nat /\ Len(t) \in Nat
  OBVIOUS
<1>2. PICK p, z : p = AL!Progress(s, z, t) /\ z = 0
  OBVIOUS
<1>3. Agrees(p, s, z, t)
  BY <1>1, <1>2, ProgressIs
<1>4. /\ p \in 0..Len(t) /\ \A k \in 1..p : z + k <= Len(s) /\ s[z + k] = t[k]
      /\ p < Len(t) /\ z + p < Len(s) => s[z + p + 1] # t[p + 1]
  BY <1>3 DEF Agrees
<1>5. p \in Nat /\ p <= Len(t) /\ z + p = p
  BY <1>1, <1>2, <1>4
<1>6. \A k \in 1..p : k <= Len(s) /\ s[k] = t[k]
  <2> SUFFICES ASSUME NEW k \in 1..p PROVE k <= Len(s) /\ s[k] = t[k]
    OBVIOUS
  <2>1. z + k = k
    BY <1>2, <1>5
  <2> QED BY <1>4, <2>1
<1>7. p <= Len(s)
  BY <1>1, <1>5, <1>6
<1> QED BY <1>2, <1>4, <1>5, <1>6, <1>7 DEF CommonTo

LEMMA CommonEqual ==
    ASSUME NEW V, NEW s \in Seq(V), NEW t \in Seq(V), NEW p, CommonTo(p, s, t)
    PROVE  /\ s = t <=> p = Len(s) /\ p = Len(t)
           /\ AL!IsPrefix(s, t) <=> p = Len(s)
           /\ AL!IsPrefix(t, s) <=> p = Len(t)
<1>1. /\ Len(s) \in Nat /\ Len(t) \in Nat /\ p \in Nat /\ p <= Len(s) /\ p <= Len(t)
      /\ \A k \in 1..p : s[k] = t[k]
      /\ p < Len(s) /\ p < Len(t) => s[p + 1] # t[p + 1]
  BY DEF CommonTo
<1>2. AL!IsPrefix(s, t) <=> p = Len(s)
  <2>1. ASSUME p = Len(s) PROVE AL!IsPrefix(s, t)
    BY <1>1, <2>1, PrefixIs
  <2>2. ASSUME AL!IsPrefix(s, t), p # Len(s) PROVE FALSE
    <3>1. Len(s) <= Len(t) /\ \A k \in 1..Len(s) : s[k] = t[k]
      BY <2>2, PrefixIs
    <3>2. p < Len(s) /\ p < Len(t) /\ p + 1 \in 1..Len(s)
      BY <1>1, <2>2, <3>1
    <3> QED BY <1>1, <3>1, <3>2
  <2> QED BY <2>1, <2>2
<1>3. AL!IsPrefix(t, s) <=> p = Len(t)
  <2>1. ASSUME p = Len(t) PROVE AL!IsPrefix(t, s)
    BY <1>1, <2>1, PrefixIs
  <2>2. ASSUME AL!IsPrefix(t, s), p # Len(t) PROVE FALSE
    <3>1. Len(t) <= Len(s) /\ \A k \in 1..Len(t) : t[k] = s[k]
      BY <2>2, PrefixIs
    <3>2. p < Len(s) /\ p < Len(t) /\ p + 1 \in 1..Len(t)
      BY <1>1, <2>2, <3>1
    <3> QED BY <1>1, <3>1, <3>2
  <2> QED BY <2>1, <2>2
<1>4. ASSUME p = Len(s), p = Len(t) PROVE s = t
  BY <1>1, <1>4, SeqEqual
<1>5. ASSUME s = t PROVE p = Len(s) /\ p = Len(t)
  BY <1>1, <1>5
<1> QED BY <1>2, <1>3, <1>4, <1>5

LEMMA LeastIs ==
    ASSUME NEW S, NEW r \in S, S \subseteq Int, \A j \in S : r <= j
    PROVE  AL!Min(S) = r
<1>1. PICK p : p = AL!Min(S)
  OBVIOUS
<1>2. p \in S /\ \A j \in S : p <= j
  <2>1. p = CHOOSE i \in S : \A j \in S : i <= j
    BY <1>1 DEF AL!Min
  <2> QED BY <2>1
<1>3. p \in Int /\ r \in Int /\ p <= r /\ r <= p
  BY <1>2
<1>4. p = r
  BY ONLY <1>3
<1> QED BY <1>1, <1>4

LEMMA GreatestIs ==
    ASSUME NEW S, NEW r \in S, S \subseteq Int, \A j \in S : j <= r
    PROVE  AL!Max(S) = r
<1>1. PICK p : p = AL!Max(S)
  OBVIOUS
<1>2. p \in S /\ \A j \in S : p >= j
  <2>1. p = CHOOSE i \in S : \A j \in S : i >= j
    BY <1>1 DEF AL!Max
  <2>2. \E i \in S : \A j \in S : i >= j
    <3>1. \A j \in S : r >= j
      <4> SUFFICES ASSUME NEW j \in S PROVE r >= j
        OBVIOUS
      <4>1. j \in Int /\ r \in Int /\ j <= r
        OBVIOUS
      <4> QED BY ONLY <4>1
    <3> QED BY <3>1
  <2> QED BY <2>1, <2>2
<1>3. p \in Int /\ r \in Int /\ p >= r /\ p <= r
  BY <1>2
<1> QED BY <1>1, <1>3

Matches(s, t) == {i \in 0..(Len(s) - Len(t)) : SubSeq(s, i + 1, i + Len(t)) = t}

LEMMA MatchesAre ==
    ASSUME NEW V, NEW s \in Seq(V), NEW t \in Seq(V), NEW i
    PROVE  i \in Matches(s, t) <=> i \in Nat /\ Occurs(s, i, t)
<1>1. PICK n, L : n = Len(t) /\ L = Len(s)
  OBVIOUS
<1>2. n \in Nat /\ L \in Nat
  BY <1>1
<1>3. i \in 0..(L - n) <=> i \in Nat /\ i + n <= L
  BY <1>2
<1>4. ASSUME i \in Nat, i + n <= L
      PROVE  SubSeq(s, i + 1, i + n) = t <=> \A k \in 1..n : s[i + k] = t[k]
  <2>1. PICK w : w = SubSeq(s, i + 1, i + n)
    OBVIOUS
  <2>2. w \in Seq(V) /\ Len(w) = n /\ \A k \in 1..n : w[k] = s[i + k]
    BY <1>1, <1>2, <1>4, <2>1, PartOf
  <2>3. (\A k \in 1..n : w[k] = t[k]) => w = t
    BY <1>1, <2>2, SeqEqual
  <2>4. (\A k \in 1..n : w[k] = t[k]) <=> (\A k \in 1..n : s[i + k] = t[k])
    BY <2>2
  <2> QED BY <2>1, <2>3, <2>4
<1>5. i \in Matches(s, t) <=> i \in 0..(L - n) /\ SubSeq(s, i + 1, i + n) = t
  BY <1>1 DEF Matches
<1>6. Occurs(s, i, t) <=> i + n <= L /\ \A k \in 1..n : s[i + k] = t[k]
  BY <1>1 DEF Occurs
<1> QED BY <1>3, <1>4, <1>5, <1>6

(* What the searches of s for t find.                                      *)
FindsUp(s, t, i) ==
    LET after == {j \in Matches(s, t) : j >= i}
    IN  AL!Search(s, t, i, FALSE) = IF after = {} THEN -1 ELSE AL!Min(after)
FindsDown(s, t, i) == AL!Search(s, t, i, TRUE) = AL!Max({j \in Matches(s, t) : j <= i} \cup {-1})

LEMMA SearchUpAgrees ==
    ASSUME NEW V, NEW s \in Seq(V), NEW t \in Seq(V), t # << >>, NEW i \in 0..(Len(s) - 1)
    PROVE  FindsUp(s, t, i)
<1>1. PICK r, S : r = AL!Search(s, t, i, FALSE) /\ S = {j \in Matches(s, t) : j >= i}
  OBVIOUS
<1>2. IsFirst(r, s, i, t)
  BY <1>1, SearchFirst
<1>3. Len(s) \in Nat /\ Len(t) \in Nat /\ Len(t) > 0 /\ i \in Nat
  OBVIOUS
<1>4. ASSUME NEW j \in S PROVE j \in i..(Len(s) - 1) /\ Occurs(s, j, t)
  <2>1. j \in Nat /\ Occurs(s, j, t) /\ j >= i
    BY <1>1, MatchesAre
  <2>2. j + Len(t) <= Len(s)
    BY <2>1 DEF Occurs
  <2> QED BY <1>3, <2>1, <2>2
<1>5. CASE r = -1
  <2>1. \A j \in i..(Len(s) - 1) : ~Occurs(s, j, t)
    BY <1>2, <1>3, <1>5 DEF IsFirst
  <2>2. S = {}
    BY <1>4, <2>1
  <2> QED BY <1>1, <1>5, <2>2 DEF FindsUp
<1>6. CASE r # -1
  <2>1. r \in i..(Len(s) - 1) /\ Occurs(s, r, t) /\ \A j \in i..(r - 1) : ~Occurs(s, j, t)
    BY <1>2, <1>6 DEF IsFirst
  <2>2. r \in Nat /\ r >= i
    BY <1>3, <2>1
  <2>3. r \in S
    BY <1>1, <2>1, <2>2, MatchesAre
  <2>4. ASSUME NEW j \in S PROVE r <= j
    <3>1. j \in i..(Len(s) - 1) /\ j \notin i..(r - 1)
      BY <1>4, <2>1
    <3> QED BY <1>3, <2>2, <3>1
  <2>5. S \subseteq Int
    BY <1>4
  <2>6. AL!Min(S) = r
    <3>1. \A j \in S : r <= j
      BY <2>4
    <3> QED BY ONLY <2>3, <2>5, <3>1, LeastIs
  <2> QED BY <1>1, <2>3, <2>6 DEF FindsUp
<1> QED BY <1>5, <1>6

LEMMA SearchDownAgrees ==
    ASSUME NEW V, NEW s \in Seq(V), NEW t \in Seq(V), t # << >>, NEW i \in 0..(Len(s) - 1)
    PROVE  FindsDown(s, t, i)
<1>1. PICK r, S : r = AL!Search(s, t, i, TRUE) /\ S = {j \in Matches(s, t) : j <= i} \cup {-1}
  OBVIOUS
<1>2. IsLast(r, s, i, t)
  BY <1>1, SearchLast
<1>3. Len(s) \in Nat /\ i \in Nat
  OBVIOUS
<1>4. ASSUME NEW j \in S PROVE j = -1 \/ (j \in 0..i /\ Occurs(s, j, t))
  <2>1. j = -1 \/ (j \in Nat /\ Occurs(s, j, t) /\ j <= i)
    BY <1>1, MatchesAre
  <2> QED BY <1>3, <2>1
<1>5. S \subseteq Int /\ -1 \in S
  BY <1>1, <1>4
<1>6. r \in S /\ \A j \in S : j <= r
  <2>1. CASE r = -1
    <3>1. \A j \in 0..i : ~Occurs(s, j, t)
      BY <1>2, <1>3, <2>1 DEF IsLast
    <3>2. \A j \in S : j = -1
      BY <1>4, <3>1
    <3> QED BY <1>5, <2>1, <3>2
  <2>2. CASE r # -1
    <3>1. r \in 0..i /\ Occurs(s, r, t) /\ \A j \in (r + 1)..i : ~Occurs(s, j, t)
      BY <1>2, <2>2 DEF IsLast
    <3>2. r \in Matches(s, t) /\ r <= i
      <4>1. r \in Nat /\ r <= i
        BY <1>3, <3>1
      <4>2. s \in Seq(V) /\ t \in Seq(V)
        OBVIOUS
      <4>3. r \in Matches(s, t) <=> r \in Nat /\ Occurs(s, r, t)
        BY ONLY <4>2, MatchesAre
      <4> QED BY <3>1, <4>1, <4>3
    <3>3. ASSUME NEW j \in S PROVE j <= r
      <4>1. j = -1 \/ (j \in 0..i /\ j \notin (r + 1)..i)
        BY <1>4, <3>1
      <4> QED BY <1>3, <3>1, <4>1
    <3> QED BY <1>1, <3>2, <3>3
  <2> QED BY <2>1, <2>2
<1>7. AL!Max(S) = r
  BY <1>5, <1>6, GreatestIs
<1> QED BY <1>1, <1>7 DEF FindsDown

Shared(s, t) == Len(AL!LongestCommonPrefix({s, t}))
NumberOrder(s, t) == AL!CompareLexicographically(s, t, <)

(* Both comparisons go by the first elements that are the same.            *)
LEMMA CompareGoesBy ==
    ASSUME NEW V, NEW s \in Seq(V), NEW t \in Seq(V)
    PROVE  \E p : /\ CommonTo(p, s, t)
                  /\ AL!Compare(s, t) = IF p = Len(s) /\ p = Len(t) THEN -1 ELSE p
                  /\ NumberOrder(s, t) = IF p = Len(s) THEN IF p = Len(t) THEN 0 ELSE -1
                                         ELSE IF p = Len(t) THEN 1
                                         ELSE IF s[p + 1] < t[p + 1] THEN -1 ELSE 1
<1>1. Len(s) \in Nat /\ Len(t) \in Nat /\ (s = << >> <=> Len(s) = 0) /\ (t = << >> <=> Len(t) = 0)
  OBVIOUS
<1>2. CASE s = << >> \/ t = << >>
  <2>1. CommonTo(0, s, t)
    BY <1>1, <1>2 DEF CommonTo
  <2>2. AL!Compare(s, t) = IF 0 = Len(s) /\ 0 = Len(t) THEN -1 ELSE 0
    BY <1>1, <1>2 DEF AL!Compare
  <2>3. NumberOrder(s, t) = IF 0 = Len(s) THEN IF 0 = Len(t) THEN 0 ELSE -1
                            ELSE IF 0 = Len(t) THEN 1
                            ELSE IF s[0 + 1] < t[0 + 1] THEN -1 ELSE 1
    BY <1>1, <1>2 DEF NumberOrder, AL!CompareLexicographically
  <2> QED BY <2>1, <2>2, <2>3
<1>3. CASE s # << >> /\ t # << >>
  <2>1. PICK p : p = AL!Progress(s, 0, t)
    OBVIOUS
  <2>2. CommonTo(p, s, t)
    BY <2>1, ProgressCommon
  <2>3. AL!Compare(s, t) = IF p = Len(s) /\ p = Len(t) THEN -1 ELSE p
    BY <1>3, <2>1 DEF AL!Compare
  <2>4. NumberOrder(s, t) = IF p = Len(s) THEN IF p = Len(t) THEN 0 ELSE -1
                            ELSE IF p = Len(t) THEN 1
                            ELSE IF s[p + 1] < t[p + 1] THEN -1 ELSE 1
    <3>1. NumberOrder(s, t) = CASE p = Len(s) /\ p = Len(t) -> 0
                                [] p = Len(s) /\ p # Len(t) -> -1
                                [] p # Len(s) /\ p = Len(t) -> 1
                                [] OTHER -> IF s[p + 1] < t[p + 1] THEN -1 ELSE 1
      BY <1>3, <2>1 DEF NumberOrder, AL!CompareLexicographically
    <3>2. CASE p = Len(s) /\ p = Len(t)
      BY <3>1, <3>2
    <3>3. CASE p = Len(s) /\ p # Len(t)
      BY <3>1, <3>3
    <3>4. CASE p # Len(s) /\ p = Len(t)
      BY <3>1, <3>4
    <3>5. CASE p # Len(s) /\ p # Len(t)
      BY <3>1, <3>5
    <3> QED BY <3>2, <3>3, <3>4, <3>5
  <2> QED BY <2>2, <2>3, <2>4
<1> QED BY <1>2, <1>3

OrderAgrees(s, t, k) ==
    NumberOrder(s, t) = CASE s = t -> 0
                          [] AL!IsStrictPrefix(s, t) -> -1
                          [] AL!IsStrictPrefix(t, s) -> 1
                          [] OTHER -> IF s[k + 1] < t[k + 1] THEN -1 ELSE 1

LEMMA ComparisonsAgree ==
    ASSUME NEW V, NEW s \in Seq(V), NEW t \in Seq(V), NEW k, k = Shared(s, t)
    PROVE  AL!Compare(s, t) = (IF s = t THEN -1 ELSE k) /\ OrderAgrees(s, t, k)
<1>1. PICK p, L, n : L = Len(s) /\ n = Len(t)
             /\ CommonTo(p, s, t)
             /\ AL!Compare(s, t) = (IF p = L /\ p = n THEN -1 ELSE p)
             /\ NumberOrder(s, t) = IF p = L THEN IF p = n THEN 0 ELSE -1
                                    ELSE IF p = n THEN 1
                                    ELSE IF s[p + 1] < t[p + 1] THEN -1 ELSE 1
  BY CompareGoesBy
<1>2. k = p
  BY <1>1, LongestIs DEF Shared
<1>3. /\ s = t <=> p = L /\ p = n
      /\ AL!IsPrefix(s, t) <=> p = L
      /\ AL!IsPrefix(t, s) <=> p = n
  BY <1>1, CommonEqual
<1>4. /\ AL!IsStrictPrefix(s, t) <=> p = L /\ p # n
      /\ AL!IsStrictPrefix(t, s) <=> p = n /\ p # L
  <2>1. /\ AL!IsStrictPrefix(s, t) <=> AL!IsPrefix(s, t) /\ s # t
        /\ AL!IsStrictPrefix(t, s) <=> AL!IsPrefix(t, s) /\ t # s
    BY DEF AL!IsStrictPrefix
  <2> QED BY <1>3, <2>1
<1>5. AL!Compare(s, t) = IF s = t THEN -1 ELSE k
  BY <1>1, <1>2, <1>3
<1>6. OrderAgrees(s, t, k)
  <2>1. CASE p = L /\ p = n
    <3>1. s = t /\ NumberOrder(s, t) = 0
      BY <1>1, <1>3, <2>1
    <3> QED BY <1>3, <1>4, <2>1, <3>1 DEF OrderAgrees
  <2>2. CASE p = L /\ p # n
    <3>1. s # t /\ AL!IsStrictPrefix(s, t) /\ ~AL!IsStrictPrefix(t, s) /\ NumberOrder(s, t) = -1
      BY <1>1, <1>3, <1>4, <2>2
    <3> QED BY <3>1 DEF OrderAgrees
  <2>3. CASE p # L /\ p = n
    <3>1. s # t /\ ~AL!IsStrictPrefix(s, t) /\ AL!IsStrictPrefix(t, s) /\ NumberOrder(s, t) = 1
      BY <1>1, <1>3, <1>4, <2>3
    <3> QED BY <3>1 DEF OrderAgrees
  <2>4. CASE p # L /\ p # n
    <3>1. /\ s # t /\ ~AL!IsStrictPrefix(s, t) /\ ~AL!IsStrictPrefix(t, s)
          /\ NumberOrder(s, t) = IF s[k + 1] < t[k + 1] THEN -1 ELSE 1
      BY <1>1, <1>2, <1>3, <1>4, <2>4
    <3> QED BY <3>1 DEF OrderAgrees
  <2> QED BY <2>1, <2>2, <2>3, <2>4
<1> QED BY <1>5, <1>6

LEMMA SearchesAgreeHolds == ArrayInv => AL!SearchesAgree
<1> SUFFICES ASSUME ArrayInv PROVE AL!SearchesAgree
  OBVIOUS
<1>1. ASSUME NEW x \in Arrays, NEW y \in Arrays, AL!Owns(x), AL!Owns(y)
      PROVE  /\ \A i \in 0..(Len(want[x]) - 1) : want[y] # << >> =>
                   FindsUp(want[x], want[y], i) /\ FindsDown(want[x], want[y], i)
             /\ AL!Compare(want[x], want[y]) =
                   IF want[x] = want[y] THEN -1 ELSE Shared(want[x], want[y])
             /\ OrderAgrees(want[x], want[y], Shared(want[x], want[y]))
  <2>1. PICK s, t, k : s = want[x] /\ t = want[y] /\ k = Shared(s, t)
    OBVIOUS
  <2>2. s \in Seq(Contents) /\ t \in Seq(Contents)
    BY <1>1, <2>1, OwnedElements
  <2>3. ASSUME NEW i \in 0..(Len(s) - 1), t # << >> PROVE FindsUp(s, t, i) /\ FindsDown(s, t, i)
    <3>a. s \in Seq(Contents) /\ t \in Seq(Contents) /\ i \in 0..(Len(s) - 1)
      BY <2>2
    <3>b. t # << >>
      BY <2>3
    <3>1. FindsUp(s, t, i)
      BY ONLY <3>a, <3>b, SearchUpAgrees
    <3>2. FindsDown(s, t, i)
      BY ONLY <3>a, <3>b, SearchDownAgrees
    <3> QED BY <3>1, <3>2
  <2>4. AL!Compare(s, t) = (IF s = t THEN -1 ELSE k) /\ OrderAgrees(s, t, k)
    BY <2>1, <2>2, ComparisonsAgree
  <2> QED BY <2>1, <2>3, <2>4
<1>2. AL!SearchesAgree <=>
        \A x, y \in {z \in Arrays : AL!Owns(z)} :
            /\ \A i \in 0..(Len(want[x]) - 1) : want[y] # << >> =>
                  FindsUp(want[x], want[y], i) /\ FindsDown(want[x], want[y], i)
            /\ AL!Compare(want[x], want[y]) =
                  IF want[x] = want[y] THEN -1 ELSE Shared(want[x], want[y])
            /\ OrderAgrees(want[x], want[y], Shared(want[x], want[y]))
  BY DEF AL!SearchesAgree, FindsUp, FindsDown, Shared, OrderAgrees, NumberOrder, Matches
<1> QED BY <1>1, <1>2

-----------------------------------------------------------------------------
(* Beside the other containers.                                            *)
everything == <<part, vars, ht, al, xa, ll, qs, vr>>

LEMMA ArrayPart == AllSpec => []ArrayInv
<1> USE ContainersAssumption
<1>1. AllInit => AL!Init
  BY DEF AllInit
<1>2. AllInit => ArrayInv
  BY <1>1, ArrayInit
<1>3. [AllNext]_everything => [AL!Next]_al
  BY DEF AllNext, everything
<1>4. ArrayInv /\ [AllNext]_everything => ArrayInv'
  BY <1>3, ArrayKeeps
<1> QED BY <1>2, <1>4, PTL DEF AllSpec, everything

(* Beside the other containers too an array holds what its own operations  *)
(* made, whatever is done with views on it and when growth moves it; a     *)
(* block belongs to one array and is freed with it; and search, compare and*)
(* compare_lexicographically find the first or last occurrence and the     *)
(* first difference (array.h, array_like.h).                               *)
THEOREM ArraysHoldInAll == AllSpec => []ArraysHold
<1>1. ArrayInv => ArraysHold
  BY ArrayInvHolds, SearchesAgreeHolds DEF ArraysHold
<1> QED BY <1>1, ArrayPart, PTL

=============================================================================
