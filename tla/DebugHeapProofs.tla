--------------------------- MODULE DebugHeapProofs ---------------------------
(***************************************************************************)
(* For every number of threads and allocators, every layout and every      *)
(* placement the allocators may choose: the debug heap's list agrees with  *)
(* the heap, no fill of the heap tears a live block, and none of its       *)
(* corruption checks fires.                                                *)
(***************************************************************************)
EXTENDS DebugHeap, TLAPS

-----------------------------------------------------------------------------
(* The layout of a block: how much padding the two functions of memory.h   *)
(* add, for every address and every alignment.                             *)

LEMMA DivMod ==
    ASSUME NEW x \in Int, NEW a \in Nat, a > 0
    PROVE  /\ x % a \in 0 .. a - 1
           /\ x \div a \in Int
           /\ x = a * (x \div a) + (x % a)
  BY Z3

LEMMA DivModPick ==
    ASSUME NEW x \in Int, NEW a \in Nat, a > 0
    PROVE  \E q \in Int, r \in 0 .. a - 1 :
              x \div a = q /\ x % a = r /\ x = a * q + r
<1> WITNESS x \div a \in Int, x % a \in 0 .. a - 1
<1> QED BY DivMod

LEMMA AlignmentsPositive == \A a \in Alignments : a \in Nat /\ a > 0 /\ a <= MaxAlignment
  BY DEF Alignments, MaxAlignment

LEMMA U16Small == ASSUME NEW x \in Nat, x < 65536 PROVE U16(x) = x
  BY DEF U16

LEMMA PaddingBelowAlignment ==
    ASSUME NEW at \in Nat, NEW a \in Nat, a > 0, a <= MaxAlignment
    PROVE  CalculatePadding(at, a) \in 0 .. a - 1
<1>2. (a - (at % a)) % a \in 0 .. a - 1
  BY DivMod
<1>3. QED
  BY <1>2, U16Small DEF CalculatePadding, MaxAlignment

LEMMA RoundedUp ==
    ASSUME NEW hdr \in Nat, hdr <= MaxAlignment, NEW p \in Nat,
           NEW a \in Nat, a > 0, a <= MaxAlignment, p < a, p < hdr,
           NEW need \in Int, need = hdr - p
    PROVE  \E k \in Int :
              /\ (IF need % a # 0 THEN U16(p + a * (1 + need \div a))
                                  ELSE U16(p + a * (need \div a))) = p + a * k
              /\ p + a * k >= hdr /\ p + a * k < hdr + a
<1>1. PICK q \in Int, r \in 0 .. a - 1 :
         need \div a = q /\ need % a = r /\ need = a * q + r
  BY DivModPick
<1>2. a * (1 + q) = a + a * q /\ a * q \in Int
  OBVIOUS
<1>3. CASE r # 0
  <2>1. p + a * (1 + q) = hdr + (a - r)
    BY <1>1, <1>2
  <2>2. hdr + (a - r) \in Nat /\ hdr + (a - r) < 65536
    BY <1>1, <1>3 DEF MaxAlignment
  <2>3. U16(hdr + (a - r)) = hdr + (a - r)
    BY <2>2, U16Small
  <2> WITNESS 1 + q \in Int
  <2>4. QED
    BY <1>1, <1>3, <2>1, <2>3
<1>4. CASE r = 0
  <2>1. p + a * q = hdr
    BY <1>1, <1>2, <1>4
  <2>2. U16(hdr) = hdr
    BY U16Small DEF MaxAlignment
  <2> WITNESS q \in Int
  <2>3. QED
    BY <1>1, <1>4, <2>1, <2>2
<1>5. QED
  BY <1>3, <1>4

(* calculate_padding_for_pointer_with_header adds whole alignments to the  *)
(* plain padding until the header fits, and no more than it must; the u16  *)
(* it is kept in never wraps.                                              *)
LEMMA PaddingWithHeader ==
    ASSUME NEW at \in Nat, NEW a \in Nat, a > 0, a <= MaxAlignment
    PROVE  \E k \in Int :
              /\ CalculatePaddingWithHeader(at, a) = CalculatePadding(at, a) + a * k
              /\ CalculatePaddingWithHeader(at, a) >= HDR
              /\ CalculatePaddingWithHeader(at, a) < HDR + a
<1>1. PICK hdr \in Nat : hdr = HDR /\ hdr > 0 /\ hdr <= MaxAlignment
  BY LayoutAssumption
<1>2. PICK p \in Nat : p = CalculatePadding(at, a) /\ p < a
  BY PaddingBelowAlignment
<1>3. CASE p >= hdr
  <2>1. CalculatePaddingWithHeader(at, a) = p
    BY <1>1, <1>2, <1>3 DEF CalculatePaddingWithHeader
  <2> WITNESS 0 \in Int
  <2>2. QED
    BY <1>1, <1>2, <1>3, <2>1
<1>4. CASE ~(p >= hdr)
  <2>1. PICK need \in Int : need = hdr - p /\ p < hdr
    BY <1>4
  <2>2. PICK k \in Int :
           /\ (IF need % a # 0 THEN U16(p + a * (1 + need \div a))
                               ELSE U16(p + a * (need \div a))) = p + a * k
           /\ p + a * k >= hdr /\ p + a * k < hdr + a
    BY <1>1, <1>2, <2>1, RoundedUp, Zenon
  <2>3. CalculatePaddingWithHeader(at, a) =
           IF need % a # 0 THEN U16(p + a * (1 + need \div a))
                           ELSE U16(p + a * (need \div a))
    BY <1>1, <1>2, <1>4, <2>1 DEF CalculatePaddingWithHeader
  <2> WITNESS k \in Int
  <2>4. QED
    BY <1>1, <1>2, <2>2, <2>3
<1>5. QED
  BY <1>3, <1>4

LEMMA AlignmentPaddingBounded ==
    ASSUME NEW at \in Nat, NEW a \in Nat, a > 0, a <= MaxAlignment
    PROVE  AlignmentPadding(at, a) \in 0 .. a - 1
<1>1. PICK hdr \in Nat : hdr = HDR
  BY LayoutAssumption
<1>2. PICK p \in Nat : p = CalculatePadding(at, a) /\ p < a
  BY PaddingBelowAlignment
<1>3. PICK k \in Int : /\ CalculatePaddingWithHeader(at, a) = CalculatePadding(at, a) + a * k
                       /\ CalculatePaddingWithHeader(at, a) >= HDR
                       /\ CalculatePaddingWithHeader(at, a) < HDR + a
  BY PaddingWithHeader, Zenon
<1>4. p + a * k \in Int
  OBVIOUS
<1>5. QED
  BY <1>1, <1>2, <1>3, <1>4 DEF AlignmentPadding

LEMMA MultipleMod ==
    ASSUME NEW a \in Nat, a > 0, NEW k \in Int
    PROVE  (a * k) % a = 0
<1>1. PICK q \in Int, r \in 0 .. a - 1 :
         (a * k) \div a = q /\ (a * k) % a = r /\ a * k = a * q + r
  BY DivModPick
<1>2. r = a * (k - q)
  BY <1>1
<1>3. k - q = 0
  <2>1. CASE k - q >= 1
    <3>1. a * (k - q) >= a
      BY <2>1
    <3>2. QED
      BY <1>2, <3>1
  <2>2. CASE k - q <= -1
    <3>1. a * (k - q) <= -a
      BY <2>2
    <3>2. QED
      BY <1>2, <3>1
  <2>3. QED
    BY <2>1, <2>2
<1>4. QED
  BY <1>1, <1>2, <1>3

LEMMA UserAligned ==
    ASSUME NEW at \in Nat, NEW a \in Nat, a > 0, a <= MaxAlignment
    PROVE  (at + CalculatePaddingWithHeader(at, a)) % a = 0
<1>1. PICK m \in Int, s \in 0 .. a - 1 :
         at \div a = m /\ at % a = s /\ at = a * m + s
  BY DivModPick
<1>2. PICK p \in Nat, j \in Int : p = CalculatePadding(at, a) /\ p < a /\ at + p = a * j
  <2>1. CASE s = 0
    <3>1. PICK q \in Int, r \in 0 .. a - 1 : a \div a = q /\ a % a = r /\ a = a * q + r
      BY DivModPick
    <3>2. (a * 1) % a = 0
      BY MultipleMod
    <3>3. CalculatePadding(at, a) = 0
      BY <1>1, <2>1, <3>2, U16Small DEF CalculatePadding, MaxAlignment
    <3>4. QED
      BY <1>1, <2>1, <3>3
  <2>2. CASE s # 0
    <3>1. (a - s) % a = a - s
      BY <2>2
    <3>2. CalculatePadding(at, a) = a - s
      BY <1>1, <2>2, <3>1, U16Small DEF CalculatePadding, MaxAlignment
    <3>3. a * (m + 1) = a * m + a
      OBVIOUS
    <3>4. at + (a - s) = a * (m + 1)
      BY <1>1, <3>3
    <3>5. a - s \in Nat /\ m + 1 \in Int /\ a - s < a
      BY <2>2
    <3> WITNESS a - s \in Nat, m + 1 \in Int
    <3>6. QED
      BY <3>2, <3>4, <3>5
  <2>3. QED
    BY <2>1, <2>2
<1>3. PICK k \in Int :
         CalculatePaddingWithHeader(at, a) = CalculatePadding(at, a) + a * k
  BY PaddingWithHeader, Zenon
<1>4. a * (j + k) = a * j + a * k
  OBVIOUS
<1>5. at + CalculatePaddingWithHeader(at, a) = a * (j + k)
  BY <1>2, <1>3, <1>4
<1>6. (a * (j + k)) % a = 0
  BY MultipleMod
<1>7. QED
  BY <1>5, <1>6

-----------------------------------------------------------------------------
(* The memory of the block with header h, of any heap L.                   *)
Lo(L, h) == h - L[h].pad
Hi(L, h) == Lo(L, h) + Required(L[h].size, L[h].align)

GoodBlock(h, b) ==
    /\ h \in Nat
    /\ b.size \in Nat
    /\ b.align \in Nat /\ b.align > 0 /\ b.align <= MaxAlignment
    /\ b.pad \in Nat /\ b.pad < b.align
    /\ (h + HDR) % b.align = 0

Apart(L, h, k) == Hi(L, h) <= Lo(L, k) \/ Hi(L, k) <= Lo(L, h)

GoodHeap(L) == /\ \A h \in DOMAIN L : GoodBlock(h, L[h])
               /\ \A h, k \in DOMAIN L : h # k => Apart(L, h, k)

GoodNodes == DOMAIN nodes = Threads

(* A thread only takes blocks from the allocators it works with.           *)
Owners(L) == \A h \in DOMAIN L : L[h].by \in Threads /\ L[h].alloc \in Uses[L[h].by]

(* The inductive invariant.                                                *)
IInv == /\ GoodHeap(live)
        /\ GoodNodes
        /\ Owners(live)
        /\ LiveNodesAreBlocks
        /\ NoBlockTorn
        /\ NoFalseAlarm

-----------------------------------------------------------------------------
(* Sizes: what a block costs always covers header, bytes and guard.        *)

LEMMA RequiredCovers ==
    ASSUME NEW u \in Nat, NEW a \in Nat, a > 0
    PROVE  /\ Required(u, a) \in Nat
           /\ Required(u, a) >= HDR + u + a + NML
<1>1. HDR \in Nat /\ NML \in Nat
  BY LayoutAssumption
<1>2. HDR % a \in Nat
  BY <1>1, DivMod
<1>3. QED
  BY <1>1, <1>2 DEF Required, Extra

LEMMA BlockCovers ==
    ASSUME NEW L, NEW h \in DOMAIN L, GoodBlock(h, L[h])
    PROVE  /\ Lo(L, h) \in Int /\ Hi(L, h) \in Int
           /\ Lo(L, h) <= h
           /\ h + HDR + L[h].size + NML < Hi(L, h)
           /\ h + HDR + L[h].size + NML \in Nat
           /\ h < h + HDR + L[h].size + NML
           /\ h \in Nat
<1>1. HDR \in Nat /\ NML \in Nat /\ HDR > 0
  BY LayoutAssumption
<1>2. /\ h \in Nat /\ L[h].size \in Nat /\ L[h].align \in Nat /\ L[h].align > 0
      /\ L[h].pad \in Nat /\ L[h].pad < L[h].align
  BY DEF GoodBlock
<1>3. PICK r \in Nat : /\ r = Required(L[h].size, L[h].align)
                       /\ r >= HDR + L[h].size + L[h].align + NML
  BY <1>2, RequiredCovers
<1>4. QED
  BY <1>1, <1>2, <1>3 DEF Lo, Hi

(* A range inside the memory of one block hits no block apart from it.     *)
LEMMA NoHit ==
    ASSUME GoodHeap(live),
           NEW lo \in Int, NEW hi \in Int, NEW from \in Int, NEW to \in Int,
           lo <= from, to <= hi, NEW mine,
           \A k \in DOMAIN live \ mine : Hi(live, k) <= lo \/ hi <= Lo(live, k)
    PROVE  Hit(from, to, mine) = {}
<1> SUFFICES ASSUME NEW k \in DOMAIN live \ mine, from < to, from < EndOf(k), k < to
             PROVE  FALSE
  BY DEF Hit
<1>1. GoodBlock(k, live[k])
  BY DEF GoodHeap
<1>2. /\ Lo(live, k) \in Int /\ Hi(live, k) \in Int /\ k \in Nat /\ EndOf(k) \in Nat
      /\ Lo(live, k) <= k /\ EndOf(k) < Hi(live, k)
  BY <1>1, BlockCovers DEF EndOf
<1>3. QED
  BY <1>2

(* The neighbours of a block whose memory is apart from theirs pass the    *)
(* overlap check.                                                          *)
LEMMA NoOverlapReported ==
    ASSUME GoodHeap(live), NEW t, NEW h \in Nat, NEW b, GoodBlock(h, b),
           \A k \in DOMAIN live \ {h} :
              \/ Hi(live, k) <= h - b.pad
              \/ h - b.pad + Required(b.size, b.align) <= Lo(live, k)
    PROVE  ~OverlapAsserts(t, h, b)
<1>1. PICK size \in Nat, align \in Nat, pad \in Nat :
         /\ size = b.size /\ align = b.align /\ pad = b.pad
         /\ align > 0 /\ pad < align
  BY DEF GoodBlock
<1>2. PICK r \in Nat : /\ r = Required(b.size, b.align)
                       /\ r >= HDR + size + align + NML
  BY <1>1, RequiredCovers
<1>3. ASSUME NEW k \in DOMAIN live, k # h
      PROVE  /\ k < h => ~(EndOf(k) > h - b.pad)
             /\ k > h => ~(h + HDR + b.size + NML >= k - live[k].pad)
  <2>1. GoodBlock(k, live[k])
    BY DEF GoodHeap
  <2>2. PICK lo \in Int, hi \in Int, end \in Nat :
           /\ lo = Lo(live, k) /\ hi = Hi(live, k) /\ end = EndOf(k)
           /\ lo <= k /\ k \in Nat /\ k < end /\ end < hi
    BY <2>1, BlockCovers DEF EndOf
  <2>3. hi <= h - pad \/ h - pad + r <= lo
    BY <1>1, <1>2, <1>3, <2>2
  <2>4. k - live[k].pad = lo
    BY <2>2 DEF Lo
  <2>5. HDR \in Nat /\ NML \in Nat
    BY LayoutAssumption
  <2>6. k < h => hi <= h - pad
    BY <1>1, <1>2, <2>2, <2>3, <2>5
  <2>7. k > h => h - pad + r <= lo
    BY <1>1, <1>2, <2>2, <2>3, <2>5
  <2>8. k < h => ~(end > h - pad)
    BY <2>2, <2>6
  <2>9. k > h => ~(h + HDR + size + NML >= lo)
    BY <1>1, <1>2, <2>5, <2>7
  <2>10. QED
    BY <1>1, <2>2, <2>4, <2>8, <2>9
<1>4. QED
  BY <1>3 DEF OverlapAsserts

-----------------------------------------------------------------------------
(* Heaps: a block placed apart from the others, blocks taken away.         *)

LEMMA GoodHeapWith ==
    ASSUME NEW L, GoodHeap(L), NEW h, NEW b, GoodBlock(h, b),
           \A k \in DOMAIN L \ {h} :
              \/ Hi(L, k) <= h - b.pad
              \/ h - b.pad + Required(b.size, b.align) <= Lo(L, k)
    PROVE  GoodHeap(With(L, h, b))
<1> DEFINE M == With(L, h, b)
<1>1. /\ DOMAIN M = DOMAIN L \cup {h}
      /\ M[h] = b
      /\ \A k \in DOMAIN L \ {h} : M[k] = L[k]
  BY DEF With
<1> HIDE DEF M
<1>2. \A k \in DOMAIN M : GoodBlock(k, M[k])
  BY <1>1 DEF GoodHeap
<1>3. /\ Lo(M, h) = h - b.pad
      /\ Hi(M, h) = h - b.pad + Required(b.size, b.align)
  BY <1>1 DEF Lo, Hi
<1>4. \A k \in DOMAIN L \ {h} : Lo(M, k) = Lo(L, k) /\ Hi(M, k) = Hi(L, k)
  BY <1>1 DEF Lo, Hi
<1>5. ASSUME NEW i \in DOMAIN M, NEW k \in DOMAIN M, i # k
      PROVE  Apart(M, i, k)
  <2>1. CASE i = h
    BY <1>1, <1>3, <1>4, <1>5, <2>1 DEF Apart
  <2>2. CASE k = h
    BY <1>1, <1>3, <1>4, <1>5, <2>2 DEF Apart
  <2>3. CASE i # h /\ k # h
    BY <1>1, <1>4, <1>5, <2>3 DEF Apart, GoodHeap
  <2>4. QED
    BY <2>1, <2>2, <2>3
<1>6. QED
  BY <1>2, <1>5 DEF GoodHeap, M

LEMMA GoodHeapWithout ==
    ASSUME NEW L, GoodHeap(L), NEW S
    PROVE  GoodHeap([k \in DOMAIN L \ S |-> L[k]])
<1> DEFINE M == [k \in DOMAIN L \ S |-> L[k]]
<1>1. /\ DOMAIN M = DOMAIN L \ S
      /\ \A k \in DOMAIN M : M[k] = L[k]
  OBVIOUS
<1> HIDE DEF M
<1>2. \A k \in DOMAIN M : Lo(M, k) = Lo(L, k) /\ Hi(M, k) = Hi(L, k)
  BY <1>1 DEF Lo, Hi
<1>3. GoodHeap(M)
  BY <1>1, <1>2 DEF GoodHeap, Apart
<1>4. QED
  BY <1>3 DEF M

(* encode_header: the header goes where its padding says, aligned.         *)
LEMMA GoodHeader ==
    ASSUME NEW at \in Nat, NEW a \in Nat, a > 0, a <= MaxAlignment, NEW b,
           b.size \in Nat, b.align = a, b.pad = AlignmentPadding(at, a)
    PROVE  /\ GoodBlock(HeaderAt(at, a), b)
           /\ HeaderAt(at, a) - b.pad = at
<1>1. PICK pad \in Nat : pad = AlignmentPadding(at, a) /\ pad < a
  BY AlignmentPaddingBounded
<1>2. HDR \in Nat
  BY LayoutAssumption
<1>3. HeaderAt(at, a) = at + pad
  BY <1>1 DEF HeaderAt
<1>4. CalculatePaddingWithHeader(at, a) \in Int
  <2>1. PICK k \in Int :
           CalculatePaddingWithHeader(at, a) = CalculatePadding(at, a) + a * k
    BY PaddingWithHeader, Zenon
  <2>2. PICK p \in Nat : p = CalculatePadding(at, a)
    BY PaddingBelowAlignment
  <2>3. QED
    BY <2>1, <2>2
<1>5. HeaderAt(at, a) + HDR = at + CalculatePaddingWithHeader(at, a)
  BY <1>1, <1>2, <1>3, <1>4 DEF AlignmentPadding
<1>6. (HeaderAt(at, a) + HDR) % a = 0
  BY <1>5, UserAligned
<1>7. QED
  BY <1>1, <1>3, <1>6 DEF GoodBlock

LEMMA EffectiveAlignmentOK ==
    ASSUME NEW align \in Aligns
    PROVE  /\ EffectiveAlignment(align) \in Nat
           /\ EffectiveAlignment(align) > 0
           /\ EffectiveAlignment(align) <= MaxAlignment
  BY HeapAssumption, AlignmentsPositive DEF EffectiveAlignment

-----------------------------------------------------------------------------
(* Allocators that keep the contract.                                      *)

LEMMA FitsApart ==
    ASSUME NEW at, NEW n, NEW S, NEW k \in DOMAIN live, BlockOf(k) \in S,
           Contract!Fits([at |-> at, size |-> n], S)
    PROVE  Hi(live, k) <= at \/ at + n <= Lo(live, k)
  BY DEF Contract!Fits, Contract!Disjoint, BlockOf, Lo, Hi

(* The header of a fresh block is not the header of a live one.            *)
LEMMA FreshHeader ==
    ASSUME GoodHeap(live), NEW h, NEW b, GoodBlock(h, b), NEW at \in Nat,
           at = h - b.pad,
           \A k \in DOMAIN live :
              \/ Hi(live, k) <= at
              \/ at + Required(b.size, b.align) <= Lo(live, k)
    PROVE  h \notin DOMAIN live
<1> SUFFICES ASSUME h \in DOMAIN live  PROVE FALSE
  OBVIOUS
<1>1. PICK size \in Nat, align \in Nat, pad \in Nat :
         /\ size = b.size /\ align = b.align /\ pad = b.pad
         /\ align > 0 /\ pad < align /\ h \in Nat
  BY DEF GoodBlock
<1>2. PICK r \in Nat : /\ r = Required(b.size, b.align)
                       /\ r >= HDR + size + align + NML
  BY <1>1, RequiredCovers
<1>3. GoodBlock(h, live[h])
  BY DEF GoodHeap
<1>4. PICK lo \in Int, hi \in Int :
         /\ lo = Lo(live, h) /\ hi = Hi(live, h) /\ lo <= h /\ h < hi
  BY <1>1, <1>3, BlockCovers
<1>5. HDR \in Nat /\ NML \in Nat
  BY LayoutAssumption
<1>6. QED
  BY <1>1, <1>2, <1>4, <1>5

-----------------------------------------------------------------------------
(* The list and the heap, header by header.                                *)
Agree(N, L) ==
    \A t \in Threads : \A h :
        (h \in DOMAIN N[t] /\ ~N[t][h].freed) <=> (h \in DOMAIN L /\ L[h].by = t)

LEMMA AgreeNow  == LiveNodesAreBlocks <=> Agree(nodes, live)
  BY DEF LiveNodesAreBlocks, Agree
LEMMA AgreeNext == LiveNodesAreBlocks' <=> Agree(nodes', live')
  BY DEF LiveNodesAreBlocks, Agree

LEMMA NothingTorn == ASSUME IInv, NEW t  PROVE ~VerifyAsserts(t)
  BY DEF IInv, NoBlockTorn, VerifyAsserts

LEMMA OwnedIsLive ==
    ASSUME IInv, NEW t \in Threads, NEW h, Owned(t, h)
    PROVE  h \in DOMAIN live /\ live[h].by = t
  BY AgreeNow DEF IInv, Agree, Owned

(* Any assertion but those of the corruption checks.                       *)
LEMMA CrashKeepsIInv ==
    ASSUME IInv, NEW a, Crash(a),
           a \notin {"verify", "still live", "overlap", "garbage header"}
    PROVE  IInv'
<1> USE DEF Crash
<1>1. nodes' = nodes /\ live' = live /\ torn' = torn /\ crash' = a
  OBVIOUS
<1>2. /\ GoodHeap(live)' /\ GoodNodes' /\ Owners(live)'
      /\ NoBlockTorn' /\ LiveNodesAreBlocks'
  BY <1>1, AgreeNow, AgreeNext DEF IInv, GoodNodes, NoBlockTorn
<1>3. NoFalseAlarm'
  BY <1>1 DEF NoFalseAlarm
<1>4. QED
  BY <1>2, <1>3 DEF IInv

LEMMA StutterKeepsIInv ==
    ASSUME IInv, UNCHANGED vars
    PROVE  IInv'
<1>1. nodes' = nodes /\ live' = live /\ torn' = torn /\ crash' = crash
  BY DEF vars
<1>2. /\ GoodHeap(live)' /\ GoodNodes' /\ Owners(live)'
      /\ NoBlockTorn' /\ LiveNodesAreBlocks' /\ NoFalseAlarm'
  BY <1>1, AgreeNow, AgreeNext DEF IInv, GoodNodes, NoBlockTorn, NoFalseAlarm
<1>3. QED
  BY <1>2 DEF IInv

LEMMA PlaceKeepsIInv ==
    ASSUME IInv, NEW t \in Threads, NEW al \in Uses[t], NEW u \in Nat, NEW leak,
           NEW a \in Nat, a > 0, a <= MaxAlignment, NEW at \in Nat,
           Contract!Fits([at |-> at, size |-> Required(u, a)], Granted),
           Place(t, al, u, a, leak, at)
    PROVE  IInv'
<1> DEFINE h == HeaderAt(at, a)
           new == Header(al, u, a, at, t, leak)
<1>1. new.size = u /\ new.align = a /\ new.pad = AlignmentPadding(at, a)
      /\ new.by = t /\ new.alloc = al
  BY DEF Header
<1>2. GoodBlock(h, new) /\ h - new.pad = at /\ h \in Nat
  <2>1. GoodBlock(h, new) /\ h - new.pad = at
    BY <1>1, GoodHeader
  <2>2. QED
    BY <2>1 DEF GoodBlock
<1> HIDE DEF h, new
<1>3. GoodHeap(live)
  BY DEF IInv
<1>4. \A k \in DOMAIN live : \/ Hi(live, k) <= at
                             \/ at + Required(u, a) <= Lo(live, k)
  BY FitsApart DEF Granted
<1>5. h \notin DOMAIN live
  BY <1>1, <1>2, <1>3, <1>4, FreshHeader
<1>6. ~(h \in DOMAIN nodes[t] /\ ~nodes[t][h].freed)
  BY <1>5, AgreeNow DEF IInv, Agree
<1>7. ~OverlapAsserts(t, h, new)
  BY <1>1, <1>2, <1>3, <1>4, NoOverlapReported
<1>8. CASE Crash("nodes pool")
  BY <1>8, CrashKeepsIInv
<1>9. CASE /\ nodes' = [nodes EXCEPT ![t] = With(@, h, NewNode(t, leak))]
           /\ live' = With(live, h, new)
           /\ torn' = torn \cup Hit(h, h + HDR + u + NML, {})
           /\ crash' = crash
  <2>1. GoodHeap(live)'
    BY <1>1, <1>2, <1>3, <1>4, <1>9, GoodHeapWith
  <2>2. GoodNodes'
    BY <1>9 DEF IInv, GoodNodes
  <2>3. Agree(nodes', live')
    BY <1>1, <1>5, <1>9, AgreeNow
    DEF IInv, GoodNodes, Agree, With, NewNode
  <2>4. Hit(h, h + HDR + u + NML, {}) = {}
    <3>1. PICK r \in Nat : r = Required(u, a) /\ r >= HDR + u + a + NML
      BY RequiredCovers
    <3>2. PICK pad \in Nat : pad = new.pad /\ pad < a
      BY <1>1, <1>2 DEF GoodBlock
    <3>3. HDR \in Nat /\ NML \in Nat
      BY LayoutAssumption
    <3>4. /\ at \in Int /\ at + r \in Int /\ h \in Int /\ h + HDR + u + NML \in Int
          /\ at <= h /\ h + HDR + u + NML <= at + r
      <4>1. h = at + pad
        BY <1>2, <3>2
      <4>2. QED
        BY <3>1, <3>2, <3>3, <4>1
    <3>5. \A k \in DOMAIN live \ {} : Hi(live, k) <= at \/ at + r <= Lo(live, k)
      BY <1>4, <3>1
    <3>6. QED
      BY <1>3, <3>4, <3>5, NoHit
  <2>5. NoBlockTorn' /\ NoFalseAlarm'
    BY <1>9, <2>4 DEF IInv, NoBlockTorn, NoFalseAlarm
  <2>6. Owners(live)'
    BY <1>1, <1>9 DEF IInv, Owners, With
  <2>7. QED
    BY <2>1, <2>2, <2>3, <2>5, <2>6, AgreeNext DEF IInv
<1>10. QED
  BY <1>6, <1>7, <1>8, <1>9 DEF Place, h, new

LEMMA AllocateKeepsIInv ==
    ASSUME IInv, NEW t \in Threads, NEW al \in Uses[t], NEW u \in Sizes, NEW align \in Aligns,
           NEW leak, Allocate(t, al, u, align, leak)
    PROVE  IInv'
<1>1. CASE Crash("allocator returned null")
  BY <1>1, CrashKeepsIInv
<1>2. ASSUME NEW at \in Bases,
             Contract!Fits([at |-> at, size |-> Required(u, EffectiveAlignment(align))],
                           Granted),
             Place(t, al, u, EffectiveAlignment(align), leak, at)
      PROVE  IInv'
  <2>1. u \in Nat /\ at \in Nat
    BY HeapAssumption
  <2>2. QED
    BY <1>2, <2>1, EffectiveAlignmentOK, PlaceKeepsIInv
<1>3. QED
  BY <1>1, <1>2, NothingTorn DEF Allocate

-----------------------------------------------------------------------------
(* general_reallocate, of a block that grows.                              *)

LEMMA ResizeKeepsIInv ==
    ASSUME IInv, NEW t \in Threads, NEW h \in DOMAIN live, Owned(t, h),
           NEW u \in Nat, u > live[h].size, ResizeInPlace(t, h, u)
    PROVE  IInv'
<1> DEFINE old == live[h]
           new == Resized(old, u, old.pad)
<1>1. GoodHeap(live)
  BY DEF IInv
<1>2. GoodBlock(h, old)
  BY <1>1 DEF GoodHeap
<1>3. PICK size \in Nat, align \in Nat, pad \in Nat :
         /\ size = old.size /\ align = old.align /\ pad = old.pad
         /\ align > 0 /\ pad < align /\ h \in Nat /\ HDR \in Nat /\ NML \in Nat
  BY <1>2, LayoutAssumption DEF GoodBlock
<1>4. /\ new.size = u /\ new.align = align /\ new.pad = pad /\ new.by = old.by
      /\ new.alloc = old.alloc /\ GoodBlock(h, new)
  BY <1>2, <1>3 DEF Resized, GoodBlock
<1> HIDE DEF new
<1>5. PICK r \in Nat, oldr \in Nat :
         /\ r = Required(u, align) /\ r >= HDR + u + align + NML
         /\ oldr = Required(size, align)
  BY <1>3, RequiredCovers
<1>6. r - oldr = u - size
  <2>1. PICK x \in Int : x = Extra(align)
    <3>1. HDR % align \in Int
      BY <1>3, DivMod
    <3>2. QED
      BY <1>3, <3>1 DEF Extra
  <2>2. QED
    BY <1>5, <2>1 DEF Required
<1>7. Contract!Fits([at |-> h - pad, size |-> r], Granted \ {BlockOf(h)})
  BY <1>3, <1>5 DEF ResizeInPlace
<1>8. \A k \in DOMAIN live \ {h} : Hi(live, k) <= h - pad \/ h - pad + r <= Lo(live, k)
  <2> SUFFICES ASSUME NEW k \in DOMAIN live \ {h}
               PROVE  Hi(live, k) <= h - pad \/ h - pad + r <= Lo(live, k)
    OBVIOUS
  <2>1. BlockOf(k) # BlockOf(h)
    <3>1. GoodBlock(k, live[k]) /\ Apart(live, k, h)
      BY <1>1 DEF GoodHeap
    <3>2. PICK lk \in Int, hk \in Int, lh \in Int, hh \in Int :
             /\ lk = Lo(live, k) /\ hk = Hi(live, k) /\ lk < hk
             /\ lh = Lo(live, h) /\ hh = Hi(live, h) /\ lh < hh
      <4>1. /\ Lo(live, k) \in Int /\ Hi(live, k) \in Int /\ Lo(live, k) < Hi(live, k)
            /\ Lo(live, h) \in Int /\ Hi(live, h) \in Int /\ Lo(live, h) < Hi(live, h)
        BY <1>2, <3>1, BlockCovers
      <4>2. QED
        BY <4>1
    <3>3. lk # lh
      BY <3>1, <3>2 DEF Apart
    <3>4. BlockOf(k).at = lk /\ BlockOf(h).at = lh
      BY <3>2 DEF BlockOf, Lo
    <3>5. QED
      BY <3>3, <3>4
  <2>2. BlockOf(k) \in Granted \ {BlockOf(h)}
    BY <2>1 DEF Granted
  <2>3. QED
    BY <1>7, <2>2, FitsApart
<1>9. ~OverlapAsserts(t, h, new)
  BY <1>1, <1>3, <1>4, <1>5, <1>8, NoOverlapReported
<1>10. /\ live' = With(live, h, new)
       /\ nodes' = [nodes EXCEPT ![t] = With(nodes[t], h, Reallocated(nodes[t][h]))]
       /\ torn' = torn \cup Hit(h + HDR + size, h + HDR + size + r - oldr, {h})
                       \cup Hit(h + HDR + u, h + HDR + u + NML, {h})
       /\ crash' = crash
  <2>1. oldr < r
    BY <1>3, <1>6
  <2>2. QED
    BY <1>3, <1>5, <1>9, <2>1 DEF ResizeInPlace, new
<1>11. GoodHeap(live)'
  BY <1>1, <1>3, <1>4, <1>5, <1>8, <1>10, GoodHeapWith
<1>12. GoodNodes'
  BY <1>10 DEF IInv, GoodNodes
<1>13. Agree(nodes', live')
  BY <1>4, <1>10, AgreeNow
  DEF IInv, GoodNodes, Agree, With, Owned, Reallocated
<1>14. /\ Hit(h + HDR + size, h + HDR + size + r - oldr, {h}) = {}
       /\ Hit(h + HDR + u, h + HDR + u + NML, {h}) = {}
  <2>1. /\ h - pad \in Int /\ h - pad + r \in Int
        /\ h + HDR + size \in Int /\ h + HDR + size + r - oldr \in Int
        /\ h + HDR + u \in Int /\ h + HDR + u + NML \in Int
        /\ h - pad <= h + HDR + size /\ h + HDR + size + r - oldr <= h - pad + r
        /\ h - pad <= h + HDR + u /\ h + HDR + u + NML <= h - pad + r
    BY <1>3, <1>5, <1>6
  <2>2. QED
    BY <1>1, <1>8, <2>1, NoHit
<1>15. NoBlockTorn' /\ NoFalseAlarm'
  BY <1>10, <1>14 DEF IInv, NoBlockTorn, NoFalseAlarm
<1>16. Owners(live)'
  BY <1>4, <1>10 DEF IInv, Owners, With
<1>17. QED
  BY <1>11, <1>12, <1>13, <1>15, <1>16, AgreeNext DEF IInv

LEMMA MoveKeepsIInv ==
    ASSUME IInv, NEW t \in Threads, NEW h \in DOMAIN live, Owned(t, h),
           NEW u \in Nat, u > live[h].size, NEW at \in Nat, Move(t, h, u, at)
    PROVE  IInv'
<1> DEFINE old == live[h]
           h2  == HeaderAt(at, old.align)
           new == Resized(old, u, AlignmentPadding(at, old.align))
<1>1. GoodHeap(live)
  BY DEF IInv
<1>2. GoodBlock(h, old)
  BY <1>1 DEF GoodHeap
<1>3. PICK size \in Nat, align \in Nat :
         /\ size = old.size /\ align = old.align
         /\ align > 0 /\ align <= MaxAlignment /\ HDR \in Nat /\ NML \in Nat
  BY <1>2, LayoutAssumption DEF GoodBlock
<1>4. /\ new.size = u /\ new.align = align /\ new.by = old.by /\ new.alloc = old.alloc
      /\ new.pad = AlignmentPadding(at, align) /\ h2 = HeaderAt(at, align)
  BY <1>3 DEF Resized
<1>5. GoodBlock(h2, new) /\ h2 - new.pad = at
  BY <1>3, <1>4, GoodHeader
<1> HIDE DEF new, h2
<1>6. PICK pad \in Nat : pad = new.pad /\ pad < align /\ h2 \in Nat
  BY <1>4, <1>5 DEF GoodBlock
<1>7. h2 = at + pad
  BY <1>5, <1>6
<1>8. PICK r \in Nat, oldr \in Nat :
         /\ r = Required(u, align) /\ r >= HDR + u + align + NML
         /\ oldr = Required(size, align)
  BY <1>3, RequiredCovers
<1>9. r - oldr = u - size
  <2>1. PICK x \in Int : x = Extra(align)
    <3>1. HDR % align \in Int
      BY <1>3, DivMod
    <3>2. QED
      BY <1>3, <3>1 DEF Extra
  <2>2. QED
    BY <1>8, <2>1 DEF Required
<1>10. \A k \in DOMAIN live : Hi(live, k) <= at \/ at + r <= Lo(live, k)
  <2>1. Contract!Fits([at |-> at, size |-> r], Granted)
    BY <1>3, <1>8 DEF Move
  <2>2. QED
    BY <2>1, FitsApart DEF Granted
<1>11. h2 \notin DOMAIN live
  BY <1>1, <1>4, <1>5, <1>8, <1>10, FreshHeader
<1>12. ~OverlapAsserts(t, h2, new)
  BY <1>1, <1>4, <1>5, <1>6, <1>8, <1>10, NoOverlapReported
<1>13. CASE Crash("list_add") \/ Crash("nodes pool")
  BY <1>13, CrashKeepsIInv
<1>14. CASE
         /\ live' = With(Without(live, h), h2, new)
         /\ nodes' = [nodes EXCEPT ![t] =
               With(With(nodes[t], h, Freed(nodes[t][h])), h2, Reallocated(nodes[t][h]))]
         /\ torn' = (torn \cup (Hit(h2, h2 + HDR + u + NML, {h2})
                                  \cup Hit(h2 + HDR, h2 + HDR + size, {h2})
                                  \cup Hit(h2 + HDR + size, h2 + HDR + size + r - oldr, {h2})))
                      \ {h}
         /\ crash' = crash
  <2> DEFINE L == Without(live, h)
  <2>1. GoodHeap(L)
    BY <1>1, GoodHeapWithout DEF Without
  <2>2. \A k \in DOMAIN L : Lo(L, k) = Lo(live, k) /\ Hi(L, k) = Hi(live, k)
    BY DEF Without, Lo, Hi
  <2>3. DOMAIN L \subseteq DOMAIN live
    BY DEF Without
  <2> HIDE DEF L
  <2>4. GoodHeap(With(L, h2, new))
    BY <1>4, <1>5, <1>8, <1>10, <2>1, <2>2, <2>3, GoodHeapWith
  <2>5. GoodHeap(live)'
    BY <1>14, <2>4 DEF L
  <2>6. GoodNodes'
    BY <1>14 DEF IInv, GoodNodes
  <2>7. Agree(nodes', live')
    BY <1>4, <1>11, <1>14, OwnedIsLive, AgreeNow
    DEF IInv, GoodNodes, Agree, With, Without, Owned, Reallocated, Freed
  <2>8. /\ Hit(h2, h2 + HDR + u + NML, {h2}) = {}
        /\ Hit(h2 + HDR, h2 + HDR + size, {h2}) = {}
        /\ Hit(h2 + HDR + size, h2 + HDR + size + r - oldr, {h2}) = {}
    <3>1. /\ at \in Int /\ at + r \in Int /\ h2 \in Int
          /\ h2 + HDR + u + NML \in Int /\ h2 + HDR \in Int
          /\ h2 + HDR + size \in Int /\ h2 + HDR + size + r - oldr \in Int
          /\ at <= h2 /\ h2 + HDR + u + NML <= at + r
          /\ at <= h2 + HDR /\ h2 + HDR + size <= at + r
          /\ at <= h2 + HDR + size /\ h2 + HDR + size + r - oldr <= at + r
      BY <1>3, <1>6, <1>7, <1>8, <1>9
    <3>2. QED
      BY <1>1, <1>10, <3>1, NoHit
  <2>9. NoBlockTorn' /\ NoFalseAlarm'
    BY <1>14, <2>8 DEF IInv, NoBlockTorn, NoFalseAlarm
  <2>10. Owners(live)'
    BY <1>4, <1>14 DEF IInv, Owners, With, Without
  <2>11. QED
    BY <2>5, <2>6, <2>7, <2>9, <2>10, AgreeNext DEF IInv
<1>15. oldr < r
  BY <1>3, <1>9
<1>16. QED
  <2>1. Crash("list_add") \/ Crash("nodes pool") \/
         /\ live' = With(Without(live, h), h2, new)
         /\ nodes' = [nodes EXCEPT ![t] =
               With(With(nodes[t], h, Freed(nodes[t][h])), h2, Reallocated(nodes[t][h]))]
         /\ torn' = (torn \cup (Hit(h2, h2 + HDR + u + NML, {h2})
                                  \cup Hit(h2 + HDR, h2 + HDR + size, {h2})
                                  \cup Hit(h2 + HDR + size, h2 + HDR + size + r - oldr, {h2})))
                      \ {h}
         /\ crash' = crash
    BY <1>3, <1>8, <1>12, <1>15 DEF Move, h2, new
  <2>2. QED
    BY <1>13, <1>14, <2>1

LEMMA ReallocateKeepsIInv ==
    ASSUME IInv, NEW t \in Threads, NEW h, NEW u \in Sizes, Grows(h, u),
           Reallocate(t, h, u)
    PROVE  IInv'
<1>1. CASE UNCHANGED vars
  BY <1>1, StutterKeepsIInv
<1>2. CASE Crash("allocator returned null")
  BY <1>2, CrashKeepsIInv
<1>3. ASSUME Owned(t, h), h \in DOMAIN live,
             ResizeInPlace(t, h, u) \/ \E at \in Bases : Move(t, h, u, at)
      PROVE  IInv'
  <2>1. u \in Nat /\ Bases \subseteq Nat /\ u > live[h].size
    BY <1>3, HeapAssumption DEF Grows
  <2>2. CASE ResizeInPlace(t, h, u)
    BY <1>3, <2>1, <2>2, ResizeKeepsIInv
  <2>3. CASE \E at \in Bases : Move(t, h, u, at)
    BY <1>3, <2>1, <2>3, MoveKeepsIInv
  <2>4. QED
    BY <1>3, <2>2, <2>3
<1>4. QED
  BY <1>1, <1>2, <1>3, NothingTorn, OwnedIsLive DEF Reallocate

-----------------------------------------------------------------------------
(* general_free and free_all                                               *)

LEMMA FreeKeepsIInv ==
    ASSUME IInv, NEW t \in Threads, NEW h, Free(t, h)
    PROVE  IInv'
<1>1. CASE UNCHANGED vars
  BY <1>1, StutterKeepsIInv
<1>2. CASE /\ Owned(t, h) /\ h \in DOMAIN live
           /\ nodes' = [nodes EXCEPT ![t] = With(nodes[t], h, Freed(nodes[t][h]))]
           /\ torn' = (torn \cup Hit(BlockOf(h).at, BlockOf(h).at + BlockOf(h).size, {h})) \ {h}
           /\ live' = Without(live, h)
           /\ crash' = crash
  <2>1. GoodHeap(live)
    BY DEF IInv
  <2>2. GoodHeap(live)'
    BY <1>2, <2>1, GoodHeapWithout DEF Without
  <2>3. GoodNodes'
    BY <1>2 DEF IInv, GoodNodes
  <2>4. Agree(nodes', live')
    BY <1>2, OwnedIsLive, AgreeNow
    DEF IInv, GoodNodes, Agree, With, Without, Owned, Freed
  <2>5. Hit(BlockOf(h).at, BlockOf(h).at + BlockOf(h).size, {h}) = {}
    <3>1. BlockOf(h).at = Lo(live, h) /\ BlockOf(h).at + BlockOf(h).size = Hi(live, h)
      BY DEF BlockOf, Lo, Hi
    <3>2. Lo(live, h) \in Int /\ Hi(live, h) \in Int
      BY <1>2, <2>1, BlockCovers DEF GoodHeap
    <3>3. \A k \in DOMAIN live \ {h} :
             Hi(live, k) <= Lo(live, h) \/ Hi(live, h) <= Lo(live, k)
      BY <1>2, <2>1 DEF GoodHeap, Apart
    <3>4. Lo(live, h) <= Lo(live, h) /\ Hi(live, h) <= Hi(live, h)
      BY <3>2
    <3>5. QED
      BY <2>1, <3>1, <3>2, <3>3, <3>4, NoHit
  <2>6. NoBlockTorn' /\ NoFalseAlarm'
    BY <1>2, <2>5 DEF IInv, NoBlockTorn, NoFalseAlarm
  <2>7. Owners(live)'
    BY <1>2 DEF IInv, Owners, Without
  <2>8. QED
    BY <2>2, <2>3, <2>4, <2>6, <2>7, AgreeNext DEF IInv
<1>3. QED
  BY <1>1, <1>2, NothingTorn, OwnedIsLive DEF Free

(* An allocator no other thread uses only holds blocks of the caller.      *)
LEMMA FreeAllKeepsIInv ==
    ASSUME IInv, NEW t \in Threads, NEW al \in Uses[t], ~SharedAlloc(al),
           FreeAll(t, al)
    PROVE  IInv'
<1> DEFINE mine == {h \in DOMAIN nodes[t] : ~nodes[t][h].freed}
           gone == {h \in DOMAIN live : live[h].alloc = al}
<1>1. mine \subseteq DOMAIN live
  BY AgreeNow DEF IInv, Agree
<1>2. \A h \in gone : live[h].by = t
  BY DEF IInv, Owners, SharedAlloc
<1>3. /\ nodes' = [nodes EXCEPT ![t] =
             [h \in DOMAIN nodes[t] |-> IF h \in mine \cap gone
                                        THEN Freed(nodes[t][h]) ELSE nodes[t][h]]]
      /\ live' = [h \in DOMAIN live \ gone |-> live[h]]
      /\ torn' = torn \ gone
      /\ crash' = crash
  BY <1>1 DEF FreeAll
<1>4. GoodHeap(live)'
  BY <1>3, GoodHeapWithout DEF IInv
<1>5. GoodNodes'
  BY <1>3 DEF IInv, GoodNodes
<1>6. Agree(nodes', live')
  BY <1>2, <1>3, AgreeNow DEF IInv, GoodNodes, Agree, Freed
<1>7. NoBlockTorn' /\ NoFalseAlarm'
  BY <1>3 DEF IInv, NoBlockTorn, NoFalseAlarm
<1>8. Owners(live)'
  BY <1>3 DEF IInv, Owners
<1>9. QED
  BY <1>4, <1>5, <1>6, <1>7, <1>8, AgreeNext DEF IInv

-----------------------------------------------------------------------------
LEMMA InitIInv == Init => IInv
<1> SUFFICES ASSUME Init  PROVE IInv
  OBVIOUS
<1>1. DOMAIN live = {} /\ torn = {} /\ crash = ""
  BY DEF Init, Nothing
<1>2. DOMAIN nodes = Threads /\ \A t \in Threads : DOMAIN nodes[t] = {}
  BY DEF Init, Nothing
<1>3. Agree(nodes, live)
  BY <1>1, <1>2 DEF Agree
<1>4. QED
  BY <1>1, <1>2, <1>3, AgreeNow
  DEF IInv, GoodHeap, GoodNodes, Owners, NoBlockTorn, NoFalseAlarm

LEMMA NextIInv == IInv /\ [Next]_vars => IInv'
<1> SUFFICES ASSUME IInv, [Next]_vars  PROVE IInv'
  OBVIOUS
<1>1. CASE NextAllocate
  BY <1>1, AllocateKeepsIInv DEF NextAllocate
<1>2. CASE NextGrow
  BY <1>2, ReallocateKeepsIInv DEF NextGrow
<1>3. CASE NextFree
  BY <1>3, FreeKeepsIInv DEF NextFree
<1>4. CASE NextFreeAll
  BY <1>4, FreeAllKeepsIInv DEF NextFreeAll
<1>5. CASE UNCHANGED vars
  BY <1>5, StutterKeepsIInv
<1>6. QED
  BY <1>1, <1>2, <1>3, <1>4, <1>5 DEF Next

(* Heap, list and checks agree after every call (general_allocate,         *)
(* general_reallocate, general_free, free_all).                            *)
THEOREM HeapInvariant == Spec => []IInv
  BY InitIInv, NextIInv, PTL DEF Spec

(* The list of debug nodes agrees with the heap (the nodes general_free    *)
(* and general_reallocate look a pointer up in), for every program that    *)
(* lets blocks grow and resets only allocators of its own.                 *)
THEOREM ListAgreesWithHeap == Spec => []LiveNodesAreBlocks
<1>1. IInv => LiveNodesAreBlocks
  BY DEF IInv
<1>2. QED
  BY <1>1, HeapInvariant, PTL

(* No header, guard, copy or fill of one block lands in another live one.  *)
THEOREM NoBlockIsTorn == Spec => []NoBlockTorn
<1>1. IInv => NoBlockTorn
  BY DEF IInv
<1>2. QED
  BY <1>1, HeapInvariant, PTL

(* The checks of verify_node_integrity and check_for_overlapping_blocks    *)
(* and "still live" stay silent unless memory was really messed up.        *)
THEOREM ChecksRaiseNoFalseAlarm == Spec => []NoFalseAlarm
<1>1. IInv => NoFalseAlarm
  BY DEF IInv
<1>2. QED
  BY <1>1, HeapInvariant, PTL

(* Header, bytes and guard of a block fit the memory asked for, whatever   *)
(* address the allocator answered, and the user pointer is aligned.        *)
THEOREM BlocksAreWellLaid == Spec => []BlocksWellLaid
<1>1. IInv => BlocksWellLaid
  <2> SUFFICES ASSUME IInv, NEW h \in DOMAIN live
               PROVE  /\ BlockOf(h).at <= h
                      /\ EndOf(h) <= BlockOf(h).at + BlockOf(h).size
                      /\ (h + HDR) % live[h].align = 0
    BY DEF BlocksWellLaid
  <2>1. GoodBlock(h, live[h])
    BY DEF IInv, GoodHeap
  <2>2. BlockOf(h).at = Lo(live, h) /\ BlockOf(h).at + BlockOf(h).size = Hi(live, h)
    BY DEF BlockOf, Lo, Hi
  <2>3. /\ Lo(live, h) \in Int /\ Hi(live, h) \in Int /\ h \in Nat /\ EndOf(h) \in Nat
        /\ Lo(live, h) <= h /\ EndOf(h) < Hi(live, h)
    BY <2>1, BlockCovers DEF EndOf
  <2>4. QED
    BY <2>1, <2>2, <2>3 DEF GoodBlock
<1>2. QED
  BY <1>1, HeapInvariant, PTL

-----------------------------------------------------------------------------
(* IDs: the counter is above all of them, and two nodes share one only if  *)
(* a move marked one of them Freed.                                        *)

IdInv == /\ GoodNodes /\ IdsUnique
         /\ \A t \in Threads : count[t] \in Nat
         /\ \A t \in Threads : \A h \in DOMAIN nodes[t] : nodes[t][h].id \in Nat
         /\ DOMAIN count = Threads

(* Nodes stay what they are, or get marked Freed.                          *)
LEMMA MarkingKeepsIds ==
    ASSUME IdInv, NEW t \in Threads, NEW f, nodes' = [nodes EXCEPT ![t] = f],
           DOMAIN f = DOMAIN nodes[t], count' = count,
           \A h \in DOMAIN f : /\ f[h].id = nodes[t][h].id
                               /\ nodes[t][h].freed => f[h].freed
    PROVE  IdInv'
  BY DEF IdInv, GoodNodes, IdsUnique

LEMMA CrashKeepsIds == ASSUME IdInv, NEW a, Crash(a) PROVE IdInv'
  BY DEF IdInv, GoodNodes, IdsUnique, Crash

LEMMA AllocateKeepsIds ==
    ASSUME IdInv, NEW t \in Threads, NEW al, NEW u, NEW align, NEW leak,
           Allocate(t, al, u, align, leak)
    PROVE  IdInv'
<1>1. ASSUME NEW a, Crash(a) PROVE IdInv'
  BY <1>1, CrashKeepsIds
<1>2. ASSUME NEW h, nodes' = [nodes EXCEPT ![t] = With(@, h, NewNode(t, leak))],
             count' = [count EXCEPT ![t] = @ + 1]
      PROVE  IdInv'
  <2>1. count[t] \in Nat /\ DOMAIN nodes = Threads /\ DOMAIN count = Threads
    BY DEF IdInv, GoodNodes
  <2> DEFINE f == With(nodes[t], h, NewNode(t, leak))
  <2>2. /\ DOMAIN f = DOMAIN nodes[t] \cup {h} /\ f[h].id = count[t]
        /\ \A k \in DOMAIN nodes[t] \ {h} : f[k] = nodes[t][k]
    BY DEF With, NewNode
  <2> HIDE DEF f
  <2>3. nodes' = [nodes EXCEPT ![t] = f]
    BY <1>2 DEF f
  <2>4. /\ nodes'[t] = f /\ count'[t] = count[t] + 1
        /\ \A s \in Threads \ {t} : nodes'[s] = nodes[s] /\ count'[s] = count[s]
    BY <1>2, <2>1, <2>3
  <2>5. GoodNodes' /\ DOMAIN count' = Threads /\ \A s \in Threads : count'[s] \in Nat
    BY <1>2, <2>1, <2>3 DEF IdInv, GoodNodes
  <2>6. ASSUME NEW s \in Threads, NEW i \in DOMAIN nodes'[s]
        PROVE  nodes'[s][i].id \in Nat /\ nodes'[s][i].id < count'[s]
    BY <2>1, <2>2, <2>4, <2>6 DEF IdInv, IdsUnique
  <2>7. ASSUME NEW s \in Threads, NEW i \in DOMAIN nodes'[s], NEW k \in DOMAIN nodes'[s], i # k,
               ~nodes'[s][i].freed, ~nodes'[s][k].freed
        PROVE  nodes'[s][i].id # nodes'[s][k].id
    <3>1. CASE s # t
      BY <2>4, <2>7, <3>1 DEF IdInv, IdsUnique
    <3>2. CASE s = t /\ i # h /\ k # h
      BY <2>2, <2>4, <2>7, <3>2 DEF IdInv, IdsUnique
    <3>3. CASE s = t /\ (i = h \/ k = h)
      BY <2>1, <2>2, <2>4, <2>7, <3>3 DEF IdInv, IdsUnique
    <3> QED BY <3>1, <3>2, <3>3
  <2> QED BY <2>5, <2>6, <2>7 DEF IdInv, IdsUnique
<1> QED
  BY <1>1, <1>2, Zenon DEF Allocate, Place

LEMMA MoveKeepsIds ==
    ASSUME IdInv, NEW t \in Threads, NEW h, NEW u, NEW at, Owned(t, h), Move(t, h, u, at)
    PROVE  IdInv'
<1>1. ASSUME NEW a, Crash(a) PROVE IdInv'
  BY <1>1, CrashKeepsIds
<1>2. ASSUME NEW h2, h2 \notin DOMAIN nodes[t], count' = count,
             nodes' = [nodes EXCEPT ![t] =
                 With(With(@, h, Freed(nodes[t][h])), h2, Reallocated(nodes[t][h]))]
      PROVE  IdInv'
  <2>1. DOMAIN nodes = Threads /\ h \in DOMAIN nodes[t]
    BY DEF IdInv, GoodNodes, Owned
  <2> DEFINE f == With(With(nodes[t], h, Freed(nodes[t][h])), h2, Reallocated(nodes[t][h]))
  <2>2. /\ DOMAIN f = DOMAIN nodes[t] \cup {h2} /\ h # h2
        /\ f[h].id = nodes[t][h].id /\ f[h].freed = TRUE /\ f[h2].id = nodes[t][h].id
        /\ \A k \in DOMAIN nodes[t] \ {h} : f[k] = nodes[t][k]
    BY <1>2, <2>1 DEF With, Freed, Reallocated
  <2> HIDE DEF f
  <2>3. nodes'[t] = f /\ \A s \in Threads \ {t} : nodes'[s] = nodes[s]
    BY <1>2, <2>1 DEF f
  <2>4. GoodNodes' /\ DOMAIN count' = Threads /\ \A s \in Threads : count'[s] \in Nat
    BY <1>2, <2>1 DEF IdInv, GoodNodes
  <2>5. ASSUME NEW s \in Threads, NEW i \in DOMAIN nodes'[s]
        PROVE  nodes'[s][i].id \in Nat /\ nodes'[s][i].id < count'[s]
    BY <1>2, <2>1, <2>2, <2>3, <2>5 DEF IdInv, IdsUnique
  <2>6. ASSUME NEW s \in Threads, NEW i \in DOMAIN nodes'[s], NEW k \in DOMAIN nodes'[s], i # k,
               ~nodes'[s][i].freed, ~nodes'[s][k].freed
        PROVE  nodes'[s][i].id # nodes'[s][k].id
    <3>1. CASE s # t
      BY <2>3, <2>6, <3>1 DEF IdInv, IdsUnique
    <3>2. CASE s = t
      BY <2>1, <2>2, <2>3, <2>6, <3>2 DEF IdInv, IdsUnique, Owned
    <3> QED BY <3>1, <3>2
  <2> QED BY <2>4, <2>5, <2>6 DEF IdInv, IdsUnique
<1> QED
  BY <1>1, <1>2, Zenon DEF Move

LEMMA ReallocateKeepsIds ==
    ASSUME IdInv, NEW t \in Threads, NEW h, NEW u, Reallocate(t, h, u)
    PROVE  IdInv'
<1>1. ASSUME NEW a, Crash(a) PROVE IdInv'
  BY <1>1, CrashKeepsIds
<1>2. CASE UNCHANGED vars
  BY <1>2 DEF vars, IdInv, GoodNodes, IdsUnique
<1>3. ASSUME Owned(t, h), count' = count,
             nodes' = [nodes EXCEPT ![t] = With(@, h, Reallocated(@[h]))]
      PROVE  IdInv'
  <2> DEFINE f == With(nodes[t], h, Reallocated(nodes[t][h]))
  <2>1. nodes' = [nodes EXCEPT ![t] = f]
    BY <1>3
  <2>2. DOMAIN f = DOMAIN nodes[t] /\ \A k \in DOMAIN f : /\ f[k].id = nodes[t][k].id
                                                          /\ nodes[t][k].freed => f[k].freed
    BY <1>3 DEF With, Reallocated, Owned
  <2> HIDE DEF f
  <2> QED BY <1>3, <2>1, <2>2, MarkingKeepsIds
<1>4. ASSUME Owned(t, h), ResizeInPlace(t, h, u) PROVE IdInv'
  BY <1>1, <1>3, <1>4, Zenon DEF ResizeInPlace
<1> QED
  BY <1>1, <1>2, <1>4, MoveKeepsIds, Zenon DEF Reallocate

LEMMA FreeKeepsIds == ASSUME IdInv, NEW t \in Threads, NEW h, Free(t, h) PROVE IdInv'
<1>1. ASSUME NEW a, Crash(a) PROVE IdInv'
  BY <1>1, CrashKeepsIds
<1>2. CASE UNCHANGED vars
  BY <1>2 DEF vars, IdInv, GoodNodes, IdsUnique
<1>3. ASSUME Owned(t, h), count' = count,
             nodes' = [nodes EXCEPT ![t] = With(@, h, Freed(@[h]))]
      PROVE  IdInv'
  <2> DEFINE f == With(nodes[t], h, Freed(nodes[t][h]))
  <2>1. nodes' = [nodes EXCEPT ![t] = f]
    BY <1>3
  <2>2. DOMAIN f = DOMAIN nodes[t] /\ \A k \in DOMAIN f : /\ f[k].id = nodes[t][k].id
                                                          /\ nodes[t][k].freed => f[k].freed
    BY <1>3 DEF With, Freed, Owned
  <2> HIDE DEF f
  <2> QED BY <1>3, <2>1, <2>2, MarkingKeepsIds
<1> QED
  BY <1>1, <1>2, <1>3, Zenon DEF Free

LEMMA FreeAllKeepsIds ==
    ASSUME IdInv, NEW t \in Threads, NEW al, FreeAll(t, al) PROVE IdInv'
<1>1. ASSUME NEW a, Crash(a) PROVE IdInv'
  BY <1>1, CrashKeepsIds
<1>2. ASSUME NEW S, count' = count,
             nodes' = [nodes EXCEPT ![t] =
                [h \in DOMAIN @ |-> IF h \in S THEN Freed(nodes[t][h]) ELSE nodes[t][h]]]
      PROVE  IdInv'
  <2> DEFINE f == [h \in DOMAIN nodes[t] |-> IF h \in S THEN Freed(nodes[t][h]) ELSE nodes[t][h]]
  <2>1. nodes' = [nodes EXCEPT ![t] = f]
    BY <1>2
  <2>2. DOMAIN f = DOMAIN nodes[t] /\ \A k \in DOMAIN f : /\ f[k].id = nodes[t][k].id
                                                          /\ nodes[t][k].freed => f[k].freed
    BY DEF Freed
  <2> HIDE DEF f
  <2> QED BY <1>2, <2>1, <2>2, MarkingKeepsIds
<1> QED
  BY <1>1, <1>2, Zenon DEF FreeAll

(* No two blocks of a thread that are alive carry the same ID, whatever    *)
(* was moved, reused and reset (general_allocate, Node->ID).               *)
THEOREM IdsStayUnique == Spec => []IdsUnique
<1>1. Init => IdInv
  <2> SUFFICES ASSUME Init PROVE IdInv
    OBVIOUS
  <2>1. DOMAIN nodes = Threads /\ \A t \in Threads : DOMAIN nodes[t] = {}
    BY DEF Init, Nothing
  <2>2. count = [t \in Threads |-> 0]
    BY DEF Init
  <2>3. DOMAIN count = Threads /\ \A t \in Threads : count[t] \in Nat
    BY <2>2
  <2> QED BY <2>1, <2>3 DEF IdInv, GoodNodes, IdsUnique
<1>2. IdInv /\ [Next]_vars => IdInv'
  <2> SUFFICES ASSUME IdInv, [Next]_vars PROVE IdInv'
    OBVIOUS
  <2>1. CASE UNCHANGED vars
    BY <2>1 DEF vars, IdInv, GoodNodes, IdsUnique
  <2>2. CASE NextAllocate
    BY <2>2, AllocateKeepsIds DEF NextAllocate
  <2>3. CASE NextGrow
    BY <2>3, ReallocateKeepsIds DEF NextGrow
  <2>4. CASE NextFree
    BY <2>4, FreeKeepsIds DEF NextFree
  <2>5. CASE NextFreeAll
    BY <2>5, FreeAllKeepsIds DEF NextFreeAll
  <2> QED BY <2>1, <2>2, <2>3, <2>4, <2>5 DEF Next
<1>3. IdInv => IdsUnique
  BY DEF IdInv
<1> QED BY <1>1, <1>2, <1>3, PTL DEF Spec

-----------------------------------------------------------------------------
(* The mark of LEAK goes with the block.                                   *)

MarksAgree ==
    \A h \in DOMAIN live : nodes[live[h].by][h].leak = live[h].leak

LeakInv == IInv /\ MarksAgree

LEMMA NodeOfBlock ==
    ASSUME IInv, NEW h \in DOMAIN live
    PROVE  live[h].by \in Threads /\ h \in DOMAIN nodes[live[h].by]
  BY AgreeNow DEF IInv, Owners, Agree

LEMMA CrashKeepsMarks == ASSUME MarksAgree, NEW a, Crash(a) PROVE MarksAgree'
  BY DEF MarksAgree, Crash

LEMMA StutterKeepsMarks == ASSUME MarksAgree, UNCHANGED vars PROVE MarksAgree'
  BY DEF MarksAgree, vars

(* Thread t lays down at most the block h, its node with it, and leaves    *)
(* the marks of its other nodes alone.                                     *)
LEMMA LayingKeepsMarks ==
    ASSUME LeakInv, NEW t \in Threads, NEW h,
           \A s \in Threads \ {t} : nodes'[s] = nodes[s],
           h \in DOMAIN live' => live'[h].by = t /\ nodes'[t][h].leak = live'[h].leak,
           \A k \in DOMAIN live' \ {h} :
              /\ k \in DOMAIN live /\ live'[k] = live[k]
              /\ live[k].by = t => nodes'[t][k].leak = nodes[t][k].leak
    PROVE  MarksAgree'
<1> SUFFICES ASSUME NEW k \in DOMAIN live' PROVE nodes'[live'[k].by][k].leak = live'[k].leak
  BY DEF MarksAgree
<1>1. CASE k = h
  BY <1>1
<1>2. CASE k # h
  <2>1. k \in DOMAIN live /\ live'[k] = live[k]
    BY <1>2
  <2>2. live[k].by \in Threads /\ nodes[live[k].by][k].leak = live[k].leak
    BY <2>1, NodeOfBlock DEF LeakInv, MarksAgree
  <2> QED BY <1>2, <2>1, <2>2
<1> QED BY <1>1, <1>2

LEMMA AllocateKeepsMarks ==
    ASSUME LeakInv, NEW t \in Threads, NEW al, NEW u, NEW align, NEW leak,
           Allocate(t, al, u, align, leak)
    PROVE  MarksAgree'
<1>1. ASSUME NEW a, Crash(a) PROVE MarksAgree'
  BY <1>1, CrashKeepsMarks DEF LeakInv
<1>2. ASSUME NEW a, NEW at, Place(t, al, u, a, leak, at) PROVE MarksAgree'
  <2>1. ASSUME NEW h, nodes' = [nodes EXCEPT ![t] = With(@, h, NewNode(t, leak))],
               live' = With(live, h, Header(al, u, a, at, t, leak))
        PROVE  MarksAgree'
    <3>1. live'[h].by = t /\ live'[h].leak = leak /\ \A k \in DOMAIN live' \ {h} :
             k \in DOMAIN live /\ live'[k] = live[k]
      BY <2>1 DEF With, Header
    <3>2. \A k \in DOMAIN live : live[k].by = t => k \in DOMAIN nodes[t]
      BY NodeOfBlock DEF LeakInv
    <3>3. nodes'[t] = With(nodes[t], h, NewNode(t, leak))
          /\ \A s \in Threads \ {t} : nodes'[s] = nodes[s]
      BY <2>1 DEF LeakInv, IInv, GoodNodes
    <3>4. nodes'[t][h].leak = leak /\ \A k \in DOMAIN nodes[t] \ {h} : nodes'[t][k] = nodes[t][k]
      BY <3>3 DEF With, NewNode
    <3> QED BY <3>1, <3>2, <3>3, <3>4, LayingKeepsMarks
  <2> QED BY <1>1, <1>2, <2>1, Zenon DEF Place
<1> QED BY <1>1, <1>2, Zenon DEF Allocate

LEMMA ReallocateKeepsMarks ==
    ASSUME LeakInv, NEW t \in Threads, NEW h, NEW u, Reallocate(t, h, u)
    PROVE  MarksAgree'
<1>1. ASSUME NEW a, Crash(a) PROVE MarksAgree'
  BY <1>1, CrashKeepsMarks DEF LeakInv
<1>2. CASE UNCHANGED vars
  BY <1>2, StutterKeepsMarks DEF LeakInv
<1>3. ASSUME Owned(t, h)
      PROVE  /\ h \in DOMAIN live /\ live[h].by = t /\ nodes[t][h].leak = live[h].leak
             /\ \A k \in DOMAIN live : live[k].by = t => k \in DOMAIN nodes[t]
  BY <1>3, OwnedIsLive, NodeOfBlock DEF LeakInv, MarksAgree
<1>4. ASSUME Owned(t, h), ResizeInPlace(t, h, u) PROVE MarksAgree'
  <2>1. ASSUME nodes' = [nodes EXCEPT ![t] = With(@, h, Reallocated(@[h]))],
               live' = With(live, h, Resized(live[h], u, live[h].pad))
        PROVE  MarksAgree'
    <3>1. live'[h].by = t /\ live'[h].leak = live[h].leak /\ \A k \in DOMAIN live' \ {h} :
             k \in DOMAIN live /\ live'[k] = live[k]
      BY <1>3, <1>4, <2>1 DEF With, Resized
    <3>2. nodes'[t] = With(nodes[t], h, Reallocated(nodes[t][h]))
          /\ \A s \in Threads \ {t} : nodes'[s] = nodes[s]
      BY <2>1 DEF LeakInv, IInv, GoodNodes
    <3>3. nodes'[t][h].leak = live[h].leak
          /\ \A k \in DOMAIN nodes[t] \ {h} : nodes'[t][k] = nodes[t][k]
      BY <1>3, <1>4, <3>2 DEF With, Reallocated
    <3> QED BY <1>3, <1>4, <3>1, <3>2, <3>3, LayingKeepsMarks
  <2> QED BY <1>1, <1>4, <2>1, Zenon DEF ResizeInPlace
<1>5. ASSUME NEW at, Owned(t, h), Move(t, h, u, at) PROVE MarksAgree'
  <2>1. ASSUME NEW h2, NEW pad, live' = With(Without(live, h), h2, Resized(live[h], u, pad)),
               nodes' = [nodes EXCEPT ![t] =
                   With(With(@, h, Freed(nodes[t][h])), h2, Reallocated(nodes[t][h]))]
        PROVE  MarksAgree'
    <3>1. live'[h2].by = t /\ live'[h2].leak = live[h].leak /\ \A k \in DOMAIN live' \ {h2} :
             k \in DOMAIN live \ {h} /\ live'[k] = live[k]
      BY <1>3, <1>5, <2>1 DEF With, Without, Resized
    <3>2. nodes'[t] = With(With(nodes[t], h, Freed(nodes[t][h])), h2, Reallocated(nodes[t][h]))
          /\ \A s \in Threads \ {t} : nodes'[s] = nodes[s]
      BY <2>1 DEF LeakInv, IInv, GoodNodes
    <3>3. nodes'[t][h2].leak = live[h].leak
          /\ \A k \in DOMAIN nodes[t] \ {h, h2} : nodes'[t][k] = nodes[t][k]
      BY <1>3, <1>5, <3>2 DEF With, Reallocated
    <3> QED BY <1>3, <1>5, <3>1, <3>2, <3>3, LayingKeepsMarks
  <2> QED BY <1>1, <1>5, <2>1, Zenon DEF Move
<1> QED BY <1>1, <1>2, <1>4, <1>5, Zenon DEF Reallocate

LEMMA FreeKeepsMarks == ASSUME LeakInv, NEW t \in Threads, NEW h, Free(t, h) PROVE MarksAgree'
<1>1. ASSUME NEW a, Crash(a) PROVE MarksAgree'
  BY <1>1, CrashKeepsMarks DEF LeakInv
<1>2. CASE UNCHANGED vars
  BY <1>2, StutterKeepsMarks DEF LeakInv
<1>3. ASSUME Owned(t, h), nodes' = [nodes EXCEPT ![t] = With(@, h, Freed(@[h]))],
             live' = Without(live, h)
      PROVE  MarksAgree'
  <2>1. nodes'[t] = With(nodes[t], h, Freed(nodes[t][h]))
        /\ \A s \in Threads \ {t} : nodes'[s] = nodes[s]
    BY <1>3 DEF LeakInv, IInv, GoodNodes
  <2>2. \A k \in DOMAIN live' : k \in DOMAIN live \ {h} /\ live'[k] = live[k]
    BY <1>3 DEF Without
  <2>3. \A k \in DOMAIN live : live[k].by = t => k \in DOMAIN nodes[t]
    BY NodeOfBlock DEF LeakInv
  <2>4. \A k \in DOMAIN nodes[t] \ {h} : nodes'[t][k] = nodes[t][k]
    BY <2>1 DEF With
  <2> QED BY <2>1, <2>2, <2>3, <2>4, LayingKeepsMarks
<1> QED BY <1>1, <1>2, <1>3, Zenon DEF Free

LEMMA FreeAllKeepsMarks == ASSUME LeakInv, NEW t \in Threads, NEW al, FreeAll(t, al) PROVE MarksAgree'
<1>1. ASSUME NEW a, Crash(a) PROVE MarksAgree'
  BY <1>1, CrashKeepsMarks DEF LeakInv
<1>2. ASSUME NEW S, NEW gone, live' = [k \in DOMAIN live \ gone |-> live[k]],
             nodes' = [nodes EXCEPT ![t] =
                [h \in DOMAIN @ |-> IF h \in S THEN Freed(nodes[t][h]) ELSE nodes[t][h]]]
      PROVE  MarksAgree'
  <2>1. nodes'[t] = [h \in DOMAIN nodes[t] |->
                        IF h \in S THEN Freed(nodes[t][h]) ELSE nodes[t][h]]
        /\ \A s \in Threads \ {t} : nodes'[s] = nodes[s]
    BY <1>2 DEF LeakInv, IInv, GoodNodes
  <2>2. \A k \in DOMAIN live' : k \in DOMAIN live /\ live'[k] = live[k]
    BY <1>2
  <2>3. \A k \in DOMAIN live : live[k].by = t => k \in DOMAIN nodes[t]
    BY NodeOfBlock DEF LeakInv
  <2>4. \A k \in DOMAIN nodes[t] : nodes'[t][k].leak = nodes[t][k].leak
    BY <2>1 DEF Freed
  <2>5. \A k \in DOMAIN live' : live'[k].by = t => nodes'[t][k].leak = live'[k].leak
    BY <2>2, <2>3, <2>4 DEF LeakInv, MarksAgree
  <2>6. \A k \in DOMAIN live' : live'[k].by # t => nodes'[live'[k].by][k].leak = live'[k].leak
    BY <2>1, <2>2, NodeOfBlock DEF LeakInv, MarksAgree
  <2> QED BY <2>5, <2>6 DEF MarksAgree
<1> QED BY <1>1, <1>2, Zenon DEF FreeAll

(* The leak report lists what the program asked for without LEAK and still *)
(* holds, no more and no less (debug_memory_report_leaks).                 *)
THEOREM LeakReportIsExact == Spec => []LeakReportExact
<1>1. Init => MarksAgree
  <2>1. Init => DOMAIN live = {}
    BY DEF Init, Nothing
  <2> QED BY <2>1 DEF MarksAgree
<1>2. LeakInv /\ [Next]_vars => MarksAgree'
  <2> SUFFICES ASSUME LeakInv, [Next]_vars PROVE MarksAgree'
    OBVIOUS
  <2>1. CASE UNCHANGED vars
    BY <2>1, StutterKeepsMarks DEF LeakInv
  <2>2. CASE NextAllocate
    BY <2>2, AllocateKeepsMarks DEF NextAllocate
  <2>3. CASE NextGrow
    BY <2>3, ReallocateKeepsMarks DEF NextGrow
  <2>4. CASE NextFree
    BY <2>4, FreeKeepsMarks DEF NextFree
  <2>5. CASE NextFreeAll
    BY <2>5, FreeAllKeepsMarks DEF NextFreeAll
  <2> QED BY <2>1, <2>2, <2>3, <2>4, <2>5 DEF Next
<1>3. Init => LeakInv
  BY <1>1, InitIInv DEF LeakInv
<1>4. LeakInv /\ [Next]_vars => LeakInv'
  BY <1>2, NextIInv DEF LeakInv
<1>5. ASSUME LeakInv PROVE LeakReportExact
  <2>1. Agree(nodes, live) /\ MarksAgree
    BY <1>5, AgreeNow DEF LeakInv, IInv
  <2> QED BY <2>1 DEF Agree, MarksAgree, LeakReportExact, Leaks
<1> QED BY <1>3, <1>4, <1>5, PTL DEF Spec
-----------------------------------------------------------------------------
(* Types: nodes and headers are records of what the code keeps in them, on *)
(* whichever path they are written.                                        *)
Node  == [id : Nat, rid : Nat, leak : BOOLEAN, freed : BOOLEAN]
Block == [alloc : Allocs, size : Sizes, align : Alignments,
          pad : Nat, by : Threads, leak : BOOLEAN]

AllOf(S, f) == \A h \in DOMAIN f : f[h] \in S

Typed == /\ GoodNodes /\ \A t \in Threads : AllOf(Node, nodes[t])
         /\ AllOf(Block, live)
         /\ count \in [Threads -> Nat]
         /\ crash \in Assertions \cup {""}

LEMMA WithTyped ==
    ASSUME NEW S, NEW f, AllOf(S, f), NEW h, NEW v \in S PROVE AllOf(S, With(f, h, v))
  BY DEF AllOf, With

LEMMA WithoutTyped == ASSUME NEW S, NEW f, AllOf(S, f), NEW h PROVE AllOf(S, Without(f, h))
  BY DEF AllOf, Without

LEMMA OneListTyped ==
    ASSUME Typed, NEW t \in Threads, NEW f, AllOf(Node, f), nodes' = [nodes EXCEPT ![t] = f]
    PROVE  GoodNodes' /\ \A s \in Threads : AllOf(Node, nodes'[s])
  BY DEF Typed, GoodNodes

LEMMA CrashTyped == ASSUME Typed, NEW a \in Assertions, Crash(a) PROVE Typed'
  BY Zenon DEF Crash, Typed, GoodNodes, AllOf

LEMMA StutterTyped == ASSUME Typed, UNCHANGED vars PROVE Typed'
  BY Zenon DEF vars, Typed, GoodNodes, AllOf

(* What the two marks of a node and a resize make of a record.             *)
LEMMA NodesTyped ==
    ASSUME Typed, NEW t \in Threads
    PROVE  /\ \A leak \in BOOLEAN : NewNode(t, leak) \in Node
           /\ \A n \in Node : Freed(n) \in Node /\ Reallocated(n) \in Node
<1>1. count[t] \in Nat
  BY DEF Typed
<1> QED BY <1>1 DEF NewNode, Freed, Reallocated, Node

LEMMA ResizedTyped ==
    ASSUME NEW b \in Block, NEW u \in Sizes, NEW pad \in Nat PROVE Resized(b, u, pad) \in Block
  BY DEF Resized, Block

LEMMA PaddingTyped ==
    ASSUME NEW at \in Bases, NEW a \in Alignments PROVE AlignmentPadding(at, a) \in Nat
<1>1. at \in Nat /\ a \in Nat /\ a > 0 /\ a <= MaxAlignment
  BY HeapAssumption, AlignmentsPositive
<1> QED BY <1>1, AlignmentPaddingBounded

LEMMA AllocateTyped ==
    ASSUME Typed, NEW t \in Threads, NEW al \in Uses[t], NEW u \in Sizes, NEW align \in Aligns,
           NEW leak \in BOOLEAN, Allocate(t, al, u, align, leak)
    PROVE  Typed'
<1>1. "verify" \in Assertions /\ "allocator returned null" \in Assertions /\ "still live" \in Assertions
      /\ "nodes pool" \in Assertions /\ "overlap" \in Assertions
  BY Zenon DEF Assertions
<1>2. PICK a \in Alignments : a = EffectiveAlignment(align)
  BY HeapAssumption DEF EffectiveAlignment
<1>3. ASSUME NEW at \in Bases, NEW h, nodes' = [nodes EXCEPT ![t] = With(@, h, NewNode(t, leak))],
             live' = With(live, h, Header(al, u, a, at, t, leak)),
             count' = [count EXCEPT ![t] = @ + 1], crash' = crash
      PROVE  Typed'
  <2>1. Header(al, u, a, at, t, leak) \in Block
    BY PaddingTyped DEF Header, Block, Allocs
  <2>2. AllOf(Block, live')
    BY <1>3, <2>1, WithTyped DEF Typed
  <2>3. nodes' = [nodes EXCEPT ![t] = With(nodes[t], h, NewNode(t, leak))]
    BY <1>3
  <2>4. NewNode(t, leak) \in Node /\ AllOf(Node, nodes[t])
    BY NodesTyped DEF Typed
  <2>5. AllOf(Node, With(nodes[t], h, NewNode(t, leak)))
    BY <2>4, WithTyped
  <2>6. GoodNodes' /\ \A s \in Threads : AllOf(Node, nodes'[s])
    BY <2>3, <2>5, OneListTyped
  <2>7. count' \in [Threads -> Nat]
    <3>1. count \in [Threads -> Nat]
      BY DEF Typed
    <3> QED BY <1>3, <3>1
  <2> QED BY <1>3, <2>2, <2>6, <2>7 DEF Typed
<1>4. ASSUME NEW at \in Bases, Place(t, al, u, a, leak, at) PROVE Typed'
  BY <1>1, <1>3, <1>4, CrashTyped, Zenon DEF Place
<1> QED BY <1>1, <1>2, <1>4, CrashTyped, Zenon DEF Allocate

LEMMA ReallocateTyped ==
    ASSUME IInv, Typed, NEW t \in Threads, NEW h, NEW u \in Sizes, Reallocate(t, h, u)
    PROVE  Typed'
<1>1. "verify" \in Assertions /\ "allocator returned null" \in Assertions /\ "garbage header" \in Assertions
      /\ "nodes pool" \in Assertions /\ "overlap" \in Assertions /\ "list_add" \in Assertions
  BY Zenon DEF Assertions
<1>2. ASSUME Owned(t, h)
      PROVE  /\ live[h] \in Block /\ live[h].align \in Alignments /\ live[h].pad \in Nat
             /\ nodes[t][h] \in Node /\ AllOf(Node, nodes[t]) /\ AllOf(Block, live)
  <2>1. h \in DOMAIN live /\ h \in DOMAIN nodes[t]
    BY <1>2, OwnedIsLive DEF Owned
  <2>2. live[h] \in Block /\ nodes[t][h] \in Node /\ AllOf(Node, nodes[t]) /\ AllOf(Block, live)
    BY <2>1 DEF Typed, AllOf
  <2> QED BY <2>2 DEF Block
<1>3. ASSUME Owned(t, h), ResizeInPlace(t, h, u) PROVE Typed'
  <2>1. ASSUME nodes' = [nodes EXCEPT ![t] = With(@, h, Reallocated(@[h]))],
               live' = With(live, h, Resized(live[h], u, live[h].pad)),
               UNCHANGED <<count, crash>>
        PROVE  Typed'
    <3>1. AllOf(Block, live')
      BY <1>2, <1>3, <2>1, ResizedTyped, WithTyped
    <3>2. nodes' = [nodes EXCEPT ![t] = With(nodes[t], h, Reallocated(nodes[t][h]))]
      BY <2>1
    <3>3. Reallocated(nodes[t][h]) \in Node
      BY <1>2, <1>3, NodesTyped
    <3>4. AllOf(Node, With(nodes[t], h, Reallocated(nodes[t][h])))
      BY <1>2, <1>3, <3>3, WithTyped
    <3>5. GoodNodes' /\ \A s \in Threads : AllOf(Node, nodes'[s])
      BY <3>2, <3>4, OneListTyped
    <3> QED BY <2>1, <3>1, <3>5 DEF Typed
  <2> QED BY <1>1, <1>3, <2>1, CrashTyped, Zenon DEF ResizeInPlace
<1>4. ASSUME NEW at \in Bases, Owned(t, h), Move(t, h, u, at) PROVE Typed'
  <2>1. ASSUME NEW h2,
               live' = With(Without(live, h), h2,
                            Resized(live[h], u, AlignmentPadding(at, live[h].align))),
               nodes' = [nodes EXCEPT ![t] =
                   With(With(@, h, Freed(nodes[t][h])), h2, Reallocated(nodes[t][h]))],
               UNCHANGED <<count, crash>>
        PROVE  Typed'
    <3>1. AlignmentPadding(at, live[h].align) \in Nat
      BY <1>2, <1>4, PaddingTyped
    <3>2. Resized(live[h], u, AlignmentPadding(at, live[h].align)) \in Block
      BY <1>2, <1>4, <3>1, ResizedTyped
    <3>3. AllOf(Block, Without(live, h))
      BY <1>2, <1>4, WithoutTyped
    <3>4. AllOf(Block, live')
      BY <2>1, <3>2, <3>3, WithTyped
    <3>5. nodes' = [nodes EXCEPT ![t] =
                       With(With(nodes[t], h, Freed(nodes[t][h])), h2, Reallocated(nodes[t][h]))]
      BY <2>1
    <3>6. Freed(nodes[t][h]) \in Node /\ Reallocated(nodes[t][h]) \in Node
      BY <1>2, <1>4, NodesTyped
    <3>7. AllOf(Node, With(nodes[t], h, Freed(nodes[t][h])))
      BY <1>2, <1>4, <3>6, WithTyped
    <3>8. AllOf(Node, With(With(nodes[t], h, Freed(nodes[t][h])), h2, Reallocated(nodes[t][h])))
      BY <3>6, <3>7, WithTyped
    <3>9. GoodNodes' /\ \A s \in Threads : AllOf(Node, nodes'[s])
      BY <3>5, <3>8, OneListTyped
    <3> QED BY <2>1, <3>4, <3>9 DEF Typed
  <2> QED BY <1>1, <1>4, <2>1, CrashTyped, Zenon DEF Move
<1> QED BY <1>1, <1>3, <1>4, CrashTyped, StutterTyped, Zenon DEF Reallocate

LEMMA FreeTyped ==
    ASSUME IInv, Typed, NEW t \in Threads, NEW h, Free(t, h) PROVE Typed'
<1>1. "verify" \in Assertions /\ "garbage header" \in Assertions
  BY Zenon DEF Assertions
<1>2. ASSUME Owned(t, h), nodes' = [nodes EXCEPT ![t] = With(@, h, Freed(@[h]))],
             live' = Without(live, h), UNCHANGED <<count, crash>>
      PROVE  Typed'
  <2>1. AllOf(Block, live')
    BY <1>2, WithoutTyped DEF Typed
  <2>2. nodes' = [nodes EXCEPT ![t] = With(nodes[t], h, Freed(nodes[t][h]))]
    BY <1>2
  <2>3. nodes[t][h] \in Node /\ AllOf(Node, nodes[t])
    BY <1>2 DEF Typed, AllOf, Owned
  <2>4. AllOf(Node, With(nodes[t], h, Freed(nodes[t][h])))
    BY <2>3, NodesTyped, WithTyped
  <2>5. GoodNodes' /\ \A s \in Threads : AllOf(Node, nodes'[s])
    BY <2>2, <2>4, OneListTyped
  <2> QED BY <1>2, <2>1, <2>5 DEF Typed
<1> QED BY <1>1, <1>2, CrashTyped, StutterTyped, Zenon DEF Free

LEMMA FreeAllTyped ==
    ASSUME Typed, NEW t \in Threads, NEW al, FreeAll(t, al) PROVE Typed'
<1>1. "garbage header" \in Assertions
  BY Zenon DEF Assertions
<1>2. ASSUME NEW S, NEW gone, live' = [k \in DOMAIN live \ gone |-> live[k]],
             nodes' = [nodes EXCEPT ![t] =
                [h \in DOMAIN @ |-> IF h \in S THEN Freed(nodes[t][h]) ELSE nodes[t][h]]],
             UNCHANGED <<count, crash>>
      PROVE  Typed'
  <2> DEFINE f == [h \in DOMAIN nodes[t] |-> IF h \in S THEN Freed(nodes[t][h]) ELSE nodes[t][h]]
  <2>1. AllOf(Block, live')
    BY <1>2 DEF Typed, AllOf
  <2>2. AllOf(Node, f)
    BY NodesTyped DEF Typed, AllOf
  <2>3. nodes' = [nodes EXCEPT ![t] = f]
    BY <1>2
  <2> HIDE DEF f
  <2>4. GoodNodes' /\ \A s \in Threads : AllOf(Node, nodes'[s])
    BY <2>2, <2>3, OneListTyped
  <2> QED BY <1>2, <2>1, <2>4 DEF Typed
<1> QED BY <1>1, <1>2, CrashTyped, Zenon DEF FreeAll

(* Every node and every header of the debug heap is well formed after any  *)
(* sequence of allocations, resizes, moves and frees of any threads, and   *)
(* what a fill may have torn is a block that is still there.               *)
THEOREM TypeCorrect == Spec => []TypeOK
<1>1. Init => Typed
  <2> SUFFICES ASSUME Init PROVE Typed
    OBVIOUS
  <2>1. DOMAIN Nothing = {}
    BY DEF Nothing
  <2>2. GoodNodes /\ \A t \in Threads : nodes[t] = Nothing
    BY DEF Init, GoodNodes
  <2>3. live = Nothing /\ count \in [Threads -> Nat] /\ crash \in Assertions \cup {""}
    BY DEF Init
  <2> QED BY <2>1, <2>2, <2>3 DEF Typed, AllOf
<1>2. IInv /\ Typed /\ [Next]_vars => Typed'
  <2> SUFFICES ASSUME IInv, Typed, [Next]_vars PROVE Typed'
    OBVIOUS
  <2>1. CASE NextAllocate
    BY <2>1, AllocateTyped DEF NextAllocate
  <2>2. CASE NextGrow
    BY <2>2, ReallocateTyped DEF NextGrow
  <2>3. CASE NextFree
    BY <2>3, FreeTyped DEF NextFree
  <2>4. CASE NextFreeAll
    BY <2>4, FreeAllTyped DEF NextFreeAll
  <2> QED BY <2>1, <2>2, <2>3, <2>4, StutterTyped DEF Next
<1>3. IInv /\ Typed => TypeOK
  BY DEF IInv, Typed, AllOf, Node, Block, NoBlockTorn, TypeOK
<1> QED BY <1>1, <1>2, <1>3, InitIInv, NextIInv, PTL DEF Spec
=============================================================================
