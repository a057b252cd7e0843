------------------------------ MODULE XarProofs ------------------------------
(***************************************************************************)
(* The xar, proved for any base size, number of chunks and elements: an    *)
(* index leads to its chunk and offset by arithmetic, in the xar's own     *)
(* terms and in the string builder's, and every operation keeps the        *)
(* elements at their places.                                               *)
(***************************************************************************)
EXTENDS HashTableProofs

Steps(S) == [Nat -> [S -> S]]

(* f begins with first and goes on by step.                                *)
Repeats(f, S, first, step) ==
    f \in [Nat -> S] /\ f[0] = first /\ \A n \in Nat : f[n + 1] = step[n][f[n]]

(* A value for every number, each from the one before, is a function.      *)
LEMMA Recursion ==
    ASSUME NEW S, NEW first \in S, NEW step \in Steps(S)
    PROVE  \E f : Repeats(f, S, first, step)
<1>0. step \in [Nat -> [S -> S]]
  BY DEF Steps
<1> DEFINE Upto(n) == {g \in [0..n -> S] : /\ g[0] = first
                                           /\ \A i \in 0..n : i + 1 <= n => g[i + 1] = step[i][g[i]]}
           Some == {n \in Nat : Upto(n) # {}}
<1>1. Nat \subseteq Some
  <2>1. 0 \in Some
    <3>1. [i \in 0..0 |-> first] \in Upto(0)
      OBVIOUS
    <3> QED BY <3>1
  <2>2. ASSUME NEW n \in Nat, n \in Some PROVE n + 1 \in Some
    <3>1. PICK g : g \in Upto(n)
      BY <2>2
    <3> DEFINE h == [i \in 0..(n + 1) |-> IF i <= n THEN g[i] ELSE step[n][g[n]]]
    <3>2. h \in [0..(n + 1) -> S] /\ h[0] = first
      BY <1>0, <3>1
    <3>3. ASSUME NEW i \in 0..(n + 1), i + 1 <= n + 1 PROVE h[i + 1] = step[i][h[i]]
      <4>1. CASE i = n
        BY <3>1, <4>1
      <4>2. CASE i # n
        <5>1. i \in 0..n /\ i + 1 <= n /\ i + 1 \in 0..(n + 1)
          BY <3>3, <4>2
        <5> QED BY <3>1, <5>1
      <4> QED BY <4>1, <4>2
    <3>4. h \in Upto(n + 1)
      <4> HIDE DEF h
      <4> QED BY <3>2, <3>3
    <3> HIDE DEF h, Upto
    <3>5. Upto(n + 1) # {} /\ n + 1 \in Nat
      BY <3>4
    <3> QED BY <3>5
  <2> HIDE DEF Some
  <2> QED BY <2>1, <2>2, SetInduction
<1>2. ASSUME NEW n \in Nat, NEW m \in Nat, NEW g \in Upto(n), NEW h \in Upto(m), n <= m
      PROVE  \A i \in 0..n : g[i] = h[i]
  <2> DEFINE Same == {i \in Nat : i <= n => g[i] = h[i]}
  <2>1. 0 \in Same
    OBVIOUS
  <2>2. ASSUME NEW i \in Nat, i \in Same PROVE i + 1 \in Same
    <3> SUFFICES ASSUME i + 1 <= n PROVE g[i + 1] = h[i + 1]
      OBVIOUS
    <3>1. i \in 0..n /\ i \in 0..m /\ i + 1 <= m /\ g[i] = h[i]
      BY <1>2, <2>2
    <3> QED BY <3>1
  <2>3. Nat \subseteq Same
    <3> HIDE DEF Same
    <3> QED BY <2>1, <2>2, SetInduction
  <2> QED BY <2>3
<1> DEFINE at(n) == CHOOSE g \in Upto(n) : TRUE
           f == [n \in Nat |-> at(n)[n]]
<1>3. ASSUME NEW n \in Nat PROVE at(n) \in Upto(n)
  BY <1>1
<1> HIDE DEF at
<1>4. f \in [Nat -> S] /\ f[0] = first
  <2>1. ASSUME NEW n \in Nat PROVE at(n)[n] \in S
    BY <1>3
  <2>2. at(0)[0] = first
    BY <1>3
  <2> QED BY <2>1, <2>2
<1>5. ASSUME NEW n \in Nat PROVE f[n + 1] = step[n][f[n]]
  <2>1. PICK g, h : g = at(n) /\ h = at(n + 1)
    OBVIOUS
  <2>2. g \in Upto(n) /\ h \in Upto(n + 1)
    <3> HIDE DEF Upto
    <3>1. n + 1 \in Nat
      OBVIOUS
    <3> QED BY <1>3, <2>1, <3>1
  <2>3. g[n] = h[n]
    <3>1. n + 1 \in Nat /\ n <= n + 1 /\ n \in 0..n
      OBVIOUS
    <3> HIDE DEF Upto
    <3>2. \A i \in 0..n : g[i] = h[i]
      BY <1>2, <2>2, <3>1
    <3> QED BY <3>1, <3>2
  <2>4. h[n + 1] = step[n][h[n]]
    BY <2>2
  <2>5. f[n + 1] = h[n + 1] /\ f[n] = g[n]
    BY <2>1
  <2> QED BY <2>3, <2>4, <2>5
<1> HIDE DEF f
<1> QED BY <1>4, <1>5 DEF Repeats

LEMMA TimesGrows == ASSUME NEW a \in Nat, NEW b \in Nat, NEW c \in Nat, a <= b PROVE c * a <= c * b
<1>1. PICK d \in Nat : b = a + d
  <2>1. b - a \in Nat /\ b = a + (b - a)
    OBVIOUS
  <2> QED BY <2>1
<1> QED BY <1>1

(* The powers of two, as numbers.                                          *)
LEMMA Pow2Facts ==
    /\ XA!Pow2[0] = 1
    /\ \A n \in Nat : XA!Pow2[n] \in Nat /\ XA!Pow2[n + 1] = 2 * XA!Pow2[n]
<1> DEFINE Is(f) == f = [n \in Nat |-> IF n = 0 THEN 1 ELSE 2 * f[n - 1]]
           step == [n \in Nat |-> [m \in Nat |-> 2 * m]]
<1>1. PICK g \in [Nat -> Nat] : g[0] = 1 /\ \A n \in Nat : g[n + 1] = step[n][g[n]]
  <2>1. step \in [Nat -> [Nat -> Nat]] /\ 1 \in Nat
    OBVIOUS
  <2>2. step \in Steps(Nat)
    BY <2>1 DEF Steps
  <2> HIDE DEF step
  <2>3. \E g : Repeats(g, Nat, 1, step)
    BY <2>1, <2>2, Recursion
  <2> QED BY <2>3 DEF Repeats
<1>2. \A n \in Nat : g[n + 1] = 2 * g[n]
  BY <1>1
<1>3. Is(g)
  <2>1. ASSUME NEW n \in Nat PROVE g[n] = IF n = 0 THEN 1 ELSE 2 * g[n - 1]
    <3>1. CASE n = 0
      BY <1>1, <3>1
    <3>2. CASE n # 0
      <4>1. n - 1 \in Nat /\ (n - 1) + 1 = n
        BY <3>2
      <4> QED BY <1>2, <3>2, <4>1
    <3> QED BY <3>1, <3>2
  <2>2. g = [n \in Nat |-> g[n]]
    BY <1>1
  <2> HIDE DEF step
  <2> QED BY <2>1, <2>2
<1>4. Is(XA!Pow2)
  <2>1. XA!Pow2 = CHOOSE f : Is(f)
    BY Zenon DEF XA!Pow2
  <2> HIDE DEF Is
  <2> QED BY <1>3, <2>1
<1>5. PICK p : p = XA!Pow2
  OBVIOUS
<1>6. p = [n \in Nat |-> IF n = 0 THEN 1 ELSE 2 * p[n - 1]]
  BY <1>4, <1>5
<1>7. p[0] = 1 /\ \A n \in Nat : p[n + 1] = 2 * p[n]
  <2>1. ASSUME NEW n \in Nat PROVE p[n + 1] = 2 * p[n]
    <3>1. n + 1 \in Nat /\ n + 1 # 0 /\ (n + 1) - 1 = n
      OBVIOUS
    <3> QED BY <1>6, <3>1
  <2> QED BY <1>6, <2>1
<1>8. \A n \in Nat : p[n] \in Nat
  <2> DEFINE Numbers == {n \in Nat : p[n] \in Nat}
  <2>1. 0 \in Numbers /\ \A n \in Nat : n \in Numbers => n + 1 \in Numbers
    BY <1>7
  <2>2. Nat \subseteq Numbers
    <3> HIDE DEF Numbers
    <3> QED BY <2>1, SetInduction
  <2> QED BY <2>2
<1> QED BY <1>5, <1>7, <1>8

LEMMA Pow2Grows ==
    /\ \A n \in Nat : XA!Pow2[n] > 0
    /\ \A m, n \in Nat : m <= n => XA!Pow2[m] <= XA!Pow2[n]
<1> DEFINE Some == {n \in Nat : XA!Pow2[n] > 0}
<1>1. 0 \in Some /\ \A n \in Nat : n \in Some => n + 1 \in Some
  BY Pow2Facts
<1>2. Nat \subseteq Some
  <2> HIDE DEF Some
  <2> QED BY <1>1, SetInduction
<1>3. ASSUME NEW m \in Nat PROVE \A n \in Nat : m <= n => XA!Pow2[m] <= XA!Pow2[n]
  <2> DEFINE More == {d \in Nat : XA!Pow2[m] <= XA!Pow2[m + d]}
  <2>1. 0 \in More
    BY Pow2Facts
  <2>2. ASSUME NEW d \in Nat, d \in More PROVE d + 1 \in More
    <3>1. m + d \in Nat /\ m + (d + 1) = (m + d) + 1
      OBVIOUS
    <3>2. XA!Pow2[m + (d + 1)] = 2 * XA!Pow2[m + d] /\ XA!Pow2[m + d] \in Nat /\ XA!Pow2[m] \in Nat
      BY <3>1, Pow2Facts
    <3> QED BY <2>2, <3>2
  <2>3. Nat \subseteq More
    <3> HIDE DEF More
    <3> QED BY <2>1, <2>2, SetInduction
  <2> SUFFICES ASSUME NEW n \in Nat, m <= n PROVE XA!Pow2[m] <= XA!Pow2[n]
    OBVIOUS
  <2>4. n - m \in Nat /\ m + (n - m) = n
    OBVIOUS
  <2>5. XA!Pow2[m] <= XA!Pow2[m + (n - m)]
    BY <2>3, <2>4
  <2> QED BY <2>4, <2>5
<1> QED BY <1>2, <1>3

(* 1 << (c + d) is 1 << c times 1 << d.                                    *)
LEMMA Pow2Sum == \A c, d \in Nat : XA!Pow2[c + d] = XA!Pow2[d] * XA!Pow2[c]
<1> SUFFICES ASSUME NEW d \in Nat PROVE \A c \in Nat : XA!Pow2[c + d] = XA!Pow2[d] * XA!Pow2[c]
  OBVIOUS
<1> DEFINE Sums == {c \in Nat : XA!Pow2[c + d] = XA!Pow2[d] * XA!Pow2[c]}
<1>1. 0 \in Sums
  BY Pow2Facts
<1>2. ASSUME NEW c \in Nat, c \in Sums PROVE c + 1 \in Sums
  <2>1. c + d \in Nat /\ (c + 1) + d = (c + d) + 1
    OBVIOUS
  <2>2. XA!Pow2[(c + 1) + d] = 2 * XA!Pow2[c + d] /\ XA!Pow2[c + 1] = 2 * XA!Pow2[c]
    BY <2>1, Pow2Facts
  <2>3. PICK x, y \in Nat : x = XA!Pow2[d] /\ y = XA!Pow2[c]
    BY Pow2Facts
  <2>4. XA!Pow2[c + d] = x * y
    BY <1>2, <2>3
  <2>5. x * (2 * y) = 2 * (x * y)
    OBVIOUS
  <2> QED BY <2>2, <2>3, <2>4, <2>5
<1>3. Nat \subseteq Sums
  <2> HIDE DEF Sums
  <2> QED BY <1>1, <1>2, SetInduction
<1> QED BY <1>3

(* msb finds the power of two below.                                       *)
LEMMA HighestBit ==
    ASSUME XA!XarAssumption, NEW x \in Nat, x > 0, x < XA!Pow2[N - 1]
    PROVE  /\ XA!msb(x) \in Nat /\ XA!msb(x) + 1 <= N - 1
           /\ XA!Pow2[XA!msb(x)] <= x /\ x < 2 * XA!Pow2[XA!msb(x)]
<1>0. N \in Nat /\ N - 1 \in Nat
  BY DEF XA!XarAssumption
<1> DEFINE Above == {b \in Nat : x < XA!Pow2[b]}
<1>1. PICK b \in Above : \A c \in Above : b <= c
  <2>1. N - 1 \in Above
    BY <1>0
  <2> HIDE DEF Above
  <2>2. Above \subseteq Nat
    BY DEF Above
  <2> QED BY <2>1, <2>2, Least
<1>2. b # 0
  BY Pow2Facts
<1>3. b - 1 \in Nat /\ (b - 1) + 1 = b /\ b - 1 \notin Above /\ b <= N - 1
  BY <1>0, <1>1, <1>2
<1>4. b - 1 \in 0..N /\ XA!Pow2[b - 1] <= x /\ x < XA!Pow2[(b - 1) + 1]
  BY <1>0, <1>3, Pow2Facts
<1>5. XA!msb(x) \in 0..N /\ XA!Pow2[XA!msb(x)] <= x /\ x < XA!Pow2[XA!msb(x) + 1]
  BY <1>4 DEF XA!msb
<1>6. XA!Pow2[XA!msb(x) + 1] = 2 * XA!Pow2[XA!msb(x)]
  BY <1>0, <1>5, Pow2Facts
<1>7. XA!msb(x) + 1 <= N - 1
  <2> SUFFICES ASSUME ~(XA!msb(x) + 1 <= N - 1) PROVE FALSE
    OBVIOUS
  <2>1. N - 1 <= XA!msb(x) /\ XA!msb(x) \in Nat
    BY <1>0, <1>5
  <2>2. XA!Pow2[N - 1] <= XA!Pow2[XA!msb(x)] /\ XA!Pow2[N - 1] \in Nat /\ XA!Pow2[XA!msb(x)] \in Nat
    BY <1>0, <2>1, Pow2Grows, Pow2Facts
  <2> QED BY <1>5, <2>2
<1> QED BY <1>0, <1>5, <1>6, <1>7

Start(c) == XA!ChunkStart(c)
Size(c) == XA!ChunkSize(c)

LEMMA BaseFacts == ASSUME XA!XarAssumption PROVE XA!base_size \in Nat /\ XA!base_size > 0
  BY Pow2Facts, Pow2Grows DEF XA!base_size, XA!XarAssumption

(* Every chunk begins where the one before ends.                           *)
LEMMA ChunkFacts ==
    ASSUME XA!XarAssumption
    PROVE  /\ Start(0) = 0 /\ Size(0) = XA!base_size
           /\ \A c \in Nat : /\ Start(c) \in Nat /\ Size(c) \in Nat /\ Size(c) > 0
                             /\ Start(c + 1) = Start(c) + Size(c)
                             /\ Start(c + 1) = XA!base_size * XA!Pow2[c]
                             /\ XA!Capacity(c) = Start(c)
<1>1. PICK b : b = XA!base_size
  OBVIOUS
<1>2. b \in Nat /\ b > 0
  BY <1>1, BaseFacts
<1>3. Start(0) = 0 /\ Size(0) = b
  BY <1>1 DEF Start, Size, XA!ChunkStart, XA!ChunkSize
<1>4. Start(1) = b /\ Size(1) = b
  BY <1>1 DEF Start, Size, XA!ChunkStart, XA!ChunkSize
<1>5. ASSUME NEW c \in Nat, c > 1 PROVE Start(c) = b * XA!Pow2[c - 1] /\ Size(c) = b * XA!Pow2[c - 1]
  BY <1>1, <1>5 DEF Start, Size, XA!ChunkStart, XA!ChunkSize
<1>6. ASSUME NEW c \in Nat
      PROVE  /\ Start(c) \in Nat /\ Size(c) \in Nat /\ Size(c) > 0
             /\ Start(c + 1) = Start(c) + Size(c)
             /\ Start(c + 1) = b * XA!Pow2[c]
             /\ XA!Capacity(c) = Start(c)
  <2>1. CASE c = 0
    BY <1>1, <1>2, <1>3, <1>4, <2>1, Pow2Facts DEF XA!Capacity
  <2>2. CASE c = 1
    <3>1. XA!Pow2[0] = 1 /\ XA!Pow2[1] = 2
      <4>1. XA!Pow2[0 + 1] = 2 * XA!Pow2[0] /\ XA!Pow2[0] = 1
        BY Pow2Facts
      <4> QED BY <4>1
    <3>2. Start(2) = b * 2
      BY <1>5, <3>1
    <3> QED BY <1>1, <1>2, <1>4, <2>2, <3>1, <3>2 DEF XA!Capacity
  <2>3. CASE c > 1
    <3>1. PICK d : d = c - 1
      OBVIOUS
    <3>2. d \in Nat /\ d + 1 = c /\ c + 1 > 1 /\ (c + 1) - 1 = c
      BY <2>3, <3>1
    <3>3. PICK x \in Nat : x = XA!Pow2[d]
      BY <3>2, Pow2Facts
    <3>4. XA!Pow2[c] = 2 * x /\ x > 0
      BY <3>2, <3>3, Pow2Facts, Pow2Grows
    <3>5. Start(c) = b * x /\ Size(c) = b * x /\ Start(c + 1) = b * (2 * x) /\ XA!Capacity(c) = b * x
      BY <1>1, <1>5, <2>3, <3>1, <3>2, <3>3, <3>4 DEF XA!Capacity
    <3>6. b * x \in Nat /\ b * (2 * x) = b * x + b * x /\ b * x > 0
      <4>1. b * 1 <= b * x
        BY <1>2, <3>4, TimesGrows
      <4> QED BY <1>2, <4>1
    <3> QED BY <3>4, <3>5, <3>6
  <2> QED BY <2>1, <2>2, <2>3
<1> QED BY <1>1, <1>3, <1>6

LEMMA StartsGrow ==
    ASSUME XA!XarAssumption, NEW c \in Nat, NEW d \in Nat, c < d
    PROVE  Start(c) + Size(c) <= Start(d)
<1> DEFINE After == {n \in Nat : c < n => Start(c) + Size(c) <= Start(n)}
<1>1. 0 \in After
  OBVIOUS
<1>2. ASSUME NEW n \in Nat, n \in After PROVE n + 1 \in After
  <2>1. /\ Start(n + 1) = Start(n) + Size(n) /\ Start(n) \in Nat /\ Size(n) \in Nat
        /\ Start(c) \in Nat /\ Size(c) \in Nat
    BY ChunkFacts
  <2>2. CASE n = c
    BY <2>1, <2>2
  <2>3. CASE n # c
    BY <1>2, <2>1, <2>3
  <2> QED BY <2>2, <2>3
<1>3. Nat \subseteq After
  <2> HIDE DEF After
  <2> QED BY <1>1, <1>2, SetInduction
<1> QED BY <1>3

(* So a number is in one chunk at one offset.                              *)
LEMMA OnePlace ==
    ASSUME XA!XarAssumption, NEW c \in Nat, NEW d \in Nat, NEW o \in Nat, NEW p \in Nat,
           o < Size(c), p < Size(d), Start(c) + o = Start(d) + p
    PROVE  c = d /\ o = p
<1>1. Start(c) \in Nat /\ Start(d) \in Nat /\ Size(c) \in Nat /\ Size(d) \in Nat
  BY ChunkFacts
<1>2. ~(c < d)
  BY <1>1, StartsGrow
<1>3. ~(d < c)
  BY <1>1, StartsGrow
<1>4. c = d
  BY <1>2, <1>3
<1> QED BY <1>1, <1>4

(* A division rounds down.                                                 *)
LEMMA Divided ==
    ASSUME NEW a \in Nat, NEW b \in Nat, b > 0
    PROVE  /\ a \div b \in Nat
           /\ b * (a \div b) <= a /\ a < b * ((a \div b) + 1)
  OBVIOUS

Chunk(index) == XA!Place(index)[1]
Offset(index) == XA!Place(index)[2]

LEMMA IndexPlace ==
    ASSUME XA!XarAssumption, NEW index \in Nat, index < Start(N)
    PROVE  /\ Chunk(index) \in 0..(N - 1) /\ Offset(index) \in Nat /\ Offset(index) < Size(Chunk(index))
           /\ index = Start(Chunk(index)) + Offset(index)
           /\ XA!BuilderChunk(index) = Chunk(index)
<1>1. N \in Nat /\ N - 1 \in Nat /\ (N - 1) + 1 = N /\ BASE_SHIFT \in Nat
  BY DEF XA!XarAssumption
<1>2. PICK b, u : b = XA!base_size /\ u = index \div XA!base_size
  OBVIOUS
<1>3. b \in Nat /\ b > 0
  BY <1>2, BaseFacts
<1>4. u \in Nat /\ b * u <= index /\ index < b * (u + 1)
  BY <1>2, <1>3, Divided
<1>5. CASE u = 0
  <2>1. index < b
    BY <1>3, <1>4, <1>5
  <2>2. XA!Place(index) = <<0, index>> /\ XA!BuilderChunk(index) = 0
    BY <1>2, <1>5, <2>1 DEF XA!Place, XA!BuilderChunk
  <2> QED BY <1>1, <1>2, <2>1, <2>2, ChunkFacts DEF Chunk, Offset
<1>6. CASE u # 0
  <2>1. PICK m : m = XA!msb(u)
    OBVIOUS
  <2>2. XA!Place(index) = <<m + 1, index - XA!Pow2[m + BASE_SHIFT]>>
    BY <1>2, <1>4, <1>6, <2>1 DEF XA!Place
  <2>3. u < XA!Pow2[N - 1]
    <3>1. PICK w \in Nat : w = XA!Pow2[N - 1]
      BY <1>1, Pow2Facts
    <3>2. Start(N) = b * w
      BY <1>1, <1>2, <3>1, ChunkFacts
    <3>3. SUFFICES ASSUME w <= u PROVE FALSE
      BY <1>4, <3>1
    <3>4. b * w <= b * u
      BY <1>3, <1>4, <3>3, TimesGrows
    <3>5. b * w \in Nat /\ b * u \in Nat
      BY <1>3, <1>4
    <3> QED BY <1>4, <3>2, <3>4, <3>5
  <2>4. m \in Nat /\ m + 1 <= N - 1 /\ XA!Pow2[m] <= u /\ u < 2 * XA!Pow2[m]
    BY <1>4, <1>6, <2>1, <2>3, HighestBit
  <2>5. PICK w \in Nat : w = XA!Pow2[m]
    BY <2>4, Pow2Facts
  <2>6. XA!Pow2[m + BASE_SHIFT] = b * w
    BY <1>1, <1>2, <2>4, <2>5, Pow2Sum DEF XA!base_size
  <2>7. Start(m + 1) = b * w
    BY <1>2, <2>4, <2>5, ChunkFacts
  <2>8. Start((m + 1) + 1) = b * (2 * w) /\ Start((m + 1) + 1) = Start(m + 1) + Size(m + 1)
    <3>1. XA!Pow2[m + 1] = 2 * w
      BY <2>4, <2>5, Pow2Facts
    <3> QED BY <1>2, <2>4, <3>1, ChunkFacts
  <2>9. b * w <= b * u /\ b * (u + 1) <= b * (2 * w)
    BY <1>3, <1>4, <2>4, <2>5, TimesGrows
  <2>10. b * w \in Nat /\ b * u \in Nat /\ b * (u + 1) \in Nat /\ b * (2 * w) \in Nat /\ b * (2 * w) = b * w + b * w
    BY <1>3, <1>4
  <2>11. b * w <= index /\ index < b * w + b * w
    BY <1>4, <2>9, <2>10
  <2>12. Size(m + 1) = b * w
    <3>1. Size(m + 1) \in Nat
      BY <2>4, ChunkFacts
    <3>2. PICK x \in Nat, s \in Nat : x = b * w /\ s = Size(m + 1)
      BY <2>10, <3>1
    <3>3. x + s = x + x
      BY <2>7, <2>8, <2>10, <3>2
    <3> QED BY <3>2, <3>3
  <2>13. Chunk(index) = m + 1 /\ Offset(index) = index - b * w
    BY <2>2, <2>6 DEF Chunk, Offset
  <2>14. XA!BuilderChunk(index) = m + 1
    <3>1. ~(index < b)
      <4>1. b * 1 <= b * w
        BY <1>3, <2>4, <2>5, Pow2Grows, TimesGrows
      <4> QED BY <1>3, <2>10, <2>11, <4>1
    <3>2. CASE index < 2 * b
      <4>1. w = 1
        <5>1. SUFFICES ASSUME 2 <= w PROVE FALSE
          BY <2>4, <2>5, Pow2Grows
        <5>2. b * 2 <= b * w
          BY <1>3, <5>1, TimesGrows
        <5> QED BY <1>3, <2>10, <2>11, <3>2, <5>2
      <4>2. m = 0
        <5>1. SUFFICES ASSUME 1 <= m PROVE FALSE
          BY <2>4
        <5>2. XA!Pow2[0 + 1] = 2 * XA!Pow2[0] /\ XA!Pow2[0] = 1
          BY Pow2Facts
        <5>3. XA!Pow2[1] = 2
          BY <5>2
        <5>4. XA!Pow2[1] <= XA!Pow2[m]
          BY <2>4, <5>1, Pow2Grows
        <5> QED BY <2>5, <4>1, <5>3, <5>4
      <4> QED BY <1>2, <1>3, <3>1, <3>2, <4>2 DEF XA!BuilderChunk
    <3>3. CASE ~(index < 2 * b)
      BY <1>2, <1>3, <2>1, <3>1, <3>3 DEF XA!BuilderChunk
    <3> QED BY <3>2, <3>3
  <2>15. m + 1 \in 0..(N - 1) /\ index - b * w \in Nat /\ index - b * w < b * w /\ index = b * w + (index - b * w)
    BY <1>1, <2>4, <2>10, <2>11
  <2> QED BY <2>7, <2>12, <2>13, <2>14, <2>15
<1> QED BY <1>5, <1>6

(* The first k chunks are there, each with all its cells.                  *)
Shaped(ch, k) ==
    /\ ch \in [0..(N - 1) -> Seq(Cells \cup {Junk})] /\ k \in 0..N
    /\ \A c \in 0..(N - 1) : IF c < k THEN Len(ch[c]) = Size(c) ELSE ch[c] = << >>

LEMMA StartsOrder ==
    ASSUME XA!XarAssumption, NEW c \in Nat, NEW d \in Nat, c <= d
    PROVE  Start(c) <= Start(d) /\ Start(c) \in Nat /\ Start(d) \in Nat
<1>1. Start(c) \in Nat /\ Size(c) \in Nat /\ Start(d) \in Nat
  BY ChunkFacts
<1>2. CASE c = d
  BY <1>1, <1>2
<1>3. CASE c # d
  <2>1. Start(c) + Size(c) <= Start(d)
    BY <1>3, StartsGrow
  <2> QED BY <1>1, <2>1
<1> QED BY <1>2, <1>3

(* What is below where the first missing chunk would begin is in a chunk.  *)
LEMMA InChunk ==
    ASSUME XA!XarAssumption, NEW ch, NEW k, Shaped(ch, k), NEW index \in Nat, index < Start(k)
    PROVE  /\ Chunk(index) \in 0..(N - 1) /\ Chunk(index) < k
           /\ Offset(index) \in Nat /\ Offset(index) + 1 \in 1..Len(ch[Chunk(index)])
           /\ Len(ch[Chunk(index)]) = Size(Chunk(index))
           /\ index = Start(Chunk(index)) + Offset(index)
           /\ XA!Get(ch, index) \in Cells \cup {Junk}
<1>1. k \in Nat /\ N \in Nat /\ k <= N /\ ch \in [0..(N - 1) -> Seq(Cells \cup {Junk})]
  BY DEF Shaped, XA!XarAssumption
<1>2. index < Start(N)
  BY <1>1, StartsOrder
<1>3. PICK c, o : c = Chunk(index) /\ o = Offset(index)
  OBVIOUS
<1>4. c \in 0..(N - 1) /\ o \in Nat /\ o < Size(c) /\ index = Start(c) + o
  BY <1>2, <1>3, IndexPlace
<1>5. c < k
  <2>1. SUFFICES ASSUME k <= c PROVE FALSE
    BY <1>1, <1>4
  <2>2. Start(k) <= Start(c) /\ Start(k) \in Nat /\ Start(c) \in Nat
    BY <1>1, <1>4, <2>1, StartsOrder
  <2> QED BY <1>4, <2>2
<1>6. Len(ch[c]) = Size(c) /\ Size(c) \in Nat /\ ch[c] \in Seq(Cells \cup {Junk})
  <2>1. Len(ch[c]) = Size(c)
    BY <1>4, <1>5 DEF Shaped
  <2>2. Size(c) \in Nat
    BY <1>1, <1>4, ChunkFacts
  <2> QED BY <1>1, <1>4, <2>1, <2>2
<1>7. o + 1 \in 1..Len(ch[c]) /\ ch[c][o + 1] \in Cells \cup {Junk}
  BY <1>4, <1>6
<1> QED BY <1>3, <1>4, <1>5, <1>6, <1>7 DEF XA!Get, Chunk, Offset

(* What is put at an index is found there, and elsewhere what was there.   *)
LEMMA GetPut ==
    ASSUME XA!XarAssumption, NEW ch, NEW k, Shaped(ch, k), NEW index \in Nat, index < Start(k),
           NEW e \in Cells \cup {Junk}
    PROVE  /\ Shaped(XA!Put(ch, index, e), k)
           /\ \A j \in Nat : j < Start(k) =>
                 XA!Get(XA!Put(ch, index, e), j) = IF j = index THEN e ELSE XA!Get(ch, j)
<1>1. PICK c, o, n : c = Chunk(index) /\ o = Offset(index) /\ n = XA!Put(ch, index, e)
  OBVIOUS
<1>2. /\ c \in 0..(N - 1) /\ c < k /\ o \in Nat /\ o + 1 \in 1..Len(ch[c]) /\ index = Start(c) + o
      /\ Len(ch[c]) = Size(c)
  BY <1>1, InChunk
<1>3. ch \in [0..(N - 1) -> Seq(Cells \cup {Junk})] /\ N \in Nat /\ k \in 0..N
  BY DEF Shaped, XA!XarAssumption
<1>4. n = [ch EXCEPT ![c] = [ch[c] EXCEPT ![o + 1] = e]]
  BY <1>1 DEF XA!Put, Chunk, Offset
<1>5. PICK s : s = [ch[c] EXCEPT ![o + 1] = e]
  OBVIOUS
<1>6. /\ s \in Seq(Cells \cup {Junk}) /\ Len(s) = Len(ch[c])
      /\ \A i \in 1..Len(ch[c]) : s[i] = IF i = o + 1 THEN e ELSE ch[c][i]
  <2>1. ch[c] \in Seq(Cells \cup {Junk})
    BY <1>2, <1>3
  <2> QED BY <1>2, <1>5, <2>1
<1>7. n \in [0..(N - 1) -> Seq(Cells \cup {Junk})] /\ n[c] = s /\ \A d \in 0..(N - 1) : d # c => n[d] = ch[d]
  BY <1>2, <1>3, <1>4, <1>5, <1>6
<1>8. Shaped(n, k)
  BY <1>2, <1>3, <1>6, <1>7 DEF Shaped
<1>9. ASSUME NEW j \in Nat, j < Start(k) PROVE XA!Get(n, j) = IF j = index THEN e ELSE XA!Get(ch, j)
  <2>1. PICK d, p : d = Chunk(j) /\ p = Offset(j)
    OBVIOUS
  <2>2. d \in 0..(N - 1) /\ p \in Nat /\ p + 1 \in 1..Len(ch[d]) /\ j = Start(d) + p
    BY <1>9, <2>1, InChunk
  <2>3. XA!Get(n, j) = n[d][p + 1] /\ XA!Get(ch, j) = ch[d][p + 1]
    BY <2>1 DEF XA!Get, Chunk, Offset
  <2>4. CASE d = c
    <3>1. j = index <=> p = o
      <4>1. Start(c) \in Nat
        BY <1>2, ChunkFacts
      <4> QED BY <1>2, <2>2, <2>4, <4>1
    <3>2. n[d][p + 1] = IF p + 1 = o + 1 THEN e ELSE ch[d][p + 1]
      BY <1>6, <1>7, <2>2, <2>4
    <3>3. p + 1 = o + 1 <=> p = o
      BY <1>2, <2>2
    <3> QED BY <2>3, <3>1, <3>2, <3>3
  <2>5. CASE d # c
    <3>1. j # index
      BY <1>1, <2>1, <2>5
    <3> QED BY <1>7, <2>2, <2>3, <2>5, <3>1
  <2> QED BY <2>4, <2>5
<1> QED BY <1>1, <1>8, <1>9

LEMMA IsMin ==
    ASSUME NEW S, S \subseteq Nat, NEW x \in S, \A y \in S : x <= y PROVE XA!Min(S) = x
<1>1. XA!Min(S) \in S /\ \A y \in S : XA!Min(S) <= y
  BY DEF XA!Min
<1>2. PICK m : m = XA!Min(S)
  OBVIOUS
<1>3. m \in Nat /\ x \in Nat /\ m <= x /\ x <= m
  BY <1>1, <1>2
<1>4. m = x
  BY <1>3
<1> QED BY <1>2, <1>4

(* The first chunk that is missing, and the ones a growth adds from it on. *)
LEMMA NextMissing ==
    ASSUME XA!XarAssumption, NEW k, Shaped(Chunks, k) PROVE XA!NextIndex = k
<1> DEFINE S == {i \in 0..N : i = N \/ Chunks[i] = << >>}
<1>1. k \in 0..N /\ N \in Nat
  BY DEF Shaped, XA!XarAssumption
<1>2. k \in S
  BY <1>1 DEF Shaped
<1>3. ASSUME NEW y \in S PROVE k <= y
  <2>1. SUFFICES ASSUME y < k PROVE FALSE
    BY <1>1
  <2>2. y \in 0..(N - 1) /\ y \in Nat /\ Chunks[y] = << >>
    BY <1>1, <2>1
  <2>3. Len(Chunks[y]) = Size(y) /\ Size(y) > 0
    BY <2>1, <2>2, ChunkFacts DEF Shaped
  <2> QED BY <2>2, <2>3
<1>4. S \subseteq Nat
  OBVIOUS
<1>5. XA!NextIndex = XA!Min(S)
  BY Zenon DEF XA!NextIndex
<1> HIDE DEF S
<1> QED BY <1>2, <1>3, <1>4, <1>5, IsMin

LEMMA Growing ==
    ASSUME XA!XarAssumption, NEW ch, NEW k, Shaped(ch, k), NEW size \in Nat, size <= Start(N)
    PROVE  \E m \in k..N :
               /\ Shaped(XA!Grown(ch, k, size), m) /\ size <= Start(m)
               /\ \A j \in Nat : j < Start(k) => XA!Get(XA!Grown(ch, k, size), j) = XA!Get(ch, j)
<1>1. k \in 0..N /\ N \in Nat /\ ch \in [0..(N - 1) -> Seq(Cells \cup {Junk})]
  BY DEF Shaped, XA!XarAssumption
<1> DEFINE S == {n \in k..N : size <= Start(n)}
           g == XA!Grown(ch, k, size)
<1>2. PICK m \in S : \A y \in S : m <= y
  <2>1. S \subseteq Nat /\ N \in S
    BY <1>1
  <2> HIDE DEF S
  <2> QED BY <2>1, Least
<1>3. m \in k..N /\ m \in Nat /\ size <= Start(m) /\ k <= m /\ m <= N
  BY <1>1, <1>2
<1>4. g = [i \in 0..(N - 1) |-> IF i >= k /\ XA!Capacity(i) < size
                                THEN [c \in 1..Size(i) |-> Junk] ELSE ch[i]]
  BY DEF XA!Grown, Size
<1> HIDE DEF g
<1> HIDE DEF S
<1>9. \A i \in 0..(N - 1) : i \in Nat /\ XA!Capacity(i) = Start(i) /\ Start(i) \in Nat /\ Size(i) \in Nat
  <2> SUFFICES ASSUME NEW i \in 0..(N - 1)
               PROVE  i \in Nat /\ XA!Capacity(i) = Start(i) /\ Start(i) \in Nat /\ Size(i) \in Nat
    OBVIOUS
  <2>1. i \in Nat
    OBVIOUS
  <2> QED BY <2>1, ChunkFacts
<1>5. ASSUME NEW i \in 0..(N - 1) PROVE /\ i < k => g[i] = ch[i]
                                        /\ i >= k /\ i < m => g[i] = [c \in 1..Size(i) |-> Junk]
                                        /\ i >= m => g[i] = ch[i]
  <2>1. i \in Nat /\ XA!Capacity(i) = Start(i) /\ Start(i) \in Nat
    BY <1>9
  <2>2. i >= k /\ i < m => Start(i) < size
    <3>1. SUFFICES ASSUME i >= k, i < m, size <= Start(i) PROVE FALSE
      BY <2>1
    <3>2. i \in S
      BY <1>1, <3>1 DEF S
    <3> QED BY <1>2, <1>3, <2>1, <3>1, <3>2
  <2>3. i >= m => size <= Start(i)
    BY <1>3, <2>1, StartsOrder
  <2> QED BY <1>1, <1>3, <1>4, <2>1, <2>2, <2>3
<1>6. ASSUME NEW i \in 0..(N - 1) PROVE g[i] \in Seq(Cells \cup {Junk}) /\ (i < m => Len(g[i]) = Size(i))
                                        /\ (i >= m => g[i] = << >>)
  <2>1. Size(i) \in Nat /\ ch[i] \in Seq(Cells \cup {Junk})
    BY <1>1, <1>9
  <2>5. i \in Nat /\ k \in Nat
    BY <1>1, <1>9
  <2>2. CASE i < k
    <3>1. g[i] = ch[i]
      BY <1>5, <2>2
    <3>2. i < m
      BY <1>3, <2>2, <2>5
    <3> QED BY <1>3, <2>1, <2>2, <2>5, <3>1, <3>2 DEF Shaped
  <2>3. CASE i >= k /\ i < m
    <3>1. g[i] = [c \in 1..Size(i) |-> Junk]
      BY <1>5, <2>3
    <3> QED BY <1>3, <2>1, <2>3, <3>1
  <2>4. CASE i >= m
    <3>1. g[i] = ch[i] /\ ~(i < k) /\ ~(i < m)
      <4>1. g[i] = ch[i]
        BY <1>5, <2>4
      <4> QED BY <1>3, <2>4, <2>5, <4>1
    <3> QED BY <2>1, <3>1 DEF Shaped
  <2> QED BY <1>1, <1>3, <1>9, <2>2, <2>3, <2>4
<1>7. Shaped(g, m)
  <2>1. g \in [0..(N - 1) -> Seq(Cells \cup {Junk})]
    <3>1. g = [i \in 0..(N - 1) |-> g[i]]
      BY <1>4
    <3> QED BY <1>6, <3>1
  <2>2. m \in 0..N /\ \A c \in 0..(N - 1) : c < m \/ c >= m
    BY <1>1, <1>3
  <2> QED BY <1>6, <2>1, <2>2 DEF Shaped
<1>8. ASSUME NEW j \in Nat, j < Start(k) PROVE XA!Get(g, j) = XA!Get(ch, j)
  <2>1. Chunk(j) \in 0..(N - 1) /\ Chunk(j) < k
    BY <1>8, InChunk
  <2>2. g[Chunk(j)] = ch[Chunk(j)]
    BY <1>5, <2>1
  <2> QED BY <2>2 DEF XA!Get, Chunk
<1> QED BY <1>3, <1>7, <1>8 DEF g

(* The first k chunks hold the elements of l in order.                     *)
Holding(ch, k, l) ==
    /\ Shaped(ch, k) /\ l \in Seq(Cells) /\ Len(l) <= Start(k)
    /\ \A j \in Nat : j < Len(l) => XA!Get(ch, j) = l[j + 1]

XarInv == /\ STACK_FIRST \in BOOLEAN
          /\ xarCount = Len(added) /\ xarCount <= MaxElements
          /\ \E k \in 0..N : Holding(Chunks, k, added) /\ (STACK_FIRST => k > 0)

LEMMA MaxFits ==
    ASSUME XA!XarAssumption
    PROVE  MaxElements \in Nat /\ MaxElements <= Start(N) /\ Start(N) \in Nat /\ 1 <= Start(N)
<1>1. N - 1 \in Nat /\ (N - 1) + 1 = N /\ N \in Nat
  BY DEF XA!XarAssumption
<1>2. Start(N) = XA!base_size * XA!Pow2[N - 1] /\ Start(N) \in Nat
  BY <1>1, ChunkFacts
<1>3. MaxElements \in 0..Start(N)
  BY <1>2 DEF XA!XarAssumption
<1>4. 1 <= Start(N)
  <2>1. Start(N - 1) + Size(N - 1) = Start(N) /\ Size(N - 1) > 0 /\ Start(N - 1) \in Nat /\ Size(N - 1) \in Nat
    BY <1>1, ChunkFacts
  <2> QED BY <2>1
<1> QED BY <1>2, <1>3, <1>4

LEMMA Reserving ==
    ASSUME XA!XarAssumption, XarInv, NEW k \in 0..N, Holding(Chunks, k, added),
           NEW size \in Nat, size <= Start(N)
    PROVE  \E m \in k..N : Holding(XA!Reserved(size), m, added) /\ size <= Start(m)
<1>1. added \in Seq(Cells) /\ xarCount = Len(added) /\ Len(added) \in Nat /\ Shaped(Chunks, k) /\ Len(added) <= Start(k)
  BY DEF XarInv, Holding
<1>2. k \in Nat /\ N \in Nat /\ Start(k) \in Nat
  BY ChunkFacts DEF XA!XarAssumption
<1>3. CASE size <= xarCount
  <2>1. XA!Reserved(size) = Chunks /\ size <= Start(k) /\ k \in k..N
    BY <1>1, <1>2, <1>3 DEF XA!Reserved
  <2> QED BY <2>1
<1>4. CASE ~(size <= xarCount)
  <2>1. XA!Reserved(size) = XA!Grown(Chunks, k, size)
    <3>1. XA!NextIndex = k
      BY <1>1, NextMissing
    <3> QED BY <1>4, <3>1 DEF XA!Reserved
  <2>2. PICK g : g = XA!Grown(Chunks, k, size)
    OBVIOUS
  <2>3. PICK m \in k..N : Shaped(g, m) /\ size <= Start(m)
                          /\ \A j \in Nat : j < Start(k) => XA!Get(g, j) = XA!Get(Chunks, j)
    BY <1>1, <2>2, Growing
  <2>4. Start(k) <= Start(m) /\ Start(m) \in Nat
    BY <1>2, <2>3, StartsOrder
  <2>5. Holding(g, m, added)
    <3>1. ASSUME NEW j \in Nat, j < Len(added) PROVE XA!Get(g, j) = added[j + 1]
      <4>1. j < Start(k)
        BY <1>1, <1>2, <3>1
      <4> QED BY <2>3, <3>1, <4>1 DEF Holding
    <3>2. Len(added) <= Start(m)
      BY <1>1, <1>2, <2>4
    <3> QED BY <1>1, <2>3, <3>1, <3>2 DEF Holding
  <2> QED BY <2>1, <2>2, <2>3, <2>5
<1> QED BY <1>3, <1>4

(* One element more, written behind the others.                            *)
LEMMA PutLast ==
    ASSUME XA!XarAssumption, NEW ch, NEW k, NEW l, Holding(ch, k, l), NEW e \in Cells, Len(l) + 1 <= Start(k)
    PROVE  Holding(XA!Put(ch, Len(l), e), k, Append(l, e))
<1>1. l \in Seq(Cells) /\ Len(l) \in Nat /\ Shaped(ch, k) /\ k \in 0..N /\ N \in Nat
  BY DEF Holding, Shaped, XA!XarAssumption
<1>2. Start(k) \in Nat
  BY <1>1, ChunkFacts
<1>3. PICK n, g : n = Len(l) /\ g = XA!Put(ch, Len(l), e)
  OBVIOUS
<1>4. Shaped(g, k) /\ \A j \in Nat : j < Start(k) => XA!Get(g, j) = IF j = n THEN e ELSE XA!Get(ch, j)
  <2>1. n \in Nat /\ n < Start(k) /\ e \in Cells \cup {Junk} /\ g = XA!Put(ch, n, e)
    BY <1>1, <1>2, <1>3
  <2> QED BY <1>1, <2>1, GetPut
<1>5. Append(l, e) \in Seq(Cells) /\ Len(Append(l, e)) = n + 1
  BY <1>1, <1>3
<1>6. ASSUME NEW j \in Nat, j < n + 1 PROVE XA!Get(g, j) = Append(l, e)[j + 1]
  <2>1. j < Start(k)
    BY <1>1, <1>2, <1>3, <1>6
  <2>2. CASE j = n
    BY <1>1, <1>3, <1>4, <2>1, <2>2
  <2>3. CASE j # n
    <3>1. j < n /\ j + 1 \in 1..Len(l)
      BY <1>1, <1>3, <1>6, <2>3
    <3>2. XA!Get(ch, j) = l[j + 1] /\ Append(l, e)[j + 1] = l[j + 1]
      BY <1>1, <1>3, <3>1 DEF Holding
    <3> QED BY <1>4, <2>1, <2>3, <3>2
  <2> QED BY <2>2, <2>3
<1> QED BY <1>3, <1>4, <1>5, <1>6 DEF Holding

(* The last element written over another, and then taken away.             *)
LEMMA PutOver ==
    ASSUME XA!XarAssumption, NEW ch, NEW k, NEW l, Holding(ch, k, l), NEW i \in 0..(Len(l) - 1)
    PROVE  Holding(XA!Put(ch, i, XA!Get(ch, Len(l) - 1)), k, XA!Front([l EXCEPT ![i + 1] = XA!Last(l)]))
<1>1. l \in Seq(Cells) /\ Len(l) \in Nat /\ Shaped(ch, k) /\ k \in 0..N /\ N \in Nat
  BY DEF Holding, Shaped, XA!XarAssumption
<1>2. Start(k) \in Nat /\ Len(l) <= Start(k)
  BY <1>1, ChunkFacts DEF Holding
<1>3. PICK n, e, g, r : /\ n = Len(l) - 1 /\ e = XA!Get(ch, n) /\ g = XA!Put(ch, i, e)
                        /\ r = XA!Front([l EXCEPT ![i + 1] = XA!Last(l)])
  OBVIOUS
<1>4. n \in Nat /\ i \in Nat /\ i <= n /\ n < Start(k) /\ i < Start(k) /\ n + 1 = Len(l) /\ i + 1 \in 1..Len(l)
  BY <1>1, <1>2, <1>3
<1>5. e = l[n + 1] /\ e \in Cells /\ XA!Last(l) = e
  BY <1>1, <1>3, <1>4 DEF Holding, XA!Last
<1>6. r \in Seq(Cells) /\ Len(r) = n /\ \A j \in 1..n : r[j] = IF j = i + 1 THEN e ELSE l[j]
  <2>1. PICK s : s = [l EXCEPT ![i + 1] = e]
    OBVIOUS
  <2>2. s \in Seq(Cells) /\ Len(s) = n + 1 /\ \A j \in 1..(n + 1) : s[j] = IF j = i + 1 THEN e ELSE l[j]
    BY <1>1, <1>4, <1>5, <2>1
  <2>3. r = SubSeq(s, 1, n)
    BY <1>3, <1>4, <1>5, <2>1, <2>2 DEF XA!Front
  <2> QED BY <1>4, <2>2, <2>3
<1>7. Shaped(g, k) /\ \A j \in Nat : j < Start(k) => XA!Get(g, j) = IF j = i THEN e ELSE XA!Get(ch, j)
  <2>1. e \in Cells \cup {Junk}
    BY <1>5
  <2>2. i \in Nat /\ i < Start(k) /\ Shaped(ch, k) /\ g = XA!Put(ch, i, e)
    BY <1>1, <1>3, <1>4
  <2>3. Shaped(XA!Put(ch, i, e), k)
    BY <2>1, <2>2, GetPut
  <2>4. \A j \in Nat : j < Start(k) => XA!Get(XA!Put(ch, i, e), j) = IF j = i THEN e ELSE XA!Get(ch, j)
    BY <2>1, <2>2, GetPut
  <2> QED BY <2>2, <2>3, <2>4
<1>8. ASSUME NEW j \in Nat, j < n PROVE XA!Get(g, j) = r[j + 1]
  <2>1. j < Start(k) /\ j + 1 \in 1..n /\ j < Len(l) /\ (j + 1 = i + 1 <=> j = i)
    BY <1>2, <1>4, <1>8
  <2>2. XA!Get(ch, j) = l[j + 1]
    BY <2>1 DEF Holding
  <2> QED BY <1>6, <1>7, <2>1, <2>2
<1>9. Len(r) <= Start(k)
  BY <1>2, <1>4, <1>6
<1> QED BY <1>3, <1>6, <1>7, <1>8, <1>9 DEF Holding

(* The elements after index up to i have moved down by one.                *)
DownTo(g, ch, k, index, i) ==
    /\ Shaped(g, k)
    /\ \A j \in Nat : j < Start(k) =>
          XA!Get(g, j) = IF index <= j /\ j < i THEN XA!Get(ch, j + 1) ELSE XA!Get(ch, j)

(* One element moves down.                                                 *)
LEMMA DownOne ==
    ASSUME XA!XarAssumption, NEW ch, NEW k, Shaped(ch, k), NEW index \in Nat, NEW i \in Nat,
           index <= i, i + 1 < Start(k), NEW g, DownTo(g, ch, k, index, i)
    PROVE  DownTo(XA!Put(g, i, XA!Get(g, i + 1)), ch, k, index, i + 1)
<1>1. Shaped(g, k) /\ k \in Nat /\ Start(k) \in Nat /\ i < Start(k) /\ i + 1 \in Nat
  <2>1. Shaped(g, k) /\ k \in Nat
    BY DEF DownTo, Shaped
  <2>2. Start(k) \in Nat
    BY <2>1, ChunkFacts
  <2> QED BY <2>1, <2>2
<1>2. PICK e, h : e = XA!Get(g, i + 1) /\ h = XA!Put(g, i, e)
  OBVIOUS
<1>3. e \in Cells \cup {Junk} /\ e = XA!Get(ch, i + 1)
  <2>1. XA!Get(g, i + 1) \in Cells \cup {Junk}
    BY <1>1, InChunk
  <2>2. XA!Get(g, i + 1) = XA!Get(ch, i + 1)
    BY <1>1 DEF DownTo
  <2> QED BY <1>2, <2>1, <2>2
<1>4. Shaped(h, k) /\ \A j \in Nat : j < Start(k) => XA!Get(h, j) = IF j = i THEN e ELSE XA!Get(g, j)
  <2>1. Shaped(XA!Put(g, i, e), k)
    BY <1>1, <1>3, GetPut
  <2>2. \A j \in Nat : j < Start(k) => XA!Get(XA!Put(g, i, e), j) = IF j = i THEN e ELSE XA!Get(g, j)
    BY <1>1, <1>3, GetPut
  <2> QED BY <1>2, <2>1, <2>2
<1>5. ASSUME NEW j \in Nat, j < Start(k)
      PROVE  XA!Get(h, j) = IF index <= j /\ j < i + 1 THEN XA!Get(ch, j + 1) ELSE XA!Get(ch, j)
  <2>1. XA!Get(h, j) = IF j = i THEN e ELSE XA!Get(g, j)
    BY <1>4, <1>5
  <2>2. XA!Get(g, j) = IF index <= j /\ j < i THEN XA!Get(ch, j + 1) ELSE XA!Get(ch, j)
    BY <1>5 DEF DownTo
  <2>3. CASE j = i
    BY <1>3, <2>1, <2>3
  <2>4. CASE j # i
    <3>1. j < i + 1 <=> j < i
      BY <2>4
    <3> QED BY <2>1, <2>2, <2>4, <3>1
  <2> QED BY <2>3, <2>4
<1> QED BY <1>2, <1>4, <1>5 DEF DownTo

LEMMA MovingDown ==
    ASSUME XA!XarAssumption, NEW k, Shaped(Chunks, k), xarCount \in Nat, xarCount <= Start(k),
           NEW index \in 0..(xarCount - 1)
    PROVE  DownTo(XA!MovedDown(index), Chunks, k, index, xarCount - 1)
<1>1. PICK n : n = xarCount - 1
  OBVIOUS
<1>2. n \in Nat /\ index \in Nat /\ index <= n /\ k \in Nat /\ Start(k) \in Nat /\ n < Start(k)
  BY <1>1, ChunkFacts DEF Shaped
<1> DEFINE Is(f) == f = [i \in index..n |-> IF i = index THEN Chunks
                                            ELSE XA!Put(f[i - 1], i - 1, XA!Get(f[i - 1], i))]
           S == {ch \in [0..(N - 1) -> Seq(Cells \cup {Junk})] : Shaped(ch, k)}
           PutDown(d, ch) == IF (index + d) + 1 <= n THEN XA!Put(ch, index + d, XA!Get(ch, (index + d) + 1)) ELSE ch
           step == [d \in Nat |-> [ch \in S |-> PutDown(d, ch)]]
<1>3. Chunks \in S
  BY DEF Shaped
<1>4. ASSUME NEW d \in Nat, NEW ch \in S PROVE PutDown(d, ch) \in S
  <2>1. Shaped(ch, k)
    OBVIOUS
  <2>2. CASE (index + d) + 1 <= n
    <3>1. PICK i, e : i = index + d /\ e = XA!Get(ch, i + 1)
      OBVIOUS
    <3>2. i \in Nat /\ i + 1 \in Nat /\ i < Start(k) /\ i + 1 < Start(k)
      BY <1>2, <2>2, <3>1
    <3>3. e \in Cells \cup {Junk}
      <4>1. XA!Get(ch, i + 1) \in Cells \cup {Junk}
        BY <2>1, <3>2, InChunk
      <4> QED BY <3>1, <4>1
    <3>4. Shaped(XA!Put(ch, i, e), k)
      BY <2>1, <3>2, <3>3, GetPut
    <3>5. PutDown(d, ch) = XA!Put(ch, i, e)
      BY <2>2, <3>1
    <3> HIDE DEF PutDown
    <3> QED BY <3>4, <3>5 DEF Shaped
  <2>3. CASE ~((index + d) + 1 <= n)
    BY <2>3
  <2> QED BY <2>2, <2>3
<1>5. PICK g : Repeats(g, S, Chunks, step)
  <2> HIDE DEF S, PutDown
  <2>1. step \in Steps(S)
    BY <1>4 DEF Steps
  <2> HIDE DEF step
  <2> QED BY <1>3, <2>1, Recursion
<1>6. g \in [Nat -> S] /\ g[0] = Chunks /\ \A d \in Nat : g[d + 1] = PutDown(d, g[d])
  <2> HIDE DEF S, PutDown
  <2> QED BY <1>5 DEF Repeats
<1> DEFINE f == [i \in index..n |-> g[i - index]]
<1>7. Is(f)
  <2>1. ASSUME NEW i \in index..n
        PROVE  f[i] = IF i = index THEN Chunks ELSE XA!Put(f[i - 1], i - 1, XA!Get(f[i - 1], i))
    <3>1. CASE i = index
      BY <1>2, <1>6, <3>1
    <3>2. CASE i # index
      <4>1. PICK d : d = (i - 1) - index
        OBVIOUS
      <4>2. /\ d \in Nat /\ d + 1 = i - index /\ index + d = i - 1 /\ (index + d) + 1 = i /\ i <= n
            /\ i - 1 \in index..n /\ i \in index..n
        BY <1>2, <3>2, <4>1
      <4>3. f[i] = g[d + 1] /\ f[i - 1] = g[d]
        BY <4>1, <4>2
      <4>4. PutDown(d, g[d]) = XA!Put(g[d], i - 1, XA!Get(g[d], i))
        BY <4>2
      <4> HIDE DEF f, PutDown
      <4> QED BY <1>6, <3>2, <4>2, <4>3, <4>4
    <3> QED BY <3>1, <3>2
  <2> DEFINE h == [i \in index..n |-> IF i = index THEN Chunks ELSE XA!Put(f[i - 1], i - 1, XA!Get(f[i - 1], i))]
  <2>2. f = [i \in index..n |-> f[i]]
    OBVIOUS
  <2>3. f = h
    <3> HIDE DEF f
    <3> QED BY <2>1, <2>2
  <2> QED BY <2>3
<1> DEFINE u == CHOOSE x : Is(x)
<1>8. XA!MovedDown(index) = u[n]
  BY <1>1, Zenon DEF XA!MovedDown
<1>9. Is(u)
  <2> HIDE DEF Is, f
  <2> QED BY <1>7
<1>10. PICK v : v = u
  OBVIOUS
<1> HIDE DEF u, f, PutDown, S, step
<1>11. v = [i \in index..n |-> IF i = index THEN Chunks ELSE XA!Put(v[i - 1], i - 1, XA!Get(v[i - 1], i))]
  BY <1>9, <1>10
<1> HIDE DEF Is
<1> DEFINE Down == {d \in Nat : index + d <= n => DownTo(v[index + d], Chunks, k, index, index + d)}
<1>12. 0 \in Down
  <2>1. v[index + 0] = Chunks /\ index + 0 = index
    BY <1>2, <1>11
  <2>2. DownTo(Chunks, Chunks, k, index, index)
    BY DEF DownTo
  <2> QED BY <2>1, <2>2
<1>13. ASSUME NEW d \in Nat, d \in Down PROVE d + 1 \in Down
  <2>1. SUFFICES ASSUME index + (d + 1) <= n PROVE DownTo(v[index + (d + 1)], Chunks, k, index, index + (d + 1))
    OBVIOUS
  <2>2. PICK i : i = index + d
    OBVIOUS
  <2>3. i \in Nat /\ index + (d + 1) = i + 1 /\ i + 1 <= n /\ i <= n /\ index <= i /\ i + 1 < Start(k)
    BY <1>2, <2>1, <2>2
  <2>4. DownTo(v[i], Chunks, k, index, i)
    BY <1>13, <2>2, <2>3
  <2>5. DownTo(XA!Put(v[i], i, XA!Get(v[i], i + 1)), Chunks, k, index, i + 1)
    <3>1. PICK w : w = v[i]
      OBVIOUS
    <3>2. DownTo(XA!Put(w, i, XA!Get(w, i + 1)), Chunks, k, index, i + 1)
      BY <2>3, <2>4, <3>1, DownOne
    <3> QED BY <3>1, <3>2
  <2>6. v[i + 1] = XA!Put(v[i], i, XA!Get(v[i], i + 1))
    <3>1. i + 1 \in index..n /\ i + 1 # index /\ (i + 1) - 1 = i
      BY <1>2, <2>3
    <3> QED BY <1>11, <3>1
  <2> QED BY <2>3, <2>5, <2>6
<1>14. Nat \subseteq Down
  <2> HIDE DEF Down
  <2> QED BY <1>12, <1>13, SetInduction
<1>15. n - index \in Nat /\ index + (n - index) = n
  BY <1>2
<1>16. DownTo(v[n], Chunks, k, index, n)
  <2>1. n - index \in Down
    BY <1>14, <1>15
  <2> QED BY <1>15, <2>1
<1> QED BY <1>1, <1>8, <1>10, <1>16

LEMMA RemovedOrdered ==
    ASSUME XA!XarAssumption, NEW k, Holding(Chunks, k, added), xarCount = Len(added),
           NEW index \in 0..(xarCount - 1)
    PROVE  Holding(XA!MovedDown(index), k, XA!RemoveAt(added, index + 1))
<1>1. /\ added \in Seq(Cells) /\ Len(added) \in Nat /\ Shaped(Chunks, k) /\ k \in Nat
      /\ Len(added) <= Start(k) /\ xarCount \in Nat
  BY DEF Holding, Shaped
<1>2. Start(k) \in Nat
  BY <1>1, ChunkFacts
<1>3. PICK g, r, n : g = XA!MovedDown(index) /\ r = XA!RemoveAt(added, index + 1) /\ n = xarCount - 1
  OBVIOUS
<1>4. DownTo(g, Chunks, k, index, n)
  BY <1>1, <1>3, MovingDown
<1>5. n \in Nat /\ index \in Nat /\ index <= n /\ n < Start(k) /\ n + 1 = Len(added)
  BY <1>1, <1>2, <1>3
<1>6. /\ r \in Seq(Cells) /\ Len(r) = n
      /\ \A j \in Nat : j < n => r[j + 1] = IF j < index THEN added[j + 1] ELSE added[j + 2]
  <2>1. r = SubSeq(added, 1, index) \o SubSeq(added, index + 2, n + 1)
    <3>1. (index + 1) - 1 = index /\ (index + 1) + 1 = index + 2
      BY <1>5
    <3> QED BY <1>3, <1>5, <3>1 DEF XA!RemoveAt
  <2>2. PICK a, b : a = SubSeq(added, 1, index) /\ b = SubSeq(added, index + 2, n + 1)
    OBVIOUS
  <2>3. a \in Seq(Cells) /\ Len(a) = index /\ \A j \in 1..index : a[j] = added[j]
    BY <1>1, <1>5, <2>2
  <2>4. b \in Seq(Cells) /\ Len(b) = n - index /\ \A j \in 1..(n - index) : b[j] = added[(index + 1) + j]
    BY <1>1, <1>5, <2>2
  <2>5. r = a \o b
    BY <2>1, <2>2
  <2>6. r \in Seq(Cells) /\ Len(r) = n
    BY <1>5, <2>3, <2>4, <2>5
  <2>7. ASSUME NEW j \in Nat, j < n PROVE r[j + 1] = IF j < index THEN added[j + 1] ELSE added[j + 2]
    <3>1. CASE j < index
      <4>1. j + 1 \in 1..index
        BY <1>5, <3>1
      <4>2. r[j + 1] = a[j + 1]
        BY <1>5, <2>3, <2>4, <2>5, <2>7, <4>1
      <4> QED BY <2>3, <3>1, <4>1, <4>2
    <3>2. CASE ~(j < index)
      <4>1. PICK m : m = (j + 1) - index
        OBVIOUS
      <4>2. m \in 1..(n - index) /\ (index + 1) + m = j + 2 /\ index + m = j + 1
        BY <1>5, <2>7, <3>2, <4>1
      <4>3. r[index + m] = b[m]
        BY <1>5, <2>3, <2>4, <2>5, <4>2
      <4> QED BY <2>4, <3>2, <4>2, <4>3
    <3> QED BY <3>1, <3>2
  <2> QED BY <2>6, <2>7
<1>7. ASSUME NEW j \in Nat, j < n PROVE XA!Get(g, j) = r[j + 1]
  <2>1. j < Start(k) /\ j < Len(added) /\ j + 1 \in Nat /\ j + 1 < Len(added) /\ (j + 1) + 1 = j + 2
    BY <1>2, <1>5, <1>7
  <2>2. XA!Get(g, j) = IF index <= j /\ j < n THEN XA!Get(Chunks, j + 1) ELSE XA!Get(Chunks, j)
    BY <1>4, <2>1 DEF DownTo
  <2>3. XA!Get(Chunks, j) = added[j + 1] /\ XA!Get(Chunks, j + 1) = added[j + 2]
    BY <2>1 DEF Holding
  <2>4. index <= j <=> ~(j < index)
    BY <1>5
  <2> QED BY <1>6, <1>7, <2>2, <2>3, <2>4
<1>8. Shaped(g, k) /\ Len(r) <= Start(k)
  BY <1>2, <1>4, <1>5, <1>6 DEF DownTo
<1> QED BY <1>3, <1>6, <1>7, <1>8 DEF Holding

LEMMA NoneHeld ==
    ASSUME XA!XarAssumption, NEW ch, NEW k, Shaped(ch, k) PROVE Holding(ch, k, << >>)
<1>1. k \in Nat /\ Len(<< >>) = 0 /\ << >> \in Seq(Cells)
  BY DEF Shaped
<1>2. Start(k) \in Nat
  BY <1>1, ChunkFacts
<1> QED BY <1>1, <1>2 DEF Holding

LEMMA FirstChunk ==
    ASSUME XA!XarAssumption, STACK_FIRST \in BOOLEAN
    PROVE  Shaped(XA!NoChunks, IF STACK_FIRST THEN 1 ELSE 0)
<1>1. N \in Nat /\ N > 0 /\ XA!base_size \in Nat /\ Size(0) = XA!base_size
  BY BaseFacts, ChunkFacts DEF XA!XarAssumption
<1>2. XA!InlineChunk \in Seq(Cells \cup {Junk}) /\ Len(XA!InlineChunk) = Size(0)
  BY <1>1 DEF XA!InlineChunk
<1> QED BY <1>1, <1>2 DEF Shaped, XA!NoChunks

LEMMA XarInit == ASSUME XA!XarAssumption, XA!Init PROVE XarInv
<1>1. STACK_FIRST \in BOOLEAN /\ Chunks = XA!NoChunks /\ xarCount = 0 /\ added = << >> /\ N \in Nat /\ N > 0
  BY DEF XA!Init, XA!XarAssumption
<1>2. PICK k : k = IF STACK_FIRST THEN 1 ELSE 0
  OBVIOUS
<1>3. Holding(Chunks, k, added) /\ k \in 0..N /\ (STACK_FIRST => k > 0)
  BY <1>1, <1>2, FirstChunk, NoneHeld
<1>4. xarCount = Len(added) /\ xarCount <= MaxElements
  BY <1>1, MaxFits
<1> QED BY <1>1, <1>3, <1>4 DEF XarInv

LEMMA FreeKeeps == ASSUME XA!XarAssumption, XarInv, XA!Free PROVE XarInv'
<1>1. PICK k \in 0..N : Holding(Chunks, k, added) /\ (STACK_FIRST => k > 0)
  BY DEF XarInv
<1>2. /\ STACK_FIRST' = STACK_FIRST /\ STACK_FIRST \in BOOLEAN /\ xarCount' = 0 /\ added' = << >>
      /\ Chunks' = IF STACK_FIRST THEN [XA!NoChunks EXCEPT ![0] = Chunks[0]] ELSE XA!NoChunks
  BY DEF XarInv, XA!Free, XA!Becomes
<1>3. PICK m : m = IF STACK_FIRST THEN 1 ELSE 0
  OBVIOUS
<1>4. Shaped(XA!NoChunks, m) /\ Shaped(Chunks, k) /\ N \in Nat /\ N > 0
  BY <1>1, <1>2, <1>3, FirstChunk DEF Holding, XA!XarAssumption
<1>5. Shaped(Chunks', m)
  <2>1. CASE STACK_FIRST
    <3>1. PICK c, z : c = Chunks[0] /\ z = XA!NoChunks
      OBVIOUS
    <3>2. c \in Seq(Cells \cup {Junk}) /\ Len(c) = Size(0) /\ 0 \in 0..(N - 1)
      BY <1>1, <1>4, <2>1, <3>1 DEF Shaped
    <3>3. z \in [0..(N - 1) -> Seq(Cells \cup {Junk})] /\ m = 1 /\ \A i \in 0..(N - 1) : i > 0 => z[i] = << >>
      BY <1>3, <1>4, <2>1, <3>1 DEF Shaped
    <3>4. Chunks' = [z EXCEPT ![0] = c]
      BY <1>2, <2>1, <3>1
    <3> QED BY <1>4, <3>2, <3>3, <3>4 DEF Shaped
  <2>2. CASE ~STACK_FIRST
    BY <1>2, <1>4, <2>2
  <2> QED BY <2>1, <2>2
<1>6. PICK c : c = Chunks'
  OBVIOUS
<1>7. Holding(c, m, << >>)
  BY <1>5, <1>6, NoneHeld
<1>8. Holding(Chunks', m, added') /\ m \in 0..N /\ (STACK_FIRST' => m > 0)
  BY <1>2, <1>3, <1>4, <1>6, <1>7
<1>9. xarCount' = Len(added') /\ xarCount' <= MaxElements
  BY <1>2, MaxFits
<1> QED BY <1>2, <1>8, <1>9 DEF XarInv

LEMMA ReserveKeeps == ASSUME XA!XarAssumption, XarInv, NEW size \in {1, MaxElements}, XA!Reserve(size) PROVE XarInv'
<1>1. PICK k \in 0..N : Holding(Chunks, k, added) /\ (STACK_FIRST => k > 0)
  BY DEF XarInv
<1>2. /\ STACK_FIRST' = STACK_FIRST /\ xarCount' = xarCount /\ added' = added /\ Chunks' = XA!Reserved(size)
      /\ STACK_FIRST \in BOOLEAN /\ xarCount = Len(added) /\ xarCount <= MaxElements
  BY DEF XarInv, XA!Reserve, XA!Becomes
<1>3. size \in Nat /\ size <= Start(N) /\ N \in Nat
  BY MaxFits DEF XA!XarAssumption
<1>4. PICK m \in k..N : Holding(XA!Reserved(size), m, added)
  BY <1>1, <1>3, Reserving
<1>5. m \in 0..N /\ (STACK_FIRST => m > 0)
  BY <1>1, <1>3, <1>4
<1>6. Holding(Chunks', m, added')
  BY <1>2, <1>4
<1> QED BY <1>2, <1>5, <1>6 DEF XarInv

LEMMA XarAddKeeps == ASSUME XA!XarAssumption, XarInv, NEW e \in Cells, XA!Add(e) PROVE XarInv'
<1>1. PICK k \in 0..N : Holding(Chunks, k, added) /\ (STACK_FIRST => k > 0)
  BY DEF XarInv
<1>2. /\ STACK_FIRST' = STACK_FIRST /\ xarCount' = xarCount + 1 /\ added' = Append(added, e)
      /\ Chunks' = XA!Put(XA!Reserved(xarCount + 1), xarCount, e)
      /\ STACK_FIRST \in BOOLEAN /\ xarCount = Len(added) /\ xarCount < MaxElements
  BY DEF XarInv, XA!Add, XA!Becomes
<1>3. added \in Seq(Cells) /\ Len(added) \in Nat
  BY <1>1 DEF Holding
<1>4. xarCount + 1 \in Nat /\ xarCount + 1 <= Start(N) /\ N \in Nat /\ xarCount + 1 <= MaxElements
  BY <1>2, <1>3, MaxFits DEF XA!XarAssumption
<1>5. PICK m \in k..N : Holding(XA!Reserved(xarCount + 1), m, added) /\ xarCount + 1 <= Start(m)
  BY <1>1, <1>4, Reserving
<1>6. PICK g, l : g = XA!Reserved(xarCount + 1) /\ l = added
  OBVIOUS
<1>7. Holding(g, m, l) /\ Len(l) + 1 <= Start(m)
  BY <1>2, <1>5, <1>6
<1>8. Holding(XA!Put(g, Len(l), e), m, Append(l, e))
  BY <1>7, PutLast
<1>9. m \in 0..N /\ (STACK_FIRST => m > 0)
  BY <1>1, <1>4, <1>5
<1>10. Holding(Chunks', m, added') /\ xarCount' = Len(added')
  BY <1>2, <1>3, <1>6, <1>8
<1> QED BY <1>2, <1>4, <1>9, <1>10 DEF XarInv

LEMMA RemoveOrderedKeeps ==
    ASSUME XA!XarAssumption, XarInv, NEW index \in 0..(xarCount - 1), XA!RemoveOrderedAt(index) PROVE XarInv'
<1>1. PICK k \in 0..N : Holding(Chunks, k, added) /\ (STACK_FIRST => k > 0)
  BY DEF XarInv
<1>2. /\ STACK_FIRST' = STACK_FIRST /\ xarCount' = xarCount - 1 /\ added' = XA!RemoveAt(added, index + 1)
      /\ Chunks' = XA!MovedDown(index)
      /\ STACK_FIRST \in BOOLEAN /\ xarCount = Len(added) /\ xarCount <= MaxElements
  BY DEF XarInv, XA!RemoveOrderedAt, XA!Becomes
<1>3. added \in Seq(Cells) /\ Len(added) \in Nat /\ MaxElements \in Nat
  BY <1>1, MaxFits DEF Holding
<1>4. Holding(XA!MovedDown(index), k, XA!RemoveAt(added, index + 1))
  BY <1>1, <1>2, RemovedOrdered
<1>5. Len(XA!RemoveAt(added, index + 1)) = Len(added) - 1
  <2>1. (index + 1) - 1 = index /\ (index + 1) + 1 = index + 2 /\ index \in Nat /\ index < Len(added)
    BY <1>2, <1>3
  <2>2. XA!RemoveAt(added, index + 1) = SubSeq(added, 1, index) \o SubSeq(added, index + 2, Len(added))
    BY <2>1 DEF XA!RemoveAt
  <2>3. PICK a, b : a = SubSeq(added, 1, index) /\ b = SubSeq(added, index + 2, Len(added))
    OBVIOUS
  <2>4. /\ a \in Seq(Cells) /\ b \in Seq(Cells) /\ Len(a) = index
        /\ Len(b) = (Len(added) - index) - 1
    BY <1>3, <2>1, <2>3
  <2>5. Len(a \o b) = Len(a) + Len(b)
    BY <2>4
  <2>6. XA!RemoveAt(added, index + 1) = a \o b
    BY <2>2, <2>3
  <2>7. Len(a) + Len(b) = Len(added) - 1
    BY <1>3, <2>1, <2>4
  <2> QED BY <2>5, <2>6, <2>7
<1>6. xarCount' = Len(added') /\ xarCount' <= MaxElements
  BY <1>2, <1>3, <1>5
<1> QED BY <1>1, <1>2, <1>4, <1>6 DEF XarInv

LEMMA RemoveUnorderedKeeps ==
    ASSUME XA!XarAssumption, XarInv, NEW index \in 0..(xarCount - 1), XA!RemoveUnorderedAt(index) PROVE XarInv'
<1>1. PICK k \in 0..N : Holding(Chunks, k, added) /\ (STACK_FIRST => k > 0)
  BY DEF XarInv
<1>2. /\ STACK_FIRST' = STACK_FIRST /\ xarCount' = xarCount - 1
      /\ added' = XA!Front([added EXCEPT ![index + 1] = XA!Last(added)])
      /\ Chunks' = XA!Put(Chunks, index, XA!Get(Chunks, xarCount - 1))
      /\ STACK_FIRST \in BOOLEAN /\ xarCount = Len(added) /\ xarCount <= MaxElements
  BY DEF XarInv, XA!RemoveUnorderedAt, XA!Becomes
<1>3. added \in Seq(Cells) /\ Len(added) \in Nat /\ MaxElements \in Nat
  BY <1>1, MaxFits DEF Holding
<1>4. PICK g, l : g = Chunks /\ l = added
  OBVIOUS
<1>5. Holding(XA!Put(g, index, XA!Get(g, Len(l) - 1)), k, XA!Front([l EXCEPT ![index + 1] = XA!Last(l)]))
  <2>1. Holding(g, k, l) /\ index \in 0..(Len(l) - 1)
    BY <1>1, <1>2, <1>4
  <2> QED BY <2>1, PutOver
<1>6. Holding(Chunks', k, added')
  BY <1>2, <1>4, <1>5
<1>7. Len(added') = Len(added) - 1
  <2>1. PICK s : s = [added EXCEPT ![index + 1] = XA!Last(added)]
    OBVIOUS
  <2>2. Len(s) = Len(added) /\ s \in Seq(Cells \cup {XA!Last(added)}) /\ Len(added) > 0
    BY <1>2, <1>3, <2>1
  <2>3. added' = SubSeq(s, 1, Len(s) - 1)
    BY <1>2, <2>1 DEF XA!Front
  <2> QED BY <1>3, <2>2, <2>3
<1>8. xarCount' = Len(added') /\ xarCount' <= MaxElements
  BY <1>2, <1>3, <1>7
<1> QED BY <1>1, <1>2, <1>6, <1>8 DEF XarInv

LEMMA ClearKeeps == ASSUME XA!XarAssumption, XarInv, XA!ClearBuilder PROVE XarInv'
<1>1. PICK k \in 0..N : Holding(Chunks, k, added) /\ (STACK_FIRST => k > 0)
  BY DEF XarInv
<1>2. /\ STACK_FIRST' = STACK_FIRST /\ xarCount' = 0 /\ added' = << >> /\ Chunks' = Chunks /\ STACK_FIRST \in BOOLEAN
  BY DEF XarInv, XA!ClearBuilder, XA!Becomes
<1>3. PICK c : c = Chunks
  OBVIOUS
<1>4. Holding(c, k, << >>)
  <2>1. Shaped(c, k)
    BY <1>1, <1>3 DEF Holding
  <2> QED BY <2>1, NoneHeld
<1>5. xarCount' = Len(added') /\ xarCount' <= MaxElements
  BY <1>2, MaxFits
<1>6. Holding(Chunks', k, added')
  BY <1>2, <1>3, <1>4
<1> QED BY <1>1, <1>2, <1>5, <1>6 DEF XarInv

(* The builder has written all of w up to count, and data is the rest.     *)
Writing(r, k, w) ==
    /\ Shaped(r.chunks, k) /\ r.count \in 0..Len(w) /\ r.data = SubSeq(w, r.count + 1, Len(w))
    /\ \A j \in Nat : j < r.count => XA!Get(r.chunks, j) = w[j + 1]

LEMMA Joined ==
    ASSUME NEW V, NEW a \in Seq(V), NEW b \in Seq(V)
    PROVE  /\ a \o b \in Seq(V) /\ Len(a \o b) = Len(a) + Len(b)
           /\ \A i \in 1..Len(a) : (a \o b)[i] = a[i]
           /\ \A i \in 1..Len(b) : (a \o b)[Len(a) + i] = b[i]
<1>1. a \o b \in Seq(V) /\ Len(a \o b) = Len(a) + Len(b) /\ Len(a) \in Nat /\ Len(b) \in Nat
  OBVIOUS
<1>2. ASSUME NEW i \in 1..Len(a) PROVE (a \o b)[i] = a[i]
  BY <1>1
<1>3. ASSUME NEW i \in 1..Len(b) PROVE (a \o b)[Len(a) + i] = b[i]
  BY <1>1
<1> QED BY <1>1, <1>2, <1>3

(* What is left of a sequence.                                             *)
LEMMA Rest ==
    ASSUME NEW V, NEW s \in Seq(V), NEW m \in 0..Len(s)
    PROVE  /\ SubSeq(s, m + 1, Len(s)) \in Seq(V) /\ Len(SubSeq(s, m + 1, Len(s))) = Len(s) - m
           /\ \A i \in 1..(Len(s) - m) : SubSeq(s, m + 1, Len(s))[i] = s[m + i]
<1>1. Len(s) \in Nat /\ m \in Nat
  OBVIOUS
<1> QED BY <1>1

(* What still fits over a part of a chunk.                                 *)
Over(s, d, o, n) == SubSeq(s, 1, o) \o SubSeq(d, 1, n) \o SubSeq(s, o + n + 1, Len(s))

LiesOver(z, s, d, o, n) ==
    /\ Len(z) = Len(s)
    /\ \A i \in 1..Len(s) : z[i] = IF i <= o THEN s[i] ELSE IF i <= o + n THEN d[i - o] ELSE s[i]

LEMMA Spliced ==
    ASSUME NEW V, NEW s \in Seq(V), NEW d \in Seq(V), NEW o \in Nat, NEW n \in 0..Len(d), o + n <= Len(s)
    PROVE  Over(s, d, o, n) \in Seq(V) /\ LiesOver(Over(s, d, o, n), s, d, o, n)
<1>12. PICK z : z = SubSeq(s, 1, o) \o SubSeq(d, 1, n) \o SubSeq(s, o + n + 1, Len(s))
  OBVIOUS
<1>1. Len(s) \in Nat /\ Len(d) \in Nat /\ n \in Nat /\ n <= Len(d)
  OBVIOUS
<1>2. PICK a, b, c : /\ a = SubSeq(s, 1, o) /\ b = SubSeq(d, 1, n) /\ c = SubSeq(s, o + n + 1, Len(s))
  OBVIOUS
<1>3. a \in Seq(V) /\ Len(a) = o /\ \A i \in 1..o : a[i] = s[i]
  BY <1>1, <1>2
<1>4. b \in Seq(V) /\ Len(b) = n /\ \A i \in 1..n : b[i] = d[i]
  BY <1>1, <1>2
<1>5. /\ c \in Seq(V) /\ Len(c) = Len(s) - (o + n)
      /\ \A i \in 1..(Len(s) - (o + n)) : c[i] = s[(o + n) + i]
  <2>1. PICK m : m = o + n
    OBVIOUS
  <2>2. m \in 0..Len(s) /\ c = SubSeq(s, m + 1, Len(s))
    BY <1>1, <1>2, <2>1
  <2>3. c \in Seq(V) /\ Len(c) = Len(s) - m /\ \A i \in 1..(Len(s) - m) : c[i] = s[m + i]
    BY <2>2, Rest
  <2> QED BY <2>1, <2>3
<1>6. PICK ab : ab = a \o b
  OBVIOUS
<1>7. /\ ab \in Seq(V) /\ Len(ab) = o + n
      /\ \A i \in 1..o : ab[i] = s[i]
      /\ \A i \in 1..n : ab[o + i] = d[i]
  <2>1. /\ a \o b \in Seq(V) /\ Len(a \o b) = Len(a) + Len(b)
        /\ \A i \in 1..Len(a) : (a \o b)[i] = a[i]
        /\ \A i \in 1..Len(b) : (a \o b)[Len(a) + i] = b[i]
    <3>1. a \in Seq(V) /\ b \in Seq(V)
      BY <1>3, <1>4
    <3> QED BY ONLY <3>1, Joined
  <2>2. Len(a) = o /\ Len(b) = n /\ ab = a \o b
    BY <1>3, <1>4, <1>6
  <2> QED BY ONLY <1>3, <1>4, <2>1, <2>2
<1>8. z = ab \o c
  BY <1>2, <1>6, <1>12
<1>9. /\ z \in Seq(V) /\ Len(z) = Len(ab) + Len(c)
      /\ \A i \in 1..Len(ab) : z[i] = ab[i]
      /\ \A i \in 1..Len(c) : z[Len(ab) + i] = c[i]
  <2>1. ab \in Seq(V) /\ c \in Seq(V)
    BY <1>5, <1>7
  <2> QED BY ONLY <1>8, <2>1, Joined
<1>11. Len(z) = Len(s)
  <2>1. Len(z) = (o + n) + (Len(s) - (o + n))
    BY <1>5, <1>7, <1>9
  <2>2. PICK p, q : p = o + n /\ q = Len(s)
    OBVIOUS
  <2>3. p \in Int /\ q \in Int
    BY <1>1, <2>2
  <2>4. p + (q - p) = q
    BY ONLY <2>3
  <2> QED BY ONLY <2>1, <2>2, <2>4
<1>10. ASSUME NEW i \in 1..Len(s) PROVE z[i] = IF i <= o THEN s[i] ELSE IF i <= o + n THEN d[i - o] ELSE s[i]
  <2>1. CASE i <= o
    <3>1. i \in 1..o /\ i \in 1..(o + n)
      BY <1>1, <2>1
    <3>2. z[i] = ab[i] /\ ab[i] = s[i]
      BY <1>7, <1>9, <3>1
    <3> QED BY <2>1, <3>2
  <2>2. CASE i > o /\ i <= o + n
    <3>1. PICK m : m = i - o
      OBVIOUS
    <3>2. m \in 1..n /\ o + m = i /\ i \in 1..(o + n)
      BY <1>1, <2>2, <3>1
    <3>3. z[i] = ab[i] /\ ab[o + m] = d[m] /\ ~(i <= o)
      <4>1. i \in 1..Len(ab) /\ m \in 1..n
        BY <1>7, <3>2
      <4>2. ~(i <= o)
        BY <1>1, <2>2
      <4> QED BY <1>7, <1>9, <4>1, <4>2
    <3> QED BY <2>2, <3>1, <3>2, <3>3
  <2>3. CASE i > o + n
    <3>1. PICK m : m = i - (o + n)
      OBVIOUS
    <3>2. m \in 1..(Len(s) - (o + n)) /\ (o + n) + m = i
      BY <1>1, <2>3, <3>1
    <3>3. ~(i <= o) /\ ~(i <= o + n)
      BY <1>1, <2>3
    <3>4. z[Len(ab) + m] = c[m] /\ Len(ab) + m = i /\ c[m] = s[(o + n) + m]
      BY <1>5, <1>7, <1>9, <3>2
    <3> QED BY <3>2, <3>3, <3>4
  <2>4. i <= o \/ (i > o /\ i <= o + n) \/ i > o + n
    BY <1>1
  <2> QED BY <2>1, <2>2, <2>3, <2>4
<1> QED BY <1>9, <1>10, <1>11, <1>12 DEF Over, LiesOver
LEMMA MinOfTwo ==
    ASSUME NEW x \in Nat, NEW y \in Nat
    PROVE  XA!Min({x, y}) \in {x, y} /\ XA!Min({x, y}) <= x /\ XA!Min({x, y}) <= y
<1>1. PICK S : S = {x, y}
  OBVIOUS
<1>2. S \subseteq Nat /\ x \in S /\ y \in S /\ x <= x /\ y <= y
  BY <1>1
<1>3. CASE x <= y
  <2>1. \A z \in S : x <= z
    BY <1>1, <1>3
  <2>2. XA!Min(S) = x
    BY ONLY <1>2, <2>1, IsMin
  <2> QED BY <1>1, <1>3, <2>2
<1>4. CASE ~(x <= y)
  <2>1. y <= x /\ \A z \in S : y <= z
    BY <1>1, <1>4
  <2>2. XA!Min(S) = y
    BY ONLY <1>2, <2>1, IsMin
  <2> QED BY <1>1, <2>1, <2>2
<1> QED BY <1>3, <1>4

(* And what is left of what is left.                                       *)
LEMMA RestOfRest ==
    ASSUME NEW V, NEW s \in Seq(V), NEW m \in 0..Len(s), NEW r, r = SubSeq(s, m + 1, Len(s)),
           NEW n \in 0..Len(r)
    PROVE  SubSeq(r, n + 1, Len(r)) = SubSeq(s, (m + n) + 1, Len(s))
<1>1. /\ r \in Seq(V) /\ Len(r) = Len(s) - m /\ Len(s) \in Nat /\ m \in Nat /\ n \in Nat
      /\ \A i \in 1..(Len(s) - m) : r[i] = s[m + i]
  BY Rest
<1>2. m + n \in 0..Len(s)
  BY <1>1
<1>3. PICK a, b : a = SubSeq(r, n + 1, Len(r)) /\ b = SubSeq(s, (m + n) + 1, Len(s))
  OBVIOUS
<1>4. a \in Seq(V) /\ Len(a) = Len(r) - n /\ \A i \in 1..(Len(r) - n) : a[i] = r[n + i]
  BY <1>1, <1>3, Rest
<1>5. b \in Seq(V) /\ Len(b) = Len(s) - (m + n) /\ \A i \in 1..(Len(s) - (m + n)) : b[i] = s[(m + n) + i]
  BY <1>1, <1>2, <1>3, Rest
<1>6. Len(a) = Len(b)
  BY <1>1, <1>4, <1>5
<1>7. ASSUME NEW i \in 1..Len(a) PROVE a[i] = b[i]
  <2>1. n + i \in 1..(Len(s) - m) /\ m + (n + i) = (m + n) + i
    BY <1>1, <1>4
  <2> QED BY <1>1, <1>4, <1>5, <1>6, <2>1
<1>8. a = b
  BY <1>4, <1>5, <1>6, <1>7, SeqEqual
<1> QED BY <1>3, <1>8

(* One turn of the builder's loop.                                         *)
LEMMA CopyTurn ==
    ASSUME XA!XarAssumption, NEW w \in Seq(Cells), NEW k, Len(w) <= Start(k),
           NEW ch, NEW count \in Nat, count < Len(w), NEW data, data = SubSeq(w, count + 1, Len(w)),
           Shaped(ch, k), \A j \in Nat : j < count => XA!Get(ch, j) = w[j + 1]
    PROVE  /\ Writing(XA!CopyInto(ch, count, data), k, w)
           /\ XA!CopyInto(ch, count, data).count \in Nat /\ XA!CopyInto(ch, count, data).count > count
<1>1. /\ Len(w) \in Nat /\ k \in Nat /\ k \in 0..N /\ N \in Nat
      /\ ch \in [0..(N - 1) -> Seq(Cells \cup {Junk})]
  BY DEF Shaped, XA!XarAssumption
<1>2. Start(k) \in Nat /\ count < Start(k)
  <2>1. Start(k) \in Nat
    BY <1>1, ChunkFacts
  <2> QED BY <1>1, <2>1
<1>3. count < Start(N)
  BY <1>1, <1>2, StartsOrder
<1>4. PICK c, o, s : c = Chunk(count) /\ o = Offset(count) /\ s = ch[Chunk(count)]
  OBVIOUS
<1>5. /\ c \in 0..(N - 1) /\ c \in Nat /\ c < k /\ o \in Nat /\ o + 1 \in 1..Len(s) /\ Len(s) = Size(c)
      /\ count = Start(c) + o /\ s = ch[c] /\ s \in Seq(Cells \cup {Junk})
  <2>1. /\ Chunk(count) \in 0..(N - 1) /\ Chunk(count) < k /\ Offset(count) \in Nat
        /\ Offset(count) + 1 \in 1..Len(ch[Chunk(count)]) /\ Len(ch[Chunk(count)]) = Size(Chunk(count))
        /\ count = Start(Chunk(count)) + Offset(count)
    BY <1>2, InChunk
  <2> QED BY <1>1, <1>4, <2>1
<1>6. XA!BuilderChunk(count) = c
  BY <1>3, <1>4, IndexPlace
<1>7. count - XA!ChunkStart(c) = o /\ Start(c) \in Nat /\ Size(c) \in Nat /\ XA!ChunkSize(c) = Size(c)
  <2>1. Start(c) \in Nat /\ Size(c) \in Nat
    BY <1>5, ChunkFacts
  <2> QED BY <1>5, <2>1 DEF Start, Size
<1>21. PICK size, start, len :
          /\ size = Size(c) /\ start = Start(c) /\ len = Len(data)
          /\ size \in Nat /\ start \in Nat /\ o \in Nat /\ o < size /\ count = start + o
  <2>1. o < Size(c)
    BY <1>5, <1>7
  <2> QED BY <1>5, <1>7, <2>1
<1>22. size \in Nat /\ start \in Nat /\ o \in Nat /\ o < size /\ count = start + o
  BY <1>21
<1>8. /\ data \in Seq(Cells) /\ Len(data) = Len(w) - count
      /\ \A i \in 1..(Len(w) - count) : data[i] = w[count + i]
  <2>1. count \in 0..Len(w)
    BY <1>1
  <2> QED BY ONLY w \in Seq(Cells), data = SubSeq(w, count + 1, Len(w)), <2>1, Rest
<1>9. PICK n : n = XA!Min({Size(c) - o, Len(data)})
  OBVIOUS
<1>10. n \in Nat /\ n > 0 /\ n <= Len(data) /\ o + n <= Len(s) /\ n \in 0..Len(data)
  <2>1. PICK x, y : x = Size(c) - o /\ y = Len(data)
    OBVIOUS
  <2>2. x \in Nat /\ x > 0 /\ o + x = Len(s)
    <3>1. x = size - o /\ Len(s) = size
      BY <1>5, <1>21, <2>1
    <3> QED BY ONLY <1>21, <3>1
  <2>3. y \in Nat /\ y > 0
    BY ONLY <1>1, <1>8, <2>1, count \in Nat, count < Len(w)
  <2>4. n \in {x, y} /\ n <= x /\ n <= y
    BY ONLY <1>9, <2>1, <2>2, <2>3, MinOfTwo
  <2> QED BY ONLY <1>5, <2>1, <2>2, <2>3, <2>4
<1>11. PICK z : z = Over(s, data, o, n)
  OBVIOUS
<1>12. /\ z \in Seq(Cells \cup {Junk}) /\ Len(z) = Len(s)
       /\ \A i \in 1..Len(s) : z[i] = IF i <= o THEN s[i] ELSE IF i <= o + n THEN data[i - o] ELSE s[i]
  <2>1. PICK V : V = Cells \cup {Junk}
    OBVIOUS
  <2>2. s \in Seq(V) /\ data \in Seq(V) /\ o \in Nat
    BY <1>5, <1>8, <2>1
  <2>3. n \in 0..Len(data) /\ o + n <= Len(s)
    BY <1>10
  <2>4. z \in Seq(V) /\ LiesOver(z, s, data, o, n)
    BY ONLY <1>11, <2>2, <2>3, Spliced
  <2> QED BY <2>1, <2>4 DEF LiesOver
<1>13. PICK r : r = XA!CopyInto(ch, count, data)
  OBVIOUS
<1>14. /\ r.chunks = [ch EXCEPT ![c] = z] /\ r.count = count + n
       /\ r.data = SubSeq(data, n + 1, Len(data))
  BY <1>5, <1>6, <1>7, <1>9, <1>11, <1>13 DEF XA!CopyInto, Over
<1>15. PICK g : g = r.chunks
  OBVIOUS
<1>16. g \in [0..(N - 1) -> Seq(Cells \cup {Junk})] /\ g[c] = z /\ \A d \in 0..(N - 1) : d # c => g[d] = ch[d]
  BY <1>1, <1>5, <1>12, <1>14, <1>15
<1>17. Shaped(g, k)
  BY <1>1, <1>5, <1>12, <1>16 DEF Shaped
<1>18. r.data = SubSeq(w, (count + n) + 1, Len(w)) /\ count + n \in 0..Len(w) /\ count + n \in Nat /\ count + n > count
  <2>1. count + n \in 0..Len(w) /\ count + n \in Nat /\ count + n > count
    BY <1>1, <1>8, <1>10
  <2>2. SubSeq(data, n + 1, Len(data)) = SubSeq(w, (count + n) + 1, Len(w))
    <3>1. count \in 0..Len(w) /\ n \in 0..Len(data)
      BY <1>1, <1>10
    <3> QED BY ONLY w \in Seq(Cells), data = SubSeq(w, count + 1, Len(w)), <3>1, RestOfRest
  <2> QED BY <1>14, <2>1, <2>2
<1>19. ASSUME NEW j \in Nat, j < count + n PROVE XA!Get(g, j) = w[j + 1]
  <2>1. j < Start(k)
    BY <1>1, <1>2, <1>18, <1>19
  <2>2. PICK d, p : d = Chunk(j) /\ p = Offset(j)
    OBVIOUS
  <2>3. /\ d \in 0..(N - 1) /\ d \in Nat /\ p \in Nat /\ p + 1 \in 1..Len(ch[d]) /\ j = Start(d) + p
        /\ Len(ch[d]) = Size(d)
    <3>1. /\ Chunk(j) \in 0..(N - 1) /\ Offset(j) \in Nat /\ Offset(j) + 1 \in 1..Len(ch[Chunk(j)])
          /\ Len(ch[Chunk(j)]) = Size(Chunk(j)) /\ j = Start(Chunk(j)) + Offset(j)
      BY <2>1, InChunk
    <3> QED BY <1>1, <2>2, <3>1
  <2>4. XA!Get(g, j) = g[d][p + 1] /\ XA!Get(ch, j) = ch[d][p + 1]
    BY <2>2 DEF XA!Get, Chunk, Offset
  <2>5. CASE d = c
    <3>1. p + 1 \in 1..Len(s) /\ j = Start(c) + p
      BY <1>5, <2>3, <2>5
    <3>2. g[d][p + 1] = IF p + 1 <= o THEN s[p + 1] ELSE IF p + 1 <= o + n THEN data[(p + 1) - o] ELSE s[p + 1]
      BY <1>12, <1>16, <2>5, <3>1
    <3>3. CASE p + 1 <= o
      <4>1. j < count
        BY ONLY <1>5, <1>7, <2>3, <3>1, <3>3
      <4> QED BY <1>5, <2>4, <2>5, <3>2, <3>3, <4>1
    <3>4. CASE ~(p + 1 <= o)
      <4>1. PICK i : i = (p + 1) - o
        OBVIOUS
      <4>2. i \in Nat /\ i > 0 /\ count + i = j + 1 /\ p + 1 <= o + n /\ i <= n
        <5>1. j = start + p /\ n \in Nat /\ p \in Nat /\ j \in Nat
          BY <1>10, <1>21, <2>3, <3>1
        <5>2. start + p < (start + o) + n
          BY <1>19, <1>22, <5>1
        <5>3. i \in Nat /\ i > 0 /\ i <= n /\ p + 1 <= o + n
          BY ONLY <1>22, <3>4, <4>1, <5>1, <5>2
        <5>4. (start + o) + i = (start + p) + 1
          BY ONLY <1>22, <4>1, <5>1
        <5> QED BY <1>22, <5>1, <5>3, <5>4
      <4>3. i \in 1..(Len(w) - count)
        BY ONLY <1>1, <1>8, <1>10, <4>2, count \in Nat
      <4> QED BY <1>8, <2>4, <3>2, <3>4, <4>1, <4>2, <4>3
    <3> QED BY <3>3, <3>4
  <2>6. CASE d # c
    <3>1. j < count
      <4>1. SUFFICES ASSUME count <= j PROVE FALSE
        BY <1>19
      <4>2. d < c \/ c < d
        BY ONLY <1>5, <2>3, <2>6
      <4>0. Start(d) \in Nat /\ Size(d) \in Nat
        BY <2>3, ChunkFacts
      <4>3. CASE d < c
        <5>1. Start(d) + Size(d) <= Start(c)
          BY <1>5, <2>3, <4>3, StartsGrow
        <5> QED BY ONLY <1>5, <1>7, <2>3, <4>0, <4>1, <5>1
      <4>4. CASE c < d
        <5>1. Start(c) + Size(c) <= Start(d)
          BY <1>5, <2>3, <4>4, StartsGrow
        <5>2. PICK from : from = Start(d) /\ from \in Nat /\ start + size <= from /\ j = from + p /\ p \in Nat
          BY <1>21, <2>3, <4>0, <5>1
        <5>3. o + n <= size /\ n \in Nat
          BY <1>5, <1>10, <1>21
        <5>4. j \in Nat /\ p \in Nat /\ from \in Nat /\ n \in Nat /\ from <= j
          BY ONLY <5>2, <5>3
        <5>5. j < (start + o) + n
          BY <1>19, <1>22
        <5>6. start + size <= j
          BY ONLY <1>22, <5>2, <5>4
        <5> QED BY ONLY <1>22, <5>3, <5>4, <5>5, <5>6
      <4> QED BY <4>2, <4>3, <4>4
    <3> QED BY <1>16, <2>3, <2>4, <2>6, <3>1
  <2> QED BY <2>5, <2>6
<1>20. Writing(r, k, w)
  BY <1>14, <1>15, <1>17, <1>18, <1>19 DEF Writing
<1> QED BY <1>13, <1>14, <1>18, <1>20

(* The chunks hold the first n elements of w.                              *)
HoldsFirst(ch, k, w, n) == Shaped(ch, k) /\ \A j \in Nat : j < n => XA!Get(ch, j) = w[j + 1]

(* The builder's loop writes all of w.                                     *)
LEMMA Copying ==
    ASSUME XA!XarAssumption, NEW w \in Seq(Cells), NEW k, Len(w) <= Start(k),
           NEW ch, NEW count \in 0..Len(w), NEW data, data = SubSeq(w, count + 1, Len(w)),
           HoldsFirst(ch, k, w, count)
    PROVE  HoldsFirst(XA!Copied(ch, count, data), k, w, Len(w))
<1>0. Shaped(ch, k) /\ \A j \in Nat : j < count => XA!Get(ch, j) = w[j + 1]
  BY DEF HoldsFirst
<1> DEFINE Turn(r) == IF r.data = << >> THEN r ELSE XA!CopyInto(r.chunks, r.count, r.data)
           first == [chunks |-> ch, count |-> count, data |-> data]
           R == [chunks : [0..(N - 1) -> Seq(Cells \cup {Junk})], count : Nat, data : Seq(Cells)]
           S == {r \in R : Writing(r, k, w)}
           n == Len(data)
           Is(f) == f = [t \in 0..n |-> IF t = 0 THEN first ELSE Turn(f[t - 1])]
           step == [t \in Nat |-> [r \in S |-> Turn(r)]]
<1>1. Len(w) \in Nat /\ count \in Nat /\ data \in Seq(Cells) /\ n = Len(w) - count /\ n \in Nat
  <2>1. Len(w) \in Nat /\ count \in Nat
    OBVIOUS
  <2>2. SubSeq(w, count + 1, Len(w)) \in Seq(Cells) /\ Len(SubSeq(w, count + 1, Len(w))) = Len(w) - count
    BY Rest
  <2> QED BY <2>1, <2>2
<1>2. first \in S
  <2>1. first \in R
    BY <1>0, <1>1 DEF Shaped
  <2>2. Writing(first, k, w)
    BY <1>0 DEF Writing
  <2> QED BY <2>1, <2>2
<1>3. ASSUME NEW r \in R, Writing(r, k, w)
      PROVE  /\ r.data = << >> => r.count = Len(w)
             /\ r.data # << >> => Turn(r) \in R /\ Writing(Turn(r), k, w) /\ Turn(r).count > r.count
  <2>1. /\ r.count \in 0..Len(w) /\ r.count \in Nat /\ r.data = SubSeq(w, r.count + 1, Len(w)) /\ Shaped(r.chunks, k)
        /\ \A j \in Nat : j < r.count => XA!Get(r.chunks, j) = w[j + 1]
    BY <1>3 DEF Writing
  <2>2. r.data \in Seq(Cells) /\ Len(r.data) = Len(w) - r.count
    <3>1. PICK m : m = r.count
      OBVIOUS
    <3>2. m \in 0..Len(w)
      BY <2>1, <3>1
    <3>3. SubSeq(w, m + 1, Len(w)) \in Seq(Cells) /\ Len(SubSeq(w, m + 1, Len(w))) = Len(w) - m
      BY <3>2, Rest
    <3> QED BY <2>1, <3>1, <3>3
  <2>3. r.data = << >> => r.count = Len(w)
    BY <1>1, <2>1, <2>2
  <2>4. ASSUME r.data # << >> PROVE Turn(r) \in R /\ Writing(Turn(r), k, w) /\ Turn(r).count > r.count
    <3>1. PICK c, m, d : c = r.chunks /\ m = r.count /\ d = r.data
      OBVIOUS
    <3>2. m \in Nat /\ m < Len(w)
      BY <1>1, <2>1, <2>2, <2>4, <3>1
    <3>3. /\ d = SubSeq(w, m + 1, Len(w)) /\ Shaped(c, k)
          /\ \A j \in Nat : j < m => XA!Get(c, j) = w[j + 1]
      BY <2>1, <3>1
    <3>4. PICK q : q = XA!CopyInto(c, m, d)
      OBVIOUS
    <3>5. Writing(q, k, w) /\ q.count \in Nat /\ q.count > m
      BY <3>2, <3>3, <3>4, CopyTurn
    <3>6. q = [chunks |-> q.chunks, count |-> q.count, data |-> q.data]
      BY <3>4 DEF XA!CopyInto
    <3>7. q.chunks \in [0..(N - 1) -> Seq(Cells \cup {Junk})]
      BY <3>5 DEF Writing, Shaped
    <3>8. q.data \in Seq(Cells)
      <4>1. PICK p : p = q.count
        OBVIOUS
      <4>2. p \in 0..Len(w) /\ q.data = SubSeq(w, p + 1, Len(w))
        BY <3>5, <4>1 DEF Writing
      <4>3. SubSeq(w, p + 1, Len(w)) \in Seq(Cells)
        BY <4>2, Rest
      <4> QED BY <4>2, <4>3
    <3>9. q \in R
      BY <3>5, <3>6, <3>7, <3>8
    <3>10. Turn(r) = q
      BY <2>4, <3>1, <3>4
    <3> HIDE DEF Turn, R
    <3> QED BY <3>1, <3>5, <3>9, <3>10
  <2> HIDE DEF Turn
  <2> QED BY <2>3, <2>4
<1>4. ASSUME NEW r \in S PROVE Turn(r) \in S
  <2>1. r \in R /\ Writing(r, k, w)
    OBVIOUS
  <2>2. CASE r.data = << >>
    BY <2>2
  <2>3. CASE r.data # << >>
    <3> HIDE DEF Turn, R
    <3>1. Turn(r) \in R /\ Writing(Turn(r), k, w)
      BY <1>3, <2>1, <2>3
    <3> QED BY <3>1
  <2> QED BY <2>2, <2>3
<1>5. PICK g : Repeats(g, S, first, step)
  <2> HIDE DEF S, Turn
  <2>1. step \in Steps(S)
    BY <1>4 DEF Steps
  <2> HIDE DEF step, first
  <2> QED BY <1>2, <2>1, Recursion
<1>6. g \in [Nat -> S] /\ g[0] = first /\ \A t \in Nat : g[t + 1] = Turn(g[t])
  <2> HIDE DEF S, Turn, first
  <2> QED BY <1>5 DEF Repeats
<1> DEFINE u == CHOOSE f : Is(f)
           h == [t \in 0..n |-> g[t]]
<1>7. Is(h)
  <2>1. ASSUME NEW t \in 0..n PROVE h[t] = IF t = 0 THEN first ELSE Turn(h[t - 1])
    <3> HIDE DEF Turn, first, n
    <3>1. CASE t = 0
      BY <1>1, <1>6, <3>1
    <3>2. CASE t # 0
      <4>1. t - 1 \in Nat /\ (t - 1) + 1 = t /\ t - 1 \in 0..n
        BY <1>1, <3>2
      <4>2. h[t] = g[(t - 1) + 1] /\ h[t - 1] = g[t - 1]
        BY <4>1
      <4> HIDE DEF h
      <4> QED BY <1>6, <3>2, <4>1, <4>2
    <3> QED BY <3>1, <3>2
  <2> DEFINE v == [t \in 0..n |-> IF t = 0 THEN first ELSE Turn(h[t - 1])]
  <2>2. h = [t \in 0..n |-> h[t]]
    OBVIOUS
  <2>3. h = v
    <3> HIDE DEF h, Turn, first, n
    <3> QED BY <2>1, <2>2
  <2> HIDE DEF h, Turn, first, n
  <2> QED BY <2>3
<1>8. Is(u)
  <2> HIDE DEF Is, h
  <2> QED BY <1>7
<1>9. XA!Copied(ch, count, data) = u[n].chunks
  BY Zenon DEF XA!Copied
<1>10. PICK v : v = u
  OBVIOUS
<1> HIDE DEF u, h, S, step, first, Turn, n
<1>11. v = [t \in 0..n |-> IF t = 0 THEN first ELSE Turn(v[t - 1])]
  BY <1>8, <1>10
<1> HIDE DEF Is
<1> DEFINE Written == {t \in Nat : t <= n => /\ v[t] \in R /\ Writing(v[t], k, w)
                                             /\ v[t].count >= count + t \/ v[t].count = Len(w)}
<1>12. 0 \in Written
  <2>1. v[0] = first
    BY <1>1, <1>11
  <2>2. first.count = count
    BY DEF first
  <2>3. first \in R /\ Writing(first, k, w)
    BY <1>2 DEF S
  <2> HIDE DEF R
  <2> QED BY <1>1, <2>1, <2>2, <2>3
<1>13. ASSUME NEW t \in Nat, t \in Written PROVE t + 1 \in Written
  <2>1. SUFFICES ASSUME t + 1 <= n
                 PROVE  /\ v[t + 1] \in R /\ Writing(v[t + 1], k, w)
                        /\ v[t + 1].count >= count + (t + 1) \/ v[t + 1].count = Len(w)
    OBVIOUS
  <2>2. PICK r : r = v[t]
    OBVIOUS
  <2>3. t <= n /\ t + 1 \in 0..n /\ (t + 1) - 1 = t /\ t + 1 # 0
    BY <1>1, <2>1
  <2>4. v[t + 1] = Turn(r)
    BY <1>11, <2>2, <2>3
  <2>5. r \in R /\ Writing(r, k, w) /\ (r.count >= count + t \/ r.count = Len(w))
    BY <1>13, <2>2, <2>3
  <2>6. CASE r.data = << >>
    <3>1. Turn(r) = r
      BY <2>6 DEF Turn
    <3>2. r.count = Len(w)
      BY <1>3, <2>5, <2>6
    <3> QED BY <2>4, <2>5, <3>1, <3>2
  <2>7. CASE r.data # << >>
    <3>1. Turn(r) \in R /\ Writing(Turn(r), k, w) /\ Turn(r).count > r.count
      BY <1>3, <2>5, <2>7
    <3>2. PICK q : q = Turn(r)
      OBVIOUS
    <3>3. q.count \in Nat /\ q.count <= Len(w) /\ r.count \in Nat /\ q.count > r.count
      <4>1. q.count \in 0..Len(w) /\ r.count \in 0..Len(w)
        BY <2>5, <3>1, <3>2 DEF Writing
      <4> QED BY <1>1, <3>1, <3>2, <4>1
    <3>4. q.count >= count + (t + 1) \/ q.count = Len(w)
      BY <1>1, <2>5, <3>3
    <3> QED BY <2>4, <3>1, <3>2, <3>4
  <2> QED BY <2>6, <2>7
<1>14. Nat \subseteq Written
  <2> HIDE DEF Written
  <2> QED BY <1>12, <1>13, SetInduction
<1>15. PICK r : r = v[n]
  OBVIOUS
<1>16. Writing(r, k, w) /\ (r.count >= count + n \/ r.count = Len(w))
  BY <1>1, <1>14, <1>15
<1>17. r.count = Len(w)
  <2>1. r.count \in 0..Len(w)
    BY <1>16 DEF Writing
  <2> QED BY <1>1, <1>16, <2>1
<1>18. XA!Copied(ch, count, data) = r.chunks
  BY <1>9, <1>10, <1>15
<1> QED BY <1>16, <1>17, <1>18 DEF Writing, HoldsFirst

LEMMA AddToBuilderKeeps ==
    ASSUME XA!XarAssumption, XarInv, NEW data \in [1..3 -> Cells], XA!AddToBuilder(data) PROVE XarInv'
<1>1. PICK k \in 0..N : Holding(Chunks, k, added) /\ (STACK_FIRST => k > 0)
  BY DEF XarInv
<1>2. data \in Seq(Cells) /\ Len(data) = 3
  <2>2. data \in Seq(Cells)
    BY 3 \in Nat, SeqDef
  <2>3. DOMAIN data = 1..3
    OBVIOUS
  <2>4. DOMAIN data = 1..Len(data) /\ Len(data) \in Nat
    BY <2>2, LenProperties
  <2> QED BY <2>2, <2>3, <2>4
<1>3. /\ STACK_FIRST' = STACK_FIRST /\ xarCount' = xarCount + 3 /\ added' = added \o data
      /\ Chunks' = XA!Copied(XA!Reserved(xarCount + 3), xarCount, data)
      /\ STACK_FIRST \in BOOLEAN /\ xarCount = Len(added) /\ xarCount + 3 <= MaxElements
  BY <1>2 DEF XarInv, XA!AddToBuilder, XA!Becomes
<1>4. added \in Seq(Cells) /\ Len(added) \in Nat
  BY <1>1 DEF Holding
<1>5. xarCount + 3 \in Nat /\ xarCount + 3 <= Start(N) /\ N \in Nat
  BY <1>3, <1>4, MaxFits DEF XA!XarAssumption
<1>6. PICK m \in k..N : Holding(XA!Reserved(xarCount + 3), m, added) /\ xarCount + 3 <= Start(m)
  BY <1>1, <1>5, Reserving
<1>7. PICK w, g, n : w = added \o data /\ g = XA!Reserved(xarCount + 3) /\ n = xarCount
  OBVIOUS
<1>8. /\ w \in Seq(Cells) /\ Len(w) = n + 3 /\ n \in 0..Len(w) /\ n \in Nat
      /\ \A j \in Nat : j < n => w[j + 1] = added[j + 1]
      /\ \A i \in 1..3 : w[n + i] = data[i]
  <2>1. /\ added \o data \in Seq(Cells) /\ Len(added \o data) = Len(added) + Len(data)
        /\ \A i \in 1..Len(added) : (added \o data)[i] = added[i]
        /\ \A i \in 1..Len(data) : (added \o data)[Len(added) + i] = data[i]
    <3>1. PICK a : a = added
      OBVIOUS
    <3>2. a \in Seq(Cells) /\ data \in Seq(Cells)
      BY <1>2, <1>4, <3>1
    <3> QED BY ONLY <3>1, <3>2, Joined
  <2>2. n = Len(added) /\ n \in Nat
    BY <1>3, <1>4, <1>7
  <2>3. \A j \in Nat : j < n => j + 1 \in 1..Len(added)
    BY <2>2
  <2> QED BY <1>2, <1>7, <2>1, <2>2, <2>3
<1>9. data = SubSeq(w, n + 1, Len(w))
  <2>1. PICK r : r = SubSeq(w, n + 1, Len(w))
    OBVIOUS
  <2>2. r \in Seq(Cells) /\ Len(r) = Len(w) - n /\ \A i \in 1..(Len(w) - n) : r[i] = w[n + i]
    BY <1>8, <2>1, Rest
  <2>3. Len(w) - n = 3
    BY <1>8
  <2>4. Len(r) = Len(data) /\ \A i \in 1..Len(data) : r[i] = data[i]
    BY <1>2, <1>8, <2>2, <2>3
  <2>5. r = data
    BY <1>2, <2>2, <2>4, SeqEqual
  <2> QED BY <2>1, <2>5
<1>10. Shaped(g, m) /\ Len(w) <= Start(m) /\ \A j \in Nat : j < n => XA!Get(g, j) = w[j + 1]
  BY <1>3, <1>6, <1>7, <1>8 DEF Holding
<1>11. PICK c : c = XA!Copied(g, n, data)
  OBVIOUS
<1>12. Shaped(c, m) /\ \A j \in Nat : j < Len(w) => XA!Get(c, j) = w[j + 1]
  <2>1. HoldsFirst(g, m, w, n)
    BY <1>10 DEF HoldsFirst
  <2>2. Len(w) <= Start(m) /\ n \in 0..Len(w) /\ w \in Seq(Cells)
    BY <1>8, <1>10
  <2>3. HoldsFirst(XA!Copied(g, n, data), m, w, Len(w))
    BY <1>9, <2>1, <2>2, Copying
  <2> QED BY <1>11, <2>3 DEF HoldsFirst
<1>13. Holding(c, m, w)
  BY <1>8, <1>10, <1>12 DEF Holding
<1>14. m \in 0..N /\ (STACK_FIRST => m > 0)
  BY <1>1, <1>5, <1>6
<1>15. Holding(Chunks', m, added') /\ xarCount' = Len(added') /\ xarCount' <= MaxElements
  BY <1>3, <1>7, <1>8, <1>11, <1>13
<1> QED BY <1>3, <1>14, <1>15 DEF XarInv

(* The elements in the chunks before chunk i.                              *)
Visits(i) == SubSeq(added, 1, IF Start(i) < Len(added) THEN Start(i) ELSE Len(added))

(* What the visit makes of chunk i, with b from those before.              *)
Visit(b, i) == IF Len(b) >= xarCount \/ Chunks[i] = << >> THEN b
               ELSE b \o SubSeq(Chunks[i], 1, XA!Min({XA!ChunkSize(i), xarCount - Len(b)}))

LEMMA Beginning ==
    ASSUME NEW V, NEW s \in Seq(V), NEW m \in 0..Len(s)
    PROVE  /\ SubSeq(s, 1, m) \in Seq(V) /\ Len(SubSeq(s, 1, m)) = m
           /\ \A i \in 1..m : SubSeq(s, 1, m)[i] = s[i]
  OBVIOUS

LEMMA VisitOne ==
    ASSUME XA!XarAssumption, XarInv, NEW i \in 0..(N - 1) PROVE Visit(Visits(i), i) = Visits(i + 1)
<1>1. PICK k \in 0..N : Holding(Chunks, k, added)
  BY DEF XarInv
<1>2. /\ added \in Seq(Cells) /\ Len(added) \in Nat /\ xarCount = Len(added) /\ N \in Nat
      /\ Len(added) <= Start(k) /\ Shaped(Chunks, k) /\ i \in Nat /\ k \in Nat
  BY <1>1 DEF Holding, XarInv, XA!XarAssumption
<1>3. PICK n, from, size : n = Len(added) /\ from = Start(i) /\ size = Size(i)
  OBVIOUS
<1>4. n \in Nat /\ from \in Nat /\ size \in Nat /\ size > 0 /\ Start(i + 1) = from + size
  BY <1>2, <1>3, ChunkFacts
<1>5. CASE n <= from
  <2>1. Visits(i) = SubSeq(added, 1, n) /\ Visits(i + 1) = SubSeq(added, 1, n)
    BY <1>3, <1>4, <1>5 DEF Visits
  <2>2. Len(SubSeq(added, 1, n)) = n
    BY <1>2, <1>3, Beginning
  <2>3. PICK b : b = Visits(i)
    OBVIOUS
  <2>4. Len(b) >= xarCount
    BY <1>2, <1>3, <1>4, <2>1, <2>2, <2>3
  <2>5. Visit(b, i) = b
    BY <2>4 DEF Visit
  <2> QED BY <2>1, <2>3, <2>5
<1>6. CASE from < n
  <2>1. PICK b, c : b = Visits(i) /\ c = Chunks[i]
    OBVIOUS
  <2>2. b \in Seq(Cells) /\ Len(b) = from /\ \A j \in 1..from : b[j] = added[j]
    <3>1. b = SubSeq(added, 1, from) /\ from \in 0..Len(added)
      BY <1>3, <1>4, <1>6, <2>1 DEF Visits
    <3> QED BY <1>2, <3>1, Beginning
  <2>3. i < k
    <3>1. SUFFICES ASSUME k <= i PROVE FALSE
      BY <1>2
    <3>2. Start(k) <= Start(i) /\ Start(k) \in Nat
      BY <1>2, <3>1, StartsOrder
    <3> QED BY <1>2, <1>3, <1>4, <1>6, <3>2
  <2>4. c \in Seq(Cells \cup {Junk}) /\ Len(c) = size
    BY <1>2, <1>3, <2>1, <2>3 DEF Shaped
  <2>5. c # << >>
    BY <1>4, <2>4
  <2>6. PICK m : m = XA!Min({XA!ChunkSize(i), xarCount - Len(b)})
    OBVIOUS
  <2>7. m \in Nat /\ m <= size /\ from + m = IF from + size < n THEN from + size ELSE n
    <3>1. PICK d : d = n - from
      OBVIOUS
    <3>2. d \in Nat /\ from + d = n
      BY <1>4, <1>6, <3>1
    <3>3. m = XA!Min({size, d})
      BY <1>2, <1>3, <2>2, <2>6, <3>1 DEF Size
    <3>4. m \in {size, d} /\ m <= size /\ m <= d
      BY <1>4, <3>2, <3>3, MinOfTwo
    <3> QED BY <1>4, <3>2, <3>4
  <2>8. PICK s, z : s = SubSeq(c, 1, m) /\ z = b \o s
    OBVIOUS
  <2>9. Visit(b, i) = z
    <3>1. ~(Len(b) >= xarCount)
      BY <1>2, <1>3, <1>4, <1>6, <2>2
    <3>2. ~(Len(b) >= xarCount \/ Chunks[i] = << >>)
      BY <2>1, <2>5, <3>1
    <3>3. z = b \o SubSeq(Chunks[i], 1, m)
      BY <2>1, <2>8
    <3> QED BY <2>6, <3>2, <3>3, Zenon DEF Visit
  <2>10. s \in Seq(Cells \cup {Junk}) /\ Len(s) = m /\ \A j \in 1..m : s[j] = c[j]
    <3>1. m \in 0..Len(c)
      BY <2>4, <2>7
    <3> QED BY <2>4, <2>8, <3>1, Beginning
  <2>11. ASSUME NEW j \in 1..m PROVE c[j] = added[from + j]
    <3>1. PICK o, x : o = j - 1 /\ x = from + (j - 1)
      OBVIOUS
    <3>2. o \in Nat /\ o < size /\ x \in Nat /\ x = from + o /\ x < n /\ o + 1 = j /\ x + 1 = from + j
      BY <1>4, <1>6, <2>7, <3>1
    <3>3. x < Start(k) /\ Start(k) \in Nat
      <4>1. Start(k) \in Nat
        BY <1>2, ChunkFacts
      <4>2. n <= Start(k)
        BY <1>2, <1>3
      <4> QED BY ONLY <1>4, <3>2, <4>1, <4>2
    <3>4. x < Start(N)
      BY <1>2, <3>2, <3>3, StartsOrder
    <3>5. PICK d, p : d = Chunk(x) /\ p = Offset(x)
      OBVIOUS
    <3>6. d \in 0..(N - 1) /\ d \in Nat /\ p \in Nat /\ p < Size(d) /\ x = Start(d) + p
      BY <1>2, <3>2, <3>4, <3>5, IndexPlace
    <3>7. d = i /\ p = o
      BY <1>2, <1>3, <3>2, <3>6, OnePlace
    <3>8. XA!Get(Chunks, x) = Chunks[d][p + 1]
      BY <3>5 DEF XA!Get, Chunk, Offset
    <3>9. XA!Get(Chunks, x) = added[x + 1]
      BY <1>1, <1>3, <3>2 DEF Holding
    <3> QED BY <2>1, <3>2, <3>7, <3>8, <3>9
  <2>12. PICK r, e : e = from + m /\ r = SubSeq(added, 1, from + m)
    OBVIOUS
  <2>13. r = Visits(i + 1) /\ e \in 0..Len(added)
    <3>1. e \in 0..n /\ e = IF from + size < n THEN from + size ELSE n
      BY <1>4, <2>7, <2>12
    <3>2. Visits(i + 1) = SubSeq(added, 1, IF from + size < n THEN from + size ELSE n)
      BY <1>3, <1>4 DEF Visits
    <3> QED BY <1>3, <2>12, <3>1, <3>2
  <2>14. r \in Seq(Cells) /\ Len(r) = e /\ \A j \in 1..e : r[j] = added[j]
    BY <1>2, <2>12, <2>13, Beginning
  <2>15. /\ z \in Seq(Cells \cup {Junk}) /\ Len(z) = e
         /\ \A j \in 1..from : z[j] = added[j]
         /\ \A j \in 1..m : z[from + j] = added[from + j]
    <3>1. PICK V : V = Cells \cup {Junk}
      OBVIOUS
    <3>2. b \in Seq(V) /\ s \in Seq(V)
      BY <2>2, <2>10, <3>1
    <3>3. /\ b \o s \in Seq(V) /\ Len(b \o s) = Len(b) + Len(s)
          /\ \A j \in 1..Len(b) : (b \o s)[j] = b[j]
          /\ \A j \in 1..Len(s) : (b \o s)[Len(b) + j] = s[j]
      BY ONLY <3>2, Joined
    <3> QED BY <2>2, <2>8, <2>10, <2>11, <2>12, <3>1, <3>3
  <2>16. ASSUME NEW j \in 1..e PROVE z[j] = r[j]
    <3>1. CASE j <= from
      <4>1. j \in 1..from
        BY <1>4, <3>1
      <4> QED BY <2>14, <2>15, <4>1
    <3>2. CASE ~(j <= from)
      <4>1. PICK p : p = j - from
        OBVIOUS
      <4>2. p \in 1..m /\ from + p = j
        BY <1>4, <2>7, <2>12, <3>2, <4>1
      <4> QED BY <2>14, <2>15, <4>2
    <3> QED BY <3>1, <3>2
  <2>17. z = r
    <3>1. r \in Seq(Cells \cup {Junk}) /\ Len(r) = Len(z)
      BY <2>14, <2>15
    <3> QED BY <2>15, <2>16, <3>1, SeqEqual
  <2> QED BY <2>1, <2>9, <2>13, <2>17
<1> QED BY <1>4, <1>5, <1>6

(* The visit of all chunks finds all elements.                             *)
LEMMA VisitingAll == ASSUME XA!XarAssumption, XarInv PROVE XA!Visited = added
<1>1. N \in Nat /\ added \in Seq(Cells) /\ Len(added) \in Nat /\ Len(added) <= Start(N) /\ Start(N) \in Nat
  <2>1. N \in Nat
    BY DEF XA!XarAssumption
  <2>2. PICK k \in 0..N : Holding(Chunks, k, added)
    BY DEF XarInv
  <2>3. k \in Nat /\ k <= N /\ added \in Seq(Cells) /\ Len(added) <= Start(k) /\ Len(added) \in Nat
    BY <2>1, <2>2 DEF Holding
  <2>4. Start(k) <= Start(N) /\ Start(k) \in Nat /\ Start(N) \in Nat
    BY <2>1, <2>3, StartsOrder
  <2> QED BY <2>1, <2>3, <2>4
<1> DEFINE Is(f) == f = [i \in 0..N |-> IF i = 0 THEN << >> ELSE Visit(f[i - 1], i - 1)]
           h == [i \in 0..N |-> Visits(i)]
           u == CHOOSE f : Is(f)
<1>2. Visits(0) = << >> /\ Visits(N) = added
  <2>1. Visits(0) = SubSeq(added, 1, 0)
    <3>1. Start(0) = 0
      BY ChunkFacts
    <3>2. PICK m : m = IF Start(0) < Len(added) THEN Start(0) ELSE Len(added)
      OBVIOUS
    <3>3. m = 0
      BY <1>1, <3>1, <3>2
    <3> QED BY <3>2, <3>3 DEF Visits
  <2>2. SubSeq(added, 1, 0) = << >>
    BY <1>1
  <2>3. Visits(N) = SubSeq(added, 1, Len(added))
    BY <1>1 DEF Visits
  <2>4. SubSeq(added, 1, Len(added)) = added
    BY <1>1
  <2> QED BY <2>1, <2>2, <2>3, <2>4
<1>3. ASSUME NEW i \in 0..N, i # 0
      PROVE  i - 1 \in 0..N /\ Visit(Visits(i - 1), i - 1) = Visits(i)
  <2>1. i - 1 \in 0..(N - 1) /\ (i - 1) + 1 = i /\ i - 1 \in 0..N
    BY <1>1, <1>3
  <2> QED BY <2>1, VisitOne
<1>4. Is(h)
  <2>1. ASSUME NEW i \in 0..N PROVE h[i] = IF i = 0 THEN << >> ELSE Visit(h[i - 1], i - 1)
    <3>1. CASE i = 0
      BY <1>1, <1>2, <3>1
    <3>2. CASE i # 0
      <4>1. h[i] = Visits(i) /\ h[i - 1] = Visits(i - 1)
        BY <1>3, <3>2
      <4> HIDE DEF h
      <4> QED BY <1>3, <3>2, <4>1
    <3> QED BY <3>1, <3>2
  <2>2. h = [i \in 0..N |-> h[i]]
    OBVIOUS
  <2> HIDE DEF h
  <2> QED BY <2>1, <2>2
<1>5. Is(u)
  <2> HIDE DEF Is, h
  <2> QED BY <1>4
<1>6. XA!Visited = u[N]
  BY Zenon DEF XA!Visited, Visit
<1>7. PICK v : v = u
  OBVIOUS
<1> HIDE DEF u, h
<1>8. v = [i \in 0..N |-> IF i = 0 THEN << >> ELSE Visit(v[i - 1], i - 1)]
  BY <1>5, <1>7
<1> HIDE DEF Is
<1> DEFINE Agree == {i \in Nat : i <= N => v[i] = Visits(i)}
<1>9. 0 \in Agree
  BY <1>1, <1>2, <1>8
<1>10. ASSUME NEW i \in Nat, i \in Agree PROVE i + 1 \in Agree
  <2>1. SUFFICES ASSUME i + 1 <= N PROVE v[i + 1] = Visits(i + 1)
    OBVIOUS
  <2>2. i + 1 \in 0..N /\ i + 1 # 0 /\ (i + 1) - 1 = i /\ i \in 0..(N - 1)
    BY <1>1, <2>1
  <2>3. v[i + 1] = Visit(v[i], i)
    BY <1>8, <2>2
  <2>4. v[i] = Visits(i)
    BY <1>1, <1>10, <2>1
  <2>5. Visit(Visits(i), i) = Visits(i + 1)
    BY <2>2, VisitOne
  <2> QED BY <2>3, <2>4, <2>5
<1>11. Nat \subseteq Agree
  <2> HIDE DEF Agree
  <2> QED BY <1>9, <1>10, SetInduction
<1>12. v[N] = added
  BY <1>1, <1>2, <1>11
<1> QED BY <1>6, <1>7, <1>12

LEMMA XarInvSuffices == ASSUME XA!XarAssumption, XarInv PROVE XA!XarHolds
<1>1. PICK k \in 0..N : Holding(Chunks, k, added)
  BY DEF XarInv
<1>2. /\ added \in Seq(Cells) /\ Len(added) \in Nat /\ xarCount = Len(added) /\ N \in Nat
      /\ Shaped(Chunks, k) /\ k \in Nat
  BY <1>1 DEF Holding, XarInv, XA!XarAssumption
<1>3. [i \in 1..xarCount |-> XA!Get(Chunks, i - 1)] = added
  <2>1. ASSUME NEW i \in 1..xarCount PROVE XA!Get(Chunks, i - 1) = added[i]
    <3>1. i - 1 \in Nat /\ i - 1 < Len(added) /\ (i - 1) + 1 = i
      BY <1>2
    <3> QED BY <1>1, <3>1 DEF Holding
  <2>2. added = [i \in 1..xarCount |-> added[i]]
    BY <1>2
  <2> QED BY <2>1, <2>2
<1>4. ASSUME NEW i \in 0..(N - 1), NEW j \in 0..(N - 1), i < j, Chunks[j] # << >> PROVE Chunks[i] # << >>
  <2>1. j < k
    BY <1>2, <1>4 DEF Shaped
  <2>2. i \in Nat /\ i < k
    BY <1>2, <1>4, <2>1
  <2>3. Len(Chunks[i]) = Size(i) /\ Size(i) > 0
    BY <1>2, <2>2, ChunkFacts DEF Shaped
  <2>4. Len(<< >>) = 0
    OBVIOUS
  <2> QED BY <2>3, <2>4
<1>5. ASSUME NEW i \in 0..(N - 1), Chunks[i] # << >> PROVE Len(Chunks[i]) = XA!ChunkSize(i)
  BY <1>2, <1>5 DEF Shaped, Size
<1>6. XA!Visited = added
  BY VisitingAll
<1> QED BY <1>3, <1>4, <1>5, <1>6 DEF XA!XarHolds

LEMMA XarKeeps == ASSUME XA!XarAssumption, XarInv, [XA!Next]_xa PROVE XarInv'
<1>1. CASE UNCHANGED xa
  BY <1>1 DEF xa, XarInv, Holding, Shaped, XA!Get
<1>2. CASE \E n \in {1, MaxElements} : XA!Reserve(n)
  BY <1>2, ReserveKeeps
<1>3. CASE \E e \in Cells : XA!Add(e)
  BY <1>3, XarAddKeeps
<1>4. CASE \E i \in 0..(xarCount - 1) : XA!RemoveOrderedAt(i) \/ XA!RemoveUnorderedAt(i)
  BY <1>4, RemoveOrderedKeeps, RemoveUnorderedKeeps
<1>5. CASE \E s \in [1..3 -> Cells] : XA!AddToBuilder(s)
  BY <1>5, AddToBuilderKeeps
<1>6. CASE XA!ClearBuilder
  BY <1>6, ClearKeeps
<1>7. CASE XA!Free
  BY <1>7, FreeKeeps
<1> QED BY <1>1, <1>2, <1>3, <1>4, <1>5, <1>6, <1>7 DEF XA!Next

=============================================================================
