-------------------------- MODULE ContainersProofs ---------------------------
(***************************************************************************)
(* The variant, the linked lists, the signal and the quick sort, proved    *)
(* for any types, nodes, functions and contents, then all the containers   *)
(* of MCContainers beside each other.                                      *)
(***************************************************************************)
EXTENDS XarProofs

-----------------------------------------------------------------------------
(* The variant: an object lives exactly as long as an index tells it.      *)

(* The variants that hold an object of a type.                             *)
Holders(data, t) == {x \in Variants : data[x].type = t}

VariantTyped ==
    /\ Data \in [Variants -> [type : VR!Types, value : VariantValues \cup {Empty}]]
    /\ ti \in [Variants -> Nat] /\ holds = Data
    /\ made \in [VR!Types -> Nat] /\ ended \in [VR!Types -> Nat]

IndexTells == \A x \in Variants : ti[x] = VR!index_of(Data[x].type)

ObjectsCounted == \A t \in VR!Types : made[t] - ended[t] = Cardinality(Holders(Data, t))

VariantInv == VariantTyped /\ IndexTells /\ ObjectsCounted

LEMMA IndexFacts ==
    ASSUME VR!VariantAssumption, NEW t \in VR!Types
    PROVE  /\ VR!index_of(t) \in 0..Len(MEMBERS)
           /\ t = nil => VR!index_of(t) = 0
           /\ t # nil => VR!index_of(t) # 0 /\ MEMBERS[VR!index_of(t)] = t
<1>1. MEMBERS \in Seq(VR!ToSet(MEMBERS)) /\ DOMAIN MEMBERS = 1..Len(MEMBERS) /\ Len(MEMBERS) \in Nat
  BY DEF VR!VariantAssumption
<1>2. CASE t = nil
  BY <1>1, <1>2 DEF VR!index_of
<1>3. CASE t # nil
  <2>1. \E i \in DOMAIN MEMBERS : MEMBERS[i] = t
    BY <1>3 DEF VR!Types, VR!ToSet
  <2>2. VR!index_of(t) \in DOMAIN MEMBERS /\ MEMBERS[VR!index_of(t)] = t
    BY <1>3, <2>1 DEF VR!index_of
  <2> QED BY <1>1, <1>3, <2>2
<1> QED BY <1>2, <1>3

(* Two types share no index.                                               *)
LEMMA IndexApart ==
    ASSUME VR!VariantAssumption, NEW t \in VR!Types, NEW u \in VR!Types,
           VR!index_of(t) = VR!index_of(u)
    PROVE  t = u
  BY IndexFacts

(* An index finds the type that it is the index of.                        *)
LEMMA VisitFacts ==
    ASSUME VR!VariantAssumption, NEW x, NEW t \in VR!Types, ti[x] = VR!index_of(t)
    PROVE  VR!VisitWithNil(x) = t /\ VR!Visit(x) = t
<1>1. MEMBERS \in Seq(VR!ToSet(MEMBERS)) /\ Len(MEMBERS) \in Nat
  BY DEF VR!VariantAssumption
<1> DEFINE i == VR!index_of(t)
<1>2. /\ i \in 0..Len(MEMBERS) /\ (t = nil => i = 0) /\ (t # nil => i # 0 /\ MEMBERS[i] = t)
  BY IndexFacts
<1>3. /\ <<nil>> \o MEMBERS = [k \in 1..(1 + Len(MEMBERS)) |-> IF k = 1 THEN nil ELSE MEMBERS[k - 1]]
      /\ Len(<<nil>> \o MEMBERS) = 1 + Len(MEMBERS)
  BY <1>1
<1> HIDE DEF i
<1>4. (<<nil>> \o MEMBERS)[i + 1] = t
  BY <1>1, <1>2, <1>3
<1>5. VR!VisitWithNil(x) = (<<nil>> \o MEMBERS)[i + 1]
  BY <1>1, <1>2, <1>3 DEF VR!VisitWithNil, VR!Visited, i
<1>6. VR!Visit(x) = t
  <2>1. CASE i = 0
    BY <1>4, <1>5, <2>1 DEF VR!Visit, i
  <2>2. CASE i # 0
    BY <1>1, <1>2, <2>2 DEF VR!Visit, VR!Visited, i
  <2> QED BY <2>1, <2>2
<1> QED BY <1>4, <1>5, <1>6

(* One variant holds something else: one holder more, one less.            *)
LEMMA Recounted ==
    ASSUME VR!VariantAssumption, NEW data, NEW data2, NEW x \in Variants, NEW t,
           \A y \in Variants : y # x => data2[y].type = data[y].type
    PROVE  /\ Cardinality(Holders(data, t)) \in Nat
           /\ Cardinality(Holders(data2, t)) + (IF data[x].type = t THEN 1 ELSE 0)
              = Cardinality(Holders(data, t)) + (IF data2[x].type = t THEN 1 ELSE 0)
<1> DEFINE A == Holders(data, t)
           B == Holders(data2, t)
           R == {y \in Variants \ {x} : data[y].type = t}
<1>1. IsFiniteSet(A) /\ IsFiniteSet(B) /\ IsFiniteSet(R)
  <2>1. IsFiniteSet(Variants)
    BY DEF VR!VariantAssumption, VR!IsFiniteSet, IsFiniteSet
  <2>2. A \subseteq Variants /\ B \subseteq Variants /\ R \subseteq Variants
    BY DEF Holders
  <2> HIDE DEF A, B, R
  <2> QED BY <2>1, <2>2, FS_Subset
<1>2. Cardinality(R) \in Nat /\ x \notin R /\ Cardinality(R \cup {x}) = Cardinality(R) + 1
  <2>1. x \notin R
    OBVIOUS
  <2> HIDE DEF R
  <2> QED BY <1>1, <2>1, FS_CardinalityType, FS_AddElement
<1>3. A = IF data[x].type = t THEN R \cup {x} ELSE R
  BY DEF Holders
<1>4. B = IF data2[x].type = t THEN R \cup {x} ELSE R
  BY DEF Holders
<1> HIDE DEF A, B, R
<1>5. /\ Cardinality(A) \in Nat
      /\ Cardinality(B) + (IF data[x].type = t THEN 1 ELSE 0)
         = Cardinality(A) + (IF data2[x].type = t THEN 1 ELSE 0)
  BY <1>2, <1>3, <1>4
<1> QED BY <1>5 DEF A, B

LEMMA VariantInit == ASSUME VR!VariantAssumption, VR!Init PROVE VariantInv
<1>1. IsFiniteSet(Variants) /\ Cardinality(Variants) \in Nat
  BY FS_CardinalityType DEF VR!VariantAssumption, VR!IsFiniteSet, IsFiniteSet
<1>2. VariantTyped
  BY <1>1 DEF VR!Init, VariantTyped, VR!Nil, VR!Types, VR!Cardinality, Cardinality
<1>3. IndexTells
  BY DEF VR!Init, IndexTells, VR!Nil, VR!index_of
<1>4. ASSUME NEW t \in VR!Types PROVE made[t] - ended[t] = Cardinality(Holders(Data, t))
  <2>1. Holders(Data, t) = IF t = nil THEN Variants ELSE {}
    BY DEF VR!Init, VR!Nil, Holders
  <2>2. made[t] = (IF t = nil THEN Cardinality(Variants) ELSE 0) /\ ended[t] = 0
    BY DEF VR!Init, VR!Cardinality, Cardinality
  <2> QED BY <1>1, <2>1, <2>2, FS_EmptySet
<1> QED BY <1>2, <1>3, <1>4 DEF VariantInv, ObjectsCounted

(* One object made and one ended, of each type.                            *)
LEMMA Tallied ==
    ASSUME NEW S, NEW f \in [S -> Nat], NEW g \in [S -> Nat], NEW a \in S, NEW b \in S,
           NEW f2, f2 = [f EXCEPT ![a] = @ + 1], NEW g2, g2 = [g EXCEPT ![b] = @ + 1]
    PROVE  /\ f2 \in [S -> Nat] /\ g2 \in [S -> Nat]
           /\ \A u \in S : f2[u] - g2[u]
                 = f[u] - g[u] + (IF u = a THEN 1 ELSE 0) - (IF u = b THEN 1 ELSE 0)
<1>1. f2 \in [S -> Nat] /\ g2 \in [S -> Nat]
  OBVIOUS
<1>2. ASSUME NEW u \in S
      PROVE  f2[u] - g2[u] = f[u] - g[u] + (IF u = a THEN 1 ELSE 0) - (IF u = b THEN 1 ELSE 0)
  <2>1. f2[u] = (IF u = a THEN f[u] + 1 ELSE f[u]) /\ g2[u] = (IF u = b THEN g[u] + 1 ELSE g[u])
    OBVIOUS
  <2>2. f[u] \in Nat /\ g[u] \in Nat
    OBVIOUS
  <2> QED BY ONLY <2>1, <2>2
<1> QED BY <1>1, <1>2

LEMMA MadeAndEnded ==
    ASSUME VariantInv, NEW a \in VR!Types, NEW b \in VR!Types,
           made' = [made EXCEPT ![a] = @ + 1], ended' = [ended EXCEPT ![b] = @ + 1]
    PROVE  /\ made' \in [VR!Types -> Nat] /\ ended' \in [VR!Types -> Nat]
           /\ \A u \in VR!Types : made'[u] - ended'[u]
                 = made[u] - ended[u] + (IF u = a THEN 1 ELSE 0) - (IF u = b THEN 1 ELSE 0)
<1>1. made \in [VR!Types -> Nat] /\ ended \in [VR!Types -> Nat]
  BY DEF VariantInv, VariantTyped
<1>2. PICK f, g, f2, g2 : f = made /\ g = ended /\ f2 = made' /\ g2 = ended'
  OBVIOUS
<1>3. /\ f \in [VR!Types -> Nat] /\ g \in [VR!Types -> Nat]
      /\ f2 = [f EXCEPT ![a] = @ + 1] /\ g2 = [g EXCEPT ![b] = @ + 1]
  BY <1>1, <1>2
<1>4. /\ f2 \in [VR!Types -> Nat] /\ g2 \in [VR!Types -> Nat]
      /\ \A u \in VR!Types : f2[u] - g2[u]
            = f[u] - g[u] + (IF u = a THEN 1 ELSE 0) - (IF u = b THEN 1 ELSE 0)
  BY ONLY <1>3, Tallied
<1> QED BY <1>2, <1>4

(* An object made in x for the one that was there, and others of a type    *)
(* made and ended besides.                                                 *)
LEMMA Replaced ==
    ASSUME VR!VariantAssumption, VariantInv, NEW x \in Variants, NEW t \in VR!Types,
           Data' \in [Variants -> [type : VR!Types, value : VariantValues \cup {Empty}]],
           Data'[x].type = t, \A y \in Variants : y # x => Data'[y].type = Data[y].type,
           ti' = [ti EXCEPT ![x] = VR!index_of(t)], holds' = Data',
           made' \in [VR!Types -> Nat], ended' \in [VR!Types -> Nat],
           \A u \in VR!Types : made'[u] - ended'[u]
               = made[u] - ended[u] + (IF u = t THEN 1 ELSE 0)
                 - (IF u = Data[x].type THEN 1 ELSE 0)
    PROVE  VariantInv'
<1>1. VariantTyped'
  <2>1. VR!index_of(t) \in Nat
    BY IndexFacts DEF VR!VariantAssumption
  <2> QED BY <2>1 DEF VariantInv, VariantTyped
<1>2. IndexTells'
  BY DEF VariantInv, VariantTyped, IndexTells
<1>3. ASSUME NEW u \in VR!Types PROVE made'[u] - ended'[u] = Cardinality(Holders(Data', u))
  <2>1. PICK data, data2 : data = Data /\ data2 = Data'
    OBVIOUS
  <2>2. x \in Variants /\ VR!VariantAssumption /\ \A y \in Variants : y # x => data2[y].type = data[y].type
    BY <2>1
  <2>3. /\ Cardinality(Holders(data, u)) \in Nat
        /\ Cardinality(Holders(data2, u)) + (IF data[x].type = u THEN 1 ELSE 0)
           = Cardinality(Holders(data, u)) + (IF data2[x].type = u THEN 1 ELSE 0)
    BY ONLY <2>2, Recounted
  <2>4. Cardinality(Holders(data2, u)) \in Nat
    BY ONLY <2>2, Recounted
  <2>5. made[u] - ended[u] = Cardinality(Holders(data, u))
    BY <2>1 DEF VariantInv, ObjectsCounted
  <2>6. PICK before, after :
           before = made[u] - ended[u] /\ after = made'[u] - ended'[u]
    OBVIOUS
  <2>7. before \in Int /\ after \in Int
    BY <2>6 DEF VariantInv, VariantTyped
  <2>8. after = before + (IF u = t THEN 1 ELSE 0) - (IF u = Data[x].type THEN 1 ELSE 0)
    BY <2>6
  <2>9. data[x].type = Data[x].type /\ data2[x].type = t
    BY <2>1
  <2>10. before = Cardinality(Holders(data, u))
    BY <2>5, <2>6
  <2>11. after = Cardinality(Holders(data2, u))
    BY ONLY <2>3, <2>4, <2>7, <2>8, <2>9, <2>10
  <2> QED BY <2>1, <2>6, <2>11
<1> QED BY <1>1, <1>2, <1>3 DEF VariantInv, ObjectsCounted

Objects == [type : VR!Types, value : VariantValues \cup {Empty}]

(* What an index says of a variant.                                        *)
LEMMA Told ==
    ASSUME VR!VariantAssumption, VariantInv, NEW x \in Variants
    PROVE  /\ Data[x] \in Objects /\ VR!VisitWithNil(x) = Data[x].type /\ VR!Visit(x) = Data[x].type
           /\ ti[x] = VR!index_of(Data[x].type)
  BY VisitFacts DEF VariantInv, VariantTyped, IndexTells, Objects

LEMMA EmplaceKeeps ==
    ASSUME VR!VariantAssumption, VariantInv, NEW x \in Variants, NEW object \in Objects,
           VR!Emplace(x, object)
    PROVE  VariantInv'
<1>1. Data[x] \in Objects /\ VR!VisitWithNil(x) = Data[x].type
  BY Told
<1>2. object.type \in VR!Types /\ Data[x].type \in VR!Types
  BY <1>1 DEF Objects
<1>3. /\ Data' = [Data EXCEPT ![x] = object] /\ holds' = [holds EXCEPT ![x] = object]
      /\ ti' = [ti EXCEPT ![x] = VR!index_of(object.type)]
      /\ made' = [made EXCEPT ![object.type] = @ + 1]
      /\ ended' = [ended EXCEPT ![Data[x].type] = @ + 1]
  BY <1>1 DEF VR!Emplace, VR!Tally
<1>4. /\ Data' \in [Variants -> Objects] /\ Data'[x].type = object.type /\ holds' = Data'
      /\ \A y \in Variants : y # x => Data'[y].type = Data[y].type
  BY <1>3 DEF VariantInv, VariantTyped, Objects
<1>5. /\ made' \in [VR!Types -> Nat] /\ ended' \in [VR!Types -> Nat]
      /\ \A u \in VR!Types : made'[u] - ended'[u]
            = made[u] - ended[u] + (IF u = object.type THEN 1 ELSE 0) - (IF u = Data[x].type THEN 1 ELSE 0)
  <2>1. PICK a, b : a = object.type /\ b = Data[x].type
    OBVIOUS
  <2>2. a \in VR!Types /\ b \in VR!Types /\ made' = [made EXCEPT ![a] = @ + 1] /\ ended' = [ended EXCEPT ![b] = @ + 1]
    BY <1>2, <1>3, <2>1
  <2>3. /\ made' \in [VR!Types -> Nat] /\ ended' \in [VR!Types -> Nat]
        /\ \A u \in VR!Types : made'[u] - ended'[u]
              = made[u] - ended[u] + (IF u = a THEN 1 ELSE 0) - (IF u = b THEN 1 ELSE 0)
    BY <2>2, MadeAndEnded
  <2> QED BY <2>1, <2>3
<1>6. ti' = [ti EXCEPT ![x] = VR!index_of(object.type)]
  BY <1>3
<1> QED BY <1>2, <1>4, <1>5, <1>6, Replaced DEF Objects

LEMMA AssignValueKeeps ==
    ASSUME VR!VariantAssumption, VariantInv, NEW x \in Variants, NEW object \in Objects,
           VR!AssignValue(x, object)
    PROVE  VariantInv'
<1>1. CASE ti[x] # VR!index_of(object.type)
  BY <1>1, EmplaceKeeps DEF VR!AssignValue
<1>2. CASE ti[x] = VR!index_of(object.type)
  <2>1. Data[x] \in Objects /\ ti[x] = VR!index_of(Data[x].type)
    BY Told
  <2>2. Data[x].type = object.type
    BY <1>2, <2>1, IndexApart DEF Objects
  <2>3. /\ Data' = [Data EXCEPT ![x].value = object.value]
        /\ holds' = [holds EXCEPT ![x] = object] /\ UNCHANGED <<ti, made, ended>>
    BY <1>2 DEF VR!AssignValue
  <2>4. Data' = [Data EXCEPT ![x] = object]
    BY <2>1, <2>2, <2>3 DEF VariantInv, VariantTyped, Objects
  <2>5. VariantTyped'
    BY <2>3, <2>4 DEF VariantInv, VariantTyped, Objects
  <2>6. \A y \in Variants : Data'[y].type = Data[y].type
    BY <2>2, <2>4 DEF VariantInv, VariantTyped
  <2>7. \A t : Holders(Data', t) = Holders(Data, t)
    BY <2>6 DEF Holders
  <2>8. IndexTells' /\ ObjectsCounted'
    BY <2>3, <2>6, <2>7 DEF VariantInv, IndexTells, ObjectsCounted
  <2> QED BY <2>5, <2>8 DEF VariantInv
<1> QED BY <1>1, <1>2

LEMMA AssignVariantKeeps ==
    ASSUME VR!VariantAssumption, VariantInv, NEW x \in Variants, NEW y \in Variants,
           VR!AssignVariant(x, y)
    PROVE  VariantInv'
<1>1. /\ Data[x] \in Objects /\ VR!VisitWithNil(x) = Data[x].type
      /\ Data[y] \in Objects /\ VR!VisitWithNil(y) = Data[y].type /\ VR!Visit(y) = Data[y].type
  BY Told
<1> DEFINE t == Data[y].type
<1>2. t \in VR!Types /\ Data[x].type \in VR!Types
  BY <1>1 DEF Objects
<1>3. /\ Data' = [Data EXCEPT ![x] = [type |-> t, value |-> Data[y].value]]
      /\ holds' = [holds EXCEPT ![x] = holds[y]]
      /\ ti' = [ti EXCEPT ![x] = VR!index_of(t)]
      /\ made' = [[made EXCEPT ![t] = @ + 1] EXCEPT ![t] = @ + 1]
      /\ ended' = [[ended EXCEPT ![Data[x].type] = @ + 1] EXCEPT ![t] = @ + 1]
  BY <1>1 DEF VR!AssignVariant, VR!Tally
<1>4. [type |-> t, value |-> Data[y].value] = Data[y] /\ holds = Data
  BY <1>1 DEF VariantInv, VariantTyped, Objects
<1> HIDE DEF t
<1>5. /\ Data' \in [Variants -> Objects] /\ Data'[x].type = t /\ holds' = Data'
      /\ \A z \in Variants : z # x => Data'[z].type = Data[z].type
  BY <1>1, <1>3, <1>4 DEF VariantInv, VariantTyped, Objects, t
<1>6. /\ made' \in [VR!Types -> Nat] /\ ended' \in [VR!Types -> Nat]
      /\ \A u \in VR!Types : made'[u] - ended'[u]
            = made[u] - ended[u] + (IF u = t THEN 1 ELSE 0) - (IF u = Data[x].type THEN 1 ELSE 0)
  BY <1>2, <1>3 DEF VariantInv, VariantTyped
<1>7. ti' = [ti EXCEPT ![x] = VR!index_of(t)]
  BY <1>3
<1> QED BY <1>2, <1>5, <1>6, <1>7, Replaced DEF Objects

LEMMA MoveToKeeps ==
    ASSUME VR!VariantAssumption, VariantInv, NEW x \in Variants, NEW y \in Variants, VR!MoveTo(x, y)
    PROVE  VariantInv'
<1>1. /\ Data[x] \in Objects /\ VR!VisitWithNil(x) = Data[x].type
      /\ Data[y] \in Objects /\ VR!VisitWithNil(y) = Data[y].type /\ x # y
  BY Told DEF VR!MoveTo
<1> DEFINE t == Data[y].type
<1>2. t \in VR!Types /\ Data[x].type \in VR!Types
  BY <1>1 DEF Objects
<1>3. /\ Data' = [Data EXCEPT ![x] = [type |-> t, value |-> Data[y].value], ![y].value = Empty]
      /\ holds' = [holds EXCEPT ![x] = holds[y], ![y].value = Empty]
      /\ ti' = [ti EXCEPT ![x] = VR!index_of(t)]
      /\ made' = [made EXCEPT ![t] = @ + 1]
      /\ ended' = [ended EXCEPT ![Data[x].type] = @ + 1]
  BY <1>1 DEF VR!MoveTo, VR!Tally
<1>4. [type |-> t, value |-> Data[y].value] = Data[y] /\ holds = Data
  BY <1>1 DEF VariantInv, VariantTyped, Objects
<1> HIDE DEF t
<1>5. /\ Data' \in [Variants -> Objects] /\ Data'[x].type = t /\ holds' = Data'
      /\ \A z \in Variants : z # x => Data'[z].type = Data[z].type
  BY <1>1, <1>3, <1>4 DEF VariantInv, VariantTyped, Objects, t
<1>6. /\ made' \in [VR!Types -> Nat] /\ ended' \in [VR!Types -> Nat]
      /\ \A u \in VR!Types : made'[u] - ended'[u]
            = made[u] - ended[u] + (IF u = t THEN 1 ELSE 0) - (IF u = Data[x].type THEN 1 ELSE 0)
  <2>1. PICK a, b : a = t /\ b = Data[x].type
    OBVIOUS
  <2>2. /\ a \in VR!Types /\ b \in VR!Types
        /\ made' = [made EXCEPT ![a] = @ + 1]
        /\ ended' = [ended EXCEPT ![b] = @ + 1]
    BY <1>2, <1>3, <2>1
  <2>3. /\ made' \in [VR!Types -> Nat] /\ ended' \in [VR!Types -> Nat]
        /\ \A u \in VR!Types : made'[u] - ended'[u]
              = made[u] - ended[u] + (IF u = a THEN 1 ELSE 0) - (IF u = b THEN 1 ELSE 0)
    BY ONLY <2>2, VariantInv, MadeAndEnded
  <2> QED BY ONLY <2>1, <2>3
<1>7. ti' = [ti EXCEPT ![x] = VR!index_of(t)]
  BY <1>3
<1> QED BY <1>2, <1>5, <1>6, <1>7, Replaced DEF Objects

LEMMA VariantKeeps == ASSUME VR!VariantAssumption, VariantInv, [VR!Next]_vr PROVE VariantInv'
<1>1. CASE UNCHANGED vr
  BY <1>1 DEF vr, VariantInv, VariantTyped, IndexTells, ObjectsCounted, Holders
<1>2. ASSUME NEW x \in Variants, NEW t \in VR!ToSet(MEMBERS), NEW v \in VariantValues,
             \/ VR!Emplace(x, [type |-> t, value |-> v])
             \/ VR!AssignValue(x, [type |-> t, value |-> v])
      PROVE  VariantInv'
  <2>1. [type |-> t, value |-> v] \in Objects
    BY DEF Objects, VR!Types
  <2> QED BY <1>2, <2>1, EmplaceKeeps, AssignValueKeeps
<1>3. ASSUME NEW x \in Variants, VR!AssignValue(x, VR!Nil) PROVE VariantInv'
  <2>1. VR!Nil \in Objects
    BY DEF VR!Nil, Objects, VR!Types
  <2> QED BY <1>3, <2>1, AssignValueKeeps
<1> QED BY <1>1, <1>2, <1>3, AssignVariantKeeps, MoveToKeeps DEF VR!Next

LEMMA VariantInvSuffices == ASSUME VR!VariantAssumption, VariantInv PROVE VR!HoldsOne
<1>1. Data = holds
  BY DEF VariantInv, VariantTyped
<1>2. \A x \in Variants : ti[x] = VR!index_of(Data[x].type) /\ VR!Visit(x) = Data[x].type
  BY Told
<1>3. \A t \in VR!Types : made[t] - ended[t] = Cardinality({x \in Variants : Data[x].type = t})
  BY DEF VariantInv, ObjectsCounted, Holders
<1> QED BY <1>1, <1>2, <1>3, Zenon DEF VR!HoldsOne, VR!Cardinality, Cardinality

-----------------------------------------------------------------------------
(* The linked lists: the fields spell the list that was built.             *)

(* The linked lists: what a list of nodes means for the fields.            *)
Distinct(l) == \A i, j \in 1..Len(l) : l[i] = l[j] => i = j
NotIn(l, n) == \A i \in 1..Len(l) : l[i] # n

(* Every node of l points to the one behind it, or before it, and every    *)
(* other node nowhere.                                                     *)
Behind(field, l) ==
    /\ \A i \in 1..Len(l) : field[l[i]] = IF i = Len(l) THEN null ELSE l[i + 1]
    /\ \A n \in Nodes : NotIn(l, n) => field[n] = null

Ahead(field, l) ==
    /\ \A i \in 1..Len(l) : field[l[i]] = IF i = 1 THEN null ELSE l[i - 1]
    /\ \A n \in Nodes : NotIn(l, n) => field[n] = null

FirstOf(l) == IF Len(l) = 0 THEN null ELSE l[1]
LastOf(l) == IF Len(l) = 0 THEN null ELSE l[Len(l)]

Pointers == [Nodes -> Nodes \cup {null}]

ListTyped ==
    /\ links \in {"single", "tail", "double"}
    /\ list \in Seq(Nodes) /\ Distinct(list)
    /\ NextOf \in Pointers /\ PrevOf \in Pointers
    /\ tail \in Nodes \cup {null}

ListInv ==
    /\ ListTyped
    /\ head = FirstOf(list) /\ Behind(NextOf, list)
    /\ links = "double" => tail = LastOf(list) /\ Ahead(PrevOf, list)
    /\ links = "tail" /\ Len(list) > 0 => tail = LastOf(list)

(* l2 is l with the node at i, or without the one there.                   *)
IsInserted(l, i, node, l2) ==
    /\ i \in 1..(Len(l) + 1) /\ l2 \in Seq(Nodes) /\ Len(l2) = Len(l) + 1
    /\ l2[i] = node
    /\ \A k \in 1..Len(l) : l2[IF k < i THEN k ELSE k + 1] = l[k]

IsRemoved(l, i, l2) ==
    /\ i \in 1..Len(l) /\ l2 \in Seq(Nodes) /\ Len(l2) = Len(l) - 1
    /\ \A k \in 1..Len(l2) : l2[k] = l[IF k < i THEN k ELSE k + 1]

LEMMA InsertedIs ==
    ASSUME NEW l \in Seq(Nodes), NEW i \in 1..(Len(l) + 1), NEW node \in Nodes
    PROVE  IsInserted(l, i, node, LL!InsertAt(l, i, node))
<1>1. Len(l) \in Nat
  OBVIOUS
<1> DEFINE a == SubSeq(l, 1, i - 1)
           b == SubSeq(l, i, Len(l))
           r == (a \o <<node>>) \o b
<1>2. LL!InsertAt(l, i, node) = r
  BY DEF LL!InsertAt
<1>3. /\ a \in Seq(Nodes) /\ Len(a) = i - 1 /\ \A k \in 1..(i - 1) : a[k] = l[k]
  BY <1>1
<1>4. b \in Seq(Nodes) /\ Len(b) = Len(l) - i + 1 /\ \A k \in 1..(Len(l) - i + 1) : b[k] = l[k + i - 1]
  BY <1>1
<1> HIDE DEF a, b
<1> DEFINE c == a \o <<node>>
<1>5. c \in Seq(Nodes) /\ Len(c) = i /\ c[i] = node /\ \A k \in 1..(i - 1) : c[k] = l[k]
  BY <1>1, <1>3
<1> HIDE DEF c
<1>6. r \in Seq(Nodes) /\ Len(r) = Len(l) + 1
  BY <1>1, <1>4, <1>5 DEF c
<1>7. r[i] = node
  BY <1>1, <1>4, <1>5 DEF c
<1>8. ASSUME NEW k \in 1..Len(l) PROVE r[IF k < i THEN k ELSE k + 1] = l[k]
  <2>1. ASSUME k < i PROVE r[k] = l[k]
    BY <1>1, <1>4, <1>5, <2>1 DEF c
  <2>2. ASSUME k >= i PROVE r[k + 1] = l[k]
    <3>1. r[k + 1] = b[k + 1 - i] /\ k + 1 - i \in 1..(Len(l) - i + 1)
      BY <1>1, <1>4, <1>5, <2>2 DEF c
    <3>2. b[k + 1 - i] = l[k + 1 - i + i - 1] /\ k + 1 - i + i - 1 = k
      BY <1>1, <1>4, <2>2, <3>1
    <3> QED BY <3>1, <3>2
  <2>3. CASE k < i
    BY <2>1, <2>3
  <2>4. CASE ~(k < i)
    <3>1. k >= i
      BY <1>1, <2>4
    <3> HIDE DEF r
    <3> QED BY <2>2, <2>4, <3>1
  <2> QED BY <2>3, <2>4
<1> QED BY <1>1, <1>2, <1>6, <1>7, <1>8 DEF IsInserted

LEMMA RemovedIs ==
    ASSUME NEW l \in Seq(Nodes), NEW i \in 1..Len(l)
    PROVE  IsRemoved(l, i, LL!RemoveAt(l, i))
<1>1. Len(l) \in Nat
  OBVIOUS
<1> DEFINE a == SubSeq(l, 1, i - 1)
           b == SubSeq(l, i + 1, Len(l))
           r == a \o b
<1>2. LL!RemoveAt(l, i) = r
  BY DEF LL!RemoveAt
<1>3. /\ a \in Seq(Nodes) /\ Len(a) = i - 1 /\ \A k \in 1..(i - 1) : a[k] = l[k]
  BY <1>1
<1>4. b \in Seq(Nodes) /\ Len(b) = Len(l) - i /\ \A k \in 1..(Len(l) - i) : b[k] = l[k + i]
  BY <1>1
<1> HIDE DEF a, b
<1>5. r \in Seq(Nodes) /\ Len(r) = Len(l) - 1
  <2>1. r \in Seq(Nodes) /\ Len(r) = Len(a) + Len(b)
    BY <1>3, <1>4, ConcatProperties
  <2> QED BY <1>1, <1>3, <1>4, <2>1
<1>6. ASSUME NEW k \in 1..(Len(l) - 1) PROVE r[k] = l[IF k < i THEN k ELSE k + 1]
  <2>1. ASSUME k < i PROVE r[k] = l[k]
    BY <1>1, <1>3, <1>4, <2>1
  <2>2. ASSUME k >= i PROVE r[k] = l[k + 1]
    <3>1. r[k] = b[k - (i - 1)] /\ k - (i - 1) \in 1..(Len(l) - i)
      BY <1>1, <1>3, <1>4, <2>2
    <3>2. b[k - (i - 1)] = l[k - (i - 1) + i] /\ k - (i - 1) + i = k + 1
      BY <1>1, <1>4, <3>1
    <3> QED BY <3>1, <3>2
  <2>3. CASE k < i
    BY <2>1, <2>3
  <2>4. CASE ~(k < i)
    <3>1. k >= i
      BY <1>1, <2>4
    <3> HIDE DEF r
    <3> QED BY <2>2, <2>4, <3>1
  <2> QED BY <2>3, <2>4
<1> QED BY <1>1, <1>2, <1>5, <1>6 DEF IsRemoved

(* A node put in: the others are where they were, and nowhere twice.       *)
LEMMA InsertedFacts ==
    ASSUME NEW l \in Seq(Nodes), NEW l2, NEW i, NEW node \in Nodes, IsInserted(l, i, node, l2),
           Distinct(l), NotIn(l, node)
    PROVE  /\ i \in 1..(Len(l) + 1) /\ Len(l) \in Nat /\ Len(l2) = Len(l) + 1 /\ l2[i] = node
           /\ \A k \in 1..Len(l) : l[k] \in Nodes /\ l[k] # node
           /\ \A k \in 1..Len(l) : k < i => l2[k] = l[k]
           /\ \A k \in 1..Len(l) : k >= i => l2[k + 1] = l[k]
           /\ Distinct(l2)
           /\ \A n \in Nodes : NotIn(l2, n) <=> n # node /\ NotIn(l, n)
<1>1. i \in 1..(Len(l) + 1) /\ Len(l) \in Nat /\ Len(l2) = Len(l) + 1 /\ l2[i] = node
  BY DEF IsInserted
<1>2. \A k \in 1..Len(l) : l[k] \in Nodes /\ l[k] # node
  BY DEF NotIn
<1>3. \A k \in 1..Len(l) : k < i => l2[k] = l[k]
  BY DEF IsInserted
<1>4. \A k \in 1..Len(l) : k >= i => l2[k + 1] = l[k]
  BY <1>1 DEF IsInserted
<1>5. \A k \in 1..Len(l2) : \/ k = i
                            \/ k < i /\ k \in 1..Len(l) /\ l2[k] = l[k]
                            \/ k > i /\ k - 1 \in 1..Len(l) /\ l2[k] = l[k - 1]
  <2> SUFFICES ASSUME NEW k \in 1..Len(l2), k # i
               PROVE  \/ k < i /\ k \in 1..Len(l) /\ l2[k] = l[k]
                      \/ k > i /\ k - 1 \in 1..Len(l) /\ l2[k] = l[k - 1]
    OBVIOUS
  <2>1. CASE k < i
    BY <1>1, <1>3, <2>1
  <2>2. CASE k > i
    <3>1. k - 1 \in 1..Len(l) /\ k - 1 >= i /\ (k - 1) + 1 = k
      BY <1>1, <2>2
    <3>2. l2[(k - 1) + 1] = l[k - 1]
      BY <1>4, <3>1
    <3> QED BY <2>2, <3>1, <3>2
  <2> QED BY <1>1, <2>1, <2>2
<1>6. Distinct(l2)
  <2> SUFFICES ASSUME NEW a \in 1..Len(l2), NEW b \in 1..Len(l2), l2[a] = l2[b], a < b PROVE FALSE
    BY <1>1 DEF Distinct
  <2>1. CASE a = i
    <3>1. b > i /\ b # i /\ ~(b < i)
      BY <1>1, <2>1
    <3>2. b - 1 \in 1..Len(l) /\ l2[b] = l[b - 1]
      BY <1>5, <3>1
    <3> QED BY <1>1, <1>2, <2>1, <3>2
  <2>2. CASE b = i
    <3>1. a \in 1..Len(l) /\ l2[a] = l[a]
      BY <1>1, <1>5, <2>2
    <3> QED BY <1>1, <1>2, <2>2, <3>1
  <2>3. CASE a # i /\ b # i
    <3>1. PICK c \in 1..Len(l) : l2[a] = l[c] /\ (c = IF a < i THEN a ELSE a - 1)
      BY <1>1, <1>5, <2>3
    <3>2. PICK d \in 1..Len(l) : l2[b] = l[d] /\ (d = IF b < i THEN b ELSE b - 1)
      BY <1>1, <1>5, <2>3
    <3>3. c = d
      BY <3>1, <3>2 DEF Distinct
    <3> QED BY <1>1, <2>3, <3>1, <3>2, <3>3
  <2> QED BY <2>1, <2>2, <2>3
<1>7. ASSUME NEW n \in Nodes PROVE NotIn(l2, n) <=> n # node /\ NotIn(l, n)
  <2>1. ASSUME NotIn(l2, n) PROVE n # node /\ NotIn(l, n)
    <3>1. n # node
      BY <1>1, <2>1 DEF NotIn
    <3>2. ASSUME NEW k \in 1..Len(l) PROVE l[k] # n
      <4>1. CASE k < i
        BY <1>1, <1>3, <2>1, <4>1 DEF NotIn
      <4>2. CASE k >= i
        <5>1. l2[k + 1] = l[k] /\ k + 1 \in 1..Len(l2)
          BY <1>1, <1>4, <4>2
        <5> QED BY <2>1, <5>1 DEF NotIn
      <4> QED BY <1>1, <4>1, <4>2
    <3> QED BY <3>1, <3>2 DEF NotIn
  <2>2. ASSUME n # node, NotIn(l, n) PROVE NotIn(l2, n)
    BY <1>1, <1>5, <2>2 DEF NotIn
  <2> QED BY <2>1, <2>2
<1> QED BY <1>1, <1>2, <1>3, <1>4, <1>6, <1>7

LEMMA RemovedFacts ==
    ASSUME NEW l \in Seq(Nodes), NEW l2, NEW i, IsRemoved(l, i, l2), Distinct(l)
    PROVE  /\ i \in 1..Len(l) /\ Len(l) \in Nat /\ Len(l2) = Len(l) - 1
           /\ \A k \in 1..Len(l) : l[k] \in Nodes /\ (l[k] = l[i] => k = i)
           /\ \A k \in 1..Len(l2) : k < i => l2[k] = l[k]
           /\ \A k \in 1..Len(l2) : k >= i => l2[k] = l[k + 1]
           /\ Distinct(l2)
           /\ \A n \in Nodes : NotIn(l2, n) <=> n = l[i] \/ NotIn(l, n)
<1>1. i \in 1..Len(l) /\ Len(l) \in Nat /\ Len(l2) = Len(l) - 1
  BY DEF IsRemoved
<1>2. \A k \in 1..Len(l) : l[k] \in Nodes /\ (l[k] = l[i] => k = i)
  BY <1>1 DEF Distinct
<1>3. \A k \in 1..Len(l2) : k < i => l2[k] = l[k]
  BY DEF IsRemoved
<1>4. \A k \in 1..Len(l2) : k >= i => l2[k] = l[k + 1]
  BY <1>1 DEF IsRemoved
<1>5. Distinct(l2)
  <2> SUFFICES ASSUME NEW a \in 1..Len(l2), NEW b \in 1..Len(l2), l2[a] = l2[b] PROVE a = b
    BY DEF Distinct
  <2>1. PICK c \in 1..Len(l) : l2[a] = l[c] /\ (c = IF a < i THEN a ELSE a + 1)
    BY <1>1, <1>3, <1>4
  <2>2. PICK d \in 1..Len(l) : l2[b] = l[d] /\ (d = IF b < i THEN b ELSE b + 1)
    BY <1>1, <1>3, <1>4
  <2>3. c = d
    BY <2>1, <2>2 DEF Distinct
  <2> QED BY <1>1, <2>1, <2>2, <2>3
<1>6. ASSUME NEW n \in Nodes PROVE NotIn(l2, n) <=> n = l[i] \/ NotIn(l, n)
  <2>1. ASSUME NotIn(l2, n), n # l[i], NEW k \in 1..Len(l) PROVE l[k] # n
    <3>1. CASE k < i
      BY <1>1, <1>3, <2>1, <3>1 DEF NotIn
    <3>2. CASE k > i
      <4>1. k - 1 \in 1..Len(l2) /\ k - 1 >= i /\ (k - 1) + 1 = k
        BY <1>1, <3>2
      <4>2. l2[k - 1] = l[(k - 1) + 1]
        BY <1>4, <4>1
      <4> QED BY <2>1, <4>1, <4>2 DEF NotIn
    <3>3. CASE k = i
      BY <2>1, <3>3
    <3> QED BY <1>1, <3>1, <3>2, <3>3
  <2>2. ASSUME n = l[i] \/ NotIn(l, n), NEW k \in 1..Len(l2) PROVE l2[k] # n
    <3>1. PICK c \in 1..Len(l) : l2[k] = l[c] /\ (c = IF k < i THEN k ELSE k + 1)
      BY <1>1, <1>3, <1>4
    <3>2. c # i
      BY <1>1, <3>1
    <3> QED BY <1>2, <2>2, <3>1, <3>2 DEF NotIn
  <2> QED BY <2>1, <2>2 DEF NotIn
<1> QED BY <1>1, <1>2, <1>3, <1>4, <1>5, <1>6

(* The assignments that put a node in, for Next ...                        *)
LEMMA LinkedBehind ==
    ASSUME NEW l \in Seq(Nodes), NEW l2, NEW i, NEW node \in Nodes, IsInserted(l, i, node, l2),
           Distinct(l), NotIn(l, node), NEW f, NEW f2, Behind(f, l),
           f2[node] = IF i = Len(l) + 1 THEN null ELSE l[i],
           i > 1 => f2[l[i - 1]] = node,
           \A n \in Nodes : n # node /\ (i > 1 => n # l[i - 1]) => f2[n] = f[n]
    PROVE  Behind(f2, l2)
<1>1. /\ i \in 1..(Len(l) + 1) /\ Len(l) \in Nat /\ Len(l2) = Len(l) + 1 /\ l2[i] = node
      /\ \A k \in 1..Len(l) : l[k] \in Nodes /\ l[k] # node
      /\ \A k \in 1..Len(l) : k < i => l2[k] = l[k]
      /\ \A k \in 1..Len(l) : k >= i => l2[k + 1] = l[k]
      /\ \A n \in Nodes : NotIn(l2, n) <=> n # node /\ NotIn(l, n)
  BY InsertedFacts
<1>2. ASSUME NEW k \in 1..Len(l2) PROVE f2[l2[k]] = IF k = Len(l2) THEN null ELSE l2[k + 1]
  <2>1. CASE k = i
    <3>1. CASE i = Len(l) + 1
      BY <1>1, <2>1, <3>1
    <3>2. CASE i # Len(l) + 1
      BY <1>1, <2>1, <3>2
    <3> QED BY <3>1, <3>2
  <2>2. CASE k = i - 1
    BY <1>1, <2>2
  <2>3. CASE k < i - 1
    <3>1. k \in 1..Len(l) /\ i - 1 \in 1..Len(l) /\ k # i - 1 /\ k # Len(l) /\ k + 1 \in 1..Len(l)
      BY <1>1, <2>3
    <3>2. l[k] # l[i - 1]
      BY <3>1 DEF Distinct
    <3>3. f2[l[k]] = f[l[k]] /\ f[l[k]] = l[k + 1]
      BY <1>1, <3>1, <3>2 DEF Behind
    <3> QED BY <1>1, <2>3, <3>1, <3>3
  <2>4. CASE k > i
    <3>1. k - 1 \in 1..Len(l) /\ k - 1 >= i /\ (k - 1) + 1 = k /\ (i > 1 => i - 1 \in 1..Len(l))
      BY <1>1, <2>4
    <3>2. l2[k] = l[k - 1] /\ l[k - 1] # node /\ l[k - 1] \in Nodes
      <4>1. l2[(k - 1) + 1] = l[k - 1]
        BY <1>1, <3>1
      <4> QED BY <1>1, <3>1, <4>1
    <3>3. i > 1 => l[k - 1] # l[i - 1]
      BY <1>1, <2>4, <3>1 DEF Distinct
    <3>4. f2[l[k - 1]] = f[l[k - 1]]
      BY <3>2, <3>3
    <3>5. f[l[k - 1]] = IF k - 1 = Len(l) THEN null ELSE l[k]
      <4>1. f[l[k - 1]] = IF k - 1 = Len(l) THEN null ELSE l[(k - 1) + 1]
        BY <3>1 DEF Behind
      <4> QED BY <3>1, <4>1
    <3>6. k - 1 # Len(l) => l2[k + 1] = l[k]
      BY <1>1, <2>4, <3>1
    <3> QED BY <1>1, <3>1, <3>2, <3>4, <3>5, <3>6
  <2> QED BY <1>1, <2>1, <2>2, <2>3, <2>4
<1>3. ASSUME NEW n \in Nodes, NotIn(l2, n) PROVE f2[n] = null
  <2>1. n # node /\ NotIn(l, n)
    BY <1>1, <1>3
  <2>2. i > 1 => n # l[i - 1]
    BY <1>1, <2>1 DEF NotIn
  <2> QED BY <2>1, <2>2 DEF Behind
<1> QED BY <1>2, <1>3 DEF Behind

(* ... and for Prev.                                                       *)
LEMMA LinkedAhead ==
    ASSUME NEW l \in Seq(Nodes), NEW l2, NEW i, NEW node \in Nodes, IsInserted(l, i, node, l2),
           Distinct(l), NotIn(l, node), NEW f, NEW f2, Ahead(f, l),
           f2[node] = IF i = 1 THEN null ELSE l[i - 1],
           i <= Len(l) => f2[l[i]] = node,
           \A n \in Nodes : n # node /\ (i <= Len(l) => n # l[i]) => f2[n] = f[n]
    PROVE  Ahead(f2, l2)
<1>1. /\ i \in 1..(Len(l) + 1) /\ Len(l) \in Nat /\ Len(l2) = Len(l) + 1 /\ l2[i] = node
      /\ \A k \in 1..Len(l) : l[k] \in Nodes /\ l[k] # node
      /\ \A k \in 1..Len(l) : k < i => l2[k] = l[k]
      /\ \A k \in 1..Len(l) : k >= i => l2[k + 1] = l[k]
      /\ \A n \in Nodes : NotIn(l2, n) <=> n # node /\ NotIn(l, n)
  BY InsertedFacts
<1>2. ASSUME NEW k \in 1..Len(l2) PROVE f2[l2[k]] = IF k = 1 THEN null ELSE l2[k - 1]
  <2>1. CASE k = i
    BY <1>1, <2>1
  <2>2. CASE k = i + 1
    <3>1. i \in 1..Len(l) /\ l2[i + 1] = l[i] /\ (i + 1) - 1 = i
      BY <1>1, <2>2
    <3> QED BY <1>1, <2>2, <3>1
  <2>3. CASE k < i
    <3>1. k \in 1..Len(l) /\ l2[k] = l[k] /\ (k # 1 => k - 1 \in 1..Len(l) /\ l2[k - 1] = l[k - 1])
      BY <1>1, <2>3
    <3>2. i <= Len(l) => l[k] # l[i]
      BY <1>1, <2>3, <3>1 DEF Distinct
    <3>3. f2[l[k]] = f[l[k]] /\ f[l[k]] = IF k = 1 THEN null ELSE l[k - 1]
      BY <1>1, <3>1, <3>2 DEF Ahead
    <3> QED BY <3>1, <3>3
  <2>4. CASE k > i + 1
    <3>1. /\ k - 1 \in 1..Len(l) /\ k - 1 >= i /\ (k - 1) + 1 = k /\ i \in 1..Len(l) /\ k - 1 # i /\ k # 1
          /\ k - 2 \in 1..Len(l) /\ k - 2 >= i /\ (k - 2) + 1 = k - 1 /\ (k - 1) - 1 = k - 2 /\ k - 1 # 1
      BY <1>1, <2>4
    <3>2. l2[k] = l[k - 1] /\ l[k - 1] # node /\ l[k - 1] \in Nodes
      <4>1. l2[(k - 1) + 1] = l[k - 1]
        BY <1>1, <3>1
      <4> QED BY <1>1, <3>1, <4>1
    <3>3. l[k - 1] # l[i]
      BY <1>1, <2>4, <3>1 DEF Distinct
    <3>4. f2[l[k - 1]] = f[l[k - 1]]
      BY <3>2, <3>3
    <3>5. f[l[k - 1]] = l[k - 2]
      <4>1. f[l[k - 1]] = IF k - 1 = 1 THEN null ELSE l[(k - 1) - 1]
        BY <3>1 DEF Ahead
      <4> QED BY <3>1, <4>1
    <3>6. l2[k - 1] = l[k - 2]
      <4>1. l2[(k - 2) + 1] = l[k - 2]
        BY <1>1, <3>1
      <4> QED BY <3>1, <4>1
    <3> QED BY <3>1, <3>2, <3>4, <3>5, <3>6
  <2> QED BY <1>1, <2>1, <2>2, <2>3, <2>4
<1>3. ASSUME NEW n \in Nodes, NotIn(l2, n) PROVE f2[n] = null
  <2>1. n # node /\ NotIn(l, n)
    BY <1>1, <1>3
  <2>2. i <= Len(l) => n # l[i]
    BY <1>1, <2>1 DEF NotIn
  <2> QED BY <2>1, <2>2 DEF Ahead
<1> QED BY <1>2, <1>3 DEF Ahead

(* The assignments that take a node out, for Next ...                      *)
LEMMA UnlinkedBehind ==
    ASSUME NEW l \in Seq(Nodes), NEW l2, NEW i, IsRemoved(l, i, l2), Distinct(l),
           NEW f, NEW f2, Behind(f, l),
           f2[l[i]] = null,
           i > 1 => f2[l[i - 1]] = f[l[i]],
           \A n \in Nodes : n # l[i] /\ (i > 1 => n # l[i - 1]) => f2[n] = f[n]
    PROVE  Behind(f2, l2)
<1>1. /\ i \in 1..Len(l) /\ Len(l) \in Nat /\ Len(l2) = Len(l) - 1
      /\ \A k \in 1..Len(l) : l[k] \in Nodes /\ (l[k] = l[i] => k = i)
      /\ \A k \in 1..Len(l2) : k < i => l2[k] = l[k]
      /\ \A k \in 1..Len(l2) : k >= i => l2[k] = l[k + 1]
      /\ \A n \in Nodes : NotIn(l2, n) <=> n = l[i] \/ NotIn(l, n)
  BY RemovedFacts
<1>2. ASSUME NEW k \in 1..Len(l2) PROVE f2[l2[k]] = IF k = Len(l2) THEN null ELSE l2[k + 1]
  <2>1. CASE k = i - 1
    <3>1. i - 1 \in 1..Len(l) /\ l2[k] = l[i - 1] /\ i > 1
      BY <1>1, <2>1
    <3>2. f2[l2[k]] = IF i = Len(l) THEN null ELSE l[i + 1]
      BY <1>1, <3>1 DEF Behind
    <3>3. k # Len(l2) => l2[k + 1] = l[i + 1]
      <4>1. k # Len(l2) => i \in 1..Len(l2) /\ i >= i /\ k + 1 = i
        BY <1>1, <2>1
      <4> QED BY <1>1, <4>1
    <3> QED BY <1>1, <2>1, <3>2, <3>3
  <2>2. CASE k < i - 1
    <3>1. /\ k \in 1..Len(l) /\ k + 1 \in 1..Len(l2) /\ k + 1 < i /\ k # Len(l) /\ k # Len(l2) /\ k # i
          /\ i - 1 \in 1..Len(l) /\ k # i - 1
      BY <1>1, <2>2
    <3>2. l2[k] = l[k] /\ l2[k + 1] = l[k + 1]
      BY <1>1, <3>1
    <3>3. l[k] # l[i - 1] /\ l[k] # l[i]
      BY <1>1, <3>1 DEF Distinct
    <3> QED BY <1>1, <3>1, <3>2, <3>3 DEF Behind
  <2>3. CASE k >= i
    <3>1. k + 1 \in 1..Len(l) /\ k + 1 # i /\ (i > 1 => i - 1 \in 1..Len(l) /\ k + 1 # i - 1)
      BY <1>1, <2>3
    <3>2. l2[k] = l[k + 1]
      BY <1>1, <2>3
    <3>3. l[k + 1] # l[i] /\ (i > 1 => l[k + 1] # l[i - 1])
      BY <1>1, <3>1 DEF Distinct
    <3>4. f2[l[k + 1]] = f[l[k + 1]] /\ f[l[k + 1]] = IF k + 1 = Len(l) THEN null ELSE l[(k + 1) + 1]
      BY <1>1, <3>1, <3>3 DEF Behind
    <3>5. k # Len(l2) => l2[k + 1] = l[(k + 1) + 1]
      BY <1>1, <2>3
    <3> QED BY <1>1, <3>2, <3>4, <3>5
  <2> QED BY <1>1, <2>1, <2>2, <2>3
<1>3. ASSUME NEW n \in Nodes, NotIn(l2, n) PROVE f2[n] = null
  <2>1. CASE n = l[i]
    BY <2>1
  <2>2. CASE n # l[i]
    <3>1. NotIn(l, n)
      BY <1>1, <1>3, <2>2
    <3>2. i > 1 => n # l[i - 1]
      BY <1>1, <3>1 DEF NotIn
    <3> QED BY <2>2, <3>1, <3>2 DEF Behind
  <2> QED BY <2>1, <2>2
<1> QED BY <1>2, <1>3 DEF Behind

(* ... and for Prev.                                                       *)
LEMMA UnlinkedAhead ==
    ASSUME NEW l \in Seq(Nodes), NEW l2, NEW i, IsRemoved(l, i, l2), Distinct(l),
           NEW f, NEW f2, Ahead(f, l),
           f2[l[i]] = null,
           i < Len(l) => f2[l[i + 1]] = f[l[i]],
           \A n \in Nodes : n # l[i] /\ (i < Len(l) => n # l[i + 1]) => f2[n] = f[n]
    PROVE  Ahead(f2, l2)
<1>1. /\ i \in 1..Len(l) /\ Len(l) \in Nat /\ Len(l2) = Len(l) - 1
      /\ \A k \in 1..Len(l) : l[k] \in Nodes /\ (l[k] = l[i] => k = i)
      /\ \A k \in 1..Len(l2) : k < i => l2[k] = l[k]
      /\ \A k \in 1..Len(l2) : k >= i => l2[k] = l[k + 1]
      /\ \A n \in Nodes : NotIn(l2, n) <=> n = l[i] \/ NotIn(l, n)
  BY RemovedFacts
<1>2. ASSUME NEW k \in 1..Len(l2) PROVE f2[l2[k]] = IF k = 1 THEN null ELSE l2[k - 1]
  <2>1. CASE k = i
    <3>1. i < Len(l) /\ l2[k] = l[i + 1]
      BY <1>1, <2>1
    <3>2. f2[l2[k]] = IF i = 1 THEN null ELSE l[i - 1]
      BY <1>1, <3>1 DEF Ahead
    <3>3. k # 1 => l2[k - 1] = l[i - 1]
      BY <1>1, <2>1
    <3> QED BY <2>1, <3>2, <3>3
  <2>2. CASE k < i
    <3>1. /\ k \in 1..Len(l) /\ k # i /\ k # i + 1 /\ (k # 1 => k - 1 \in 1..Len(l2) /\ k - 1 < i)
          /\ (i < Len(l) => i + 1 \in 1..Len(l))
      BY <1>1, <2>2
    <3>2. l2[k] = l[k] /\ (k # 1 => l2[k - 1] = l[k - 1])
      BY <1>1, <2>2, <3>1
    <3>3. l[k] # l[i] /\ (i < Len(l) => l[k] # l[i + 1])
      BY <1>1, <3>1 DEF Distinct
    <3> QED BY <1>1, <3>1, <3>2, <3>3 DEF Ahead
  <2>3. CASE k > i
    <3>1. /\ k + 1 \in 1..Len(l) /\ k + 1 # i /\ k + 1 # i + 1 /\ k # 1 /\ k + 1 # 1 /\ (k + 1) - 1 = k
          /\ i < Len(l) /\ i + 1 \in 1..Len(l) /\ k - 1 \in 1..Len(l2) /\ k - 1 >= i /\ (k - 1) + 1 = k
      BY <1>1, <2>3
    <3>2. l2[k] = l[k + 1]
      BY <1>1, <2>3
    <3>3. l2[k - 1] = l[k]
      <4>1. l2[k - 1] = l[(k - 1) + 1]
        BY <1>1, <3>1
      <4> QED BY <3>1, <4>1
    <3>4. l[k + 1] # l[i] /\ l[k + 1] # l[i + 1]
      BY <1>1, <3>1 DEF Distinct
    <3>5. f[l[k + 1]] = IF k + 1 = 1 THEN null ELSE l[(k + 1) - 1]
      BY <3>1 DEF Ahead
    <3>6. f2[l[k + 1]] = f[l[k + 1]]
      BY <1>1, <3>1, <3>4
    <3> QED BY <3>1, <3>2, <3>3, <3>5, <3>6
  <2> QED BY <1>1, <2>1, <2>2, <2>3
<1>3. ASSUME NEW n \in Nodes, NotIn(l2, n) PROVE f2[n] = null
  <2>1. CASE n = l[i]
    BY <2>1
  <2>2. CASE n # l[i]
    <3>1. NotIn(l, n)
      BY <1>1, <1>3, <2>2
    <3>2. i < Len(l) => n # l[i + 1]
      BY <1>1, <3>1 DEF NotIn
    <3> QED BY <2>2, <3>1, <3>2 DEF Ahead
  <2> QED BY <2>1, <2>2
<1> QED BY <1>2, <1>3 DEF Ahead

(* A list is no longer than there are nodes.                               *)
LEMMA ListFits ==
    ASSUME LL!LinkedListAssumption, NEW l \in Seq(Nodes), Distinct(l)
    PROVE  Len(l) \in 0..LL!Cardinality(Nodes) /\ LL!Cardinality(Nodes) \in Nat
<1> DEFINE D == 1..Len(l)
<1>1. l \in Injection(D, Nodes)
  <2>1. l \in [D -> Nodes] /\ \A a, b \in D : l[a] = l[b] => a = b
    BY DEF Distinct
  <2> HIDE DEF D
  <2> QED BY <2>1 DEF Injection, IsInjective
<1>2. IsFiniteSet(Nodes)
  BY DEF LL!LinkedListAssumption, LL!IsFiniteSet, IsFiniteSet
<1>3. Cardinality(D) <= Cardinality(Nodes)
  <2> HIDE DEF D
  <2> QED BY <1>1, <1>2, FS_Injection
<1>4. Cardinality(D) = Len(l) /\ Len(l) \in Nat
  <2>1. 1 \in Int /\ Len(l) \in Int /\ Len(l) \in Nat
    OBVIOUS
  <2>2. Cardinality(1..Len(l)) = IF 1 > Len(l) THEN 0 ELSE Len(l) - 1 + 1
    BY <2>1, FS_Interval
  <2> QED BY <2>1, <2>2
<1>5. Cardinality(Nodes) \in Nat
  BY <1>2, FS_CardinalityType
<1>6. LL!Cardinality(Nodes) = Cardinality(Nodes)
  BY Zenon DEF LL!Cardinality, Cardinality
<1> HIDE DEF D
<1> QED BY <1>3, <1>4, <1>5, <1>6

(* Along Next from the head are the nodes of the list, then null.          *)
LEMMA AlongList ==
    ASSUME LL!LinkedListAssumption, NEW l \in Seq(Nodes), Distinct(l), Behind(NextOf, l), NEW p, p = FirstOf(l)
    PROVE  LL!Along(p) = [n \in 0..LL!Cardinality(Nodes) |-> IF n < Len(l) THEN l[n + 1] ELSE null]
<1>1. Len(l) \in 0..LL!Cardinality(Nodes) /\ LL!Cardinality(Nodes) \in Nat
  BY ListFits
<1> DEFINE C == LL!Cardinality(Nodes)
           H == [n \in 0..C |-> IF n < Len(l) THEN l[n + 1] ELSE null]
           Is(f) == f = [n \in 0..C |-> IF n = 0 THEN p
                                        ELSE IF f[n - 1] = null THEN null ELSE NextOf[f[n - 1]]]
<1>2. null \notin Nodes
  BY DEF LL!LinkedListAssumption
<1>3. C \in Nat /\ Len(l) \in Nat
  BY <1>1
<1> HIDE DEF C
<1>4. ASSUME NEW n \in 0..C PROVE H[n] = IF n = 0 THEN p ELSE IF H[n - 1] = null THEN null ELSE NextOf[H[n - 1]]
  <2>1. CASE n = 0
    BY <1>3, <2>1 DEF FirstOf
  <2>2. CASE n # 0
    <3>1. n - 1 \in 0..C /\ H[n - 1] = IF n - 1 < Len(l) THEN l[(n - 1) + 1] ELSE null
      BY <1>3, <2>2
    <3>2. (n - 1) + 1 = n
      BY <2>2
    <3>3. CASE n - 1 < Len(l)
      <4>1. n \in 1..Len(l) /\ l[n] \in Nodes
        BY <1>3, <2>2, <3>3
      <4>2. H[n - 1] = l[n] /\ H[n - 1] # null
        BY <1>2, <3>1, <3>2, <3>3, <4>1
      <4>3. NextOf[l[n]] = IF n = Len(l) THEN null ELSE l[n + 1]
        BY <4>1 DEF Behind
      <4>4. H[n] = IF n < Len(l) THEN l[n + 1] ELSE null
        OBVIOUS
      <4> HIDE DEF H
      <4> QED BY <1>3, <2>2, <4>1, <4>2, <4>3, <4>4
    <3>4. CASE ~(n - 1 < Len(l))
      <4>1. H[n - 1] = null /\ ~(n < Len(l))
        BY <1>3, <3>1, <3>4
      <4>2. H[n] = null
        BY <4>1
      <4> HIDE DEF H
      <4> QED BY <2>2, <4>1, <4>2
    <3> QED BY <3>3, <3>4
  <2> QED BY <2>1, <2>2
<1>5. H = [n \in 0..C |-> H[n]]
  OBVIOUS
<1>6. Is(H)
  <2> DEFINE K == [n \in 0..C |-> IF n = 0 THEN p ELSE IF H[n - 1] = null THEN null ELSE NextOf[H[n - 1]]]
  <2>1. \A n \in 0..C : H[n] = K[n]
    <3> SUFFICES ASSUME NEW n \in 0..C PROVE H[n] = K[n]
      OBVIOUS
    <3>1. K[n] = IF n = 0 THEN p ELSE IF H[n - 1] = null THEN null ELSE NextOf[H[n - 1]]
      BY Zenon
    <3> HIDE DEF K, H
    <3> QED BY <1>4, <3>1
  <2>2. K = [n \in 0..C |-> K[n]]
    <3> HIDE DEF H
    <3> QED OBVIOUS
  <2> HIDE DEF H, K
  <2>3. H = K
    BY <1>5, <2>1, <2>2, Zenon
  <2> QED BY <2>3, Zenon DEF K
<1>7. LL!Along(p) = CHOOSE f : Is(f)
  BY Zenon DEF LL!Along, C
<1> DEFINE A == CHOOSE f : Is(f)
<1>8. Is(A)
  <2> HIDE DEF H, Is
  <2> QED BY <1>6, Zenon
<1>9. A = H
  <2> HIDE DEF A
  <2>1. A = [n \in 0..C |-> A[n]]
    <3>1. Is(A)
      BY <1>8
    <3> QED BY <3>1, Zenon
  <2>2. \A n \in 0..C : A[n] = IF n = 0 THEN p ELSE IF A[n - 1] = null THEN null ELSE NextOf[A[n - 1]]
    BY <1>8
  <2> DEFINE S == {n \in Nat : n <= C => A[n] = H[n]}
  <2> HIDE DEF H
  <2>3. 0 \in S
    BY <1>3, <1>4, <2>2
  <2>4. \A n \in Nat : n \in S => n + 1 \in S
    <3> SUFFICES ASSUME NEW n \in Nat, n \in S, n + 1 <= C PROVE A[n + 1] = H[n + 1]
      OBVIOUS
    <3>1. n + 1 \in 0..C /\ n + 1 # 0 /\ (n + 1) - 1 = n /\ n <= C
      BY <1>3
    <3>2. A[n + 1] = IF A[n] = null THEN null ELSE NextOf[A[n]]
      BY <2>2, <3>1
    <3>3. H[n + 1] = IF H[n] = null THEN null ELSE NextOf[H[n]]
      BY <1>4, <3>1
    <3> QED BY <3>1, <3>2, <3>3
  <2>5. Nat \subseteq S
    <3> HIDE DEF S
    <3> QED BY <2>3, <2>4, SetInduction
  <2>6. \A n \in 0..C : A[n] = H[n]
    BY <1>3, <2>5
  <2> QED BY <1>5, <2>1, <2>6, Zenon
<1>10. LL!Along(p) = H
  BY <1>7, <1>9, Zenon
<1> QED BY <1>10, Zenon DEF H, C

(* So the first one to stop at is the one in the list, if it is there.     *)
LEMMA FirstInList ==
    ASSUME LL!LinkedListAssumption, NEW l \in Seq(Nodes), Distinct(l), Behind(NextOf, l), NEW p, p = FirstOf(l),
           NEW stops
    PROVE  /\ \A k \in 1..Len(l) : l[k] \in stops /\ (\A j \in 1..Len(l) : l[j] \in stops => j = k)
                                   => LL!FirstAlong(p, stops) = l[k]
           /\ (\A j \in 1..Len(l) : l[j] \notin stops) => LL!FirstAlong(p, stops) = null
<1> DEFINE C == LL!Cardinality(Nodes)
           H == [n \in 0..C |-> IF n < Len(l) THEN l[n + 1] ELSE null]
           turns == {n \in 0..C : H[n] # null /\ H[n] \in stops}
<1>1. Len(l) \in 0..C /\ C \in Nat /\ Len(l) \in Nat /\ null \notin Nodes
  BY ListFits DEF LL!LinkedListAssumption
<1>2. LL!Along(p) = H
  BY AlongList
<1>3. LL!FirstAlong(p, stops) = IF turns = {} THEN null ELSE H[LL!Min(turns)]
  BY <1>2, Zenon DEF LL!FirstAlong, C
<1> HIDE DEF C
<1>4. \A n \in 0..C : n \in turns <=> n < Len(l) /\ l[n + 1] \in stops
  BY <1>1
<1>5. ASSUME NEW k \in 1..Len(l), l[k] \in stops, \A j \in 1..Len(l) : l[j] \in stops => j = k
      PROVE  LL!FirstAlong(p, stops) = l[k]
  <2>1. turns = {k - 1}
    <3>1. k - 1 \in 0..C /\ k - 1 < Len(l) /\ (k - 1) + 1 = k
      BY <1>1
    <3>2. k - 1 \in turns
      BY <1>4, <1>5, <3>1
    <3>3. ASSUME NEW n \in turns PROVE n = k - 1
      <4>1. n \in 0..C /\ n < Len(l) /\ l[n + 1] \in stops
        BY <1>4
      <4>2. n + 1 \in 1..Len(l)
        BY <1>1, <4>1
      <4> QED BY <1>5, <4>1, <4>2
    <3> HIDE DEF turns
    <3> QED BY <3>2, <3>3
  <2>2. LL!Min(turns) = k - 1
    <3>1. \A x \in {k - 1} : (\A y \in {k - 1} : x <= y) <=> x = k - 1
      OBVIOUS
    <3> HIDE DEF turns
    <3> QED BY <2>1, <3>1 DEF LL!Min
  <2>3. H[k - 1] = l[k]
    <3>1. k - 1 \in 0..C /\ k - 1 < Len(l) /\ (k - 1) + 1 = k
      BY <1>1
    <3> QED BY <3>1
  <2>4. turns # {}
    <3> HIDE DEF turns
    <3> QED BY <2>1
  <2> HIDE DEF turns, H
  <2> QED BY <1>3, <2>2, <2>3, <2>4
<1>6. ASSUME \A j \in 1..Len(l) : l[j] \notin stops PROVE LL!FirstAlong(p, stops) = null
  <2>1. turns = {}
    BY <1>1, <1>4, <1>6
  <2> HIDE DEF turns
  <2> QED BY <1>3, <2>1
<1> QED BY <1>5, <1>6

LEMMA ListInit == ASSUME LL!Init PROVE ListInv
<1>1. list = << >> /\ Len(list) = 0
  BY DEF LL!Init
<1> QED BY <1>1 DEF LL!Init, ListInv, ListTyped, Distinct, Pointers, Behind, Ahead, FirstOf, LastOf, NotIn

(* What the model says of a place in the list.                             *)
LEMMA PlaceFacts ==
    ASSUME ListInv, NEW node \in Nodes
    PROVE  /\ LL!Outside(node) <=> NotIn(list, node)
           /\ ~LL!Outside(node) => /\ LL!Position(node) \in 1..Len(list)
                                   /\ list[LL!Position(node)] = node
                                   /\ \A k \in 1..Len(list) : list[k] = node => k = LL!Position(node)
<1>1. list \in Seq(Nodes) /\ Distinct(list)
  BY DEF ListInv, ListTyped
<1>2. LL!Outside(node) <=> NotIn(list, node)
  BY <1>1 DEF LL!Outside, LL!ToSet, NotIn
<1>3. ASSUME ~LL!Outside(node) PROVE LL!Position(node) \in 1..Len(list) /\ list[LL!Position(node)] = node
  <2>1. \E i \in 1..Len(list) : list[i] = node
    BY <1>2, <1>3 DEF NotIn
  <2> QED BY <2>1 DEF LL!Position
<1> QED BY <1>1, <1>2, <1>3 DEF Distinct

(* What the invariant says, for the actions.                               *)
LEMMA ListSays ==
    ASSUME LL!LinkedListAssumption, ListInv
    PROVE  /\ list \in Seq(Nodes) /\ Len(list) \in Nat /\ Distinct(list) /\ Behind(NextOf, list)
           /\ links \in {"single", "tail", "double"}
           /\ NextOf \in [Nodes -> Nodes \cup {null}] /\ PrevOf \in [Nodes -> Nodes \cup {null}]
           /\ head = (IF Len(list) = 0 THEN null ELSE list[1])
           /\ head = FirstOf(list)
           /\ head \in Nodes \cup {null} /\ tail \in Nodes \cup {null}
           /\ \A i \in 1..Len(list) :
                 list[i] \in Nodes /\ NextOf[list[i]] = IF i = Len(list) THEN null ELSE list[i + 1]
           /\ links = "double" =>
                 /\ tail = (IF Len(list) = 0 THEN null ELSE list[Len(list)]) /\ Ahead(PrevOf, list)
                 /\ \A i \in 1..Len(list) : PrevOf[list[i]] = IF i = 1 THEN null ELSE list[i - 1]
           /\ links = "tail" /\ Len(list) > 0 => tail = list[Len(list)]
           /\ null \notin Nodes
  BY DEF LL!LinkedListAssumption, ListInv, ListTyped, Pointers, FirstOf, LastOf, Behind, Ahead

(* A node put into the list ...                                            *)
LEMMA PutIn ==
    ASSUME LL!LinkedListAssumption, ListInv, NEW node \in Nodes, LL!Outside(node), NEW i \in 1..(Len(list) + 1),
           IsInserted(list, i, node, list'), links' = links,
           NextOf' \in Pointers, PrevOf' \in Pointers,
           NextOf'[node] = IF i = Len(list) + 1 THEN null ELSE list[i],
           i > 1 => NextOf'[list[i - 1]] = node,
           \A n \in Nodes : n # node /\ (i > 1 => n # list[i - 1]) => NextOf'[n] = NextOf[n],
           links = "double" =>
              /\ PrevOf'[node] = IF i = 1 THEN null ELSE list[i - 1]
              /\ i <= Len(list) => PrevOf'[list[i]] = node
              /\ \A n \in Nodes : n # node /\ (i <= Len(list) => n # list[i]) => PrevOf'[n] = PrevOf[n],
           head' = IF i = 1 THEN node ELSE head,
           links # "single" => tail' = IF i = Len(list) + 1 THEN node ELSE tail,
           tail' \in Nodes \cup {null}
    PROVE  ListInv'
<1>1. /\ list \in Seq(Nodes) /\ Len(list) \in Nat /\ Distinct(list) /\ Behind(NextOf, list)
      /\ links = "double" => Ahead(PrevOf, list)
      /\ links \in {"single", "tail", "double"} /\ head = FirstOf(list)
      /\ links # "single" /\ Len(list) > 0 => tail = LastOf(list)
  BY ListSays DEF LastOf
<1>2. NotIn(list, node)
  BY PlaceFacts
<1>3. PICK l, l2, f, f2, g, g2 : /\ l = list /\ l2 = list' /\ f = NextOf /\ f2 = NextOf'
                                 /\ g = PrevOf /\ g2 = PrevOf'
  OBVIOUS
<1>4. l \in Seq(Nodes) /\ Distinct(l) /\ NotIn(l, node) /\ i \in 1..(Len(l) + 1)
  BY <1>1, <1>2, <1>3
<1>5. IsInserted(l, i, node, l2)
  BY <1>3
<1>6. /\ i \in 1..(Len(l) + 1) /\ Len(l) \in Nat /\ Len(l2) = Len(l) + 1 /\ l2[i] = node /\ Distinct(l2)
      /\ \A k \in 1..Len(l) : k < i => l2[k] = l[k]
      /\ \A k \in 1..Len(l) : k >= i => l2[k + 1] = l[k]
  <2>1. Distinct(l2)
    BY <1>4, <1>5, InsertedFacts
  <2>2. /\ i \in 1..(Len(l) + 1) /\ Len(l) \in Nat /\ Len(l2) = Len(l) + 1 /\ l2[i] = node
        /\ \A k \in 1..Len(l) : k < i => l2[k] = l[k]
        /\ \A k \in 1..Len(l) : k >= i => l2[k + 1] = l[k]
    BY <1>4, <1>5, InsertedFacts
  <2> QED BY <2>1, <2>2
<1>7. Behind(f2, l2)
  <2>1. /\ Behind(f, l) /\ f2[node] = (IF i = Len(l) + 1 THEN null ELSE l[i])
        /\ i > 1 => f2[l[i - 1]] = node
        /\ \A n \in Nodes : n # node /\ (i > 1 => n # l[i - 1]) => f2[n] = f[n]
    BY <1>1, <1>3
  <2> QED BY ONLY <1>4, <1>5, <2>1, node \in Nodes, LinkedBehind
<1>8. ASSUME links = "double" PROVE Ahead(g2, l2)
  <2>1. /\ Ahead(g, l) /\ g2[node] = (IF i = 1 THEN null ELSE l[i - 1])
        /\ i <= Len(l) => g2[l[i]] = node
        /\ \A n \in Nodes : n # node /\ (i <= Len(l) => n # l[i]) => g2[n] = g[n]
    BY <1>1, <1>3, <1>8
  <2> QED BY ONLY <1>4, <1>5, <2>1, node \in Nodes, LinkedAhead
<1>9. l2 \in Seq(Nodes)
  BY <1>5 DEF IsInserted
<1>10. head' = FirstOf(l2)
  BY <1>1, <1>3, <1>6 DEF FirstOf
<1>11. links # "single" => tail' = LastOf(l2)
  <2>1. i # Len(l) + 1 => Len(l) > 0 /\ l2[Len(l) + 1] = l[Len(l)]
    BY <1>6
  <2> QED BY <1>1, <1>3, <1>6, <2>1 DEF LastOf
<1> QED BY <1>1, <1>3, <1>6, <1>7, <1>8, <1>9, <1>10, <1>11 DEF ListInv, ListTyped

(* ... or taken out of it.                                                 *)
LEMMA TakenOut ==
    ASSUME LL!LinkedListAssumption, ListInv, NEW i \in 1..Len(list), NEW node, node = list[i],
           IsRemoved(list, i, list'), links' = links,
           NextOf' \in Pointers, PrevOf' \in Pointers,
           NextOf'[node] = null,
           i > 1 => NextOf'[list[i - 1]] = NextOf[node],
           \A n \in Nodes : n # node /\ (i > 1 => n # list[i - 1]) => NextOf'[n] = NextOf[n],
           links = "double" =>
              /\ PrevOf'[node] = null
              /\ i < Len(list) => PrevOf'[list[i + 1]] = PrevOf[node]
              /\ \A n \in Nodes : n # node /\ (i < Len(list) => n # list[i + 1]) => PrevOf'[n] = PrevOf[n]
              /\ tail' = IF i = Len(list) THEN PrevOf[node] ELSE tail,
           head' = IF i = 1 THEN NextOf[node] ELSE head,
           links = "tail" => tail' = tail /\ (i = Len(list) => Len(list) = 1),
           tail' \in Nodes \cup {null}
    PROVE  ListInv'
<1>1. /\ list \in Seq(Nodes) /\ Len(list) \in Nat /\ Distinct(list) /\ Behind(NextOf, list)
      /\ links = "double" => Ahead(PrevOf, list) /\ tail = LastOf(list)
      /\ links \in {"single", "tail", "double"} /\ head = FirstOf(list)
      /\ links = "tail" /\ Len(list) > 0 => tail = LastOf(list)
  BY ListSays DEF LastOf
<1>3. PICK l, l2, f, f2, g, g2 : /\ l = list /\ l2 = list' /\ f = NextOf /\ f2 = NextOf'
                                 /\ g = PrevOf /\ g2 = PrevOf'
  OBVIOUS
<1>4. l \in Seq(Nodes) /\ Distinct(l) /\ i \in 1..Len(l) /\ node = l[i]
  BY <1>1, <1>3
<1>5. IsRemoved(l, i, l2)
  BY <1>3
<1>6. /\ i \in 1..Len(l) /\ Len(l) \in Nat /\ Len(l2) = Len(l) - 1 /\ Distinct(l2)
      /\ \A k \in 1..Len(l2) : k < i => l2[k] = l[k]
      /\ \A k \in 1..Len(l2) : k >= i => l2[k] = l[k + 1]
  <2>1. Distinct(l2)
    BY <1>4, <1>5, RemovedFacts
  <2>2. i \in 1..Len(l) /\ Len(l) \in Nat /\ Len(l2) = Len(l) - 1
    BY <1>4, <1>5, RemovedFacts
  <2>3. \A k \in 1..Len(l2) : k < i => l2[k] = l[k]
    BY <1>5 DEF IsRemoved
  <2>4. \A k \in 1..Len(l2) : k >= i => l2[k] = l[k + 1]
    BY <1>4, <1>5, RemovedFacts
  <2> QED BY <2>1, <2>2, <2>3, <2>4
<1>7. Behind(f2, l2)
  <2>1. /\ Behind(f, l) /\ f2[l[i]] = null
        /\ i > 1 => f2[l[i - 1]] = f[l[i]]
        /\ \A n \in Nodes : n # l[i] /\ (i > 1 => n # l[i - 1]) => f2[n] = f[n]
    BY <1>1, <1>3
  <2> QED BY ONLY <1>4, <1>5, <2>1, UnlinkedBehind
<1>8. ASSUME links = "double" PROVE Ahead(g2, l2)
  <2>1. /\ Ahead(g, l) /\ g2[l[i]] = null
        /\ i < Len(l) => g2[l[i + 1]] = g[l[i]]
        /\ \A n \in Nodes : n # l[i] /\ (i < Len(l) => n # l[i + 1]) => g2[n] = g[n]
    BY <1>1, <1>3, <1>8
  <2> QED BY ONLY <1>4, <1>5, <2>1, UnlinkedAhead
<1>9. l2 \in Seq(Nodes)
  BY <1>5 DEF IsRemoved
<1>10. head' = FirstOf(l2)
  <2>1. CASE i = 1
    <3>1. NextOf[node] = IF 1 = Len(l) THEN null ELSE l[2]
      <4>1. f[l[1]] = IF 1 = Len(l) THEN null ELSE l[1 + 1]
        BY <1>1, <1>3, <1>4, <2>1 DEF Behind
      <4> QED BY <1>3, <1>4, <2>1, <4>1
    <3>2. Len(l2) > 0 => l2[1] = l[2]
      BY <1>6, <2>1
    <3> QED BY <1>6, <2>1, <3>1, <3>2 DEF FirstOf
  <2>2. CASE i # 1
    BY <1>1, <1>3, <1>6, <2>2 DEF FirstOf
  <2> QED BY <2>1, <2>2
<1>11. ASSUME links = "double" PROVE tail' = LastOf(l2)
  <2>1. CASE i = Len(l)
    <3>1. PrevOf[node] = IF i = 1 THEN null ELSE l[i - 1]
      BY <1>1, <1>3, <1>4, <1>11 DEF Ahead
    <3>2. Len(l2) > 0 => l2[Len(l2)] = l[i - 1]
      BY <1>6, <2>1
    <3> QED BY <1>3, <1>6, <1>11, <2>1, <3>1, <3>2 DEF LastOf
  <2>2. CASE i # Len(l)
    <3>1. Len(l2) > 0 /\ l2[Len(l2)] = l[Len(l)]
      BY <1>6, <2>2
    <3> QED BY <1>1, <1>3, <1>6, <1>11, <2>2, <3>1 DEF LastOf
  <2> QED BY <2>1, <2>2
<1>12. ASSUME links = "tail", Len(l2) > 0 PROVE tail' = LastOf(l2)
  <2>1. i # Len(l)
    BY <1>3, <1>6, <1>12
  <2>2. l2[Len(l2)] = l[Len(l)]
    BY <1>6, <1>12, <2>1
  <2> QED BY <1>1, <1>3, <1>6, <1>12, <2>2 DEF LastOf
<1> QED BY <1>1, <1>3, <1>6, <1>7, <1>8, <1>9, <1>10, <1>11, <1>12 DEF ListInv, ListTyped

(* The ends of a sequence.                                                 *)
LEMMA AtTheEnds ==
    ASSUME NEW l \in Seq(Nodes), NEW node \in Nodes
    PROVE  /\ IsInserted(l, 1, node, <<node>> \o l)
           /\ IsInserted(l, Len(l) + 1, node, Append(l, node))
           /\ Len(l) > 0 => IsRemoved(l, 1, Tail(l))
<1>1. Len(l) \in Nat
  OBVIOUS
<1>2. IsInserted(l, 1, node, <<node>> \o l)
  BY <1>1 DEF IsInserted
<1>3. IsInserted(l, Len(l) + 1, node, Append(l, node))
  BY <1>1 DEF IsInserted
<1>4. ASSUME Len(l) > 0 PROVE IsRemoved(l, 1, Tail(l))
  <2>1. l # << >> /\ Tail(l) \in Seq(Nodes) /\ Len(Tail(l)) = Len(l) - 1
    BY <1>1, <1>4
  <2>2. \A k \in 1..(Len(l) - 1) : Tail(l)[k] = l[k + 1]
    BY <1>1, <1>4
  <2> QED BY <1>1, <1>4, <2>1, <2>2 DEF IsRemoved
<1> QED BY <1>2, <1>3, <1>4

LEMMA PushFrontKeeps ==
    ASSUME LL!LinkedListAssumption, ListInv, NEW node \in Nodes, LL!PushFront(node) PROVE ListInv'
<1> USE DEF LL!PushFront, LL!Set, LL!Double
<1>1. /\ list \in Seq(Nodes) /\ Len(list) \in Nat /\ links \in {"single", "tail", "double"}
      /\ NextOf \in [Nodes -> Nodes \cup {null}] /\ PrevOf \in [Nodes -> Nodes \cup {null}]
      /\ head = (IF Len(list) = 0 THEN null ELSE list[1])
      /\ head \in Nodes \cup {null} /\ tail \in Nodes \cup {null} /\ null \notin Nodes
      /\ \A i \in 1..Len(list) : list[i] \in Nodes
  BY ListSays
<1>2. NotIn(list, node) /\ LL!Outside(node)
  BY PlaceFacts
<1>3. IsInserted(list, 1, node, list')
  BY <1>1, AtTheEnds
<1>4. 1 \in 1..(Len(list) + 1) /\ links' = links /\ head' = node
  BY <1>1
<1>5. NextOf' \in Pointers /\ NextOf'[node] = head /\ \A n \in Nodes : n # node => NextOf'[n] = NextOf[n]
  BY <1>1 DEF Pointers
<1>6. head = IF 1 = Len(list) + 1 THEN null ELSE list[1]
  BY <1>1
<1>7. PrevOf' \in Pointers
  BY <1>1 DEF Pointers
<1>8. ASSUME links = "double"
      PROVE  /\ PrevOf'[node] = null
             /\ 1 <= Len(list) => PrevOf'[list[1]] = node
             /\ \A n \in Nodes : n # node /\ (1 <= Len(list) => n # list[1]) => PrevOf'[n] = PrevOf[n]
  <2>1. CASE Len(list) = 0
    BY <1>1, <1>8, <2>1
  <2>2. CASE Len(list) # 0
    <3>1. head = list[1] /\ head \in Nodes /\ head # null /\ head # node
      BY <1>1, <1>2, <2>2 DEF NotIn
    <3> QED BY <1>1, <1>8, <3>1
  <2> QED BY <2>1, <2>2
<1>9. links # "single" => tail' = IF 1 = Len(list) + 1 THEN node ELSE tail
  <2>1. head = null <=> Len(list) = 0
    BY <1>1
  <2> QED BY <1>1, <2>1
<1>10. tail' \in Nodes \cup {null}
  BY <1>1
<1>11. /\ NextOf'[node] = (IF 1 = Len(list) + 1 THEN null ELSE list[1])
       /\ 1 > 1 => NextOf'[list[1 - 1]] = node
       /\ \A n \in Nodes : n # node /\ (1 > 1 => n # list[1 - 1]) => NextOf'[n] = NextOf[n]
  BY <1>5, <1>6
<1>12. links = "double" => PrevOf'[node] = (IF 1 = 1 THEN null ELSE list[1 - 1])
  BY <1>8
<1> QED BY ONLY LL!LinkedListAssumption, ListInv, node \in Nodes,
           <1>2, <1>3, <1>4, <1>5, <1>7, <1>8, <1>9, <1>10, <1>11, <1>12, PutIn

LEMMA PushBackKeeps ==
    ASSUME LL!LinkedListAssumption, ListInv, NEW node \in Nodes, LL!PushBack(node) PROVE ListInv'
<1> DEFINE m == Len(list)
           p == IF links = "single" THEN LL!LastFrom(head) ELSE tail
<1>1. /\ list \in Seq(Nodes) /\ m \in Nat /\ links \in {"single", "tail", "double"}
      /\ NextOf \in [Nodes -> Nodes \cup {null}] /\ PrevOf \in [Nodes -> Nodes \cup {null}]
      /\ head = (IF m = 0 THEN null ELSE list[1])
      /\ head \in Nodes \cup {null} /\ tail \in Nodes \cup {null} /\ null \notin Nodes
      /\ \A i \in 1..m : list[i] \in Nodes /\ NextOf[list[i]] = IF i = m THEN null ELSE list[i + 1]
      /\ links = "double" => tail = (IF m = 0 THEN null ELSE list[m])
      /\ links = "tail" /\ m > 0 => tail = list[m]
  BY ListSays
<1>2. NotIn(list, node) /\ LL!Outside(node)
  BY PlaceFacts DEF LL!PushBack
<1>3. IsInserted(list, m + 1, node, list')
  BY <1>1, AtTheEnds DEF LL!PushBack
<1>4. m + 1 \in 1..(m + 1) /\ links' = links
  BY <1>1 DEF LL!PushBack
<1>5. ASSUME m > 0 PROVE p = list[m]
  <2>1. CASE links = "single"
    <3> DEFINE stops == {n \in Nodes : NextOf[n] = null}
    <3>1. /\ m \in 1..m /\ list[m] \in stops
          /\ \A j \in 1..m : list[j] \in stops => j = m
      <4>1. \A j \in 1..m : j # m => list[j + 1] \in Nodes /\ NextOf[list[j]] = list[j + 1]
        BY <1>1
      <4>2. m \in 1..m /\ list[m] \in stops
        BY <1>1, <1>5
      <4> QED BY <1>1, <4>1, <4>2
    <3>2. list \in Seq(Nodes) /\ Distinct(list) /\ Behind(NextOf, list) /\ head = FirstOf(list)
      BY ListSays
    <3>3. LL!FirstAlong(head, stops) = list[m]
      <4>1. PICK st, l : st = stops /\ l = list
        OBVIOUS
      <4> HIDE DEF stops, m
      <4>2. /\ m \in 1..Len(list) /\ list[m] \in st
            /\ \A j \in 1..Len(list) : list[j] \in st => j = m
        BY <3>1, <4>1 DEF m
      <4> QED BY <3>2, <4>1, <4>2, FirstInList
    <3> QED BY <2>1, <3>3, Zenon DEF LL!LastFrom, p
  <2>2. CASE links # "single"
    BY <1>1, <1>5, <2>2
  <2> QED BY <2>1, <2>2
<1>6. /\ NextOf' = (IF head = null \/ p = null THEN [NextOf EXCEPT ![node] = null]
                    ELSE [NextOf EXCEPT ![node] = null, ![p] = node])
      /\ PrevOf' = (IF links = "double" THEN [PrevOf EXCEPT ![node] = tail] ELSE PrevOf)
      /\ head' = (IF head = null THEN node ELSE head)
      /\ tail' = (IF links = "single" THEN tail ELSE node)
  BY DEF LL!PushBack, LL!Set, LL!Double
<1> HIDE DEF p
<1>7. CASE m = 0
  <2>1. head = null
    BY <1>1, <1>7
  <2>2. NextOf' = [NextOf EXCEPT ![node] = null]
    BY <1>6, <2>1
  <2>3. NextOf' \in Pointers /\ NextOf'[node] = null /\ \A n \in Nodes : n # node => NextOf'[n] = NextOf[n]
    BY <1>1, <2>2 DEF Pointers
  <2>4. PrevOf' \in Pointers
    BY <1>1, <1>6 DEF Pointers
  <2>5. links = "double" => PrevOf'[node] = null /\ \A n \in Nodes : n # node => PrevOf'[n] = PrevOf[n]
    BY <1>1, <1>6, <1>7
  <2>6. head' = node /\ tail' \in Nodes \cup {null} /\ (links # "single" => tail' = node)
    BY <1>1, <1>6, <2>1
  <2>7. m + 1 = 1 /\ ~(m + 1 > 1) /\ ~(m + 1 <= m)
    BY <1>7
  <2>8. /\ NextOf'[node] = (IF m + 1 = Len(list) + 1 THEN null ELSE list[m + 1])
        /\ m + 1 > 1 => NextOf'[list[(m + 1) - 1]] = node
        /\ \A n \in Nodes : n # node /\ (m + 1 > 1 => n # list[(m + 1) - 1]) => NextOf'[n] = NextOf[n]
    BY <2>3, <2>7
  <2>9. links = "double" =>
          /\ PrevOf'[node] = (IF m + 1 = 1 THEN null ELSE list[(m + 1) - 1])
          /\ m + 1 <= Len(list) => PrevOf'[list[m + 1]] = node
          /\ \A n \in Nodes : n # node /\ (m + 1 <= Len(list) => n # list[m + 1]) => PrevOf'[n] = PrevOf[n]
    BY <2>5, <2>7
  <2>10. head' = (IF m + 1 = 1 THEN node ELSE head) /\ (links # "single" => tail' = IF m + 1 = Len(list) + 1 THEN node ELSE tail)
    BY <2>6, <2>7
  <2> QED BY <1>2, <1>3, <1>4, <2>3, <2>4, <2>6, <2>8, <2>9, <2>10, PutIn
<1>8. CASE m # 0
  <2>1. m > 0 /\ head = list[1] /\ head # null /\ p = list[m] /\ p \in Nodes /\ p # null /\ p # node
    <3>1. m > 0 /\ p = list[m] /\ list[1] \in Nodes /\ list[m] \in Nodes /\ list[m] # node
      BY <1>1, <1>2, <1>5, <1>8 DEF NotIn
    <3> QED BY <1>1, <1>8, <3>1
  <2>2. NextOf' = [NextOf EXCEPT ![node] = null, ![p] = node]
    BY <1>6, <2>1
  <2>3. /\ NextOf' \in Pointers /\ NextOf'[node] = null /\ NextOf'[p] = node
        /\ \A n \in Nodes : n # node /\ n # p => NextOf'[n] = NextOf[n]
    BY <1>1, <2>1, <2>2 DEF Pointers
  <2>4. PrevOf' \in Pointers
    BY <1>1, <1>6 DEF Pointers
  <2>5. links = "double" => PrevOf'[node] = p /\ \A n \in Nodes : n # node => PrevOf'[n] = PrevOf[n]
    BY <1>1, <1>6, <1>8, <2>1
  <2>6. head' = head /\ tail' \in Nodes \cup {null} /\ (links # "single" => tail' = node)
    BY <1>1, <1>6, <2>1
  <2>7. m + 1 # 1 /\ m + 1 > 1 /\ ~(m + 1 <= m) /\ (m + 1) - 1 = m
    BY <1>1, <2>1
  <2>8. /\ NextOf'[node] = (IF m + 1 = Len(list) + 1 THEN null ELSE list[m + 1])
        /\ m + 1 > 1 => NextOf'[list[(m + 1) - 1]] = node
        /\ \A n \in Nodes : n # node /\ (m + 1 > 1 => n # list[(m + 1) - 1]) => NextOf'[n] = NextOf[n]
    BY <2>1, <2>3, <2>7
  <2>9. links = "double" =>
          /\ PrevOf'[node] = (IF m + 1 = 1 THEN null ELSE list[(m + 1) - 1])
          /\ m + 1 <= Len(list) => PrevOf'[list[m + 1]] = node
          /\ \A n \in Nodes : n # node /\ (m + 1 <= Len(list) => n # list[m + 1]) => PrevOf'[n] = PrevOf[n]
    BY <2>1, <2>5, <2>7
  <2>10. head' = (IF m + 1 = 1 THEN node ELSE head) /\ (links # "single" => tail' = IF m + 1 = Len(list) + 1 THEN node ELSE tail)
    BY <2>6, <2>7
  <2> QED BY <1>2, <1>3, <1>4, <2>3, <2>4, <2>6, <2>8, <2>9, <2>10, PutIn
<1> QED BY <1>7, <1>8

LEMMA InsertAfterKeeps ==
    ASSUME LL!LinkedListAssumption, ListInv, NEW pos \in Nodes, NEW node \in Nodes, LL!InsertAfter(pos, node)
    PROVE  ListInv'
<1>1. LL!Outside(node) /\ ~LL!Outside(pos) /\ (links = "tail" => pos # tail)
  BY DEF LL!InsertAfter, LL!KeepsTail
<1>2. PICK k : k = LL!Position(pos)
  OBVIOUS
<1>3. k \in 1..Len(list) /\ list[k] = pos /\ NotIn(list, node)
  BY <1>1, <1>2, PlaceFacts
<1>4. PICK i : i = k + 1
  OBVIOUS
<1>5. /\ list \in Seq(Nodes) /\ Len(list) \in Nat /\ links \in {"single", "tail", "double"}
      /\ NextOf \in [Nodes -> Nodes \cup {null}] /\ PrevOf \in [Nodes -> Nodes \cup {null}]
      /\ head = (IF Len(list) = 0 THEN null ELSE list[1])
      /\ head \in Nodes \cup {null} /\ tail \in Nodes \cup {null} /\ null \notin Nodes
      /\ \A j \in 1..Len(list) :
            list[j] \in Nodes /\ NextOf[list[j]] = IF j = Len(list) THEN null ELSE list[j + 1]
      /\ links = "double" => tail = (IF Len(list) = 0 THEN null ELSE list[Len(list)])
      /\ links = "tail" /\ Len(list) > 0 => tail = list[Len(list)]
  BY ListSays
<1>6. i \in 1..(Len(list) + 1) /\ i > 1 /\ i - 1 = k /\ i # 1
  BY <1>3, <1>4, <1>5
<1>7. pos # node
  BY <1>3 DEF NotIn
<1>8. NextOf[pos] = IF i = Len(list) + 1 THEN null ELSE list[i]
  BY <1>3, <1>4, <1>5
<1>9. IsInserted(list, i, node, list')
  <2>1. list' = LL!InsertAt(list, i, node)
    BY <1>2, <1>4 DEF LL!InsertAfter
  <2>2. PICK l : l = list
    OBVIOUS
  <2>3. IsInserted(l, i, node, LL!InsertAt(l, i, node))
    BY <1>5, <1>6, <2>2, InsertedIs
  <2> QED BY <2>1, <2>2, <2>3
<1>10. NextOf' = [NextOf EXCEPT ![node] = NextOf[pos], ![pos] = node]
  BY DEF LL!InsertAfter
<1>11. /\ NextOf' \in Pointers /\ NextOf'[node] = NextOf[pos] /\ NextOf'[pos] = node
       /\ \A n \in Nodes : n # node /\ n # pos => NextOf'[n] = NextOf[n]
  <2>1. NextOf[pos] \in Nodes \cup {null}
    BY <1>5
  <2> QED BY <1>5, <1>7, <1>10, <2>1 DEF Pointers
<1>12. PrevOf' \in Pointers
  <2>1. CASE links = "double"
    <3>1. PrevOf' = LL!Set([PrevOf EXCEPT ![node] = pos], NextOf[pos], node)
      BY <2>1 DEF LL!InsertAfter, LL!Double
    <3> QED BY <1>5, <3>1 DEF Pointers, LL!Set
  <2>2. CASE links # "double"
    BY <1>5, <2>2 DEF LL!InsertAfter, LL!Double, Pointers
  <2> QED BY <2>1, <2>2
<1>13. links = "double" =>
          /\ PrevOf'[node] = (IF i = 1 THEN null ELSE list[i - 1])
          /\ i <= Len(list) => PrevOf'[list[i]] = node
          /\ \A n \in Nodes : n # node /\ (i <= Len(list) => n # list[i]) => PrevOf'[n] = PrevOf[n]
  <2> SUFFICES ASSUME links = "double"
               PROVE  /\ PrevOf'[node] = pos
                      /\ i <= Len(list) => PrevOf'[list[i]] = node
                      /\ \A n \in Nodes : n # node /\ (i <= Len(list) => n # list[i]) => PrevOf'[n] = PrevOf[n]
    BY <1>3, <1>6
  <2>1. PrevOf' = LL!Set([PrevOf EXCEPT ![node] = pos], NextOf[pos], node)
    BY DEF LL!InsertAfter, LL!Double
  <2>2. CASE i = Len(list) + 1
    <3>1. PrevOf' = [PrevOf EXCEPT ![node] = pos] /\ ~(i <= Len(list))
      BY <1>5, <1>8, <2>1, <2>2 DEF LL!Set
    <3> QED BY <1>5, <3>1
  <2>3. CASE i # Len(list) + 1
    <3>1. i \in 1..Len(list) /\ i <= Len(list)
      BY <1>5, <1>6, <2>3
    <3>2. list[i] \in Nodes /\ list[i] # node /\ list[i] # null
      BY <1>3, <1>5, <3>1 DEF NotIn
    <3>3. PrevOf' = [PrevOf EXCEPT ![node] = pos, ![list[i]] = node]
      BY <1>8, <2>1, <2>3, <3>2 DEF LL!Set
    <3> QED BY <1>5, <3>1, <3>2, <3>3
  <2> QED BY <2>2, <2>3
<1>14. links' = links /\ head' = (IF i = 1 THEN node ELSE head)
  BY <1>6 DEF LL!InsertAfter
<1>15. links # "single" => tail' = IF i = Len(list) + 1 THEN node ELSE tail
  <2>1. tail' = IF links = "double" /\ NextOf[pos] = null THEN node ELSE tail
    BY DEF LL!InsertAfter, LL!Double
  <2>2. NextOf[pos] = null <=> i = Len(list) + 1
    <3>1. i # Len(list) + 1 => list[i] \in Nodes
      BY <1>5, <1>6
    <3> QED BY <1>5, <1>8, <3>1
  <2>3. links = "tail" => i # Len(list) + 1
    BY <1>1, <1>3, <1>4, <1>5
  <2> QED BY <1>5, <2>1, <2>2, <2>3
<1>16. tail' \in Nodes \cup {null}
  BY <1>5 DEF LL!InsertAfter
<1>17. /\ NextOf'[node] = (IF i = Len(list) + 1 THEN null ELSE list[i])
       /\ i > 1 => NextOf'[list[i - 1]] = node
       /\ \A n \in Nodes : n # node /\ (i > 1 => n # list[i - 1]) => NextOf'[n] = NextOf[n]
  BY <1>3, <1>6, <1>8, <1>11
<1> QED BY ONLY LL!LinkedListAssumption, ListInv, node \in Nodes,
           <1>1, <1>6, <1>9, <1>11, <1>12, <1>13, <1>14, <1>15, <1>16, <1>17, PutIn

LEMMA InsertBeforeKeeps ==
    ASSUME LL!LinkedListAssumption, ListInv, NEW pos \in Nodes, NEW node \in Nodes, LL!InsertBefore(pos, node)
    PROVE  ListInv'
<1>1. LL!Outside(node) /\ ~LL!Outside(pos) /\ links = "double"
  BY DEF LL!InsertBefore, LL!Double
<1>2. PICK i : i = LL!Position(pos)
  OBVIOUS
<1>3. i \in 1..Len(list) /\ list[i] = pos /\ NotIn(list, node)
  BY <1>1, <1>2, PlaceFacts
<1>5. /\ list \in Seq(Nodes) /\ Len(list) \in Nat
      /\ NextOf \in [Nodes -> Nodes \cup {null}] /\ PrevOf \in [Nodes -> Nodes \cup {null}]
      /\ head = (IF Len(list) = 0 THEN null ELSE list[1])
      /\ head \in Nodes \cup {null} /\ tail \in Nodes \cup {null} /\ null \notin Nodes
      /\ \A j \in 1..Len(list) : list[j] \in Nodes
      /\ \A j \in 1..Len(list) : PrevOf[list[j]] = IF j = 1 THEN null ELSE list[j - 1]
  BY <1>1, ListSays
<1>6. i \in 1..(Len(list) + 1) /\ i # Len(list) + 1 /\ i <= Len(list) /\ i \in Nat
  BY <1>3, <1>5
<1>7. pos # node
  BY <1>3 DEF NotIn
<1>8. PrevOf[pos] = IF i = 1 THEN null ELSE list[i - 1]
  BY <1>3, <1>5
<1>9. IsInserted(list, i, node, list')
  <2>1. list' = LL!InsertAt(list, i, node)
    BY <1>2 DEF LL!InsertBefore
  <2>2. PICK l : l = list
    OBVIOUS
  <2>3. IsInserted(l, i, node, LL!InsertAt(l, i, node))
    BY <1>5, <1>6, <2>2, InsertedIs
  <2> QED BY <2>1, <2>2, <2>3
<1>10. PrevOf' = [PrevOf EXCEPT ![node] = PrevOf[pos], ![pos] = node]
  BY DEF LL!InsertBefore
<1>11. /\ PrevOf' \in Pointers /\ PrevOf'[node] = PrevOf[pos] /\ PrevOf'[pos] = node
       /\ \A n \in Nodes : n # node /\ n # pos => PrevOf'[n] = PrevOf[n]
  <2>1. PrevOf[pos] \in Nodes \cup {null}
    BY <1>5
  <2> QED BY <1>5, <1>7, <1>10, <2>1 DEF Pointers
<1>12. NextOf' = LL!Set([NextOf EXCEPT ![node] = pos], PrevOf[pos], node)
  BY DEF LL!InsertBefore
<1>13. NextOf' \in Pointers
  BY <1>5, <1>12 DEF Pointers, LL!Set
<1>14. /\ NextOf'[node] = pos
       /\ i > 1 => NextOf'[list[i - 1]] = node
       /\ \A n \in Nodes : n # node /\ (i > 1 => n # list[i - 1]) => NextOf'[n] = NextOf[n]
  <2>1. CASE i = 1
    <3>1. NextOf' = [NextOf EXCEPT ![node] = pos] /\ ~(i > 1)
      BY <1>5, <1>8, <1>12, <2>1 DEF LL!Set
    <3> QED BY <1>5, <3>1
  <2>2. CASE i # 1
    <3>1. i - 1 \in 1..Len(list) /\ i > 1
      BY <1>3, <1>5, <2>2
    <3>2. list[i - 1] \in Nodes /\ list[i - 1] # node /\ list[i - 1] # null
      BY <1>3, <1>5, <3>1 DEF NotIn
    <3>3. NextOf' = [NextOf EXCEPT ![node] = pos, ![list[i - 1]] = node]
      BY <1>8, <1>12, <2>2, <3>2 DEF LL!Set
    <3> QED BY <1>5, <3>1, <3>2, <3>3
  <2> QED BY <2>1, <2>2
<1>15. links' = links /\ tail' = tail /\ head' = (IF i = 1 THEN node ELSE head)
  <2>1. head' = IF PrevOf[pos] = null THEN node ELSE head
    BY DEF LL!InsertBefore
  <2>2. i # 1 => list[i - 1] \in Nodes
    BY <1>3, <1>5
  <2>3. PrevOf[pos] = null <=> i = 1
    BY <1>5, <1>8, <2>2
  <2> QED BY <2>1, <2>3 DEF LL!InsertBefore
<1>16. /\ NextOf'[node] = (IF i = Len(list) + 1 THEN null ELSE list[i])
       /\ links # "single" => tail' = IF i = Len(list) + 1 THEN node ELSE tail
       /\ tail' \in Nodes \cup {null}
  BY <1>3, <1>5, <1>6, <1>14, <1>15
<1>17. links = "double" =>
          /\ PrevOf'[node] = (IF i = 1 THEN null ELSE list[i - 1])
          /\ i <= Len(list) => PrevOf'[list[i]] = node
          /\ \A n \in Nodes : n # node /\ (i <= Len(list) => n # list[i]) => PrevOf'[n] = PrevOf[n]
  BY <1>3, <1>6, <1>8, <1>11
<1> QED BY ONLY LL!LinkedListAssumption, ListInv, node \in Nodes,
           <1>1, <1>6, <1>9, <1>11, <1>13, <1>14, <1>15, <1>16, <1>17, PutIn

LEMMA PopFrontKeeps == ASSUME LL!LinkedListAssumption, ListInv, LL!PopFront PROVE ListInv'
<1>1. /\ list \in Seq(Nodes) /\ Len(list) \in Nat
      /\ NextOf \in [Nodes -> Nodes \cup {null}] /\ PrevOf \in [Nodes -> Nodes \cup {null}]
      /\ head = (IF Len(list) = 0 THEN null ELSE list[1])
      /\ tail \in Nodes \cup {null} /\ null \notin Nodes
      /\ \A j \in 1..Len(list) : list[j] \in Nodes
  BY ListSays
<1>2. /\ links # "double" /\ links' = links /\ tail' = tail /\ head' = NextOf[head]
      /\ NextOf' = [NextOf EXCEPT ![head] = null] /\ PrevOf' = PrevOf /\ list' = Tail(list) /\ head # null
  BY DEF LL!PopFront, LL!Double
<1>3. Len(list) > 0 /\ 1 \in 1..Len(list) /\ head = list[1] /\ head \in Nodes
  BY <1>1, <1>2
<1>4. IsRemoved(list, 1, list')
  BY <1>1, <1>2, <1>3, AtTheEnds
<1>5. PICK node, i : node = head /\ i = 1
  OBVIOUS
<1>6. /\ NextOf' \in Pointers /\ PrevOf' \in Pointers /\ NextOf'[node] = null /\ node = list[1]
      /\ \A n \in Nodes : n # node => NextOf'[n] = NextOf[n]
  BY <1>1, <1>2, <1>3, <1>5 DEF Pointers
<1>7. /\ i \in 1..Len(list) /\ node = list[i] /\ IsRemoved(list, i, list') /\ links' = links
      /\ i > 1 => NextOf'[list[i - 1]] = NextOf[node]
      /\ \A n \in Nodes : n # node /\ (i > 1 => n # list[i - 1]) => NextOf'[n] = NextOf[n]
      /\ head' = (IF i = 1 THEN NextOf[node] ELSE head)
      /\ tail' \in Nodes \cup {null}
      /\ links = "tail" => tail' = tail /\ (i = Len(list) => Len(list) = 1)
  BY <1>1, <1>2, <1>3, <1>4, <1>5, <1>6
<1> QED BY ONLY LL!LinkedListAssumption, ListInv, <1>2, <1>6, <1>7, TakenOut

LEMMA RemoveSinglyKeeps ==
    ASSUME LL!LinkedListAssumption, ListInv, NEW node \in Nodes, LL!RemoveSingly(node) PROVE ListInv'
<1>1. /\ list \in Seq(Nodes) /\ Len(list) \in Nat /\ Distinct(list) /\ Behind(NextOf, list) /\ head = FirstOf(list)
      /\ NextOf \in [Nodes -> Nodes \cup {null}] /\ PrevOf \in [Nodes -> Nodes \cup {null}]
      /\ head = (IF Len(list) = 0 THEN null ELSE list[1])
      /\ tail \in Nodes \cup {null} /\ null \notin Nodes
      /\ \A j \in 1..Len(list) :
            list[j] \in Nodes /\ NextOf[list[j]] = IF j = Len(list) THEN null ELSE list[j + 1]
      /\ links = "tail" /\ Len(list) > 0 => tail = list[Len(list)]
  BY ListSays
<1>2. /\ links # "double" /\ links' = links /\ tail' = tail /\ PrevOf' = PrevOf
      /\ node = head \/ (links = "tail" => node # tail)
      /\ list' = IF LL!Outside(node) THEN list ELSE LL!RemoveAt(list, LL!Position(node))
  BY DEF LL!RemoveSingly, LL!Double, LL!KeepsTail
<1>3. Len(list) > 0 /\ 1 \in 1..Len(list) /\ head = list[1] /\ head \in Nodes
  BY <1>1 DEF LL!RemoveSingly
<1>4. CASE LL!Outside(node)
  <2>1. NotIn(list, node)
    BY <1>4, PlaceFacts
  <2>2. head # node
    BY <1>3, <2>1 DEF NotIn
  <2> DEFINE stops == {n \in Nodes : NextOf[n] = node}
  <2>3. \A j \in 1..Len(list) : list[j] \notin stops
    <3> SUFFICES ASSUME NEW j \in 1..Len(list) PROVE NextOf[list[j]] # node
      OBVIOUS
    <3>1. CASE j = Len(list)
      BY <1>1, <3>1
    <3>2. CASE j # Len(list)
      <4>1. j + 1 \in 1..Len(list)
        BY <1>1, <3>2
      <4> QED BY <1>1, <2>1, <3>2, <4>1 DEF NotIn
    <3> QED BY <3>1, <3>2
  <2>4. LL!FirstAlong(head, stops) = null
    <3>1. PICK st, l : st = stops /\ l = list
      OBVIOUS
    <3> HIDE DEF stops
    <3>2. /\ \A j \in 1..Len(l) : l[j] \notin st
          /\ l \in Seq(Nodes) /\ Distinct(l) /\ Behind(NextOf, l) /\ head = FirstOf(l)
      BY <1>1, <2>3, <3>1
    <3>3. LL!FirstAlong(head, st) = null
      BY <3>2, FirstInList
    <3> QED BY <3>1, <3>3
  <2>5. LL!Before(head, node) = null
    BY <2>4, Zenon DEF LL!Before
  <2>6. head' = head /\ NextOf' = NextOf /\ list' = list
    BY <1>2, <1>4, <2>2, <2>5 DEF LL!RemoveSingly
  <2> QED BY <1>2, <2>6 DEF ListInv, ListTyped
<1>5. CASE ~LL!Outside(node)
  <2>1. PICK i : i = LL!Position(node)
    OBVIOUS
  <2>2. i \in 1..Len(list) /\ list[i] = node
    BY <1>5, <2>1, PlaceFacts
  <2>3. IsRemoved(list, i, list')
    <3>1. list' = LL!RemoveAt(list, i)
      BY <1>2, <1>5, <2>1
    <3>2. PICK l : l = list
      OBVIOUS
    <3>3. IsRemoved(l, i, LL!RemoveAt(l, i))
      BY <1>1, <2>2, <3>2, RemovedIs
    <3> QED BY <3>1, <3>2, <3>3
  <2>4. node = head <=> i = 1
    BY <1>1, <1>3, <2>2 DEF Distinct
  <2>5. links = "tail" => tail' = tail /\ (i = Len(list) => Len(list) = 1)
    BY <1>1, <1>2, <1>3, <2>2, <2>4
  <2>6. tail' \in Nodes \cup {null} /\ PrevOf' \in Pointers
    BY <1>1, <1>2 DEF Pointers
  <2>7. CASE i = 1
    <3>1. head' = NextOf[head] /\ NextOf' = [NextOf EXCEPT ![node] = null]
      BY <2>4, <2>7 DEF LL!RemoveSingly
    <3>2. /\ NextOf' \in Pointers /\ NextOf'[node] = null /\ node = list[i]
          /\ i > 1 => NextOf'[list[i - 1]] = NextOf[node]
          /\ \A n \in Nodes : n # node /\ (i > 1 => n # list[i - 1]) => NextOf'[n] = NextOf[n]
          /\ head' = (IF i = 1 THEN NextOf[node] ELSE head)
      BY <1>1, <2>2, <2>4, <2>7, <3>1 DEF Pointers
    <3> QED BY ONLY LL!LinkedListAssumption, ListInv, <1>2, <2>2, <2>3, <2>5, <2>6, <3>2, TakenOut
  <2>8. CASE i # 1
    <3> DEFINE stops == {n \in Nodes : NextOf[n] = node}
    <3>1. i - 1 \in 1..Len(list) /\ i > 1 /\ (i - 1) + 1 = i /\ i - 1 # Len(list) /\ i - 1 # i
      BY <1>1, <2>2, <2>8
    <3>2. list[i - 1] \in stops /\ \A j \in 1..Len(list) : list[j] \in stops => j = i - 1
      <4>1. list[i - 1] \in stops
        <5>1. NextOf[list[i - 1]] = list[(i - 1) + 1]
          BY <1>1, <3>1
        <5> QED BY <1>1, <2>2, <3>1, <5>1
      <4>2. ASSUME NEW j \in 1..Len(list), list[j] \in stops PROVE j = i - 1
        <5>1. NextOf[list[j]] = node
          BY <4>2
        <5>2. j # Len(list) /\ list[j + 1] = node
          BY <1>1, <5>1
        <5>3. j + 1 \in 1..Len(list)
          BY <1>1, <5>2
        <5>4. j + 1 = i
          BY <1>1, <2>2, <5>2, <5>3 DEF Distinct
        <5> QED BY <5>3, <5>4
      <4> QED BY <4>1, <4>2
    <3>3. LL!FirstAlong(head, stops) = list[i - 1]
      <4>1. PICK st, l, k : st = stops /\ l = list /\ k = i - 1
        OBVIOUS
      <4> HIDE DEF stops
      <4>2. /\ k \in 1..Len(l) /\ l[k] \in st /\ \A j \in 1..Len(l) : l[j] \in st => j = k
            /\ l \in Seq(Nodes) /\ Distinct(l) /\ Behind(NextOf, l) /\ head = FirstOf(l)
        BY <1>1, <3>1, <3>2, <4>1
      <4>3. LL!FirstAlong(head, st) = l[k]
        BY <4>2, FirstInList
      <4> QED BY <4>1, <4>3
    <3>4. LL!Before(head, node) = list[i - 1]
      BY <3>3, Zenon DEF LL!Before
    <3>5. list[i - 1] \in Nodes /\ list[i - 1] # null /\ list[i - 1] # node
      <4>1. list[i - 1] # list[i]
        BY <1>1, <2>2, <3>1 DEF Distinct
      <4> QED BY <1>1, <2>2, <3>1, <4>1
    <3>6. head' = head /\ NextOf' = [NextOf EXCEPT ![list[i - 1]] = NextOf[node], ![node] = null]
      BY <2>4, <2>8, <3>4, <3>5 DEF LL!RemoveSingly
    <3>7. /\ NextOf' \in Pointers /\ NextOf'[node] = null /\ node = list[i]
          /\ i > 1 => NextOf'[list[i - 1]] = NextOf[node]
          /\ \A n \in Nodes : n # node /\ (i > 1 => n # list[i - 1]) => NextOf'[n] = NextOf[n]
          /\ head' = (IF i = 1 THEN NextOf[node] ELSE head)
      <4>1. NextOf[node] \in Nodes \cup {null}
        BY <1>1
      <4> QED BY <1>1, <2>2, <2>8, <3>1, <3>5, <3>6, <4>1 DEF Pointers
    <3> QED BY ONLY LL!LinkedListAssumption, ListInv, <1>2, <2>2, <2>3, <2>5, <2>6, <3>7, TakenOut
  <2> QED BY <2>7, <2>8
<1> QED BY <1>4, <1>5

LEMMA RemoveDoublyKeeps ==
    ASSUME LL!LinkedListAssumption, ListInv, NEW node \in Nodes, LL!RemoveDoubly(node) PROVE ListInv'
<1>1. links = "double" /\ links' = links /\ ~LL!Outside(node)
  BY DEF LL!RemoveDoubly, LL!Double
<1>2. /\ list \in Seq(Nodes) /\ Len(list) \in Nat /\ Distinct(list)
      /\ NextOf \in [Nodes -> Nodes \cup {null}] /\ PrevOf \in [Nodes -> Nodes \cup {null}]
      /\ head \in Nodes \cup {null} /\ tail \in Nodes \cup {null} /\ null \notin Nodes
      /\ \A j \in 1..Len(list) :
            list[j] \in Nodes /\ NextOf[list[j]] = IF j = Len(list) THEN null ELSE list[j + 1]
      /\ \A j \in 1..Len(list) : PrevOf[list[j]] = IF j = 1 THEN null ELSE list[j - 1]
  BY <1>1, ListSays
<1>3. PICK i : i = LL!Position(node)
  OBVIOUS
<1>4. i \in 1..Len(list) /\ list[i] = node
  BY <1>1, <1>3, PlaceFacts
<1>5. IsRemoved(list, i, list')
  <2>1. list' = LL!RemoveAt(list, i)
    BY <1>3 DEF LL!RemoveDoubly
  <2>2. PICK l : l = list
    OBVIOUS
  <2>3. IsRemoved(l, i, LL!RemoveAt(l, i))
    BY <1>2, <1>4, <2>2, RemovedIs
  <2> QED BY <2>1, <2>2, <2>3
<1>6. i # Len(list) => i + 1 \in 1..Len(list) /\ list[i + 1] \in Nodes /\ list[i + 1] # node /\ list[i + 1] # null
  <2> SUFFICES ASSUME i # Len(list) PROVE i + 1 \in 1..Len(list) /\ list[i + 1] # node
    BY <1>2
  <2>1. i + 1 \in 1..Len(list) /\ i + 1 # i
    BY <1>2, <1>4
  <2> QED BY <1>2, <1>4, <2>1 DEF Distinct
<1>7. i # 1 => i - 1 \in 1..Len(list) /\ list[i - 1] \in Nodes /\ list[i - 1] # node /\ list[i - 1] # null
  <2> SUFFICES ASSUME i # 1 PROVE i - 1 \in 1..Len(list) /\ list[i - 1] # node
    BY <1>2
  <2>1. i - 1 \in 1..Len(list) /\ i - 1 # i
    BY <1>2, <1>4
  <2> QED BY <1>2, <1>4, <2>1 DEF Distinct
<1>8. /\ NextOf[node] = (IF i = Len(list) THEN null ELSE list[i + 1]) /\ NextOf[node] \in Nodes \cup {null}
      /\ PrevOf[node] = (IF i = 1 THEN null ELSE list[i - 1]) /\ PrevOf[node] \in Nodes \cup {null}
  BY <1>2, <1>4
<1>9. /\ NextOf' \in Pointers /\ NextOf'[node] = null
      /\ i > 1 => NextOf'[list[i - 1]] = NextOf[node]
      /\ \A n \in Nodes : n # node /\ (i > 1 => n # list[i - 1]) => NextOf'[n] = NextOf[n]
  <2>1. NextOf' = [LL!Set(NextOf, PrevOf[node], NextOf[node]) EXCEPT ![node] = null]
    BY DEF LL!RemoveDoubly
  <2>2. CASE i = 1
    <3>1. NextOf' = [NextOf EXCEPT ![node] = null] /\ ~(i > 1)
      BY <1>8, <2>1, <2>2 DEF LL!Set
    <3> QED BY <1>2, <3>1 DEF Pointers
  <2>3. CASE i # 1
    <3> DEFINE p == list[i - 1]
    <3>1. i > 1 /\ PrevOf[node] = p /\ p \in Nodes /\ p # node /\ p # null
      BY <1>4, <1>7, <1>8, <2>3
    <3> HIDE DEF p
    <3>2. LL!Set(NextOf, PrevOf[node], NextOf[node]) = [NextOf EXCEPT ![p] = NextOf[node]]
      BY <3>1 DEF LL!Set
    <3>3. NextOf' = [[NextOf EXCEPT ![p] = NextOf[node]] EXCEPT ![node] = null]
      BY <2>1, <3>2
    <3>4. /\ NextOf' \in [Nodes -> Nodes \cup {null}] /\ NextOf'[node] = null /\ NextOf'[p] = NextOf[node]
          /\ \A n \in Nodes : n # node /\ n # p => NextOf'[n] = NextOf[n]
      BY <1>2, <1>8, <3>1, <3>3
    <3> QED BY <3>1, <3>4 DEF Pointers, p
  <2> QED BY <2>2, <2>3
<1>10. /\ PrevOf' \in Pointers /\ PrevOf'[node] = null
       /\ i < Len(list) => PrevOf'[list[i + 1]] = PrevOf[node]
       /\ \A n \in Nodes : n # node /\ (i < Len(list) => n # list[i + 1]) => PrevOf'[n] = PrevOf[n]
  <2>1. PrevOf' = [LL!Set(PrevOf, NextOf[node], PrevOf[node]) EXCEPT ![node] = null]
    BY DEF LL!RemoveDoubly
  <2>2. CASE i = Len(list)
    <3>1. PrevOf' = [PrevOf EXCEPT ![node] = null] /\ ~(i < Len(list))
      BY <1>2, <1>8, <2>1, <2>2 DEF LL!Set
    <3> QED BY <1>2, <3>1 DEF Pointers
  <2>3. CASE i # Len(list)
    <3> DEFINE p == list[i + 1]
    <3>1. i < Len(list) /\ NextOf[node] = p /\ p \in Nodes /\ p # node /\ p # null
      BY <1>2, <1>4, <1>6, <1>8, <2>3
    <3> HIDE DEF p
    <3>2. LL!Set(PrevOf, NextOf[node], PrevOf[node]) = [PrevOf EXCEPT ![p] = PrevOf[node]]
      BY <3>1 DEF LL!Set
    <3>3. PrevOf' = [[PrevOf EXCEPT ![p] = PrevOf[node]] EXCEPT ![node] = null]
      BY <2>1, <3>2
    <3>4. /\ PrevOf' \in [Nodes -> Nodes \cup {null}] /\ PrevOf'[node] = null /\ PrevOf'[p] = PrevOf[node]
          /\ \A n \in Nodes : n # node /\ n # p => PrevOf'[n] = PrevOf[n]
      BY <1>2, <1>8, <3>1, <3>3
    <3> QED BY <3>1, <3>4 DEF Pointers, p
  <2> QED BY <2>2, <2>3
<1>11. /\ tail' = (IF i = Len(list) THEN PrevOf[node] ELSE tail) /\ tail' \in Nodes \cup {null}
       /\ head' = IF i = 1 THEN NextOf[node] ELSE head
  <2>1. NextOf[node] = null <=> i = Len(list)
    BY <1>6, <1>8
  <2>2. PrevOf[node] = null <=> i = 1
    BY <1>7, <1>8
  <2> QED BY <1>2, <1>8, <2>1, <2>2 DEF LL!RemoveDoubly
<1>12. node = list[i]
  BY <1>4
<1> QED BY ONLY LL!LinkedListAssumption, ListInv, <1>1, <1>4, <1>5, <1>9, <1>10, <1>11, <1>12, TakenOut

LEMMA ListKeeps == ASSUME LL!LinkedListAssumption, ListInv, [LL!Next]_ll PROVE ListInv'
<1>1. CASE UNCHANGED ll
  BY <1>1 DEF ll, ListInv, ListTyped
<1> QED BY <1>1, PushFrontKeeps, PushBackKeeps, InsertAfterKeeps, InsertBeforeKeeps, PopFrontKeeps,
           RemoveSinglyKeeps, RemoveDoublyKeeps DEF LL!Next

LEMMA ListInvSuffices == ASSUME LL!LinkedListAssumption, ListInv PROVE LL!ListsHold
<1> DEFINE m == Len(list)
<1>1. /\ list \in Seq(Nodes) /\ m \in Nat
      /\ head = (IF m = 0 THEN null ELSE list[1])
      /\ \A i \in 1..m : list[i] \in Nodes /\ NextOf[list[i]] = IF i = m THEN null ELSE list[i + 1]
      /\ links = "double" =>
            /\ tail = (IF m = 0 THEN null ELSE list[m])
            /\ \A i \in 1..m : PrevOf[list[i]] = IF i = 1 THEN null ELSE list[i - 1]
      /\ links = "tail" /\ m > 0 => tail = list[m]
      /\ links \in {"single", "tail", "double"}
  BY ListSays
<1>2. list = << >> <=> m = 0
  BY <1>1
<1> HIDE DEF m
<1>3. LL!Reads(NextOf, head, list)
  <2>1. CASE m = 0
    BY <1>1, <1>2, <2>1 DEF LL!Reads
  <2>2. CASE m # 0
    <3>1. Head(list) = list[1] /\ LL!Last(list) = list[m] /\ 1 \in 1..m /\ m \in 1..m
      BY <1>1, <1>2, <2>2 DEF LL!Last, m
    <3>2. head = list[1] /\ NextOf[list[m]] = null
      BY <1>1, <2>2, <3>1
    <3>3. \A i \in 1..(m - 1) : NextOf[list[i]] = list[i + 1]
      BY <1>1
    <3> QED BY <1>2, <2>2, <3>1, <3>2, <3>3 DEF LL!Reads, m
  <2> QED BY <2>1, <2>2
<1>4. ASSUME links = "double" PROVE LL!Reads(PrevOf, tail, LL!Reverse(list))
  <2> DEFINE r == LL!Reverse(list)
  <2>1. r \in Seq(Nodes) /\ Len(r) = m /\ \A i \in 1..m : r[i] = list[(m - i) + 1]
    BY <1>1 DEF LL!Reverse, m
  <2> HIDE DEF r
  <2>2. CASE m = 0
    <3>1. r = << >>
      BY <2>1, <2>2
    <3> QED BY <1>1, <1>4, <2>2, <3>1 DEF LL!Reads, r
  <2>3. CASE m # 0
    <3>1. r # << >> /\ Head(r) = r[1] /\ LL!Last(r) = r[m] /\ 1 \in 1..m /\ m \in 1..m
      BY <1>1, <2>1, <2>3 DEF LL!Last
    <3>2. r[1] = list[m] /\ r[m] = list[1]
      <4>1. (m - 1) + 1 = m /\ (m - m) + 1 = 1
        BY <1>1
      <4> QED BY <2>1, <3>1, <4>1
    <3>3. tail = r[1] /\ PrevOf[r[m]] = null
      BY <1>1, <1>4, <2>3, <3>1, <3>2
    <3>4. ASSUME NEW i \in 1..(m - 1) PROVE PrevOf[r[i]] = r[i + 1]
      <4>1. /\ i \in 1..m /\ i + 1 \in 1..m /\ (m - i) + 1 \in 1..m /\ (m - i) + 1 # 1
            /\ ((m - i) + 1) - 1 = (m - (i + 1)) + 1
        BY <1>1
      <4>2. r[i] = list[(m - i) + 1] /\ r[i + 1] = list[(m - (i + 1)) + 1]
        BY <2>1, <4>1
      <4>3. PrevOf[list[(m - i) + 1]] = list[((m - i) + 1) - 1]
        BY <1>1, <1>4, <4>1
      <4> QED BY <4>1, <4>2, <4>3
    <3> QED BY <2>1, <3>1, <3>3, <3>4 DEF LL!Reads, r
  <2> QED BY <2>2, <2>3
<1>5. links # "single" /\ list # << >> => tail = LL!Last(list)
  BY <1>1, <1>2 DEF LL!Last, m
<1>6. \A n \in Nodes : LL!Outside(n) => NextOf[n] = null /\ (links = "double" => PrevOf[n] = null)
  <2> SUFFICES ASSUME NEW n \in Nodes, LL!Outside(n)
               PROVE  NextOf[n] = null /\ (links = "double" => PrevOf[n] = null)
    OBVIOUS
  <2>1. NotIn(list, n)
    BY PlaceFacts
  <2> QED BY <2>1 DEF ListInv, Behind, Ahead
<1> QED BY <1>3, <1>4, <1>5, <1>6 DEF LL!ListsHold, LL!Double

-----------------------------------------------------------------------------
(* The signal: what an emit still owes, and what it must not call.         *)

Frames == [at : Nat, end : Nat, running : BOOLEAN, whole : BOOLEAN,
           due : SUBSET Nat, reached : SUBSET Nat, silent : SUBSET Nat]

Typed ==
    /\ Callbacks \in Seq(Functions_ \cup {NoFunction})
    /\ CurrentlyEmitting \in BOOLEAN
    /\ ToRemove \in Seq(Nat)
    /\ emits \in Seq(Frames)
    /\ Ids \subseteq 0 .. Count - 1
    /\ gone \subseteq 1 .. Count

Waiting(i) == \E j \in 1 .. Len(ToRemove) : Slot(ToRemove[j]) = i

(* What is gone is removed or waits for the end of an emit; nothing else   *)
(* waits, and nothing waits when no emit will end.                         *)
GoneOrWaiting ==
    /\ \A i \in gone : Callbacks[i] = NoFunction \/ Waiting(i)
    /\ \A j \in 1 .. Len(ToRemove) : Slot(ToRemove[j]) \in gone
    /\ emits = << >> => ~CurrentlyEmitting
    /\ ~CurrentlyEmitting => ToRemove = << >>

(* What a running emit must not call is empty for good ...                 *)
SilentOK(frame) ==
    /\ \A s \in frame.silent : s \in 1 .. Count /\ Callbacks[s] = NoFunction
    /\ frame.reached \cap frame.silent = {}

Passed(frame, s) == s < frame.at \/ (frame.running /\ s = frame.at)

(* ... and what it still owes a call lies ahead, or was called.            *)
DueOK(frame) ==
    \A s \in frame.due \ gone :
        /\ s \in 1 .. Count /\ s <= frame.end /\ Callbacks[s] # NoFunction
        /\ frame.whole /\ Passed(frame, s) => s \in frame.reached

EmitsOK == \A n \in 1 .. Len(emits) : SilentOK(emits[n]) /\ DueOK(emits[n])

IInv == Typed /\ GoneOrWaiting /\ EmitsOK

-----------------------------------------------------------------------------
(* The type of a running emit with some of its fields replaced.            *)
LEMMA InnermostTyped ==
    ASSUME Typed, emits # << >> PROVE Innermost \in Frames /\ Len(emits) \in 1 .. Len(emits)
  BY DEF Typed, Innermost

LEMMA InitHolds == ASSUME SignalAssumption, Init PROVE IInv
<1>1. Typed
  <2>1. Ids = {}
    BY DEF Init, Ids
  <2>2. Callbacks = << >> /\ ToRemove = << >> /\ emits = << >> /\ gone = {} /\ CurrentlyEmitting = FALSE
    BY DEF Init
  <2>3. Callbacks \in Seq(Functions_ \cup {NoFunction}) /\ ToRemove \in Seq(Nat) /\ emits \in Seq(Frames)
    BY <2>2
  <2>4. CurrentlyEmitting \in BOOLEAN /\ Ids \subseteq 0 .. Count - 1 /\ gone \subseteq 1 .. Count
    BY <2>1, <2>2
  <2> QED BY <2>3, <2>4 DEF Typed
<1>2. GoneOrWaiting
  BY DEF Init, GoneOrWaiting
<1>3. EmitsOK
  BY DEF Init, EmitsOK
<1> QED BY <1>1, <1>2, <1>3 DEF IInv

(* A step that replaces the innermost emit by one that is as good.         *)
LEMMA SetKeeps ==
    ASSUME IInv, emits # << >>, NEW frame \in Frames, Set(frame),
           SilentOK(frame), DueOK(frame),
           UNCHANGED <<Callbacks, CurrentlyEmitting, ToRemove, ids, gone>>
    PROVE  IInv'
<1>1. Len(emits) \in Nat /\ Len(emits) > 0 /\ emits' \in Seq(Frames) /\ Len(emits') = Len(emits)
      /\ \A n \in 1 .. Len(emits) : emits'[n] = IF n = Len(emits) THEN frame ELSE emits[n]
  BY DEF IInv, Typed, Set
<1>2. Typed'
  BY <1>1 DEF IInv, Typed, Ids, Count
<1>3. GoneOrWaiting'
  BY <1>1 DEF IInv, GoneOrWaiting, Waiting
<1>4. EmitsOK'
  <2> SUFFICES ASSUME NEW n \in 1 .. Len(emits)
               PROVE  SilentOK(emits[n])' /\ DueOK(emits[n])'
    BY <1>1 DEF EmitsOK
  <2>1. SilentOK(emits'[n]) /\ DueOK(emits'[n])
    BY <1>1 DEF IInv, EmitsOK
  <2> QED
    BY <2>1 DEF SilentOK, DueOK, Count, Passed
<1> QED BY <1>2, <1>3, <1>4 DEF IInv

-----------------------------------------------------------------------------
(* New callbacks come behind all others: no slot named so far changes.     *)
LEMMA ConnectKeeps ==
    ASSUME SignalAssumption, IInv, NEW f \in Functions_, Connect(f) PROVE IInv'
<1>1. /\ Callbacks' \in Seq(Functions_ \cup {NoFunction}) /\ Count' = Count + 1 /\ Count \in Nat
      /\ \A i \in 1 .. Count : Callbacks'[i] = Callbacks[i]
  BY DEF IInv, Typed, Connect, Count
<1>2. Typed'
  <2>1. Ids' \subseteq Ids \cup {Count}
    BY DEF Connect, Ids
  <2>2. Ids \subseteq 0 .. Count - 1 /\ gone \subseteq 1 .. Count
    BY DEF IInv, Typed
  <2>3. Ids' \subseteq 0 .. Count' - 1 /\ gone' \subseteq 1 .. Count'
    BY <1>1, <2>1, <2>2 DEF Connect
  <2> QED BY <1>1, <2>3 DEF IInv, Typed, Connect
<1>3. GoneOrWaiting'
  BY <1>1 DEF IInv, Typed, GoneOrWaiting, Waiting, Connect
<1>4. EmitsOK'
  <2> SUFFICES ASSUME NEW n \in 1 .. Len(emits) PROVE SilentOK(emits[n])' /\ DueOK(emits[n])'
    BY DEF EmitsOK, Connect
  <2>1. SilentOK(emits[n]) /\ DueOK(emits[n]) /\ emits' = emits /\ gone' = gone
    BY DEF IInv, EmitsOK, Connect
  <2> QED BY <1>1, <2>1 DEF SilentOK, DueOK, Passed
<1> QED BY <1>2, <1>3, <1>4 DEF IInv

LEMMA ConnectNullKeeps ==
    ASSUME SignalAssumption, IInv, ConnectNull PROVE IInv'
<1>1. Ids' \subseteq 0 .. Count - 1
  BY DEF IInv, Typed, ConnectNull, Ids, Count
<1>2. Typed'
  BY <1>1 DEF IInv, Typed, ConnectNull, Count
<1>3. GoneOrWaiting'
  BY DEF IInv, GoneOrWaiting, Waiting, ConnectNull
<1>4. EmitsOK'
  <2> SUFFICES ASSUME NEW n \in 1 .. Len(emits) PROVE SilentOK(emits[n])' /\ DueOK(emits[n])'
    BY DEF EmitsOK, ConnectNull
  <2> QED BY DEF IInv, EmitsOK, SilentOK, DueOK, ConnectNull, Passed, Count
<1> QED BY <1>2, <1>3, <1>4 DEF IInv

(* A slot that is emptied outside of an emit is owed no call any more.     *)
LEMMA DisconnectNowKeeps ==
    ASSUME SignalAssumption, IInv, NEW index \in Ids, DisconnectNow(index) PROVE IInv'
<1>1. index \in 0 .. Count - 1 /\ Count \in Nat /\ Slot(index) \in 1 .. Count
  BY DEF IInv, Typed, Slot, Count
<1>2. /\ Callbacks' \in Seq(Functions_ \cup {NoFunction}) /\ Count' = Count
      /\ \A i \in 1 .. Count :
            Callbacks'[i] = IF i = Slot(index) THEN NoFunction ELSE Callbacks[i]
  BY <1>1 DEF IInv, Typed, DisconnectNow, Count
<1>3. gone \subseteq gone' /\ (Callbacks[Slot(index)] # NoFunction => Slot(index) \in gone')
  BY DEF DisconnectNow
<1>4. ToRemove = << >>
  BY DEF IInv, GoneOrWaiting, DisconnectNow
<1>5. Typed'
  BY <1>1, <1>2 DEF IInv, Typed, DisconnectNow, Ids
<1>6. GoneOrWaiting'
  BY <1>1, <1>2, <1>4 DEF IInv, Typed, GoneOrWaiting, Waiting, DisconnectNow
<1>7. EmitsOK'
  <2> SUFFICES ASSUME NEW n \in 1 .. Len(emits) PROVE SilentOK(emits[n])' /\ DueOK(emits[n])'
    BY DEF EmitsOK, DisconnectNow
  <2>1. SilentOK(emits[n]) /\ DueOK(emits[n]) /\ emits' = emits
    BY DEF IInv, EmitsOK, DisconnectNow
  <2> QED BY <1>2, <1>3, <2>1 DEF SilentOK, DueOK, Passed
<1> QED BY <1>5, <1>6, <1>7 DEF IInv

LEMMA DisconnectLaterKeeps ==
    ASSUME SignalAssumption, IInv, NEW index \in Ids, DisconnectLater(index) PROVE IInv'
<1>1. index \in 0 .. Count - 1 /\ Count \in Nat /\ Slot(index) \in 1 .. Count
  BY DEF IInv, Typed, Slot, Count
<1>2. /\ ToRemove' \in Seq(Nat) /\ Len(ToRemove') = Len(ToRemove) + 1
      /\ \A j \in 1 .. Len(ToRemove) : ToRemove'[j] = ToRemove[j]
      /\ ToRemove'[Len(ToRemove) + 1] = index /\ Len(ToRemove) \in Nat
  BY <1>1 DEF IInv, Typed, DisconnectLater
<1>3. Typed'
  BY <1>1, <1>2 DEF IInv, Typed, DisconnectLater, Ids, Count
<1>4. GoneOrWaiting'
  <2>1. \A i \in gone' : (Callbacks[i] = NoFunction \/ Waiting(i))'
    <3> SUFFICES ASSUME NEW i \in gone', Callbacks[i] # NoFunction PROVE Waiting(i)'
      BY DEF DisconnectLater
    <3>1. CASE i = Slot(index)
      BY <1>2, <3>1 DEF Waiting
    <3>2. CASE i # Slot(index)
      <4>1. Waiting(i)
        BY <3>2 DEF IInv, GoneOrWaiting, DisconnectLater
      <4> QED BY <1>2, <4>1 DEF Waiting
    <3> QED BY <3>1, <3>2
  <2>2. \A j \in 1 .. Len(ToRemove') : Slot(ToRemove'[j]) \in gone'
    BY <1>2 DEF IInv, GoneOrWaiting, DisconnectLater
  <2> QED BY <2>1, <2>2 DEF IInv, GoneOrWaiting, DisconnectLater
<1>5. EmitsOK'
  <2> SUFFICES ASSUME NEW n \in 1 .. Len(emits) PROVE SilentOK(emits[n])' /\ DueOK(emits[n])'
    BY DEF EmitsOK, DisconnectLater
  <2> QED BY DEF IInv, EmitsOK, SilentOK, DueOK, DisconnectLater, Passed, Count
<1> QED BY <1>3, <1>4, <1>5 DEF IInv

-----------------------------------------------------------------------------
(* Outside of all emits nothing waits: what is gone by then is empty.      *)
LEMMA EmitKeeps ==
    ASSUME SignalAssumption, IInv, NEW whole \in BOOLEAN, Emit(whole) PROVE IInv'
<1> DEFINE frame == Frame(whole)
<1>1. Count \in Nat /\ gone \subseteq 1 .. Count
  BY DEF IInv, Typed, Count
<1>2. frame \in Frames
  BY <1>1 DEF Frame, Frames
<1>3. SilentOK(frame)
  BY <1>1 DEF Frame, SilentOK, IInv, GoneOrWaiting, Waiting
<1>4. DueOK(frame)
  BY <1>1 DEF Frame, DueOK, Passed
<1> HIDE DEF frame
<1>5. /\ emits' \in Seq(Frames) /\ Len(emits) \in Nat /\ Len(emits') = Len(emits) + 1
      /\ \A n \in 1 .. Len(emits) : emits'[n] = emits[n]
      /\ emits'[Len(emits) + 1] = frame /\ emits' # << >>
  <2>1. emits \in Seq(Frames) /\ emits' = Append(emits, frame)
    BY DEF Emit, IInv, Typed, frame
  <2> QED BY <1>2, <2>1
<1>6. Typed'
  BY <1>5 DEF IInv, Typed, Emit, Ids, Count
<1>7. GoneOrWaiting'
  BY <1>5 DEF IInv, GoneOrWaiting, Waiting, Emit
<1>8. EmitsOK'
  <2> SUFFICES ASSUME NEW n \in 1 .. Len(emits')
               PROVE  SilentOK(emits[n])' /\ DueOK(emits[n])'
    BY DEF EmitsOK
  <2>1. SilentOK(emits'[n]) /\ DueOK(emits'[n])
    BY <1>3, <1>4, <1>5 DEF IInv, EmitsOK
  <2> QED BY <2>1 DEF SilentOK, DueOK, Count, Passed, Emit
<1> QED BY <1>6, <1>7, <1>8 DEF IInv

(* What is called is not empty, so not silent; what is skipped is not due. *)
LEMMA CallNextKeeps ==
    ASSUME SignalAssumption, IInv, CallNext PROVE IInv'
<1>1. emits # << >> /\ ~Innermost.running /\ Innermost \in Frames
      /\ SilentOK(Innermost) /\ DueOK(Innermost)
  BY DEF CallNext, MayCall, IInv, Typed, EmitsOK, Innermost
<1>2. CASE Callbacks[Innermost.at] = NoFunction
  <2> DEFINE frame == [Innermost EXCEPT !.at = @ + 1]
  <2>1. frame \in Frames /\ frame.at = Innermost.at + 1 /\ frame.end = Innermost.end
        /\ frame.running = Innermost.running /\ frame.whole = Innermost.whole
        /\ frame.due = Innermost.due /\ frame.reached = Innermost.reached
        /\ frame.silent = Innermost.silent
    BY <1>1 DEF Frames
  <2>2. Set(frame)
    BY <1>2 DEF CallNext
  <2> HIDE DEF frame
  <2>3. SilentOK(frame)
    BY <1>1, <2>1 DEF SilentOK
  <2>4. DueOK(frame)
    BY <1>1, <1>2, <2>1 DEF DueOK, Passed, Frames
  <2> QED BY <1>1, <2>1, <2>2, <2>3, <2>4, SetKeeps DEF CallNext
<1>3. CASE Callbacks[Innermost.at] # NoFunction
  <2> DEFINE frame == [Innermost EXCEPT !.running = TRUE, !.reached = @ \cup {Innermost.at}]
  <2>1. frame \in Frames /\ frame.at = Innermost.at /\ frame.end = Innermost.end
        /\ frame.running = TRUE /\ frame.whole = Innermost.whole
        /\ frame.due = Innermost.due /\ frame.reached = Innermost.reached \cup {Innermost.at}
        /\ frame.silent = Innermost.silent
    BY <1>1 DEF Frames
  <2>2. Set(frame)
    BY <1>3 DEF CallNext
  <2> HIDE DEF frame
  <2>3. SilentOK(frame)
    BY <1>1, <1>3, <2>1 DEF SilentOK
  <2>4. DueOK(frame)
    BY <1>1, <2>1 DEF DueOK, Passed, Frames
  <2> QED BY <1>1, <2>1, <2>2, <2>3, <2>4, SetKeeps DEF CallNext
<1> QED BY <1>2, <1>3

LEMMA ReturnKeeps ==
    ASSUME SignalAssumption, IInv, NEW stop \in BOOLEAN, Return(stop) PROVE IInv'
<1> DEFINE next == IF stop THEN Innermost.end + 1 ELSE Innermost.at + 1
           frame == [Innermost EXCEPT !.running = FALSE, !.at = next]
<1>1. emits # << >> /\ Innermost.running /\ Innermost \in Frames
      /\ SilentOK(Innermost) /\ DueOK(Innermost)
  <2>1. emits # << >> /\ Innermost.running
    BY DEF Return
  <2> QED BY <2>1 DEF IInv, Typed, EmitsOK, Innermost
<1>2. frame \in Frames /\ frame.at = next
      /\ frame.end = Innermost.end /\ frame.running = FALSE /\ frame.whole = Innermost.whole
      /\ frame.due = Innermost.due /\ frame.reached = Innermost.reached
      /\ frame.silent = Innermost.silent
  <2>1. next \in Nat
    BY <1>1 DEF Frames
  <2> HIDE DEF next
  <2> QED BY <1>1, <2>1 DEF Frames
<1>3. Set(frame) /\ (stop => ~Innermost.whole)
  BY DEF Return
<1> HIDE DEF frame
<1>4. SilentOK(frame)
  BY <1>1, <1>2 DEF SilentOK
<1>5. DueOK(frame)
  BY <1>1, <1>2, <1>3 DEF DueOK, Passed, Frames
<1> QED BY <1>1, <1>2, <1>3, <1>4, <1>5, SetKeeps DEF Return

(* What waits is emptied, in a nested emit for the outer ones too.         *)
LEMMA EmitEndsKeeps ==
    ASSUME SignalAssumption, IInv, EmitEnds PROVE IInv'
<1>1. emits # << >>
  BY DEF EmitEnds, MayCall
<1>2. /\ emits' \in Seq(Frames) /\ Len(emits') = Len(emits) - 1 /\ Len(emits) \in Nat
      /\ \A n \in 1 .. Len(emits') : emits'[n] = emits[n]
  <2>1. emits \in Seq(Frames) /\ emits' = SubSeq(emits, 1, Len(emits) - 1)
    BY DEF EmitEnds, IInv, Typed, Front
  <2>2. Len(emits) \in Nat /\ Len(emits) >= 1 /\ \A n \in 1 .. Len(emits) - 1 : emits[n] \in Frames
    BY <1>1, <2>1
  <2> DEFINE left == SubSeq(emits, 1, Len(emits) - 1)
  <2>3. \A i \in 1 .. Len(emits) - 1 - 1 + 1 : left[i] = emits[1 + i - 1]
    BY <2>2, SubSeqProperties
  <2>4. left \in Seq(Frames)
    BY <2>2, SubSeqProperties
  <2>5. Len(left) = IF 1 <= Len(emits) - 1 THEN Len(emits) - 1 - 1 + 1 ELSE 0
    BY <2>2, SubSeqProperties
  <2>6. emits' = left
    BY <2>1
  <2> HIDE DEF left
  <2>7. Len(left) = Len(emits) - 1
    <3>1. \A n \in Nat : n >= 1 => (IF 1 <= n - 1 THEN n - 1 - 1 + 1 ELSE 0) = n - 1
      OBVIOUS
    <3> QED BY <2>2, <2>5, <3>1
  <2> QED BY <2>2, <2>3, <2>4, <2>6, <2>7
<1>3. /\ Callbacks' \in Seq(Functions_ \cup {NoFunction}) /\ Count' = Count /\ Count \in Nat
      /\ \A i \in 1 .. Count :
            Callbacks'[i] = IF Waiting(i) THEN NoFunction ELSE Callbacks[i]
  <2>1. Callbacks \in Seq(Functions_ \cup {NoFunction}) /\ DOMAIN Callbacks = 1 .. Count /\ Count \in Nat
    BY DEF IInv, Typed, Count
  <2>2. Callbacks' = [i \in 1 .. Count |-> IF Waiting(i) THEN NoFunction ELSE Callbacks[i]]
    BY <2>1 DEF EmitEnds, Without, Waiting
  <2>3. Callbacks' \in [1 .. Count -> Functions_ \cup {NoFunction}]
    BY <2>1, <2>2 DEF Count
  <2>4. Callbacks' \in Seq(Functions_ \cup {NoFunction}) /\ Len(Callbacks') = Count
    BY <2>1, <2>3
  <2> QED BY <2>1, <2>2, <2>4 DEF Count
<1>4. Typed'
  <2>1. Ids' = Ids /\ gone' = gone /\ ToRemove' = << >> /\ CurrentlyEmitting' = FALSE
    BY DEF EmitEnds, Ids
  <2>2. Ids \subseteq 0 .. Count - 1 /\ gone \subseteq 1 .. Count
    BY DEF IInv, Typed
  <2>3. ToRemove' \in Seq(Nat)
    BY <2>1
  <2>4. Ids' \subseteq 0 .. Count' - 1 /\ gone' \subseteq 1 .. Count'
    BY <1>3, <2>1, <2>2
  <2> QED BY <1>2, <1>3, <2>1, <2>3, <2>4 DEF Typed
<1>5. GoneOrWaiting'
  BY <1>3 DEF IInv, Typed, GoneOrWaiting, EmitEnds
<1>6. EmitsOK'
  <2> SUFFICES ASSUME NEW n \in 1 .. Len(emits') PROVE SilentOK(emits[n])' /\ DueOK(emits[n])'
    BY DEF EmitsOK
  <2>1. SilentOK(emits'[n]) /\ DueOK(emits'[n])
    BY <1>2 DEF IInv, EmitsOK
  <2>2. \A i \in 1 .. Count : Waiting(i) => i \in gone
    BY DEF IInv, GoneOrWaiting, Waiting
  <2> QED BY <1>3, <2>1, <2>2 DEF SilentOK, DueOK, Passed, EmitEnds
<1> QED BY <1>4, <1>5, <1>6 DEF IInv

-----------------------------------------------------------------------------
LEMMA NextKeeps == ASSUME SignalAssumption, IInv, [Next]_vars PROVE IInv'
<1>1. CASE UNCHANGED vars
  BY <1>1 DEF vars, IInv, Typed, GoneOrWaiting, Waiting, EmitsOK, SilentOK, DueOK, Passed, Ids, Count
<1> QED
  BY <1>1, ConnectKeeps, ConnectNullKeeps, DisconnectNowKeeps, DisconnectLaterKeeps, EmitKeeps,
     CallNextKeeps, ReturnKeeps, EmitEndsKeeps DEF Next

LEMMA IInvSuffices == IInv => RemovedIsGone
<1>1. IInv => GoneIsSilent
  BY DEF IInv, EmitsOK, SilentOK, GoneIsSilent
<1>2. IInv => RemovalsHappen
  BY DEF IInv, Typed, GoneOrWaiting, Waiting, RemovalsHappen
<1> QED BY <1>1, <1>2 DEF RemovedIsGone

(* An emit that ends owes nothing any more.                                *)
EndsReached == Len(emits') < Len(emits) /\ Innermost.whole
                  => Innermost.due \ gone \subseteq Innermost.reached

LEMMA StepReaches ==
    ASSUME SignalAssumption, IInv, [Next]_vars PROVE [EndsReached]_vars
<1>1. ASSUME IInv, [Next]_vars
      PROVE  [EndsReached]_vars
  <2> SUFFICES ASSUME Next, Len(emits') < Len(emits), Innermost.whole
               PROVE  Innermost.due \ gone \subseteq Innermost.reached
    BY <1>1 DEF EndsReached
  <2>1. EmitEnds
    <3>1. emits' # emits /\ emits \in Seq(Frames)
      BY <1>1 DEF IInv, Typed
    <3>2. \A frame : Set(frame) /\ emits # << >> => Len(emits') = Len(emits)
      BY <3>1 DEF Set
    <3>3. ~\E whole \in BOOLEAN : Emit(whole)
      <4> SUFFICES ASSUME NEW whole \in BOOLEAN, Emit(whole) PROVE FALSE
        OBVIOUS
      <4>1. Len(emits') = Len(emits) + 1
        BY <3>1 DEF Emit
      <4> QED BY <3>1, <4>1
    <3>4. ~CallNext /\ ~\E stop \in BOOLEAN : Return(stop)
      <4>1. ASSUME CallNext PROVE \E frame : Set(frame) /\ emits # << >>
        BY <4>1 DEF CallNext, MayCall
      <4>2. ASSUME NEW stop \in BOOLEAN, Return(stop) PROVE \E frame : Set(frame) /\ emits # << >>
        BY <4>2 DEF Return
      <4> QED BY <3>1, <3>2, <4>1, <4>2
    <3> QED BY <3>1, <3>3, <3>4 DEF Next, Connect, ConnectNull, DisconnectNow, DisconnectLater
  <2>2. emits # << >> /\ Innermost \in Frames /\ DueOK(Innermost) /\ Innermost.at > Innermost.end
    BY <1>1, <2>1 DEF EmitEnds, MayCall, LoopOver, IInv, Typed, EmitsOK, Innermost
  <2> QED BY <2>2 DEF DueOK, Passed, Frames
<1> QED BY <1>1

(* Ways to rearrange what is from l to r in an array of n.                  *)
Shuffles(n, l, r) ==
    {p \in [1..n -> 1..n] :
        /\ \A i, j \in 1..n : p[i] = p[j] => i = j
        /\ \A j \in 1..n : \E i \in 1..n : p[i] = j
        /\ \A i \in 1..n : IF l <= i /\ i <= r THEN l <= p[i] /\ p[i] <= r ELSE p[i] = i}

Rearranges(b, a, n, l, r) ==
    /\ b \in [1..n -> Sortable]
    /\ \E p \in Shuffles(n, l, r) : \A i \in 1..n : b[i] = a[p[i]]

LEMMA SameOrder ==
    ASSUME NEW n \in Nat, NEW l \in Int, NEW r \in Int, NEW a \in [1..n -> Sortable]
    PROVE  Rearranges(a, a, n, l, r)
<1> DEFINE p == [i \in 1..n |-> i]
<1>1. p \in Shuffles(n, l, r)
  BY DEF Shuffles
<1>2. \A i \in 1..n : a[i] = a[p[i]]
  OBVIOUS
<1> HIDE DEF p
<1> QED BY <1>1, <1>2 DEF Rearranges

LEMMA OneThenTheOther ==
    ASSUME NEW n \in Nat, NEW l \in Int, NEW r \in Int, NEW a \in [1..n -> Sortable],
           NEW b, NEW c, Rearranges(b, a, n, l, r), Rearranges(c, b, n, l, r)
    PROVE  Rearranges(c, a, n, l, r)
<1>1. PICK p \in Shuffles(n, l, r) : \A i \in 1..n : b[i] = a[p[i]]
  BY DEF Rearranges
<1>2. PICK q \in Shuffles(n, l, r) : \A i \in 1..n : c[i] = b[q[i]]
  BY DEF Rearranges
<1> DEFINE pq == [i \in 1..n |-> p[q[i]]]
<1>3. p \in [1..n -> 1..n] /\ q \in [1..n -> 1..n]
  BY <1>1, <1>2 DEF Shuffles
<1>4. pq \in Shuffles(n, l, r)
  <2>1. pq \in [1..n -> 1..n]
    BY <1>3
  <2>2. ASSUME NEW i \in 1..n, NEW j \in 1..n, pq[i] = pq[j] PROVE i = j
    <3>1. q[i] \in 1..n /\ q[j] \in 1..n /\ p[q[i]] = p[q[j]]
      BY <1>3, <2>2
    <3>2. q[i] = q[j]
      BY <3>1, <1>1 DEF Shuffles
    <3> QED BY <3>2, <1>2 DEF Shuffles
  <2>3. ASSUME NEW j \in 1..n PROVE \E i \in 1..n : pq[i] = j
    <3>1. PICK k \in 1..n : p[k] = j
      BY <1>1 DEF Shuffles
    <3>2. PICK i \in 1..n : q[i] = k
      BY <1>2 DEF Shuffles
    <3> QED BY <3>1, <3>2
  <2>4. ASSUME NEW i \in 1..n
        PROVE  IF l <= i /\ i <= r THEN l <= pq[i] /\ pq[i] <= r ELSE pq[i] = i
    <3>1. q[i] \in 1..n /\ pq[i] = p[q[i]]
      BY <1>3
    <3>2. IF l <= i /\ i <= r THEN l <= q[i] /\ q[i] <= r ELSE q[i] = i
      BY <1>2 DEF Shuffles
    <3>3. IF l <= q[i] /\ q[i] <= r THEN l <= p[q[i]] /\ p[q[i]] <= r ELSE p[q[i]] = q[i]
      BY <1>1, <3>1 DEF Shuffles
    <3> QED BY <3>1, <3>2, <3>3
  <2> HIDE DEF pq
  <2> QED BY <2>1, <2>2, <2>3, <2>4 DEF Shuffles
<1>5. \A i \in 1..n : c[i] = a[pq[i]]
  BY <1>1, <1>2, <1>3
<1>6. c \in [1..n -> Sortable]
  BY DEF Rearranges
<1> HIDE DEF pq
<1> QED BY <1>4, <1>5, <1>6 DEF Rearranges

LEMMA Wider ==
    ASSUME NEW n \in Nat, NEW l \in Int, NEW r \in Int, NEW a, NEW b, NEW f \in Int, NEW t \in Int,
           Rearranges(b, a, n, f, t), l <= f, t <= r
    PROVE  Rearranges(b, a, n, l, r)
<1>1. PICK p \in Shuffles(n, f, t) : \A i \in 1..n : b[i] = a[p[i]]
  BY DEF Rearranges
<1>2. p \in Shuffles(n, l, r)
  <2>1. p \in [1..n -> 1..n]
    BY <1>1 DEF Shuffles
  <2>2. ASSUME NEW i \in 1..n
        PROVE  IF l <= i /\ i <= r THEN l <= p[i] /\ p[i] <= r ELSE p[i] = i
    <3>1. p[i] \in Int
      BY <2>1
    <3>2. IF f <= i /\ i <= t THEN f <= p[i] /\ p[i] <= t ELSE p[i] = i
      BY <1>1 DEF Shuffles
    <3> QED BY <3>1, <3>2
  <2> QED BY <1>1, <2>1, <2>2 DEF Shuffles
<1> QED BY <1>1, <1>2 DEF Rearranges

LEMMA SwapRearranges ==
    ASSUME NEW n \in Nat, NEW l \in Int, NEW r \in Int, NEW a \in [1..n -> Sortable],
           NEW i \in 1..n, NEW j \in 1..n, l <= i, i <= r, l <= j, j <= r
    PROVE  /\ Rearranges(QS!Swap(a, i, j), a, n, l, r)
           /\ QS!Swap(a, i, j)[i] = a[j] /\ QS!Swap(a, i, j)[j] = a[i]
           /\ \A k \in 1..n : k # i /\ k # j => QS!Swap(a, i, j)[k] = a[k]
<1> DEFINE p == [k \in 1..n |-> IF k = j THEN i ELSE IF k = i THEN j ELSE k]
           b == QS!Swap(a, i, j)
<1>1. p \in Shuffles(n, l, r)
  <2>1. p \in [1..n -> 1..n]
    OBVIOUS
  <2>2. \A x, y \in 1..n : p[x] = p[y] => x = y
    OBVIOUS
  <2>3. \A x \in 1..n : p[p[x]] = x /\ p[x] \in 1..n
    OBVIOUS
  <2>4. \A x \in 1..n : IF l <= x /\ x <= r THEN l <= p[x] /\ p[x] <= r ELSE p[x] = x
    OBVIOUS
  <2> HIDE DEF p
  <2> QED BY <2>1, <2>2, <2>3, <2>4 DEF Shuffles
<1>2. b \in [1..n -> Sortable] /\ \A k \in 1..n : b[k] = a[p[k]]
  BY DEF QS!Swap
<1>3. b[i] = a[j] /\ b[j] = a[i] /\ \A k \in 1..n : k # i /\ k # j => b[k] = a[k]
  BY <1>2
<1> HIDE DEF p, b
<1>4. Rearranges(b, a, n, l, r)
  BY <1>1, <1>2 DEF Rearranges
<1> QED BY <1>3, <1>4 DEF b

LEMMA Compared ==
    ASSUME QS!QuickSortAssumption, NEW e \in Sortable, NEW f \in Sortable
    PROVE  /\ Key[e] \in Int
           /\ QS!compare(e, f) <= 0 <=> Key[e] <= Key[f]
           /\ QS!compare(e, f) > 0 <=> Key[e] > Key[f]
  BY DEF QS!QuickSortAssumption, QS!compare

(* The loop of a partition up to index m, as a function.                    *)
Loops(f, b, l, m, r) ==
    f = [index \in l..m |-> IF index = l THEN [a |-> b, store |-> l]
                            ELSE QS!Turn(r, index - 1)[f[index - 1]]]

LEMMA LoopExists ==
    ASSUME NEW b, NEW l \in Int, NEW r \in Int, NEW m \in Int, l <= m
    PROVE  \E f : Loops(f, b, l, m, r)
<1> DEFINE S == {k \in Nat : \E f : Loops(f, b, l, l + k, r)}
<1>1. 0 \in S
  <2> DEFINE f == [index \in l..(l + 0) |-> [a |-> b, store |-> l]]
  <2>1. Loops(f, b, l, l + 0, r)
    BY DEF Loops
  <2> QED BY <2>1
<1>2. ASSUME NEW k \in Nat, k \in S PROVE k + 1 \in S
  <2>1. PICK f : Loops(f, b, l, l + k, r)
    BY <1>2
  <2> DEFINE g == [index \in l..(l + (k + 1)) |->
                       IF index <= l + k THEN f[index] ELSE QS!Turn(r, l + k)[f[l + k]]]
  <2>2. \A index \in l..(l + (k + 1)) :
            g[index] = IF index = l THEN [a |-> b, store |-> l]
                       ELSE QS!Turn(r, index - 1)[g[index - 1]]
    <3> SUFFICES ASSUME NEW index \in l..(l + (k + 1))
                 PROVE  g[index] = IF index = l THEN [a |-> b, store |-> l]
                                   ELSE QS!Turn(r, index - 1)[g[index - 1]]
      OBVIOUS
    <3>1. CASE index <= l + k
      <4>1. g[index] = f[index] /\ (index # l => g[index - 1] = f[index - 1])
        BY <3>1
      <4>2. index \in l..(l + k)
        BY <3>1
      <4>3. f[index] = IF index = l THEN [a |-> b, store |-> l]
                       ELSE QS!Turn(r, index - 1)[f[index - 1]]
        BY <2>1, <4>2 DEF Loops
      <4> QED BY <4>1, <4>3
    <3>2. CASE ~(index <= l + k)
      <4>1. index = l + (k + 1) /\ index - 1 = l + k /\ index # l
        BY <3>2
      <4>2. g[index] = QS!Turn(r, l + k)[f[l + k]] /\ g[l + k] = f[l + k]
        BY <4>1, <3>2
      <4> QED BY <4>1, <4>2
    <3> QED BY <3>1, <3>2
  <2>3. Loops(g, b, l, l + (k + 1), r)
    <3> HIDE DEF g
    <3>1. g = [index \in l..(l + (k + 1)) |-> g[index]]
      BY DEF g
    <3> QED BY <2>2, <3>1 DEF Loops
  <2> QED BY <2>3
<1>3. Nat \subseteq S
  <2> HIDE DEF S
  <2> QED BY <1>1, <1>2, SetInduction
<1>4. m - l \in S /\ l + (m - l) = m
  BY <1>3
<1> QED BY <1>4

(* Up to index, smaller elements are in front and the others behind.        *)
LoopOK(w, b, n, l, r, index) ==
    /\ w \in [a : [1..n -> Sortable], store : Nat]
    /\ Rearranges(w.a, b, n, l, r)
    /\ l <= w.store /\ w.store <= index
    /\ w.a[r] = b[r]
    /\ \A m \in 1..n : l <= m /\ m < w.store => Key[w.a[m]] < Key[b[r]]
    /\ \A m \in 1..n : w.store <= m /\ m < index => Key[w.a[m]] >= Key[b[r]]

LEMMA LoopTurns ==
    ASSUME QS!QuickSortAssumption, NEW n \in Lengths, NEW b \in [1..n -> Sortable],
           NEW l \in 1..n, NEW r \in 1..n, NEW index \in l..(r - 1), NEW w, LoopOK(w, b, n, l, r, index)
    PROVE  LoopOK(QS!Turn(r, index)[w], b, n, l, r, index + 1)
<1>0. n \in Nat
  BY DEF QS!QuickSortAssumption
<1>1. w \in [a : [1..n -> Sortable], store : Nat] /\ w.store \in 1..n /\ w.store <= index /\ l <= w.store
  BY <1>0 DEF LoopOK
<1>2. w \in [a : QS!Contents, store : Nat]
  BY <1>1 DEF QS!Contents
<1>3. QS!Turn(r, index)[w] = IF QS!compare(w.a[r], w.a[index]) > 0
                             THEN [a |-> QS!Swap(w.a, index, w.store), store |-> w.store + 1]
                             ELSE w
  BY <1>0, <1>2 DEF QS!Turn
<1>4. w.a[r] \in Sortable /\ w.a[index] \in Sortable /\ w.a[r] = b[r]
  BY <1>0, <1>1 DEF LoopOK
<1>5. QS!compare(w.a[r], w.a[index]) > 0 <=> Key[w.a[r]] > Key[w.a[index]]
  BY <1>4, Compared
<1>k. \A e \in Sortable : Key[e] \in Int
  BY DEF QS!QuickSortAssumption
<1>v. PICK v \in [1..n -> Sortable], t \in 1..n : v = w.a /\ t = w.store
  BY <1>1
<1>w. /\ Rearranges(v, b, n, l, r) /\ l <= t /\ t <= index /\ v[r] = b[r]
      /\ \A m \in 1..n : l <= m /\ m < t => Key[v[m]] < Key[b[r]]
      /\ \A m \in 1..n : t <= m /\ m < index => Key[v[m]] >= Key[b[r]]
  BY <1>v DEF LoopOK
<1>6. CASE Key[w.a[r]] > Key[w.a[index]]
  <2> DEFINE c == QS!Swap(v, index, t)
  <2>0. index \in 1..n /\ l <= index /\ index < r
    BY <1>0
  <2>1. /\ Rearranges(c, v, n, l, r) /\ c[index] = v[t] /\ c[t] = v[index]
        /\ \A k \in 1..n : k # index /\ k # t => c[k] = v[k]
    BY <1>0, <1>w, <2>0, SwapRearranges
  <2>2. Rearranges(c, b, n, l, r)
    BY <1>0, <1>w, <2>1, OneThenTheOther
  <2>3. c \in [1..n -> Sortable]
    BY <2>1 DEF Rearranges
  <2>4. QS!Turn(r, index)[w] = [a |-> c, store |-> t + 1]
    BY <1>3, <1>5, <1>6, <1>v
  <2> HIDE DEF c
  <2>k. Key[v[index]] < Key[b[r]]
    BY <1>6, <1>v, <1>w, <1>4, <1>k
  <2>5. c[r] = b[r]
    BY <1>0, <1>w, <2>0, <2>1
  <2>6. \A m \in 1..n : l <= m /\ m < t + 1 => Key[c[m]] < Key[b[r]]
    BY <1>0, <1>w, <2>0, <2>k, <2>1
  <2>7. \A m \in 1..n : t + 1 <= m /\ m < index + 1 => Key[c[m]] >= Key[b[r]]
    BY <1>0, <1>w, <2>0, <2>1
  <2>8. [a |-> c, store |-> t + 1].a = c /\ [a |-> c, store |-> t + 1].store = t + 1
    OBVIOUS
  <2> QED BY <1>0, <1>w, <2>0, <2>2, <2>3, <2>4, <2>5, <2>6, <2>7, <2>8 DEF LoopOK
<1>7. CASE ~(Key[w.a[r]] > Key[w.a[index]])
  <2>1. QS!Turn(r, index)[w] = w
    BY <1>3, <1>5, <1>7
  <2> QED BY <1>0, <1>1, <1>4, <1>7, <2>1, <1>k DEF LoopOK
<1> QED BY <1>6, <1>7

LEMMA LoopEnds ==
    ASSUME QS!QuickSortAssumption, NEW n \in Lengths, NEW b \in [1..n -> Sortable],
           NEW l \in 1..n, NEW r \in 1..n, l <= r
    PROVE  LoopOK(QS!Turns(b, l, r)[r], b, n, l, r, r)
<1>0. n \in Nat /\ l \in Nat /\ r \in Nat
  BY DEF QS!QuickSortAssumption
<1>1. PICK f : f = QS!Turns(b, l, r)
  OBVIOUS
<1>2. Loops(f, b, l, r, r)
  <2>0. l \in Int /\ r \in Int /\ l <= r
    BY <1>0
  <2>1. \E g : Loops(g, b, l, r, r)
    BY ONLY <2>0, LoopExists, Zenon
  <2> QED BY <1>1, <2>1 DEF Loops, QS!Turns
<1> DEFINE S == {k \in Nat : l + k <= r => LoopOK(f[l + k], b, n, l, r, l + k)}
<1>3. 0 \in S
  <2>1. f[l] = [a |-> b, store |-> l]
    BY <1>0, <1>2 DEF Loops
  <2>2. Rearranges(b, b, n, l, r)
    BY <1>0, SameOrder
  <2> QED BY <1>0, <2>1, <2>2 DEF LoopOK
<1>4. ASSUME NEW k \in Nat, k \in S PROVE k + 1 \in S
  <2> SUFFICES ASSUME l + (k + 1) <= r PROVE LoopOK(f[l + (k + 1)], b, n, l, r, l + (k + 1))
    OBVIOUS
  <2>1. l + k \in l..(r - 1) /\ LoopOK(f[l + k], b, n, l, r, l + k) /\ (l + k) + 1 = l + (k + 1)
    BY <1>0, <1>4
  <2>2. LoopOK(QS!Turn(r, l + k)[f[l + k]], b, n, l, r, (l + k) + 1)
    BY <2>1, LoopTurns
  <2>3. f[l + (k + 1)] = QS!Turn(r, l + k)[f[l + k]]
    <3>1. l + (k + 1) \in l..r /\ l + (k + 1) # l /\ (l + (k + 1)) - 1 = l + k
      BY <1>0
    <3> QED BY <1>2, <3>1 DEF Loops
  <2> QED BY <2>1, <2>2, <2>3
<1>5. Nat \subseteq S
  <2> HIDE DEF S
  <2> QED BY <1>3, <1>4, SetInduction
<1>6. r - l \in S /\ l + (r - l) = r
  BY <1>0, <1>5
<1> QED BY <1>1, <1>6

(* After a partition the pivot is in its place.                             *)
LEMMA Partitions ==
    ASSUME QS!QuickSortAssumption, NEW n \in Lengths, NEW a \in [1..n -> Sortable],
           NEW l \in 1..n, NEW r \in 1..n, l <= r, NEW p, p = QS!Partitioned(a, l, r)
    PROVE  /\ p.store \in l..r
           /\ Rearranges(p.a, a, n, l, r)
           /\ \A m \in 1..n : l <= m /\ m < p.store => Key[p.a[m]] <= Key[p.a[p.store]]
           /\ \A m \in 1..n : p.store < m /\ m <= r => Key[p.a[p.store]] <= Key[p.a[m]]
<1>0. n \in Nat /\ l \in Nat /\ r \in Nat
  BY DEF QS!QuickSortAssumption
<1> DEFINE mid == l + ((r - l) \div 2)
           b == QS!Swap(a, mid, r)
           w == QS!Turns(b, l, r)[r]
<1>1. mid \in 1..n /\ l <= mid /\ mid <= r
  BY <1>0
<1>2. Rearranges(b, a, n, l, r)
  BY <1>0, <1>1, SwapRearranges
<1>3. b \in [1..n -> Sortable]
  BY <1>2 DEF Rearranges
<1> HIDE DEF b, mid
<1>4. LoopOK(w, b, n, l, r, r)
  BY <1>3, LoopEnds
<1> HIDE DEF w
<1>5. w.a \in [1..n -> Sortable] /\ w.store \in 1..n /\ l <= w.store /\ w.store <= r
  BY <1>0, <1>4 DEF LoopOK
<1>v. PICK v \in [1..n -> Sortable], t \in 1..n : v = w.a /\ t = w.store
  BY <1>5
<1>w. /\ Rearranges(v, b, n, l, r) /\ l <= t /\ t <= r /\ v[r] = b[r]
      /\ \A m \in 1..n : l <= m /\ m < t => Key[v[m]] < Key[b[r]]
      /\ \A m \in 1..n : t <= m /\ m < r => Key[v[m]] >= Key[b[r]]
  BY <1>4, <1>v DEF LoopOK
<1> DEFINE c == QS!Swap(v, r, t)
<1>6. /\ Rearranges(c, v, n, l, r) /\ c[r] = v[t] /\ c[t] = v[r]
      /\ \A k \in 1..n : k # r /\ k # t => c[k] = v[k]
  BY <1>0, <1>w, SwapRearranges
<1> HIDE DEF c
<1>7. p = [a |-> c, store |-> t]
  BY <1>v DEF QS!Partitioned, c, w, b, mid
<1>8. Rearranges(c, a, n, l, r)
  <2>1. Rearranges(v, a, n, l, r)
    BY <1>0, <1>2, <1>w, OneThenTheOther
  <2> QED BY <1>0, <1>6, <2>1, OneThenTheOther
<1>9. \A m \in 1..n : l <= m /\ m < t => Key[c[m]] < Key[c[t]]
  BY <1>0, <1>w, <1>6
<1>k. \A m \in 1..n : Key[v[m]] \in Int
  BY DEF QS!QuickSortAssumption
<1>10. \A m \in 1..n : t < m /\ m <= r => Key[c[t]] <= Key[c[m]]
  <2> SUFFICES ASSUME NEW m \in 1..n, t < m, m <= r PROVE Key[c[t]] <= Key[c[m]]
    OBVIOUS
  <2>1. CASE m = r
    BY <1>0, <1>w, <1>6, <1>k, <2>1
  <2>2. CASE m # r
    BY <1>0, <1>w, <1>6, <1>k, <2>2
  <2> QED BY <2>1, <2>2
<1>11. \A m \in 1..n : Key[c[m]] \in Int
  BY <1>8 DEF QS!QuickSortAssumption, Rearranges
<1> QED BY <1>w, <1>7, <1>8, <1>9, <1>10, <1>11

InOrder(a, f, t) ==
    \A i, j \in DOMAIN a : f <= i /\ i < j /\ j <= t => Key[a[i]] <= Key[a[j]]

LEMMA PlaceFound ==
    ASSUME QS!QuickSortAssumption, NEW n \in Lengths, NEW a \in [1..n -> Sortable],
           NEW f \in 1..n, NEW index \in 1..n, f <= index
    PROVE  LET p == QS!PlaceOf(a, index, f) IN
           /\ p \in f..index
           /\ p = f \/ Key[a[p - 1]] <= Key[a[index]]
           /\ \A q \in (p + 1)..index : Key[a[q - 1]] > Key[a[index]]
<1>0. n \in Nat /\ f \in Nat /\ index \in Nat
  BY DEF QS!QuickSortAssumption
<1>1. \A q \in (f + 1)..index : /\ Key[a[q - 1]] \in Int /\ Key[a[index]] \in Int
                                /\ QS!compare(a[q - 1], a[index]) <= 0 <=> Key[a[q - 1]] <= Key[a[index]]
                                /\ QS!compare(a[q - 1], a[index]) > 0 <=> Key[a[q - 1]] > Key[a[index]]
  BY <1>0, Compared
<1> DEFINE S == {p \in f..index : p = f \/ QS!compare(a[p - 1], a[index]) <= 0}
<1>2. PICK p \in S : \A q \in S : q <= p
  <2>0. S \subseteq f..index /\ f \in S
    BY <1>0
  <2>1. S \subseteq Int /\ S # {} /\ index \in Int /\ \A x \in S : x <= index
    <3> HIDE DEF S
    <3> QED BY <1>0, <2>0
  <2> HIDE DEF S
  <2> QED BY <1>0, <2>1, Greatest
<1>3. \A q \in (p + 1)..index : QS!compare(a[q - 1], a[index]) > 0
  <2> SUFFICES ASSUME NEW q \in (p + 1)..index PROVE QS!compare(a[q - 1], a[index]) > 0
    OBVIOUS
  <2>1. p \in f..index /\ q \in (f + 1)..index /\ q \notin S
    BY <1>0, <1>2
  <2>2. ~(QS!compare(a[q - 1], a[index]) <= 0)
    BY <1>0, <2>1
  <2> QED BY <1>1, <2>1, <2>2
<1>4. \E x \in f..index : /\ x = f \/ QS!compare(a[x - 1], a[index]) <= 0
                          /\ \A q \in (x + 1)..index : QS!compare(a[q - 1], a[index]) > 0
  BY <1>2, <1>3
<1>5. PICK r : r = QS!PlaceOf(a, index, f)
  OBVIOUS
<1>6. /\ r \in f..index
      /\ r = f \/ QS!compare(a[r - 1], a[index]) <= 0
      /\ \A q \in (r + 1)..index : QS!compare(a[q - 1], a[index]) > 0
  BY <1>4, <1>5 DEF QS!PlaceOf
<1>7. r = f \/ Key[a[r - 1]] <= Key[a[index]]
  BY <1>0, <1>1, <1>6
<1>8. \A q \in (r + 1)..index : Key[a[q - 1]] > Key[a[index]]
  BY <1>0, <1>1, <1>6
<1> QED BY <1>5, <1>6, <1>7, <1>8

LEMMA Trails ==
    ASSUME QS!QuickSortAssumption, NEW n \in Lengths, NEW a \in [1..n -> Sortable],
           NEW f \in 1..n, NEW index \in 1..n, f <= index, InOrder(a, f, index - 1)
    PROVE  LET b == QS!Trailed(index, f)[a] IN
           Rearranges(b, a, n, f, index) /\ InOrder(b, f, index)
<1>0. n \in Nat /\ f \in Nat /\ index \in Nat
  BY DEF QS!QuickSortAssumption
<1>1. PICK p : p = QS!PlaceOf(a, index, f)
  OBVIOUS
<1>2. /\ p \in f..index
      /\ p = f \/ Key[a[p - 1]] <= Key[a[index]]
      /\ \A q \in (p + 1)..index : Key[a[q - 1]] > Key[a[index]]
  BY <1>1, PlaceFound
<1> DEFINE b == [i \in 1..n |-> IF i = p THEN a[index] ELSE IF p < i /\ i <= index THEN a[i - 1] ELSE a[i]]
           s == [i \in 1..n |-> IF i = p THEN index ELSE IF p < i /\ i <= index THEN i - 1 ELSE i]
<1>3. QS!Trailed(index, f)[a] = b
  <2>1. a \in QS!Contents /\ DOMAIN a = 1..n
    BY DEF QS!Contents
  <2> QED BY <1>1, <2>1 DEF QS!Trailed
<1>4. s \in Shuffles(n, f, index)
  <2>1. s \in [1..n -> 1..n]
    BY <1>0, <1>2
  <2>2. \A x, y \in 1..n : s[x] = s[y] => x = y
    BY <1>0, <1>2
  <2>3. \A y \in 1..n : \E x \in 1..n : s[x] = y
    <3> SUFFICES ASSUME NEW y \in 1..n PROVE \E x \in 1..n : s[x] = y
      OBVIOUS
    <3> DEFINE x == IF y = index THEN p ELSE IF p <= y /\ y < index THEN y + 1 ELSE y
    <3>1. x \in 1..n /\ s[x] = y
      BY <1>0, <1>2
    <3> QED BY <3>1
  <2>4. \A x \in 1..n : IF f <= x /\ x <= index THEN f <= s[x] /\ s[x] <= index ELSE s[x] = x
    BY <1>0, <1>2
  <2> HIDE DEF s
  <2> QED BY <2>1, <2>2, <2>3, <2>4 DEF Shuffles
<1>5. Rearranges(b, a, n, f, index)
  <2>1. b \in [1..n -> Sortable] /\ \A i \in 1..n : b[i] = a[s[i]]
    BY <1>0, <1>2
  <2> HIDE DEF b, s
  <2> QED BY <1>4, <2>1 DEF Rearranges
<1>6. InOrder(b, f, index)
  <2> SUFFICES ASSUME NEW i \in 1..n, NEW j \in 1..n, f <= i, i < j, j <= index
               PROVE  Key[b[i]] <= Key[b[j]]
    BY DEF InOrder
  <2>k. \A m \in 1..n : Key[a[m]] \in Int
    BY DEF QS!QuickSortAssumption
  <2>o. \A x, y \in 1..n : f <= x /\ x < y /\ y <= index - 1 => Key[a[x]] <= Key[a[y]]
    BY DEF InOrder
  <2>1. CASE j < p
    <3>1. b[i] = a[i] /\ b[j] = a[j] /\ j <= index - 1
      BY <1>0, <1>2, <2>1
    <3> QED BY <2>o, <3>1
  <2>2. CASE j = p
    <3>1. b[i] = a[i] /\ b[j] = a[index] /\ p - 1 \in 1..n /\ i <= p - 1 /\ p - 1 <= index - 1 /\ p # f
      BY <1>0, <1>2, <2>2
    <3>2. Key[a[i]] <= Key[a[p - 1]]
      BY <2>o, <2>k, <3>1
    <3> QED BY <1>2, <2>k, <3>1, <3>2
  <2>3. CASE p < j
    <3>1. b[j] = a[j - 1] /\ j - 1 \in 1..n /\ j - 1 <= index - 1
      BY <1>0, <1>2, <2>3
    <3>2. CASE i = p
      <4>1. b[i] = a[index] /\ j \in (p + 1)..index
        BY <1>0, <1>2, <2>3, <3>2
      <4> QED BY <1>2, <2>k, <3>1, <4>1
    <3>3. CASE i < p
      <4>1. b[i] = a[i] /\ i < j - 1
        BY <1>0, <1>2, <2>3, <3>3
      <4> QED BY <2>o, <3>1, <4>1
    <3>4. CASE p < i
      <4>1. b[i] = a[i - 1] /\ i - 1 < j - 1 /\ i - 1 \in 1..n /\ f <= i - 1
        BY <1>0, <1>2, <2>3, <3>4
      <4> QED BY <2>o, <3>1, <4>1
    <3> QED BY <1>0, <1>2, <3>2, <3>3, <3>4
  <2> QED BY <1>0, <1>2, <2>1, <2>2, <2>3
<1> QED BY <1>3, <1>5, <1>6

Inserts(g, a, f, m) ==
    g = [index \in f..m |-> IF index = f THEN a ELSE QS!Trailed(index, f)[g[index - 1]]]

LEMMA InsertsExists ==
    ASSUME NEW a, NEW f \in Int, NEW m \in Int, f <= m PROVE \E g : Inserts(g, a, f, m)
<1> DEFINE S == {k \in Nat : \E g : Inserts(g, a, f, f + k)}
<1>1. 0 \in S
  <2> DEFINE g == [index \in f..(f + 0) |-> a]
  <2>1. Inserts(g, a, f, f + 0)
    BY DEF Inserts
  <2> QED BY <2>1
<1>2. ASSUME NEW k \in Nat, k \in S PROVE k + 1 \in S
  <2>1. PICK g : Inserts(g, a, f, f + k)
    BY <1>2
  <2> DEFINE h == [index \in f..(f + (k + 1)) |->
                       IF index <= f + k THEN g[index] ELSE QS!Trailed(f + (k + 1), f)[g[f + k]]]
  <2>2. \A index \in f..(f + (k + 1)) :
            h[index] = IF index = f THEN a ELSE QS!Trailed(index, f)[h[index - 1]]
    <3> SUFFICES ASSUME NEW index \in f..(f + (k + 1))
                 PROVE  h[index] = IF index = f THEN a ELSE QS!Trailed(index, f)[h[index - 1]]
      OBVIOUS
    <3>1. CASE index <= f + k
      <4>1. h[index] = g[index] /\ (index # f => h[index - 1] = g[index - 1])
        BY <3>1
      <4>2. index \in f..(f + k)
        BY <3>1
      <4>3. g[index] = IF index = f THEN a ELSE QS!Trailed(index, f)[g[index - 1]]
        BY <2>1, <4>2 DEF Inserts
      <4> QED BY <4>1, <4>3
    <3>2. CASE ~(index <= f + k)
      <4>1. index = f + (k + 1) /\ index - 1 = f + k /\ index # f
        BY <3>2
      <4>2. h[index] = QS!Trailed(f + (k + 1), f)[g[f + k]] /\ h[f + k] = g[f + k]
        BY <4>1, <3>2
      <4> QED BY <4>1, <4>2
    <3> QED BY <3>1, <3>2
  <2>3. Inserts(h, a, f, f + (k + 1))
    <3> HIDE DEF h
    <3>1. h = [index \in f..(f + (k + 1)) |-> h[index]]
      BY DEF h
    <3> QED BY <2>2, <3>1 DEF Inserts
  <2> QED BY <2>3
<1>3. Nat \subseteq S
  <2> HIDE DEF S
  <2> QED BY <1>1, <1>2, SetInduction
<1>4. m - f \in S /\ f + (m - f) = m
  BY <1>3
<1> QED BY <1>4

(* The insertion sort sorts, by any order that is total.                    *)
LEMMA InsertionSorts ==
    ASSUME QS!QuickSortAssumption, NEW n \in Lengths, NEW a \in [1..n -> Sortable],
           NEW f \in 1..(n + 1), NEW m \in 0..n
    PROVE  LET b == QS!InsertionSorted(a, f, m) IN
           Rearranges(b, a, n, f, m) /\ InOrder(b, f, m)
<1>0. n \in Nat /\ f \in Nat /\ m \in Nat
  BY DEF QS!QuickSortAssumption
<1>1. CASE ~(f < m)
  <2>1. QS!InsertionSorted(a, f, m) = a
    BY <1>1 DEF QS!InsertionSorted
  <2>2. Rearranges(a, a, n, f, m)
    BY <1>0, SameOrder
  <2>3. InOrder(a, f, m)
    BY <1>0, <1>1 DEF InOrder
  <2> QED BY <2>1, <2>2, <2>3
<1>2. CASE f < m
  <2>0. f \in 1..n /\ m \in 1..n /\ f <= m
    BY <1>0, <1>2
  <2>1. PICK g : g = QS!Insertions(a, f, m)
    OBVIOUS
  <2>2. Inserts(g, a, f, m)
    <3>1. \E x : Inserts(x, a, f, m)
      BY <1>0, <2>0, InsertsExists
    <3>2. g = CHOOSE x : Inserts(x, a, f, m)
      BY <2>1 DEF Inserts, QS!Insertions
    <3> QED BY <3>1, <3>2
  <2> DEFINE Done(k) == Rearranges(g[f + k], a, n, f, f + k) /\ InOrder(g[f + k], f, f + k)
             S == {k \in Nat : f + k <= m => Done(k)}
  <2>3. 0 \in S
    <3>1. g[f + 0] = a
      BY <1>0, <2>0, <2>2 DEF Inserts
    <3>2. Rearranges(a, a, n, f, f + 0)
      BY <1>0, SameOrder
    <3>3. InOrder(a, f, f + 0)
      BY <1>0 DEF InOrder
    <3> QED BY <3>1, <3>2, <3>3
  <2>4. ASSUME NEW k \in Nat, k \in S PROVE k + 1 \in S
    <3> SUFFICES ASSUME f + (k + 1) <= m PROVE Done(k + 1)
      OBVIOUS
    <3>1. PICK i \in 1..n : i = f + (k + 1) /\ i - 1 = f + k /\ i \in f..m /\ i # f /\ f <= i
      BY <1>0, <2>0
    <3>2. Rearranges(g[i - 1], a, n, f, i - 1) /\ InOrder(g[i - 1], f, i - 1)
      BY <1>0, <2>4, <3>1
    <3>3. g[i] = QS!Trailed(i, f)[g[i - 1]]
      BY <2>2, <3>1 DEF Inserts
    <3>4. g[i - 1] \in [1..n -> Sortable]
      BY <3>2 DEF Rearranges
    <3>5. Rearranges(g[i], g[i - 1], n, f, i) /\ InOrder(g[i], f, i)
      BY <2>0, <3>1, <3>2, <3>3, <3>4, Trails
    <3>6. Rearranges(g[i - 1], a, n, f, i)
      BY <1>0, <3>1, <3>2, Wider
    <3>7. Rearranges(g[i], a, n, f, i)
      BY <1>0, <3>1, <3>4, <3>5, <3>6, OneThenTheOther
    <3> QED BY <3>1, <3>5, <3>7
  <2>5. Nat \subseteq S
    <3> HIDE DEF S
    <3> QED BY <2>3, <2>4, SetInduction
  <2>6. m - f \in S /\ f + (m - f) = m
    BY <1>0, <2>0, <2>5
  <2>7. QS!InsertionSorted(a, f, m) = g[m]
    BY <1>2, <2>1 DEF QS!InsertionSorted
  <2> QED BY <2>6, <2>7
<1> QED BY <1>1, <1>2

LEMMA Inside ==
    ASSUME NEW n \in Nat, NEW l \in Int, NEW r \in Int, NEW a, NEW b, Rearranges(b, a, n, l, r),
           NEW i \in 1..n
    PROVE  IF l <= i /\ i <= r THEN \E j \in 1..n : l <= j /\ j <= r /\ b[i] = a[j]
           ELSE b[i] = a[i]
<1>1. PICK p \in Shuffles(n, l, r) : \A k \in 1..n : b[k] = a[p[k]]
  BY DEF Rearranges
<1>2. p[i] \in 1..n /\ IF l <= i /\ i <= r THEN l <= p[i] /\ p[i] <= r ELSE p[i] = i
  BY <1>1 DEF Shuffles
<1> QED BY <1>1, <1>2

(* Two parts, each of which was sorted if it was short.                     *)
LEMMA SortsBothParts ==
    ASSUME QS!QuickSortAssumption, NEW n \in Lengths, NEW a \in [1..n -> Sortable],
           NEW l \in 1..n, NEW r \in 1..n, l <= r, NEW p, p = QS!Partitioned(a, l, r),
           NEW c, c = QS!SortedRight(QS!SortedLeft(p.a, l, p.store), p.store, r)
    PROVE  /\ p.store \in l..r
           /\ Rearranges(c, a, n, l, r)
           /\ \A i, j \in 1..n :
                 l <= i /\ i < j /\ j <= r =>
                     \/ Key[c[i]] <= Key[c[j]]
                     \/ j < p.store /\ p.store - l > Threshold
                     \/ p.store < i /\ r - p.store > Threshold
<1>0. n \in Nat /\ l \in Nat /\ r \in Nat
  BY DEF QS!QuickSortAssumption
<1>1. /\ p.store \in l..r
      /\ Rearranges(p.a, a, n, l, r)
      /\ \A m \in 1..n : l <= m /\ m < p.store => Key[p.a[m]] <= Key[p.a[p.store]]
      /\ \A m \in 1..n : p.store < m /\ m <= r => Key[p.a[p.store]] <= Key[p.a[m]]
  BY Partitions
<1>2. PICK v \in [1..n -> Sortable], t \in 1..n : v = p.a /\ t = p.store
  BY <1>0, <1>1 DEF Rearranges
<1>3. /\ l <= t /\ t <= r /\ Rearranges(v, a, n, l, r)
      /\ \A m \in 1..n : l <= m /\ m < t => Key[v[m]] <= Key[v[t]]
      /\ \A m \in 1..n : t < m /\ m <= r => Key[v[t]] <= Key[v[m]]
  BY <1>0, <1>1, <1>2
<1>4. PICK b : b = QS!SortedLeft(v, l, t)
  OBVIOUS
<1>5. Rearranges(b, v, n, l, t - 1) /\ (t - l <= Threshold => InOrder(b, l, t - 1))
  <2>1. CASE t - l <= Threshold
    <3>1. t - 1 \in 0..n /\ l \in 1..(n + 1)
      BY <1>0
    <3>2. b = QS!InsertionSorted(v, l, t - 1)
      BY <1>4, <2>1 DEF QS!SortedLeft
    <3> QED BY <3>1, <3>2, InsertionSorts
  <2>2. CASE ~(t - l <= Threshold)
    <3>1. b = v
      BY <1>4, <2>2 DEF QS!SortedLeft
    <3> QED BY <1>0, <2>2, <3>1, SameOrder
  <2> QED BY <2>1, <2>2
<1>6. b \in [1..n -> Sortable]
  BY <1>5 DEF Rearranges
<1>7. c = QS!SortedRight(b, t, r)
  BY <1>2, <1>4
<1>8. Rearranges(c, b, n, t + 1, r) /\ (r - t <= Threshold => InOrder(c, t + 1, r))
  <2>1. CASE r - t <= Threshold
    <3>1. r \in 0..n /\ t + 1 \in 1..(n + 1)
      BY <1>0
    <3>2. c = QS!InsertionSorted(b, t + 1, r)
      BY <1>7, <2>1 DEF QS!SortedRight
    <3> QED BY <1>6, <3>1, <3>2, InsertionSorts
  <2>2. CASE ~(r - t <= Threshold)
    <3>1. c = b
      BY <1>7, <2>2 DEF QS!SortedRight
    <3> QED BY <1>0, <1>6, <2>2, <3>1, SameOrder
  <2> QED BY <2>1, <2>2
<1>9. Rearranges(c, a, n, l, r)
  <2>1. Rearranges(b, v, n, l, r)
    BY <1>0, <1>3, <1>5, Wider
  <2>2. Rearranges(c, b, n, l, r)
    BY <1>0, <1>3, <1>8, Wider
  <2>3. Rearranges(b, a, n, l, r)
    BY <1>0, <1>3, <2>1, OneThenTheOther
  <2> QED BY <1>0, <2>2, <2>3, OneThenTheOther
<1>k. (\A m \in 1..n : Key[v[m]] \in Int) /\ Threshold \in Nat
  BY DEF QS!QuickSortAssumption
<1>10. c \in [1..n -> Sortable] /\ DOMAIN b = 1..n /\ DOMAIN c = 1..n
  BY <1>6, <1>8 DEF Rearranges
<1>11. \A i \in 1..n : l <= i /\ i < t => c[i] = b[i] /\ \E m \in 1..n : l <= m /\ m < t /\ c[i] = v[m]
  <2> SUFFICES ASSUME NEW i \in 1..n, l <= i, i < t
               PROVE  c[i] = b[i] /\ \E m \in 1..n : l <= m /\ m < t /\ c[i] = v[m]
    OBVIOUS
  <2>1. ~(t + 1 <= i /\ i <= r) /\ l <= i /\ i <= t - 1
    BY <1>0
  <2>2. c[i] = b[i]
    BY <1>0, <1>8, <2>1, Inside
  <2>3. \E m \in 1..n : l <= m /\ m <= t - 1 /\ b[i] = v[m]
    BY <1>0, <1>5, <2>1, Inside
  <2> QED BY <1>0, <2>2, <2>3
<1>12. c[t] = v[t]
  <2>1. c[t] = b[t]
    BY <1>0, <1>8, Inside
  <2>2. b[t] = v[t]
    BY <1>0, <1>5, Inside
  <2> QED BY <2>1, <2>2
<1>13. \A j \in 1..n : t < j /\ j <= r => \E m \in 1..n : t < m /\ m <= r /\ c[j] = v[m]
  <2> SUFFICES ASSUME NEW j \in 1..n, t < j, j <= r
               PROVE  \E m \in 1..n : t < m /\ m <= r /\ c[j] = v[m]
    OBVIOUS
  <2>1. t + 1 <= j /\ j <= r /\ t + 1 \in Int /\ t - 1 \in Int
    BY <1>0
  <2>a. \E m \in 1..n : t + 1 <= m /\ m <= r /\ c[j] = b[m]
    BY <1>0, <1>8, <2>1, Inside
  <2>2. PICK m \in 1..n : t + 1 <= m /\ m <= r /\ c[j] = b[m]
    BY <2>a
  <2>b. ~(l <= m /\ m <= t - 1)
    BY <1>0, <2>2
  <2>3. b[m] = v[m]
    BY <1>0, <1>5, <2>1, <2>b, Inside
  <2> QED BY <1>0, <2>2, <2>3
<1>14. ASSUME NEW i \in 1..n, NEW j \in 1..n, l <= i, i < j, j <= r,
              ~(j < t /\ t - l > Threshold), ~(t < i /\ r - t > Threshold)
       PROVE  Key[c[i]] <= Key[c[j]]
  <2>1. CASE j < t
    <3>1. t - l <= Threshold /\ j <= t - 1
      BY <1>0, <1>k, <1>14, <2>1
    <3>2. Key[b[i]] <= Key[b[j]]
      BY <1>5, <1>10, <1>14, <3>1 DEF InOrder
    <3>3. c[i] = b[i] /\ c[j] = b[j]
      BY <1>0, <1>11, <1>14, <2>1
    <3> QED BY <3>2, <3>3
  <2>2. CASE t < i
    <3>1. r - t <= Threshold /\ t + 1 <= i
      BY <1>0, <1>k, <1>14, <2>2
    <3> QED BY <1>8, <1>10, <1>14, <3>1 DEF InOrder
  <2>3. CASE i <= t /\ t <= j
    <3>1. Key[c[i]] <= Key[v[t]]
      <4>1. CASE i = t
        BY <1>12, <1>k, <4>1
      <4>2. CASE i # t
        BY <1>0, <1>3, <1>11, <1>14, <2>3, <4>2
      <4> QED BY <4>1, <4>2
    <3>2. Key[v[t]] <= Key[c[j]]
      <4>1. CASE j = t
        BY <1>12, <1>k, <4>1
      <4>2. CASE j # t
        BY <1>0, <1>3, <1>13, <1>14, <2>3, <4>2
      <4> QED BY <4>1, <4>2
    <3>3. Key[c[i]] \in Int /\ Key[c[j]] \in Int
      BY <1>10 DEF QS!QuickSortAssumption
    <3> QED BY <1>k, <3>1, <3>2, <3>3
  <2> QED BY <1>0, <2>1, <2>2, <2>3
<1> HIDE DEF Rearranges
<1> QED BY <1>1, <1>2, <1>9, <1>14

(* What a partition leaves to sort.                                        *)
Left(l, t) == <<l, t - 1>>
Right(t, r) == <<t + 1, r>>
LeavesLeft(l, t) == t - l > Threshold /\ l < t - 1
LeavesRight(t, r) == r - t > Threshold /\ t + 1 < r

PushedOK(q, l, t, r) ==
    /\ \A k \in 1..Len(q) : \/ LeavesLeft(l, t) /\ q[k] = Left(l, t)
                            \/ LeavesRight(t, r) /\ q[k] = Right(t, r)
    /\ \A j, k \in 1..Len(q) : j # k => q[j] # q[k]
    /\ LeavesLeft(l, t) => \E k \in 1..Len(q) : q[k] = Left(l, t)
    /\ LeavesRight(t, r) => \E k \in 1..Len(q) : q[k] = Right(t, r)

LEMMA PushedBoundaries ==
    ASSUME NEW l \in Nat, NEW t \in Nat, NEW r \in Nat, NEW B,
           LeavesLeft(l, t) => Left(l, t) \in B, LeavesRight(t, r) => Right(t, r) \in B,
           NEW q, q = QS!Pushed(l, t, r)
    PROVE  q \in Seq(B) /\ PushedOK(q, l, t, r)
<1> DEFINE L == Left(l, t)
           R == Right(t, r)
<1>1. LeavesLeft(l, t) => L # R
  BY DEF Left, Right, LeavesLeft
<1>2. QS!PushedLeft(l, t) = IF LeavesLeft(l, t) THEN <<L>> ELSE << >>
  BY DEF QS!PushedLeft, LeavesLeft, Left
<1>3. QS!PushedRight(t, r) = IF LeavesRight(t, r) THEN <<R>> ELSE << >>
  BY DEF QS!PushedRight, LeavesRight, Right
<1>4. q = QS!PushedRight(t, r) \o QS!PushedLeft(l, t) \/ q = QS!PushedLeft(l, t) \o QS!PushedRight(t, r)
  BY DEF QS!Pushed
<1> HIDE DEF L, R
<1>5. CASE LeavesLeft(l, t) /\ LeavesRight(t, r)
  <2>0. L \in B /\ R \in B
    BY <1>5 DEF L, R
  <2>1. q = <<R>> \o <<L>> \/ q = <<L>> \o <<R>>
    BY <1>2, <1>3, <1>4, <1>5
  <2>2. PICK x \in B, y \in B : q = <<x>> \o <<y>> /\ ((x = R /\ y = L) \/ (x = L /\ y = R))
    BY <2>0, <2>1
  <2>a. <<x>> \in Seq(B) /\ <<y>> \in Seq(B) /\ Len(<<x>>) = 1 /\ Len(<<y>>) = 1
    OBVIOUS
  <2>3. q \in Seq(B) /\ Len(q) = 2
    BY <2>a, <2>2, ConcatProperties
  <2>b. q[1] = x /\ q[2] = y
    BY <2>a, <2>2, ConcatProperties
  <2>4. (q[1] = R /\ q[2] = L) \/ (q[1] = L /\ q[2] = R)
    BY <2>2, <2>b
  <2>5. 1..Len(q) = {1, 2}
    BY <2>3
  <2> QED BY <1>1, <1>5, <2>3, <2>4, <2>5 DEF L, R, PushedOK
<1>6. CASE LeavesLeft(l, t) /\ ~LeavesRight(t, r)
  <2>0. L \in B
    BY <1>6 DEF L
  <2>1. q = << >> \o <<L>> \/ q = <<L>> \o << >>
    BY <1>2, <1>3, <1>4, <1>6
  <2>2. q = <<L>>
    BY <2>0, <2>1
  <2>3. q \in Seq(B) /\ Len(q) = 1 /\ q[1] = L
    BY <2>0, <2>2
  <2> QED BY <1>6, <2>3 DEF L, PushedOK
<1>7. CASE ~LeavesLeft(l, t) /\ LeavesRight(t, r)
  <2>0. R \in B
    BY <1>7 DEF R
  <2>1. q = << >> \o <<R>> \/ q = <<R>> \o << >>
    BY <1>2, <1>3, <1>4, <1>7
  <2>2. q = <<R>>
    BY <2>0, <2>1
  <2>3. q \in Seq(B) /\ Len(q) = 1 /\ q[1] = R
    BY <2>0, <2>2
  <2> QED BY <1>7, <2>3 DEF R, PushedOK
<1>8. CASE ~LeavesLeft(l, t) /\ ~LeavesRight(t, r)
  <2>1. q = << >> \o << >>
    BY <1>2, <1>3, <1>4, <1>8
  <2>2. q = << >>
    BY <2>1
  <2>3. q \in Seq(B) /\ Len(q) = 0
    BY <2>2
  <2> QED BY <1>8, <2>3 DEF PushedOK
<1> QED BY <1>5, <1>6, <1>7, <1>8

Boundaries(n) == {b \in (1..n) \X (1..n) : b[1] <= b[2]}

Spans(b, i, j) == b[1] <= i /\ j <= b[2]

SortTyped(n) ==
    /\ given \in [1..n -> Sortable]
    /\ Rearranges(array, given, n, 1, n)
    /\ recursion \in Seq(Boundaries(n))

(* Two boundaries on the stack have nothing in common ...                  *)
BoundariesApart ==
    \A j, k \in 1..Len(recursion) :
        j # k => recursion[j][2] < recursion[k][1] \/ recursion[k][2] < recursion[j][1]

(* ... and what none of them spans is in order.                            *)
RestInOrder(n) ==
    \A i, j \in 1..n :
        i < j /\ (\A k \in 1..Len(recursion) : ~Spans(recursion[k], i, j))
        => Key[array[i]] <= Key[array[j]]

SortInv == \E n \in Lengths : SortTyped(n) /\ BoundariesApart /\ RestInOrder(n)

LEMMA SortInit == ASSUME QS!QuickSortAssumption, QS!Init PROVE SortInv
<1>1. PICK n \in Lengths : given \in [1..n -> Sortable]
  BY DEF QS!Init, QS!Contents
<1>2. n \in Nat \ {0}
  BY DEF QS!QuickSortAssumption
<1>3. Len(given) = n
  BY <1>1, <1>2
<1>4. recursion = <<<<1, n>>>> /\ array = given
  BY <1>3 DEF QS!Init
<1>5. <<1, n>> \in Boundaries(n)
  BY <1>2 DEF Boundaries
<1>6. recursion \in Seq(Boundaries(n)) /\ Len(recursion) = 1 /\ recursion[1] = <<1, n>>
  BY <1>4, <1>5
<1>7. SortTyped(n)
  BY <1>1, <1>2, <1>4, <1>6, SameOrder DEF SortTyped
<1>8. BoundariesApart
  BY <1>6 DEF BoundariesApart
<1>9. RestInOrder(n)
  <2> SUFFICES ASSUME NEW i \in 1..n, NEW j \in 1..n, ~Spans(recursion[1], i, j) PROVE FALSE
    BY <1>6 DEF RestInOrder
  <2> QED BY <1>2, <1>6 DEF Spans
<1> QED BY <1>7, <1>8, <1>9 DEF SortInv

(* Without the boundary on top and with those of its parts that are left,  *)
(* boundaries are still apart.                                             *)
StackOK(s, m, n, l, t, r) ==
    /\ s \in Seq(Boundaries(n))
    /\ \A k \in 1..m : k \in 1..Len(s) /\ s[k] = recursion[k]
    /\ LeavesLeft(l, t) => \E k \in 1..Len(s) : s[k] = Left(l, t)
    /\ LeavesRight(t, r) => \E k \in 1..Len(s) : s[k] = Right(t, r)
    /\ \A j, k \in 1..Len(s) : j # k => s[j][2] < s[k][1] \/ s[k][2] < s[j][1]

LEMMA PartsOfBoundary ==
    ASSUME NEW l \in Nat, NEW t \in Nat, NEW r \in Nat, l <= t, t <= r,
           NEW u, u = Left(l, t) \/ u = Right(t, r)
    PROVE  /\ u[1] \in Int /\ u[2] \in Int /\ l <= u[1] /\ u[2] <= r
           /\ (u = Left(l, t) => u[2] < t) /\ (u = Right(t, r) => t < u[1])
<1>1. CASE u = Left(l, t)
  <2>1. u = <<l, t - 1>> /\ u[1] = l /\ u[2] = t - 1
    BY <1>1 DEF Left
  <2>2. u # Right(t, r)
    BY <2>1 DEF Right
  <2> QED BY <2>1, <2>2
<1>2. CASE u = Right(t, r)
  <2>1. u = <<t + 1, r>> /\ u[1] = t + 1 /\ u[2] = r
    BY <1>2 DEF Right
  <2>2. u # Left(l, t)
    BY <2>1 DEF Left
  <2> QED BY <2>1, <2>2
<1> QED BY <1>1, <1>2

LEMMA StackKeeps ==
    ASSUME NEW n \in Nat, recursion \in Seq(Boundaries(n)), BoundariesApart, recursion # << >>,
           NEW l \in 1..n, NEW t \in 1..n, NEW r \in 1..n, l <= t, t <= r,
           NEW m, m = Len(recursion) - 1, recursion[Len(recursion)] = <<l, r>>
    PROVE  StackOK(QS!Front(recursion) \o QS!Pushed(l, t, r), m, n, l, t, r)
<1> DEFINE B == Boundaries(n)
<1>1. PICK f, q, s : f = QS!Front(recursion) /\ q = QS!Pushed(l, t, r) /\ s = f \o q
  OBVIOUS
<1>0. l \in Nat /\ t \in Nat /\ r \in Nat
  OBVIOUS
<1>2. m \in Nat /\ m + 1 = Len(recursion)
  BY Popped
<1>3. f \in Seq(B) /\ Len(f) = m /\ \A k \in 1..m : f[k] = recursion[k]
  BY <1>1, <1>2, Popped
<1>4. (LeavesLeft(l, t) => Left(l, t) \in B) /\ (LeavesRight(t, r) => Right(t, r) \in B)
  BY DEF LeavesLeft, LeavesRight, Left, Right, Boundaries
<1>5. q \in Seq(B) /\ PushedOK(q, l, t, r)
  <2> HIDE DEF B
  <2> QED BY <1>0, <1>1, <1>4, PushedBoundaries
<1>6. PICK o \in Nat : o = Len(q)
  BY <1>5, LenProperties
<1>7. /\ s \in Seq(B) /\ Len(s) = m + o
      /\ \A k \in 1..(m + o) : s[k] = IF k <= m THEN f[k] ELSE q[k - m]
  <2> HIDE DEF B
  <2>1. s = f \o q
    BY <1>1
  <2>2. /\ f \o q \in Seq(B) /\ Len(f \o q) = Len(f) + Len(q)
        /\ \A k \in 1..(Len(f) + Len(q)) : (f \o q)[k] = IF k <= Len(f) THEN f[k] ELSE q[k - Len(f)]
    BY <1>3, <1>5, ConcatProperties
  <2> QED BY <1>3, <1>6, <2>1, <2>2
<1>a. Len(s) = m + o /\ \A k \in 1..Len(s) : s[k] = IF k <= m THEN f[k] ELSE q[k - m]
  BY <1>7
<1>b. \A k \in 1..m : f[k] = recursion[k]
  BY <1>3
<1>8. ASSUME NEW k \in 1..m PROVE k \in 1..Len(s) /\ s[k] = recursion[k]
  <2>1. k \in 1..Len(s) /\ k <= m
    BY <1>a
  <2> QED BY <1>a, <1>b, <2>1
<1>9. ASSUME NEW k \in 1..Len(s)
      PROVE  \/ k \in 1..m /\ s[k] = recursion[k]
             \/ /\ k - m \in 1..o /\ s[k] = q[k - m] /\ ~(k \in 1..m)
                /\ \/ LeavesLeft(l, t) /\ s[k] = Left(l, t)
                   \/ LeavesRight(t, r) /\ s[k] = Right(t, r)
  <2>1. CASE k <= m
    <3>1. k \in 1..m
      BY <1>a, <2>1
    <3> QED BY <1>8, <3>1
  <2>2. CASE ~(k <= m)
    <3>1. k - m \in 1..o /\ ~(k \in 1..m) /\ s[k] = q[k - m]
      BY <1>2, <1>a, <2>2
    <3>2. \/ LeavesLeft(l, t) /\ q[k - m] = Left(l, t)
          \/ LeavesRight(t, r) /\ q[k - m] = Right(t, r)
      BY <1>5, <1>6, <3>1 DEF PushedOK
    <3> QED BY <3>1, <3>2
  <2> QED BY <2>1, <2>2
<1>10. ASSUME NEW k \in 1..o PROVE k + m \in 1..Len(s) /\ s[k + m] = q[k]
  <2>1. k + m \in 1..(m + o) /\ ~(k + m <= m) /\ (k + m) - m = k
    OBVIOUS
  <2> QED BY <1>a, <2>1
<1>11. LeavesLeft(l, t) => \E k \in 1..Len(s) : s[k] = Left(l, t)
  BY <1>5, <1>6, <1>10 DEF PushedOK
<1>12. LeavesRight(t, r) => \E k \in 1..Len(s) : s[k] = Right(t, r)
  BY <1>5, <1>6, <1>10 DEF PushedOK
<1>13. ASSUME NEW j \in 1..Len(s), NEW k \in 1..Len(s), j # k
       PROVE  s[j][2] < s[k][1] \/ s[k][2] < s[j][1]
  <2>1. \A i \in 1..m : recursion[i] \in B /\ (recursion[i][2] < l \/ r < recursion[i][1])
    <3> SUFFICES ASSUME NEW i \in 1..m
                 PROVE  recursion[i] \in B /\ (recursion[i][2] < l \/ r < recursion[i][1])
      OBVIOUS
    <3>1. i \in 1..Len(recursion) /\ m + 1 \in 1..Len(recursion) /\ i # m + 1
      BY <1>2
    <3>2. recursion[i] \in B
      BY <3>1, ElementOfSeq
    <3>3. recursion[m + 1][1] = l /\ recursion[m + 1][2] = r
      BY <1>2
    <3> QED BY <3>1, <3>2, <3>3 DEF BoundariesApart
  <2>2. CASE j \in 1..m /\ k \in 1..m
    <3>1. s[j] = recursion[j] /\ s[k] = recursion[k] /\ j \in 1..Len(recursion) /\ k \in 1..Len(recursion)
      BY <1>2, <1>8, <2>2
    <3> QED BY <1>13, <3>1 DEF BoundariesApart
  <2>3. PICK u, w : u = s[j] /\ w = s[k]
    OBVIOUS
  <2>4. u[1] \in Int /\ u[2] \in Int /\ w[1] \in Int /\ w[2] \in Int
    <3>1. u \in B /\ w \in B
      <4> HIDE DEF B
      <4> QED BY <1>7, <2>3, ElementOfSeq
    <3> QED BY <3>1 DEF Boundaries
  <2>5. CASE j \in 1..m /\ ~(k \in 1..m)
    <3>1. u[2] < l \/ r < u[1]
      BY <1>8, <2>1, <2>3, <2>5
    <3>2. w = Left(l, t) \/ w = Right(t, r)
      BY <1>9, <2>3, <2>5
    <3>3. l <= w[1] /\ w[2] <= r
      BY <1>0, <3>2, PartsOfBoundary
    <3>4. u[2] < w[1] \/ w[2] < u[1]
      BY <1>0, <2>4, <3>1, <3>3
    <3> QED BY <2>3, <3>4, Zenon
  <2>6. CASE ~(j \in 1..m) /\ k \in 1..m
    <3>1. w[2] < l \/ r < w[1]
      BY <1>8, <2>1, <2>3, <2>6
    <3>2. u = Left(l, t) \/ u = Right(t, r)
      BY <1>9, <2>3, <2>6
    <3>3. l <= u[1] /\ u[2] <= r
      BY <1>0, <3>2, PartsOfBoundary
    <3>4. u[2] < w[1] \/ w[2] < u[1]
      BY <1>0, <2>4, <3>1, <3>3
    <3> QED BY <2>3, <3>4, Zenon
  <2>7. CASE ~(j \in 1..m) /\ ~(k \in 1..m)
    <3>1. j - m \in 1..o /\ k - m \in 1..o /\ j - m # k - m /\ s[j] = q[j - m] /\ s[k] = q[k - m]
      BY <1>9, <1>13, <2>7
    <3>2. u # w
      BY <1>5, <1>6, <2>3, <3>1 DEF PushedOK
    <3>3. (u = Left(l, t) /\ w = Right(t, r)) \/ (u = Right(t, r) /\ w = Left(l, t))
      BY <1>9, <2>3, <2>7, <3>2
    <3>4. u[2] < w[1] \/ w[2] < u[1]
      <4>1. /\ (u = Left(l, t) => u[2] < t) /\ (u = Right(t, r) => t < u[1])
            /\ (w = Left(l, t) => w[2] < t) /\ (w = Right(t, r) => t < w[1])
        BY <1>0, <3>3, PartsOfBoundary
      <4> QED BY <1>0, <2>4, <3>3, <4>1
    <3> QED BY <2>3, <3>4, Zenon
  <2> QED BY <2>2, <2>5, <2>6, <2>7
<1>14. StackOK(s, m, n, l, t, r)
  BY <1>7, <1>8, <1>11, <1>12, <1>13 DEF StackOK
<1> QED BY <1>1, <1>14

LEMMA PartitionKeeps == ASSUME QS!QuickSortAssumption, SortInv, QS!Partition PROVE SortInv'
<1>1. PICK n \in Lengths : SortTyped(n) /\ BoundariesApart /\ RestInOrder(n)
  BY DEF SortInv
<1>2. n \in Nat
  BY DEF QS!QuickSortAssumption
<1>3. recursion # << >> /\ recursion \in Seq(Boundaries(n)) /\ array \in [1..n -> Sortable]
  BY <1>1 DEF SortTyped, Rearranges, QS!Partition
<1>4. PICK l \in 1..n, r \in 1..n : l <= r /\ recursion[Len(recursion)] = <<l, r>>
  <2>1. recursion[Len(recursion)] \in Boundaries(n)
    BY <1>3, Popped
  <2> QED BY <2>1 DEF Boundaries
<1>5. PICK top : top = Len(recursion)
  OBVIOUS
<1>6. top \in Nat \ {0} /\ QS!Last(recursion) = <<l, r>>
  BY <1>3, <1>4, <1>5, Popped
<1>7. PICK p : p = QS!Partitioned(array, l, r)
  OBVIOUS
<1>8. /\ array' = QS!SortedRight(QS!SortedLeft(p.a, l, p.store), p.store, r)
      /\ recursion' = QS!Front(recursion) \o QS!Pushed(l, p.store, r)
      /\ given' = given
  BY <1>6, <1>7 DEF QS!Partition
<1>9. PICK c, s : c = array' /\ s = recursion'
  OBVIOUS
<1>10. PICK t \in 1..n :
          /\ t = p.store /\ l <= t /\ t <= r
          /\ Rearranges(c, array, n, l, r)
          /\ \A i, j \in 1..n :
                l <= i /\ i < j /\ j <= r =>
                    \/ Key[c[i]] <= Key[c[j]]
                    \/ j < t /\ t - l > Threshold
                    \/ t < i /\ r - t > Threshold
  <2>1. /\ p.store \in l..r
        /\ Rearranges(c, array, n, l, r)
        /\ \A i, j \in 1..n :
              l <= i /\ i < j /\ j <= r =>
                  \/ Key[c[i]] <= Key[c[j]]
                  \/ j < p.store /\ p.store - l > Threshold
                  \/ p.store < i /\ r - p.store > Threshold
    BY <1>3, <1>4, <1>7, <1>8, <1>9, SortsBothParts
  <2>2. p.store \in 1..n /\ l <= p.store /\ p.store <= r
    BY <1>2, <2>1
  <2> QED BY <2>1, <2>2
<1>b. StackOK(QS!Front(recursion) \o QS!Pushed(l, t, r), top - 1, n, l, t, r)
  <2>1. recursion[Len(recursion)] = <<l, r>> /\ top - 1 = Len(recursion) - 1
    BY <1>4, <1>5
  <2>2. recursion \in Seq(Boundaries(n)) /\ BoundariesApart /\ recursion # << >>
    BY <1>1, <1>3
  <2> QED BY <1>2, <1>10, <2>1, <2>2, StackKeeps
<1>11. StackOK(s, top - 1, n, l, t, r)
  BY <1>8, <1>9, <1>10, <1>b
<1>12. SortTyped(n)'
  <2>0. l \in Int /\ r \in Int /\ 1 <= l /\ r <= n
    BY <1>2
  <2>1. Rearranges(c, array, n, 1, n)
    BY <1>2, <1>10, <2>0, Wider
  <2>2. Rearranges(c, given, n, 1, n)
    BY <1>1, <1>2, <2>1, OneThenTheOther DEF SortTyped
  <2> QED BY <1>1, <1>8, <1>9, <1>11, <2>2 DEF SortTyped, StackOK
<1>13. BoundariesApart'
  BY <1>9, <1>11 DEF BoundariesApart, StackOK
<1>14. ASSUME NEW i \in 1..n, NEW j \in 1..n, i < j, \A k \in 1..Len(s) : ~Spans(s[k], i, j)
       PROVE  Key[c[i]] <= Key[c[j]]
  <2>1. ASSUME NEW x \in 1..n, NEW y \in 1..n, x < y, ~(l <= x /\ y <= r),
               \A k \in 1..(top - 1) : ~Spans(recursion[k], x, y)
        PROVE  Key[array[x]] <= Key[array[y]]
    <3>1. ~Spans(recursion[top], x, y)
      BY <1>4, <1>5, <2>1 DEF Spans
    <3>2. \A k \in 1..Len(recursion) : ~Spans(recursion[k], x, y)
      BY <1>5, <1>6, <2>1, <3>1
    <3> QED BY <1>1, <2>1, <3>2 DEF RestInOrder
  <2>2. \A k \in 1..(top - 1) : ~Spans(recursion[k], i, j)
    BY <1>11, <1>14 DEF StackOK
  <2>3. \A k \in 1..(top - 1) : /\ recursion[k][1] \in Int /\ recursion[k][2] \in Int
                                /\ recursion[k][2] < l \/ r < recursion[k][1]
    <3> SUFFICES ASSUME NEW k \in 1..(top - 1)
                 PROVE  /\ recursion[k][1] \in Int /\ recursion[k][2] \in Int
                        /\ recursion[k][2] < l \/ r < recursion[k][1]
      OBVIOUS
    <3>1. k \in 1..Len(recursion) /\ top \in 1..Len(recursion) /\ k # top
      BY <1>5, <1>6
    <3>2. recursion[k] \in Boundaries(n)
      BY <1>3, <3>1, ElementOfSeq
    <3>3. recursion[top][1] = l /\ recursion[top][2] = r
      BY <1>4, <1>5
    <3> QED BY <1>1, <3>1, <3>2, <3>3 DEF BoundariesApart, Boundaries
  <2>4. CASE ~(l <= i /\ i <= r) /\ ~(l <= j /\ j <= r)
    <3>1. c[i] = array[i] /\ c[j] = array[j]
      BY <1>2, <1>10, <2>4, Inside
    <3> QED BY <1>14, <2>1, <2>2, <2>4, <3>1
  <2>5. CASE ~(l <= i /\ i <= r) /\ l <= j /\ j <= r
    <3>0. \E y \in 1..n : l <= y /\ y <= r /\ c[j] = array[y]
      <4>1. l \in Int /\ r \in Int /\ j \in 1..n /\ Rearranges(c, array, n, l, r)
        BY <1>10
      <4>2. IF l <= j /\ j <= r THEN \E y \in 1..n : l <= y /\ y <= r /\ c[j] = array[y]
            ELSE c[j] = array[j]
        BY <1>2, <4>1, Inside
      <4> QED BY <2>5, <4>2
    <3>1. PICK y \in 1..n : l <= y /\ y <= r /\ c[j] = array[y]
      BY <3>0
    <3>2. c[i] = array[i] /\ i < y
      BY <1>2, <1>10, <1>14, <2>5, <3>1, Inside
    <3>3. \A k \in 1..(top - 1) : ~Spans(recursion[k], i, y)
      BY <1>2, <2>3, <3>1, <3>2, <2>5, <1>14 DEF Spans
    <3> QED BY <2>1, <2>5, <3>1, <3>2, <3>3
  <2>6. CASE l <= i /\ i <= r /\ ~(l <= j /\ j <= r)
    <3>1. PICK x \in 1..n : l <= x /\ x <= r /\ c[i] = array[x]
      BY <1>2, <1>10, <2>6, Inside
    <3>2. c[j] = array[j] /\ x < j
      <4>1. l \in Int /\ r \in Int /\ j \in 1..n /\ Rearranges(c, array, n, l, r)
        BY <1>10
      <4>2. IF l <= j /\ j <= r THEN \E y \in 1..n : l <= y /\ y <= r /\ c[j] = array[y]
            ELSE c[j] = array[j]
        BY <1>2, <4>1, Inside
      <4>3. c[j] = array[j]
        BY <2>6, <4>2
      <4>4. x < j
        BY <1>2, <1>14, <2>6, <3>1
      <4> QED BY <4>3, <4>4
    <3>3. \A k \in 1..(top - 1) : ~Spans(recursion[k], x, j)
      BY <1>2, <2>3, <3>1, <3>2, <2>6, <1>14 DEF Spans
    <3> QED BY <2>1, <2>6, <3>1, <3>2, <3>3
  <2>7. CASE l <= i /\ i <= r /\ l <= j /\ j <= r
    <3>1. ~(j < t /\ t - l > Threshold)
      <4> SUFFICES ASSUME j < t, t - l > Threshold PROVE FALSE
        OBVIOUS
      <4>1. LeavesLeft(l, t)
        BY <1>14, <2>7 DEF LeavesLeft
      <4>2. PICK k \in 1..Len(s) : s[k] = Left(l, t)
        BY <1>11, <4>1 DEF StackOK
      <4>3. Spans(s[k], i, j)
        BY <2>7, <4>2 DEF Left, Spans
      <4> QED BY <1>14, <4>3
    <3>2. ~(t < i /\ r - t > Threshold)
      <4> SUFFICES ASSUME t < i, r - t > Threshold PROVE FALSE
        OBVIOUS
      <4>1. LeavesRight(t, r)
        BY <1>14, <2>7 DEF LeavesRight
      <4>2. PICK k \in 1..Len(s) : s[k] = Right(t, r)
        BY <1>11, <4>1 DEF StackOK
      <4>3. Spans(s[k], i, j)
        BY <2>7, <4>2 DEF Right, Spans
      <4> QED BY <1>14, <4>3
    <3> QED BY <1>10, <1>14, <2>7, <3>1, <3>2
  <2> QED BY <2>4, <2>5, <2>6, <2>7
<1>15. RestInOrder(n)'
  BY <1>9, <1>14 DEF RestInOrder, Spans
<1> QED BY <1>12, <1>13, <1>15 DEF SortInv

(* What is only rearranged holds each element as often as before.           *)
Times(n, a, v) == Cardinality({i \in 1..n : a[i] = v})

LEMMA SameElements ==
    ASSUME NEW n \in Nat, NEW a \in [1..n -> Sortable], NEW b, Rearranges(b, a, n, 1, n), NEW v
    PROVE  Times(n, b, v) = Times(n, a, v)
<1>1. PICK p \in Shuffles(n, 1, n) : \A i \in 1..n : b[i] = a[p[i]]
  BY DEF Rearranges
<1>2. /\ p \in [1..n -> 1..n] /\ \A i, j \in 1..n : p[i] = p[j] => i = j
      /\ \A j \in 1..n : \E i \in 1..n : p[i] = j
  BY <1>1 DEF Shuffles
<1> DEFINE S == {i \in 1..n : b[i] = v}
           T == {i \in 1..n : a[i] = v}
           f == [i \in S |-> p[i]]
<1>3. f \in [S -> T]
  BY <1>1, <1>2
<1>4. f \in Injection(S, T)
  <2>1. \A i, j \in S : f[i] = f[j] => i = j
    BY <1>2
  <2>2. IsInjective(f)
    BY <2>1 DEF IsInjective
  <2> HIDE DEF f, S, T
  <2> QED BY <1>3, <2>2 DEF Injection
<1>5. f \in Surjection(S, T)
  <2>1. ASSUME NEW j \in T PROVE \E i \in S : f[i] = j
    <3>1. PICK i \in 1..n : p[i] = j
      BY <1>2
    <3>2. i \in S /\ f[i] = j
      BY <1>1, <3>1
    <3> QED BY <3>2
  <2> HIDE DEF f, S, T
  <2> QED BY <1>3, <2>1 DEF Surjection
<1>6. ExistsBijection(S, T)
  <2> HIDE DEF f, S, T
  <2> QED BY <1>4, <1>5 DEF ExistsBijection, Bijection
<1>7. IsFiniteSet(S)
  <2>1. IsFiniteSet(1..n) /\ S \subseteq 1..n
    BY FS_Interval
  <2> HIDE DEF S
  <2> QED BY <2>1, FS_Subset
<1> HIDE DEF S, T
<1>8. Cardinality(T) = Cardinality(S)
  BY <1>6, <1>7, FS_Bijection
<1> QED BY <1>8 DEF S, T, Times

LEMMA SortedEnough == ASSUME QS!QuickSortAssumption, SortInv PROVE QS!Sorts
<1>1. PICK n \in Lengths : SortTyped(n) /\ RestInOrder(n)
  BY DEF SortInv
<1>2. n \in Nat
  BY DEF QS!QuickSortAssumption
<1>3. array \in [1..n -> Sortable] /\ given \in [1..n -> Sortable] /\ Rearranges(array, given, n, 1, n)
  BY <1>1 DEF SortTyped, Rearranges
<1>4. \A v \in Sortable : Cardinality({i \in DOMAIN array : array[i] = v})
                          = Cardinality({i \in DOMAIN given : given[i] = v})
  <2> SUFFICES ASSUME NEW v \in Sortable
               PROVE  Cardinality({i \in DOMAIN array : array[i] = v})
                      = Cardinality({i \in DOMAIN given : given[i] = v})
    OBVIOUS
  <2>1. DOMAIN array = 1..n /\ DOMAIN given = 1..n
    BY <1>3
  <2>2. Cardinality({i \in 1..n : array[i] = v}) = Cardinality({i \in 1..n : given[i] = v})
    <3>1. Times(n, array, v) = Times(n, given, v)
      BY <1>2, <1>3, SameElements
    <3> QED BY <3>1 DEF Times
  <2> QED BY <2>1, <2>2, Zenon
<1>5. ASSUME NEW i \in DOMAIN array, NEW j \in DOMAIN array, i < j,
             \A k \in DOMAIN recursion : ~(recursion[k][1] <= i /\ j <= recursion[k][2])
      PROVE  QS!compare(array[i], array[j]) <= 0
  <2>1. i \in 1..n /\ j \in 1..n /\ DOMAIN recursion = 1..Len(recursion)
    BY <1>1, <1>3 DEF SortTyped
  <2>2. Key[array[i]] <= Key[array[j]]
    BY <1>1, <1>5, <2>1 DEF RestInOrder, Spans
  <2> QED BY <1>3, <2>1, <2>2, Compared
<1>6. \A i, j \in DOMAIN array :
         i < j /\ (\A k \in DOMAIN recursion : ~(recursion[k][1] <= i /\ j <= recursion[k][2]))
         => QS!compare(array[i], array[j]) <= 0
  BY <1>5
<1> QED BY <1>4, <1>6, Zenon DEF QS!Sorts, QS!Cardinality, Cardinality

-----------------------------------------------------------------------------
(* The parts of the run, one beside the others.                            *)
everything == <<part, vars, ht, al, xa, ll, qs, vr>>

LEMMA SortPart == AllSpec => []SortInv
<1> USE ContainersAssumption
<1>1. AllInit => QS!Init
  BY DEF AllInit
<1>2. AllInit => SortInv
  BY <1>1, SortInit
<1>3. [AllNext]_everything => [QS!Next]_qs
  BY DEF AllNext, everything
<1>4. SortInv /\ UNCHANGED qs => SortInv'
  BY DEF SortInv, SortTyped, BoundariesApart, RestInOrder, Spans, qs
<1>5. SortInv /\ [AllNext]_everything => SortInv'
  BY <1>3, <1>4, PartitionKeeps DEF QS!Next
<1> QED BY <1>2, <1>5, PTL DEF AllSpec, everything

(* Beside the other containers too the quick sort keeps the elements and   *)
(* leaves in order what no boundary on its stack spans.                    *)
THEOREM SortsInAll == AllSpec => []Sorts
<1>1. SortInv => Sorts
  BY ContainersAssumption, SortedEnough DEF Sorts
<1> QED BY <1>1, SortPart, PTL

LEMMA TablePart == AllSpec => []TableInv
<1> USE ContainersAssumption
<1>1. AllInit => HT!Init
  BY DEF AllInit
<1>2. AllInit => TableInv
  BY <1>1, TableInit
<1>3. [AllNext]_everything => [HT!Next]_ht
  BY DEF AllNext, everything
<1>4. TableInv /\ [HT!Next]_ht => TableInv'
  BY TableKeeps
<1>5. TableInv /\ [AllNext]_everything => TableInv'
  BY <1>3, <1>4
<1> QED BY <1>2, <1>5, PTL DEF AllSpec, everything

(* Beside the other containers too a search finds the value that was set   *)
(* last for its key, whatever was added in a row, grew inside of a growth, *)
(* was cloned, reset or freed, and an unused slot is left to end it        *)
(* (hash_table.h, add, set, resize, search and clone).                     *)
THEOREM FindsLastInAll == AllSpec => []FindsLast
<1>1. TableInv => FindsLast
  BY ContainersAssumption, TableInvSuffices DEF FindsLast
<1> QED BY <1>1, TablePart, PTL

LEMMA XarPart == AllSpec => []XarInv
<1> USE ContainersAssumption
<1>1. AllInit => XA!Init
  BY DEF AllInit
<1>2. AllInit => XarInv
  BY <1>1, XarInit
<1>3. [AllNext]_everything => [XA!Next]_xa
  BY DEF AllNext, everything
<1>4. XarInv /\ [AllNext]_everything => XarInv'
  BY <1>3, XarKeeps
<1> QED BY <1>2, <1>4, PTL DEF AllSpec, everything

LEMMA ListPart == AllSpec => []ListInv
<1> USE ContainersAssumption
<1>1. AllInit => LL!Init
  BY DEF AllInit
<1>2. AllInit => ListInv
  BY <1>1, ListInit
<1>3. [AllNext]_everything => [LL!Next]_ll
  BY DEF AllNext, everything
<1>4. ListInv /\ [AllNext]_everything => ListInv'
  BY <1>3, ListKeeps
<1> QED BY <1>2, <1>4, PTL DEF AllSpec, everything

LEMMA VariantPart == AllSpec => []VariantInv
<1> USE ContainersAssumption
<1>1. AllInit => VR!Init
  BY DEF AllInit
<1>2. AllInit => VariantInv
  BY <1>1, VariantInit
<1>3. [AllNext]_everything => [VR!Next]_vr
  BY DEF AllNext, everything
<1>4. VariantInv /\ [AllNext]_everything => VariantInv'
  BY <1>3, VariantKeeps
<1> QED BY <1>2, <1>4, PTL DEF AllSpec, everything

(* Beside the other containers the chunks of a xar hold its elements in    *)
(* order and the string builder's arithmetic finds the same places         *)
(* (xar.h), a list reads forwards and backwards as it was built            *)
(* (linked_list_like.h), and a variant destroys exactly what it made and   *)
(* tells the type of what it holds (variant.h).                            *)
THEOREM ReadsAsBuiltInAll == AllSpec => []ReadsAsBuilt
<1>1. XarInv /\ ListInv /\ VariantInv => ReadsAsBuilt
  BY ContainersAssumption, XarInvSuffices, ListInvSuffices, VariantInvSuffices DEF ReadsAsBuilt
<1> QED BY <1>1, XarPart, ListPart, VariantPart, PTL

LEMMA SignalPart == AllSpec => []IInv
<1>1. AllInit => IInv
  BY SignalAssumption, InitHolds DEF AllInit
<1>2. [AllNext]_everything => [Next]_vars
  BY DEF AllNext, everything
<1>3. IInv /\ [AllNext]_everything => IInv'
  BY <1>2, SignalAssumption, NextKeeps
<1> QED BY <1>1, <1>3, PTL DEF AllSpec, everything

(* A function disconnected before an emit began is never called by it, and *)
(* outside of emits every disconnect that was answered with true has       *)
(* happened (signal.h, disconnect and handle_to_remove_after_emit_end).    *)
THEOREM RemovedStaysGone == AllSpec => []RemovedIsGone
BY IInvSuffices, SignalPart, PTL

(* An emit that nothing stops calls all that was connected when it started *)
(* and is still connected when it ends (signal.h, emit).                   *)
THEOREM EveryEmitReachesAll == AllSpec => EmitReachesAll
<1>1. [AllNext]_everything => [Next]_vars
  BY DEF AllNext, everything
<1>2. IInv /\ [AllNext]_everything => [EndsReached]_vars
  BY <1>1, SignalAssumption, StepReaches
<1>3. EmitReachesAll <=> [][EndsReached]_vars
  BY DEF EmitReachesAll, EndsReached
<1> QED BY <1>2, <1>3, SignalPart, PTL DEF AllSpec, everything
=============================================================================
