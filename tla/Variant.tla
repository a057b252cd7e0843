------------------------------ MODULE Variant --------------------------------
(***************************************************************************)
(* variant<MEMBERS...> (variant.h): an index ti and storage for an object  *)
(* of one of the member types or of nil, which is index 0.  The objects    *)
(* count: what is constructed is destructed once.                          *)
(***************************************************************************)
EXTENDS Integers, Sequences, SequencesExt, FiniteSetsExt

CONSTANTS
    nil,
    MEMBERS,    \* the sequence of member types
    Values,     \* what an object of a type may hold
    Empty,      \* what is left of an object that was moved from; nil's value
    Variants,   \* names of variants
    MaxMade     \* bound on the objects made

VariantAssumption == /\ MEMBERS \in Seq(ToSet(MEMBERS)) /\ nil \notin ToSet(MEMBERS)
                     /\ Empty \notin Values /\ IsFiniteSet(Variants)

VARIABLES
    ti, Data,       \* of every variant; Data is [type, value]
    made, ended,    \* how many objects of each type were constructed, destructed
    want            \* ghost: what every variant was given

vars == <<ti, Data, made, ended, want>>

Types == {nil} \cup ToSet(MEMBERS)
Nil == [type |-> nil, value |-> Empty]

(* index_of: the place of a type among nil and the members.                *)
index_of(type) == IF type = nil THEN 0 ELSE CHOOSE i \in DOMAIN MEMBERS : MEMBERS[i] = type

(* The overloads of visit, one type at a time: which type f is called for. *)
(* The last overload takes what is left.                                   *)
Visited(types, i) == types[IF i < Len(types) THEN i + 1 ELSE Len(types)]

VisitWithNil(x) == Visited(<<nil>> \o MEMBERS, ti[x])

Visit(x) == IF ti[x] = 0 THEN VisitWithNil(x) ELSE Visited(MEMBERS, ti[x] - 1)

Init == /\ ti = [x \in Variants |-> 0]
        /\ Data = [x \in Variants |-> Nil]
        /\ made = [t \in Types |-> IF t = nil THEN Cardinality(Variants) ELSE 0]
        /\ ended = [t \in Types |-> 0]
        /\ want = [x \in Variants |-> Nil]

Room == FoldFunction(+, 0, made) < MaxMade
Tally(f, type) == [f EXCEPT ![type] = @ + 1]

(* emplace: destruct what the index says is there, then construct.         *)
Emplace(x, object) ==
    /\ Room
    /\ ended' = Tally(ended, VisitWithNil(x))
    /\ made' = Tally(made, object.type)
    /\ ti' = [ti EXCEPT ![x] = index_of(object.type)]
    /\ Data' = [Data EXCEPT ![x] = object]
    /\ want' = [want EXCEPT ![x] = object]

(* operator= of a value: to the object, when it is of the same type.       *)
AssignValue(x, object) ==
    IF ti[x] = index_of(object.type)
    THEN /\ Data' = [Data EXCEPT ![x].value = object.value]
         /\ want' = [want EXCEPT ![x] = object]
         /\ UNCHANGED <<ti, made, ended>>
    ELSE Emplace(x, object)

(* operator= of a variant, by value: y is copied as its index says, x      *)
(* destructed, the copy moved into x and destructed.  y may be x.          *)
AssignVariant(x, y) ==
    LET copied == [type |-> VisitWithNil(y), value |-> Data[y].value]
        moved == Visit(y)
    IN  /\ Room
        /\ made' = Tally(Tally(made, copied.type), moved)
        /\ ended' = Tally(Tally(ended, VisitWithNil(x)), copied.type)
        /\ ti' = [ti EXCEPT ![x] = index_of(moved)]
        /\ Data' = [Data EXCEPT ![x] = [type |-> moved, value |-> copied.value]]
        /\ want' = [want EXCEPT ![x] = want[y]]

(* variant(variant &&): y keeps its index and an object moved from.        *)
MoveTo(x, y) ==
    /\ x # y /\ Room
    /\ made' = Tally(made, VisitWithNil(y))
    /\ ended' = Tally(ended, VisitWithNil(x))
    /\ ti' = [ti EXCEPT ![x] = index_of(VisitWithNil(y))]
    /\ Data' = [Data EXCEPT ![x] = [type |-> VisitWithNil(y), value |-> Data[y].value],
                            ![y].value = Empty]
    /\ want' = [want EXCEPT ![x] = want[y], ![y].value = Empty]

Next == \/ \E x \in Variants, t \in ToSet(MEMBERS), v \in Values :
              \/ Emplace(x, [type |-> t, value |-> v])
              \/ AssignValue(x, [type |-> t, value |-> v])
        \/ \E x \in Variants : AssignValue(x, Nil)
        \/ \E x, y \in Variants : AssignVariant(x, y) \/ MoveTo(x, y)

Spec == Init /\ [][Next]_vars

-----------------------------------------------------------------------------
(* The index tells the type of the object that is there, visit finds that  *)
(* type, the object is what the variant was given last, and of every type  *)
(* as many objects are alive as variants hold one (visit, destruct,        *)
(* operator=).                                                             *)
HoldsOne ==
    /\ Data = want
    /\ \A x \in Variants : ti[x] = index_of(Data[x].type) /\ Visit(x) = Data[x].type
    /\ \A t \in Types : made[t] - ended[t] = Cardinality({x \in Variants : Data[x].type = t})
=============================================================================
