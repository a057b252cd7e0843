--------------------------------- MODULE Types ---------------------------------
(***************************************************************************)
(* The type traits of common.h on types written as data:                   *)
(* [k |-> kind, cv |-> qualifiers, of |-> the type inside].  An array has  *)
(* the qualifiers of its elements, as in C++, and references, functions    *)
(* and arrays have none of their own.                                      *)
(***************************************************************************)
EXTENDS Integers, SequencesExt, FiniteSetsExt

Qualifiers == SUBSET {"const", "volatile"}
Integrals == {"bool", "int", "unsigned"}
Atoms == Integrals \cup {"void", "float", "enum", "class", "null"}
None == [k |-> "none"]

Type(k, cv, of) == [k |-> k, cv |-> cv, of |-> of]
Atom(k, cv) == Type(k, cv, None)
Pointer(t, cv) == Type("*", cv, t)
MemberPointer(t, cv) == Type("::*", cv, t)
LReference(t) == Type("&", {}, t)
RReference(t) == Type("&&", {}, t)
Bounded(t) == Type("[N]", {}, t)
Unbounded(t) == Type("[]", {}, t)
Function(t) == Type("()", {}, t)

Arrays == {"[]", "[N]"}
References == {"&", "&&"}

(* Qualifying a type: an array's elements, nothing else that cannot be.    *)
RECURSIVE Qualified(_, _)
Qualified(t, cv) ==
    IF t.k \in Arrays THEN [t EXCEPT !.of = Qualified(t.of, cv)]
    ELSE IF t.k \in References \cup {"()"} THEN t ELSE [t EXCEPT !.cv = @ \cup cv]

RECURSIVE QualifiersOf(_)
QualifiersOf(t) == IF t.k \in Arrays THEN QualifiersOf(t.of) ELSE t.cv

(* A reference to a reference collapses; there is none to void.            *)
Referable(t) == t.k # "void"

-----------------------------------------------------------------------------
is_same(t, u) == t = u
is_same_to_one_of(t, types) == \E u \in types : is_same(t, u)

RECURSIVE WithoutCv(_)
WithoutCv(t) == IF t.k \in Arrays THEN [t EXCEPT !.of = WithoutCv(t.of)]
                ELSE IF "cv" \in DOMAIN t THEN [t EXCEPT !.cv = {}] ELSE t
remove_cv(t) == WithoutCv(t)
remove_ref(t) == IF t.k \in References THEN t.of ELSE t
remove_cvref(t) == remove_cv(remove_ref(t))

add_lvalue_reference(t) == IF ~Referable(t) THEN t
                           ELSE IF t.k \in References THEN LReference(t.of) ELSE LReference(t)
add_rvalue_reference(t) == IF t.k = "&" THEN t ELSE IF t.k = "void" THEN t
                           ELSE IF t.k = "&&" THEN t ELSE RReference(t)

is_integral(t) == t.k \in Integrals
is_floating_point(t) == is_same_to_one_of(remove_cv(t), {Atom("float", {})})
is_arithmetic(t) == is_integral(t) \/ is_floating_point(t)
is_enum(t) == remove_cv(t).k = "enum"
is_function(t) == t.k = "()"
is_pointer(t) == remove_cv(t).k = "*"
is_member_pointer(t) == remove_cv(t).k = "::*"
is_scalar(t) == \/ is_arithmetic(t) \/ is_enum(t) \/ is_pointer(t) \/ is_member_pointer(t)
                \/ is_same(remove_cv(t), Atom("null", {}))

remove_pointer(t) == IF t.k = "*" THEN t.of ELSE t
add_pointer(t) == Pointer(remove_ref(t), {})
is_array(t) == t.k \in Arrays
remove_extent(t) == IF is_array(t) THEN t.of ELSE t
type_select(condition, t, u) == IF condition THEN t ELSE u

decay(t) ==
    LET U == remove_ref(t)
    IN  type_select(is_array(U), Pointer(remove_extent(U), {}),
                    type_select(is_function(U), add_pointer(U), remove_cv(U)))
is_same_decayed(t, u) == is_same(decay(t), decay(u))

-----------------------------------------------------------------------------
(* Types to apply the traits to: atoms, what can be built of them, and     *)
(* what can be built of that, well formed.                                 *)
Objects(T) == {t \in T : t.k \notin References \cup {"()", "void", "[]"}}
Built(T) ==
    {Pointer(t, cv) : t \in {u \in T : u.k \notin References}, cv \in {{}, {"const"}, {"volatile"}}}
    \cup {LReference(t) : t \in {u \in T : Referable(u) /\ u.k \notin References}}
    \cup {RReference(t) : t \in {u \in T : Referable(u) /\ u.k \notin References}}
    \cup {Bounded(t) : t \in Objects(T)} \cup {Unbounded(t) : t \in Objects(T)}
    \cup {Function(t) : t \in {u \in T : u.k \notin Arrays \cup {"()"}}}
Simple == {Atom(k, cv) : k \in Atoms, cv \in Qualifiers}
          \cup {MemberPointer(Atom("int", {}), cv) : cv \in Qualifiers}
SomeTypes == Simple \cup Built(Simple)
             \cup Built(Built({Atom("int", cv) : cv \in Qualifiers} \cup {Atom("void", {})}))

(* What decays is what a by-value parameter has: no reference, array,      *)
(* function or qualifier of its own, the same when it decays again and     *)
(* when it was a reference or qualified before.                            *)
DecaysOnce(t) ==
    LET d == decay(t)
    IN  /\ d.k \notin References \cup Arrays \cup {"()"} /\ d.cv = {}
        /\ decay(d) = d
        /\ decay(add_lvalue_reference(t)) = d /\ decay(add_rvalue_reference(t)) = d
        /\ t.k \notin Arrays => decay(Qualified(t, {"const", "volatile"})) = d
        /\ remove_ref(t).k \notin Arrays \cup {"()"} => d = remove_cvref(t)
        /\ is_same_decayed(t, d)

(* References collapse to an lvalue's if either is one; adding and removing*)
(* a pointer is the identity on what is not a reference; qualifiers are    *)
(* removed at the top and nowhere deeper, and do not change what a type is.*)
TraitsAgree(t) ==
    /\ remove_ref(add_lvalue_reference(t)) = remove_ref(t)
    /\ Referable(t) => add_lvalue_reference(t).k = "&"
    /\ Referable(t) /\ t.k # "&" => add_rvalue_reference(t).k = "&&"
    /\ add_rvalue_reference(add_lvalue_reference(t)) = add_lvalue_reference(t)
    /\ add_lvalue_reference(add_rvalue_reference(t)) = add_lvalue_reference(t)
    /\ remove_pointer(add_pointer(t)) = remove_ref(t)
    /\ QualifiersOf(remove_cv(t)) = {}
    /\ t.k \notin References \cup {"()"} =>
          Qualified(remove_cv(t), QualifiersOf(t)) = t
    /\ \A trait \in {is_integral(t) = is_integral(remove_cv(t)), is_scalar(t) = is_scalar(remove_cv(t)),
                     is_array(t) = is_array(remove_cv(t)), is_pointer(t) = (remove_pointer(t) # t)} : trait
    /\ Cardinality({i \in 1..6 : <<is_integral(t), is_floating_point(t), is_enum(t), is_pointer(t),
                                  is_member_pointer(t), remove_cv(t) = Atom("null", {})>>[i]})
          = IF is_scalar(t) THEN 1 ELSE 0
=============================================================================
