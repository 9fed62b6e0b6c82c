---------------------------- MODULE VariantView ----------------------------
(***************************************************************************)
(* variant_view: a pointer to a variant, or null, with a pack of the       *)
(* alternatives its user expects there.  The variant changes its           *)
(* alternative behind the view's back; every way to reach the value has to *)
(* find out.  A result is the value, or which exception is thrown.         *)
(***************************************************************************)
EXTENDS Integers, Sequences

CONSTANTS Variants,   \* the variant objects
          Types,      \* the variant's alternatives, numbers
          Values,
          Packs       \* the packs of the views, sequences of types

VARIABLES variant,    \* variant[a]: [type, value]
          view        \* view["v"], view["w"]: [base, types], types a pack

viewVars == <<variant, view>>

Null  == "null"
Views == {"v", "w"}

\* No pack is empty, and all its types are the variant's (static_asserts).
ASSUME PackTypes ==
  /\ Types \subseteq Int /\ Values \subseteq Int
  /\ Null \notin Variants
  /\ Packs # {} /\ \A p \in Packs : p \in Seq(Types) /\ p # <<>>

Value(x)      == <<"value", x>>
Uninitialized == <<"uninitialized_variant_view">>
BadAccess     == <<"bad_variant_access">>
NullPointer   == <<"nullptr">>

Invalid(v) == view[v].base = Null
Base(v) == variant[view[v].base]
InPack(v, t) == \E i \in DOMAIN view[v].types : view[v].types[i] = t
Single(v) == Len(view[v].types) = 1

-----------------------------------------------------------------------------
(* Access *)

\* get<T> and get<I> on a view, and on a pointer to one.
Get(v, t) ==
  IF Invalid(v) THEN Uninitialized
  ELSE IF Base(v).type = t THEN Value(Base(v).value) ELSE BadAccess
GetAt(v, i) == Get(v, view[v].types[i])
GetIf(v, t) ==
  IF ~Invalid(v) /\ Base(v).type = t THEN Value(Base(v).value) ELSE NullPointer
Holds(v, t) == ~Invalid(v) /\ Base(v).type = t

\* Mutant of Catches: the visitor is called with whatever is there.
Catches_Nothing(v, t) == FALSE

\* SupersetTypeCatcher: the alternatives that are not in the pack.
Catches(v, t) == ~InPack(v, t)

VisitView(v) ==
  IF Invalid(v) THEN Uninitialized
  ELSE IF Catches(v, Base(v).type) THEN BadAccess ELSE Value(Base(v).value)

\* visit(vis, v, w): w is visited first, the visitor gets v's value first.
VisitViews(v, w) ==
  CASE VisitView(w)[1] # "value" -> VisitView(w)
    [] VisitView(w)[1] = "value" /\ VisitView(v)[1] # "value" -> VisitView(v)
    [] OTHER -> <<"value", VisitView(v)[2], VisitView(w)[2]>>

\* Views of one alternative: operator*, operator-> and operator bool.
Deref(v) == IF Invalid(v) THEN Uninitialized ELSE GetAt(v, 1)
Arrow(v) ==
  IF Invalid(v) THEN Uninitialized
  ELSE IF GetIf(v, view[v].types[1]) = NullPointer THEN BadAccess ELSE GetIf(v, view[v].types[1])
Bool(v) == ~Invalid(v) /\ GetIf(v, view[v].types[1]) # NullPointer

-----------------------------------------------------------------------------
(* Comparison: two views of one pack; no view is less than any view. *)

VariantLess(x, y) == x.type < y.type \/ (x.type = y.type /\ x.value < y.value)

Equal(v, w) == IF Invalid(v) \/ Invalid(w) THEN Invalid(v) /\ Invalid(w) ELSE Base(v) = Base(w)
Order(v, w) ==
  CASE Invalid(v) -> IF Invalid(w) THEN "equivalent" ELSE "less"
    [] ~Invalid(v) /\ Invalid(w) -> "greater"
    [] OTHER -> IF VariantLess(Base(v), Base(w)) THEN "less"
                ELSE IF VariantLess(Base(w), Base(v)) THEN "greater" ELSE "equivalent"

-----------------------------------------------------------------------------
ViewInit ==
  /\ variant \in [Variants -> [type : Types, value : Values]]
  /\ view = [n \in Views |-> [base |-> Null, types |-> CHOOSE p \in Packs : TRUE]]

AssignVariant(a, t, x) ==
  /\ variant' = [variant EXCEPT ![a] = [type |-> t, value |-> x]]
  /\ UNCHANGED view

\* make_variant_view, or an empty view.
Construct(v, b, p) ==
  /\ view' = [view EXCEPT ![v] = [base |-> b, types |-> p]]
  /\ UNCHANGED variant

\* Copy, conversion, subview() and assignment: the static_assert that asks for
\* a subset compares the new pack with itself, so any pack will do.
Convert(v, w, p) == Construct(v, view[w].base, p)

Swap ==
  /\ view["v"].types = view["w"].types
  /\ view' = [v |-> view["w"], w |-> view["v"]]
  /\ UNCHANGED variant

ViewNext ==
  \/ \E a \in Variants, t \in Types, x \in Values : AssignVariant(a, t, x)
  \/ \E v \in Views, p \in Packs : \/ \E b \in Variants \union {Null} : Construct(v, b, p)
                                   \/ \E w \in Views : Convert(v, w, p)
  \/ Swap

ViewSpec == ViewInit /\ [][ViewNext]_viewVars

-----------------------------------------------------------------------------
\* Whatever the variant holds by now, all ways to reach its value agree: they
\* reach it exactly if its alternative is in the pack, a missing variant is
\* told from a wrong alternative, a view of one alternative is true exactly if
\* it may be dereferenced; and == and <=> agree, also about no variant.
AccessesAgree ==
  \A v \in Views :
    /\ \/ /\ VisitView(v) \in {Uninitialized, BadAccess}
          /\ \A i \in DOMAIN view[v].types :
               GetAt(v, i) = VisitView(v) /\ GetIf(v, view[v].types[i]) = NullPointer
       \/ \E i \in DOMAIN view[v].types :
            /\ VisitView(v) = GetAt(v, i) /\ VisitView(v) = GetIf(v, view[v].types[i])
            /\ \A j \in DOMAIN view[v].types :
                 view[v].types[j] # view[v].types[i] => GetAt(v, j) = BadAccess
    /\ \A i \in DOMAIN view[v].types :
         Holds(v, view[v].types[i]) <=> GetAt(v, i) = VisitView(v) /\ VisitView(v)[1] = "value"
    /\ Single(v) => /\ Deref(v) = VisitView(v) /\ Arrow(v) = VisitView(v)
                    /\ Bool(v) <=> VisitView(v)[1] = "value"
    /\ \A w \in Views :
         /\ VisitViews(v, w)[1] = "value" <=> VisitView(v)[1] = "value" /\ VisitView(w)[1] = "value"
         /\ view[v].types = view[w].types =>
              /\ Equal(v, w) <=> Order(v, w) = "equivalent"
              /\ Order(v, w) = "less" <=> Order(w, v) = "greater"
=============================================================================
