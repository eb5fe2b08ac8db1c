---------------------------- MODULE SxeJitsonOper ----------------------------
(***************************************************************************)
(* Operators on jitson values: the registry of operators and their         *)
(* implementations for types (sxe-jitson-oper.c), IN (sxe-jitson-in.c,     *)
(* sxe_jitson_range_in) and INTERSECT (sxe-jitson-intersect.c).  A value   *)
(* is given as a pair of the array that it lies in and its place; a result *)
(* is a tuple: <<"true">>, <<"false">>, <<"null">>, <<"value", m, p>> or,  *)
(* for the NULL of an error, <<"error">>.                                  *)
(***************************************************************************)
EXTENDS SxeJitsonLoad

CONSTANTS Within    \* Within[s]: the strings that have the string s in them

(***************************************************************************)
(* The registry: def[o] is the default function of operator o, impl[t][o]  *)
(* that for type t; no function is NoFunc, and a number of types without   *)
(* an array of implementations is all that there is before the first one.  *)
(***************************************************************************)
NoFunc == "none"

registry_empty == [names |-> <<>>, def |-> <<>>, types |-> 0, impl |-> <<>>]

(* sxe_jitson_oper_increase_num_types: the type is a number from 0 *)
oper_increase_num_types(r, type) ==
    IF type < r.types THEN r
    ELSE [r EXCEPT !.types = type + 1,
                   !.impl = IF r.names = <<>> THEN @
                            ELSE @ \o [i \in 1 .. type + 1 - Len(@) |-> <<>>]]

(* sxe_jitson_oper_register: ok is FALSE if it aborts.  The first operator
   allocates the implementations of the types there are. *)
oper_register(r, name, func) ==
    [ok |-> \A i \in DOMAIN r.names : r.names[i] # name,
     r  |-> [r EXCEPT !.names = Append(@, name), !.def = Append(@, func),
                      !.impl = IF r.names = <<>> THEN <<>> \o [i \in 1 .. r.types |-> <<>>] ELSE @]]

(* sxe_jitson_oper_add_to_type: ok is FALSE if it aborts. *)
oper_add_to_type(r, op, type, func) ==
    LET ok == op <= Len(r.names) /\ type < r.types
    IN  [ok |-> ok,
         r  |-> IF ~ok THEN r
                ELSE [r EXCEPT !.impl[type + 1] =
                        [i \in 1 .. (IF op > Len(@) THEN op ELSE Len(@)) |->
                            IF i = op THEN func ELSE IF i <= Len(@) THEN @[i] ELSE NoFunc]]]

(* What sxe_jitson_oper_apply_unary and _binary call for an argument of the type *)
oper_apply(r, op, type) ==
    LET impl == r.impl[type + 1]
    IN  IF op <= Len(impl) /\ impl[op] # NoFunc THEN impl[op] ELSE r.def[op]

oper_fini(r) == registry_empty

(***************************************************************************)
(* IN                                                                      *)
(***************************************************************************)
Elements(m, p) == [i \in 1 .. len(m, p) |-> array_get_element(m, p, i - 1)]

RECURSIVE in(_, _, _, _), in_linear(_, _, _, _, _)

same_type(lm, lp, e) == get_type(lm, lp) = get_type(e[1], e[2])

(* The result of an IN that is there and not a null *)
NotNull(r) == r[1] \notin {"error", "null"} /\ ~(r[1] = "value" /\ get_type(r[2], r[3]) = "null")

in_element(lm, lp, e) ==
    IF same_type(lm, lp, e) THEN eq(lm, lp, e[1], e[2]) = 1 ELSE NotNull(in(lm, lp, e[1], e[2]))

(* sxe_jitson_in_array from element i on: equal values of one type, and values
   in elements of other types *)
in_linear(lm, lp, rm, rp, i) ==
    IF i = len(rm, rp) THEN <<"null">>
    ELSE IF in_element(lm, lp, array_get_element(rm, rp, i))
    THEN (IF same_type(lm, lp, array_get_element(rm, rp, i)) THEN <<"true">>
          ELSE <<"value">> \o array_get_element(rm, rp, i))
    ELSE in_linear(lm, lp, rm, rp, i + 1)

(* sxe_jitson_cmp as the comparison of a sorted array *)
ValueCmp(lefts, rights) == [l \in lefts, r \in rights |-> cmp(l[1], l[2], r[1], r[2])]

(* What a search means: that a comparison failed, that it was found, or not *)
Found(f) == IF f.pos = NotFound THEN <<"error">> ELSE IF f.match THEN <<"true">> ELSE <<"null">>

(* sxe_jitson_in_array: a binary search where the array is known to be ordered
   and all of one type, that of the value *)
in_array(lm, lp, rm, rp) ==
    LET t == rm[rp]
    IN  IF t.len = 0 THEN <<"null">>
        ELSE IF Has(t, "ORD") /\ Has(t, "HOMO") /\ get_type(lm, lp) = get_type(rm, rp + 1)
        THEN Found(kit_sortedarray_find_key(ValueCmp({<<lm, lp>>}, ToSet(Elements(rm, rp))),
                                            Elements(rm, rp), <<lm, lp>>))
        ELSE in_linear(lm, lp, rm, rp, 0)

(* sxe_jitson_in_default *)
in_default(lm, lp, rm, rp) ==
    LET type == rm[rp].type
        found == object_get_member(rm, rp, Tok(lm, lp).val)
    IN  CASE type \in {"object", "string"} /\ lm[lp].type # "string" -> <<"error">>
          [] type = "object" /\ lm[lp].type = "string" ->
                IF found = <<>> THEN <<"null">> ELSE <<"value">> \o found
          [] type = "string" /\ lm[lp].type = "string" ->
                IF rm[rp].val \in Within[lm[lp].val] THEN <<"true">> ELSE <<"null">>
          [] type = "null" -> <<"null">>
          [] OTHER -> <<"error">>

(* sxe_jitson_range_in: a value that cannot be compared is not in the range *)
range_in(lm, lp, rm, rp) ==
    LET low == array_get_element(rm, rp, 0)  high == array_get_element(rm, rp, 1)
    IN  IF cmp(low[1], low[2], lm, lp) <= 0 /\ cmp(lm, lp, high[1], high[2]) <= 0
        THEN <<"true">> ELSE <<"null">>

(* sxe_jitson_in: the implementation for the type of the right hand side, as
   sxe_jitson_in_init and sxe_jitson_range_register add them *)
in_by_type(lm, lp, rm, rp) ==
    CASE rm[rp].type = "array" -> in_array(lm, lp, rm, rp)
      [] rm[rp].type = "range" -> range_in(lm, lp, rm, rp)
      [] OTHER                 -> in_default(lm, lp, rm, rp)

in(lm, lp, rm, rp) == in_by_type(DerefM(lm, lp), DerefP(lm, lp), DerefM(rm, rp), DerefP(rm, rp))

(***************************************************************************)
(* INTERSECT: the result is put together on the thread's stack s, which is *)
(* borrowed for it; [s, ret], where ret is <<>> for NULL                    *)
(***************************************************************************)

(* jitson_stack_add: a copy of a value of one token, a reference to any other *)
jitson_stack_add(s, e, optimize) ==
    LET m == e[1]  p == e[2] IN
    IF size(m, p) = 1 THEN add_dup(s, <<m[p]>>, optimize)
    ELSE add_reference(s, SubSeq(m, p, Len(m)))

(* The elements added one after the other until one cannot be (add_to_array,
   intersect_add_element, intersect_add_indexed_element) *)
add_elements(s, elements, optimize) ==
    LET add[i \in 0 .. Len(elements)] ==
          IF i = 0 THEN [s EXCEPT !.ret = TRUE]
          ELSE IF add[i - 1].ret THEN jitson_stack_add(add[i - 1], elements[i], optimize) ELSE add[i - 1]
    IN  add[Len(elements)]

get_stack_open_array(s, optimize) ==
    LET o == open_collection(stack_borrow(s), "array", {}, optimize)
    IN  IF o.ret THEN o ELSE [stack_return(o, s) EXCEPT !.ret = FALSE]

(* Mutant of close_array_and_get: the stack is not returned. *)
close_array_and_get_kept(s, iou, optimize) ==
    LET g == get_jitson(close_collection(s, optimize)) IN [s |-> g, ret |-> g.ret]

(* The stack is returned whether or not the array can be taken off it. *)
close_array_and_get(s, iou, optimize) ==
    LET g == get_jitson(close_collection(s, optimize))
    IN  [s |-> stack_return(g, iou), ret |-> g.ret]

(* How an intersection ends.  On an error (ERROR_OUT) the stack is cleared, and
   not returned if that has not been done. *)
finish(s, iou, ok, optimize) ==
    LET c == close_array_and_get(s, iou, optimize)
    IN  IF ok /\ s.ret /\ c.ret # <<>> THEN c
        ELSE [s |-> stack_clear(IF ok /\ s.ret THEN c.s ELSE s), ret |-> <<>>]

(* The elements that were found are added to the array that was opened. *)
collect(opened, iou, meet, optimize) ==
    IF ~opened.ret THEN [s |-> opened, ret |-> <<>>]
    ELSE finish(add_elements(opened, meet.visited, optimize), iou, meet.ok, optimize)

(* kit_sortedarray_intersect of two ordered arrays of which both or neither are
   uniform: the elements of the left one, and whether none failed to compare *)
ordered_meet(lm, lp, rm, rp, stops) ==
    LET left == Elements(lm, lp)  right == Elements(rm, rp)
        differ == Has(lm[lp], "UNIF") /\ lm[lp].uniform # rm[rp].uniform
    IN  IF differ THEN [ok |-> TRUE, visited |-> <<>>]
        ELSE kit_sortedarray_intersect(ValueCmp(ToSet(left), ToSet(right)), left, right, stops, 0)

BothSearched(l, r) == Has(l, "ORD") /\ Has(l, "UNIF") = Has(r, "UNIF")

(* The elements of the left array that were found in the right one, up to the
   first for which the search failed *)
searched_meet(left, found) ==
    LET errors == {i \in DOMAIN left : found[i] = <<"error">>}
        upto   == IF errors = {} THEN Len(left) ELSE (CHOOSE i \in errors : \A j \in errors : i <= j) - 1
        hits   == SelectSeq([i \in 1 .. upto |-> <<left[i], found[i]>>], LAMBDA h : h[2] # <<"null">>)
    IN  [ok |-> errors = {}, visited |-> [i \in DOMAIN hits |-> hits[i][1]]]

in_pair(l, r) == in(l[1], l[2], r[1], r[2])

(* sxe_jitson_intersect_ordered_array: the right hand side is ordered *)
intersect_ordered_array(s, lm, lp, rm, rp, optimize) ==
    IF get_type(lm, lp) # "array" THEN [s |-> s, ret |-> <<>>]
    ELSE collect(get_stack_open_array(s, optimize), s,
                 IF BothSearched(lm[lp], rm[rp]) THEN ordered_meet(lm, lp, rm, rp, {})
                 ELSE searched_meet(Elements(lm, lp), [i \in 1 .. len(lm, lp) |->
                                        in_pair(array_get_element(lm, lp, i - 1), <<rm, rp>>)]),
                 optimize)

(* The pairs of equal elements, left element first; a pair that cannot be
   compared ends the search: ok is FALSE then. *)
equal_pairs(lm, lp, rm, rp) ==
    LET n == len(rm, rp)
        L(i) == array_get_element(lm, lp, i \div n)
        R(i) == array_get_element(rm, rp, i % n)
        scan[i \in 0 .. len(lm, lp) * n] ==
          IF i = 0 THEN [ok |-> TRUE, visited |-> <<>>]
          ELSE LET before == scan[i - 1]
                   ret == eq_pair(L(i - 1), R(i - 1))
               IN  IF ~before.ok \/ ret = 0 THEN before
                   ELSE IF ret = 1 THEN [before EXCEPT !.visited = Append(@, L(i - 1))]
                   ELSE [before EXCEPT !.ok = FALSE]
    IN  scan[len(lm, lp) * n]

(* sxe_jitson_intersect_array *)
intersect_array(s, lm, lp, rm, rp, optimize) ==
    IF Has(rm[rp], "ORD") THEN intersect_ordered_array(s, lm, lp, rm, rp, optimize)
    ELSE IF Has(lm[lp], "ORD") THEN intersect_ordered_array(s, rm, rp, lm, lp, optimize)
    ELSE IF get_type(lm, lp) # "array" THEN [s |-> s, ret |-> <<>>]
    ELSE collect(get_stack_open_array(s, optimize), s, equal_pairs(lm, lp, rm, rp), optimize)

(* sxe_jitson_intersect: there is an implementation for arrays, and no default *)
intersect(s, lm0, lp0, rm0, rp0, optimize) ==
    IF get_type(rm0, rp0) # "array" THEN [s |-> s, ret |-> <<>>]
    ELSE intersect_array(s, DerefM(lm0, lp0), DerefP(lm0, lp0),
                         DerefM(rm0, rp0), DerefP(rm0, rp0), optimize)

(* The first visit ends the search (intersect_check_element). *)
Tested(meet) ==
    IF meet.visited # <<>> THEN <<"true">> ELSE IF meet.ok THEN <<"false">> ELSE <<"error">>

(* The first element that is found, or cannot be looked for, decides. *)
FirstFound(found) ==
    LET first == {i \in DOMAIN found : found[i] # <<"null">>}
        f     == found[CHOOSE i \in first : \A j \in first : i <= j]
    IN  IF first = {} THEN <<"false">> ELSE IF f = <<"error">> THEN f ELSE <<"true">>

in_array_pair(l, r) == in_array(l[1], l[2], r[1], r[2])

(* sxe_jitson_intersect_test_ordered_array *)
intersect_test_ordered_array(lm, lp, rm, rp) ==
    IF get_type(lm, lp) # "array" THEN <<"error">>
    ELSE IF BothSearched(lm[lp], rm[rp])
    THEN Tested(ordered_meet(lm, lp, rm, rp, ToSet(Elements(lm, lp))))
    ELSE FirstFound([i \in 1 .. len(lm, lp) |-> in_array_pair(array_get_element(lm, lp, i - 1), <<rm, rp>>)])

(* sxe_jitson_intersect_test_array *)
intersect_test_array(lm, lp, rm, rp) ==
    IF Has(rm[rp], "ORD") THEN intersect_test_ordered_array(lm, lp, rm, rp)
    ELSE IF Has(lm[lp], "ORD") THEN intersect_test_ordered_array(rm, rp, lm, lp)
    ELSE IF get_type(lm, lp) # "array" THEN <<"error">>
    ELSE Tested(equal_pairs(lm, lp, rm, rp))

(* sxe_jitson_intersect_test; the default (sxe_jitson_intersect_test_default) asks
   for an intersection, which only arrays have. *)
intersect_test(lm0, lp0, rm0, rp0) ==
    IF get_type(rm0, rp0) # "array" THEN <<"error">>
    ELSE intersect_test_array(DerefM(lm0, lp0), DerefP(lm0, lp0), DerefM(rm0, rp0), DerefP(rm0, rp0))
=============================================================================
