--------------------------- MODULE SxeJitsonStack ----------------------------
(***************************************************************************)
(* Stacks that jitsons are built on (sxe-jitson-stack.c): an array of      *)
(* tokens that grows, with the collections still open chained in it.  Each *)
(* function is an operator from the stack before a call to the stack after *)
(* it, with the value returned in ret.  The field k is the number of       *)
(* allocations that still succeed.  A place is an index + 1, as open is.   *)
(***************************************************************************)
EXTENDS SxeJitson, ContainerOps

CONSTANTS MaxIncr   \* JITSON_STACK_MAX_INCR

(* sxe_jitson_stack_make; the fields count and jitsons are one sequence. *)
stack_make(init_size, k) ==
    [maximum |-> init_size, jitsons |-> <<>>, null |-> FALSE,
     open |-> 0, last |-> 0, borrow |-> 0, k |-> k, ret |-> TRUE, crash |-> FALSE]

stack_clear(s) == [s EXCEPT !.jitsons = SubSeq(@, 1, s.borrow), !.open = 0]

Count(s) == Len(s.jitsons)

(* A multiple of the maximum, or of MaxIncr once that is reached. *)
NewMaximum(s, expanded) ==
    IF expanded < MaxIncr THEN ((expanded - 1) \div s.maximum + 1) * s.maximum
    ELSE ((expanded - 1) \div MaxIncr + 1) * MaxIncr

(* sxe_jitson_stack_expand: ret is the place of the first new slot, 0 if the
   stack cannot grow.  The stack has no array after get_jitson took it. *)
stack_expand(s, more) ==
    LET expanded == Count(s) + more
        grow == expanded > s.maximum
    IN  IF (grow \/ s.null) /\ s.k = 0 THEN [s EXCEPT !.ret = 0]
        ELSE [s EXCEPT
                !.maximum = IF grow THEN NewMaximum(s, expanded) ELSE @,
                !.null = FALSE,
                !.k = IF grow \/ s.null THEN @ - 1 ELSE @,
                !.jitsons = @ \o [i \in 1 .. more |-> NoToken],
                !.ret = Count(s) + 1]

(* The jitson built is ret.jitson, <<>> if it cannot be copied off a borrowed
   stack; a stack that is not borrowed gives its array away. *)
get_jitson(s) ==
    LET from == s.borrow + 1
        j == [SubSeq(s.jitsons, from, Count(s)) EXCEPT ![1].flags = @ \union {"ALLOCED"}]
    IN  IF s.borrow > 0
        THEN IF s.k = 0 THEN [s EXCEPT !.ret = <<>>]
             ELSE [s EXCEPT !.ret = j, !.k = @ - 1, !.jitsons = SubSeq(@, 1, s.borrow)]
        ELSE [s EXCEPT !.ret = j, !.jitsons = <<>>, !.null = TRUE]

(* sxe_jitson_stack_borrow; the IOU is the stack before the call. *)
stack_borrow(s) == [s EXCEPT !.open = 0, !.last = 0, !.borrow = Count(s)]

stack_return(s, iou) ==
    [s EXCEPT !.open = iou.open, !.last = iou.last, !.borrow = iou.borrow,
              !.jitsons = SubSeq(@, 1, Count(iou))]

Cut(s, at) == [s EXCEPT !.jitsons = SubSeq(@, 1, at), !.ret = FALSE]
Put(s, at, t) == [s EXCEPT !.jitsons[at] = t]

(* The stack e after it was expanded to tokens that were cloned, which came out as c:
   crash is set if the clone goes on with NULL *)
Cloned(e, c, tokens) ==
    IF e.ret = 0 THEN [e EXCEPT !.ret = FALSE]
    ELSE [e EXCEPT !.k = c.k, !.ret = c.ret = "true", !.crash = c.ret = "null", !.jitsons = tokens]

(* sxe_jitson_stack_dup_at_index, once the stack has been expanded *)
dup_on(e, at, v) ==
    LET copy == [IndexArrays(v) EXCEPT ![1].flags = @ \ {"ALLOCED"}]
        n == size(v, 1)
    IN  Cloned(e, clone(v, 1, e.k),
               SubSeq(e.jitsons, 1, at - 1) \o SubSeq(copy, 1, n) \o SubSeq(e.jitsons, at + n, Len(e.jitsons)))

(* sxe_jitson_stack_dup_at_index, for a value v of its own array *)
dup_at_index(s, at, v) ==
    LET n == size(v, 1) IN
    dup_on(IF at + n - 1 > Count(s) THEN stack_expand(s, at + n - 1 - Count(s)) ELSE [s EXCEPT !.ret = 1], at, v)

(***************************************************************************)
(* Adding values to the collection that is open                            *)
(***************************************************************************)
Lose(s, at, flag) == [s EXCEPT !.jitsons[at].flags = @ \ {flag}]

CmpAt(s, p, q) == cmp(s.jitsons, p, s.jitsons, q)

(* The checks of sxe_jitson_stack_add_value on the sizes and the types of the
   elements, once there is an element. *)
AfterChecks(s, n, etype, element) ==
    LET c == s.open  t == s.jitsons[c]
        tokens == Count(s) - (IF element = <<>> THEN n ELSE 0) - c
        unif == t.len > 0 /\ Has(t, "UNIF") /\ n # tokens \div t.len
        homo == t.len > 0 /\ Has(t, "HOMO") /\ s.jitsons[c + 1].type # etype
    IN  [s EXCEPT !.jitsons[c].flags =
            (@ \ (IF unif THEN {"UNIF"} ELSE {})) \ (IF homo THEN {"HOMO"} ELSE {})]

(* Insertion in a sorted array: behind the elements that are not greater. *)
SortedPlace(s, c, e, element) ==
    LET elems == [i \in 1 .. e - 1 - c |-> s.jitsons[c + i]]
        KeyCmp == [a \in {element[1]}, b \in ToSet(elems) |-> cmp(<<a>>, 1, <<b>>, 1)]
    IN  IF cmp(s.jitsons, e - 1, element, 1) > 0
        THEN c + 1 + kit_sortedarray_find_key(KeyCmp, elems, element[1]).pos
        ELSE e

(* The slot of the new element, or that of the one already added, is the last
   one; 0 if there is no memory for it. *)
NewSlot(s, n, element) ==
    LET e == stack_expand(s, n) IN
    IF element # <<>> THEN [e EXCEPT !.last = e.ret] ELSE [s EXCEPT !.last = Count(s) - n + 1]

(* An element less than the one before it: the array is not in order. *)
OrderChecked(s, n, element) ==
    LET t == s.jitsons[s.open]
        disorder == /\ t.len > 0 /\ ~Has(t, "MK_SORT") /\ Has(t, "ORD") /\ n > 0
                    /\ cmp(s.jitsons, t.last, IF element # <<>> THEN element ELSE s.jitsons,
                           IF element # <<>> THEN 1 ELSE s.last) > 0
    IN  IF disorder THEN Lose(s, s.open, "ORD") ELSE s

(* The element is put at its place and counted. *)
Counted(s, n, element, place) ==
    LET all == IF element = <<>> THEN s.jitsons
               ELSE SubSeq(s.jitsons, 1, place - 1) \o element \o SubSeq(s.jitsons, place, s.last - 1)
    IN  [s EXCEPT !.ret = place,
                  !.jitsons = [all EXCEPT ![s.open].len = @ + 1,
                                          ![s.open].last = IF all[s.open].type # "array" THEN 0
                                                           ELSE IF n > 0 THEN s.last ELSE @]]

Placed(s, n, element) ==
    LET t == s.jitsons[s.open] IN
    IF s.last = 0 THEN s
    ELSE Counted(OrderChecked(s, n, element), n, element,
                 IF t.len > 0 /\ Has(t, "MK_SORT") THEN SortedPlace(s, s.open, s.last, element) ELSE s.last)

(* sxe_jitson_stack_add_value: n is the size, element <<>> or one token; ret is
   its place.  A size without an element tells that it was already added; size 0
   that the caller will add it. *)
add_value(s, n, etype, element) ==
    Placed(NewSlot(AfterChecks(s, n, etype, element), n, element), n, element)

(* Mutant of value_added: the order is not looked at. *)
value_added_unchecked(s, optimize) ==
    IF ~optimize \/ s.jitsons[s.open].type # "array" THEN s
    ELSE [s EXCEPT !.jitsons[s.open].last = s.last]

(* sxe_jitson_stack_value_added *)
value_added(s, optimize) ==
    LET c == s.open  t == s.jitsons[c]
        disorder == t.len > 1 /\ Has(t, "ORD") /\ CmpAt(s, t.last, s.last) > 0
    IN  IF ~optimize \/ t.type # "array" THEN s
        ELSE [(IF disorder THEN Lose(s, c, "ORD") ELSE s) EXCEPT !.jitsons[c].last = s.last]

(* The token of a collection, once it has been counted in the one around it *)
Opened(s, type, flags, optimize) ==
    LET e  == stack_expand(s, 1)
        checked == type = "array" /\ (optimize \/ "MK_SORT" \in flags)
        all == flags \union IF checked THEN {"ORD", "UNIF", "HOMO"} ELSE {}
    IN  IF e.ret = 0 THEN [e EXCEPT !.ret = FALSE]
        ELSE [e EXCEPT !.jitsons[e.ret] = [Token(type, all, 0, 0) EXCEPT !.coll = s.open],
                       !.open = e.ret, !.ret = TRUE]

(* sxe_jitson_stack_open_collection, and open_object and open_array: type is a
   token type and flags LOCAL or MK_SORT. *)
open_collection(s, type, flags, optimize) ==
    Opened(IF s.open > 0 THEN add_value(s, 0, IF flags = {} THEN type ELSE "flagged", <<>>) ELSE s,
           type, flags, optimize)

TextToken == Token("text", {}, 0, 0)
Texts(n)  == [i \in 1 .. n |-> TextToken]

(* sxe_jitson_stack_push_string: a copy takes the tokens that it needs, one
   expansion each, and is taken off again if one of them fails. *)
RECURSIVE push_text(_, _, _)
push_text(s, unwind, more) ==
    IF more = 0 THEN [s EXCEPT !.ret = TRUE]
    ELSE LET e == stack_expand(s, 1) IN
         IF e.ret = 0 THEN Cut(e, unwind - 1) ELSE push_text(Put(e, e.ret, TextToken), unwind, more - 1)

push_string(s, str, flags) ==
    LET e == stack_expand(s, 1)
        all == flags \union IF "OWN" \in flags THEN {"REF"} ELSE {}
        more == IF StrLen[str] < STRING_SIZE THEN 0
                ELSE (StrLen[str] - STRING_SIZE) \div TOKEN_SIZE + 1
    IN  IF e.ret = 0 THEN [e EXCEPT !.ret = FALSE]
        ELSE IF "REF" \in all THEN [Put(e, e.ret, Token("string", all, 0, str)) EXCEPT !.ret = TRUE]
        ELSE push_text(Put(e, e.ret, Token("string", all, StrLen[str], str)), e.ret, more)

(* sxe_jitson_stack_push_string_reversed takes all of the tokens at once; UINT
   and REVERSED are the same bit. *)
push_string_reversed(s, str) ==
    LET n == (StrLen[str] + 2 * TOKEN_SIZE - STRING_SIZE) \div TOKEN_SIZE
        e == stack_expand(s, n)
    IN  IF e.ret = 0 THEN [e EXCEPT !.ret = FALSE]
        ELSE [e EXCEPT !.ret = TRUE,
                       !.jitsons = s.jitsons \o <<Token("string", {"UINT"}, StrLen[str], StrRev[str])>> \o Texts(n - 1)]

add_member_name(s, str, flags) ==
    push_string([s EXCEPT !.jitsons[s.open].last = 1], str, flags \union {"KEY"})

(* The functions that add one token return whether there is a place for it. *)
HasPlace(s) == [s EXCEPT !.ret = @ # 0]
AddToken(s, t, etype) == HasPlace(add_value(s, 1, etype, <<t>>))

(* The end of sxe_jitson_stack_add_string: a copy that failed is not counted. *)
string_added(s, optimize) ==
    IF ~s.ret THEN [s EXCEPT !.jitsons[s.open].len = @ - 1]
    ELSE [value_added(s, optimize) EXCEPT !.ret = TRUE]

(* sxe_jitson_stack_add_string *)
add_string(s, str, flags, optimize) ==
    IF flags # {}
    THEN AddToken(s, [make_string_ref(str) EXCEPT !.flags = @ \union (flags \intersect {"OWN"})], "string")
    ELSE string_added(push_string([add_value(s, 0, "string", <<>>) EXCEPT !.last = Count(s) + 1], str, {}),
                      optimize)

add_null(s)      == AddToken(s, make_null, "null")
add_bool(s, b)   == AddToken(s, make_bool(b), "bool")
add_number(s, v) == AddToken(s, make_number(v), "number")
add_uint(s, n)   == AddToken(s, make_uint(n), "number")
add_reference(s, v) ==
    AddToken(s, make_reference(v, 1), IF v[1].flags = {} THEN v[1].type ELSE "flagged")

(* sxe_jitson_stack_add_dup: the copy is made first, then counted, with the type that
   the original has by then. *)
dup_added(d, v, optimize) ==
    IF ~d.ret THEN d
    ELSE [value_added(add_value(d, size(v, 1), IF IndexArrays(v)[1].flags = {} THEN v[1].type ELSE "flagged", <<>>),
                      optimize) EXCEPT !.ret = TRUE]

add_dup(s, v, optimize) == dup_added(dup_at_index(s, Count(s) + 1, v), v, optimize)

(* sxe_jitson_stack_add_dup_members, of an object that is not empty *)
members_on(e, s, v, c) ==
    Cloned(e, c, [s.jitsons EXCEPT ![s.open].len = @ + IF c.ret = "true" THEN v[1].len ELSE 0]
                 \o Tail(IndexArrays(v)))

add_dup_members(s, v) ==
    LET e == stack_expand(s, size(v, 1) - 1)
    IN  members_on(e, s, v, clone_members(v, Contents(v, 1), 1, e.k, 0, 0, 0))

(* A collection that was closed is a value added to the one around it. *)
InOuter(s, optimize) == IF s.open > 0 THEN value_added(s, optimize) ELSE s

(* Mutant of close_collection: the size is that of what is inside. *)
close_collection_short(s, optimize) ==
    LET c == s.open  t == s.jitsons[c] IN
    [s EXCEPT !.open = t.coll, !.ret = TRUE, !.jitsons[c].integer = Count(s) - c]

(* sxe_jitson_stack_close_collection, close_object and close_array *)
close_collection(s, optimize) ==
    LET c == s.open  t == s.jitsons[c]
        uniform == t.len > 0 /\ t.type = "array" /\ Has(t, "UNIF")
    IN  InOuter([s EXCEPT !.open = t.coll, !.ret = TRUE,
                          !.jitsons[c].uniform = IF uniform THEN (TOKEN_SIZE * (Count(s) - c)) \div t.len ELSE @,
                          !.jitsons[c].integer = IF uniform THEN @ ELSE Count(s) - c + 1], optimize)

(* sxe_jitson_stack_push_concat_array; the lengths add up within 32 bits. *)
push_concat_array(s, v, w, flags) ==
    LET e == stack_expand(s, 2)
        t == [Token("array", flags \union {"REF"}, v[1].len + w[1].len, 0) EXCEPT !.ref = <<v, w>>]
    IN  IF e.ret = 0 THEN [e EXCEPT !.ret = FALSE]
        ELSE [Put(e, e.ret, t) EXCEPT !.ret = TRUE, !.jitsons[e.ret + 1] = TextToken]
=============================================================================
