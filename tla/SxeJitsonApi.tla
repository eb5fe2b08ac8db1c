---------------------------- MODULE SxeJitsonApi -----------------------------
(***************************************************************************)
(* A program that makes jitson values in the two ways there are: call by   *)
(* call on a stack (the functions of sxe-jitson.h and sxe-jitson-stack.c), *)
(* in any order the functions allow and with allocations that fail, or by  *)
(* parsing a text.  Beside the stack runs a record of what was asked for:  *)
(* the collections that are open, with the values put in each.             *)
(***************************************************************************)
EXTENDS SxeJitsonOper, SequencesExt

CONSTANTS
    Calls,      \* the values added: the name of the call and what it is given
    Names,      \* the names of members
    Lexemes,    \* the lexemes of texts
    Grants,     \* how many allocations succeed
    MaxTokens,  \* bound on the tokens of a value
    MaxDepth,   \* bound on the collections open at a time
    Starts,     \* the beginnings of texts
    MaxText,    \* bound on the lexemes after a beginning
    Others      \* texts of arrays to intersect with

VARIABLES
    mode,       \* "calls" or "text"
    flags,      \* sxe_jitson_flags: {} or {"OPTIMIZE"} and what the parser allows
    stack,      \* the stack
    frames,     \* the collections that are open, outermost first
    made,       \* the value made, <<>> while there is none
    failed,     \* a call has returned false
    text        \* the text to be parsed

vars == <<mode, flags, stack, frames, made, failed, text>>

optimize == "OPTIMIZE" \in flags

(* Values of their own, to copy from and refer to: an array, a string, and an object
   before and after a member was looked for in it *)
Sample(v) ==
    LET name == push_string(stack_make(4, 100), 2, {"KEY"}).jitsons IN
    CASE v = 1 -> << [Token("array", {}, 2, 0) EXCEPT !.integer = 3], make_uint(1), make_uint(2) >>
      [] v = 2 -> << Token("string", {"OWN", "REF"}, 0, 1) >>
      [] OTHER -> LET object == << [Token("object", {}, 1, 0) EXCEPT !.integer = 2 + Len(name)] >> \o name \o << make_uint(1) >>
                  IN  IF v = 3 THEN object ELSE index_object(object, 1)

(* What a value is, whatever it looks like in memory: found by the sizes of what
   lies in it, one after the other. *)
RECURSIVE Value(_, _)
Value(m0, p0) ==
    LET m == DerefM(m0, p0)  p == DerefP(m0, p0)  t == Tok(m, p)
        at == Contents(m, p)
    IN  CASE t.type = "null"   -> <<"null">>
          [] t.type = "bool"   -> <<"bool", t.val>>
          [] t.type = "number" -> <<"num", t.val>>
          [] t.type = "string" -> <<"str", t.val>>
          [] t.type = "identifier" -> <<"ident", t.val>>
          [] t.type = "object" -> <<"obj", [i \in 1 .. t.len |-> <<m[at[2 * i - 1]].val, Value(m, at[2 * i])>>]>>
          [] t.type = "invalid" -> <<"none">>
          [] t.type = "array" /\ Has(t, "REF") -> <<"array", Value(t.ref[1], 1)[2] \o Value(t.ref[2], 1)[2]>>
          [] OTHER -> <<t.type, [i \in 1 .. t.len |-> Value(m, at[i])]>>

(* What is asked for by a call *)
Asked(c) ==
    CASE c[1] = "bool" -> <<"bool", c[2]>>
      [] c[1] = "uint" -> <<"num", 2 * c[2]>>
      [] c[1] = "number" -> <<"num", c[2]>>
      [] c[1] \in {"string", "string_ref"} -> <<"str", c[2]>>
      [] c[1] = "range" -> <<"range", << <<"num", 2 * c[2]>>, <<"num", 2 * c[3]>> >> >>
      [] c[1] \in {"dup", "reference"} -> Value(Sample(c[2]), 1)
      [] OTHER -> <<"null">>

(* The call itself *)
Called(s, c) ==
    CASE c[1] = "bool" -> add_bool(s, c[2])
      [] c[1] = "uint" -> add_uint(s, c[2])
      [] c[1] = "number" -> add_number(s, c[2])
      [] c[1] = "string" -> add_string(s, c[2], {}, optimize)
      [] c[1] = "string_ref" -> add_string(s, c[2], {"REF"}, optimize)
      [] c[1] = "dup" -> add_dup(s, Sample(c[2]), optimize)
      [] c[1] = "range" -> add_range(s, make_uint(c[2]), make_uint(c[3]), optimize)
      [] c[1] = "reference" -> add_reference(s, Sample(c[2]))
      [] OTHER -> add_null(s)

Depth == Len(frames)
Top   == frames[Depth]

Put1(name, v) ==
    [frames EXCEPT ![Depth].items = Append(@, IF Top.type = "object" THEN <<name, v>> ELSE v)]

(* A name before the call, in an object (sxe_jitson_stack_add_member_string and
   the like); the call is not made if that fails. *)
Named(name) ==
    IF Depth > 0 /\ Top.type = "object" THEN add_member_name(stack, name, {}) ELSE [stack EXCEPT !.ret = TRUE]

NameChoice == IF Depth > 0 /\ Top.type = "object" THEN Names ELSE {0}

FlagChoice == {{}, {"OPTIMIZE"}, {"ALLOW_CONSTS", "ALLOW_IDENTS"}}

Init ==
    /\ mode \in {"calls", "text"} /\ flags \in FlagChoice
    /\ \E k \in Grants : stack = stack_make(1, k)
    /\ frames = <<>> /\ made = <<>> /\ failed = FALSE
    /\ text \in IF mode = "text" THEN Starts ELSE {<<>>}

Room == mode = "calls" /\ ~failed /\ made = <<>> /\ Count(stack) < MaxTokens

(* sxe_jitson_stack_open_object or _open_array, the latter perhaps of an array
   that is kept sorted, and before it the name of the member that it is *)
Open(type, name, sorted) ==
    LET s == Named(name)
        o == open_collection(s, type, IF sorted THEN {"MK_SORT"} ELSE {}, optimize)
    IN  /\ Room /\ Depth < MaxDepth /\ (Depth = 0 => Count(stack) = 0)
        /\ sorted => type = "array" /\ Depth = 0
        /\ Depth > 0 => ~Top.sorted
        /\ stack' = IF s.ret THEN o ELSE s
        /\ failed' = ~stack'.ret
        /\ frames' = Append(frames, [type |-> type, items |-> <<>>, name |-> name, sorted |-> sorted])
        /\ UNCHANGED <<mode, flags, made, text>>

(* A call that adds a value to the collection that is open.  A sorted array is
   given values of one token that can be compared, as the assertions demand.  A copy
   that goes on with NULL is the end of the program. *)
Add(c, name) ==
    LET s == Named(name)
        a == Called(s, c)
    IN  /\ Room /\ Depth > 0
        /\ Top.sorted => /\ c[1] \in {"uint", "number", "string_ref"}
                         /\ \A i \in DOMAIN Top.items : Top.items[i][1] = Asked(c)[1]
        /\ s.ret => ~a.crash
        /\ stack' = IF s.ret THEN a ELSE s
        /\ failed' = ~stack'.ret
        /\ frames' = Put1(name, Asked(c))
        /\ UNCHANGED <<mode, flags, made, text>>

(* sxe_jitson_stack_close_object and sxe_jitson_stack_close_array *)
Close ==
    LET inner == <<Top.type, Top.items>>
        outer == SubSeq(frames, 1, Depth - 1)
        tagged == IF Top.type = "object" THEN <<"obj", Top.items>> ELSE inner
    IN  /\ mode = "calls" /\ ~failed /\ Depth > 0
        /\ stack' = close_collection(stack, optimize)
        /\ made' = IF Depth = 1 THEN tagged ELSE <<>>
        /\ frames' = IF Depth = 1 THEN <<>>
                     ELSE [outer EXCEPT ![Depth - 1].items =
                              Append(@, IF outer[Depth - 1].type = "object" THEN <<Top.name, tagged>> ELSE tagged)]
        /\ UNCHANGED <<mode, flags, failed, text>>

(* sxe_jitson_stack_add_dup_members, from an object that is indexed or not *)
AddMembers(n) ==
    LET from == Sample(n) IN
    /\ Room /\ Depth > 0 /\ Top.type = "object"
    /\ stack' = add_dup_members(stack, from)
    /\ failed' = ~stack'.ret
    /\ frames' = [frames EXCEPT ![Depth].items = @ \o Value(from, 1)[2]]
    /\ UNCHANGED <<mode, flags, made, text>>

(* A value that is made in one call: sxe_jitson_stack_push_string,
   sxe_jitson_stack_push_string_reversed or sxe_jitson_stack_push_concat_array *)
Push(s, v) ==
    /\ Room /\ Count(stack) = 0
    /\ stack' = s
    /\ failed' = ~s.ret
    /\ made' = IF s.ret THEN v ELSE <<>>
    /\ UNCHANGED <<mode, flags, frames, text>>

PushAny ==
    LET array == Value(Sample(1), 1)[2] IN
    \/ \E c \in {d \in Calls : d[1] = "string"} :
          Push(push_string(stack, c[2], {}), Asked(c)) \/ Push(push_string_reversed(stack, c[2]), <<"str", StrRev[c[2]]>>)
    \/ Push(push_concat_array(stack, Sample(1), Sample(1), {}), <<"array", array \o array>>)

(* The caller gives up: sxe_jitson_stack_clear *)
GiveUp ==
    /\ failed
    /\ stack' = stack_clear(stack)
    /\ failed' = FALSE /\ frames' = <<>>
    /\ UNCHANGED <<mode, flags, made, text>>

(* Another lexeme is written.  A text that the parser has already accepted or
   refused is not written on: more of it would never be read. *)
Write(l) ==
    /\ mode = "text" /\ \E t \in Starts : IsPrefix(t, text) /\ Len(text) < Len(t) + MaxText
    /\ \E v \in {load_json(stack, source_from(text, flags))} : ~v.ok /\ v.src.next > Len(text)
    /\ text' = Append(text, l)
    /\ UNCHANGED <<mode, flags, stack, frames, made, failed>>

Next ==
    \/ \E type \in {"object", "array"}, name \in NameChoice, sorted \in BOOLEAN : Open(type, name, sorted)
    \/ \E c \in Calls, name \in NameChoice : Add(c, name)
    \/ \E n \in {3, 4} : AddMembers(n)
    \/ PushAny
    \/ Close
    \/ GiveUp
    \/ \E l \in Lexemes : Write(l)

Spec == Init /\ [][Next]_vars
-----------------------------------------------------------------------------
Tokens == stack.jitsons

(* Elements that are collections, in an array *)
RECURSIVE HasNested(_)
HasNested(v) ==
    CASE v[1] = "array" -> \E i \in DOMAIN v[2] : v[2][i][1] \in {"array", "obj", "range"}
      [] v[1] = "obj"   -> \E i \in DOMAIN v[2] : HasNested(v[2][i][2])
      [] OTHER          -> FALSE

(* The order in which the values of a sorted array are made to lie *)
InOrder(items) == SortSeq(items, LAMBDA a, b : a[2] < b[2])

(* A value that all the calls succeeded for is the one that was asked for: each
   element and member, in the order of the calls or, in an array kept sorted, in
   order; and its size is the tokens on the stack.  The calls expand the stack,
   chain open collections through its tokens and reuse the fields of a token
   when a collection is closed. *)
BuiltAsAsked ==
    made # <<>> =>
        /\ size(Tokens, 1) = Count(stack) /\ Count(stack) <= stack.maximum /\ stack.open = 0
        /\ Value(Tokens, 1) = IF Has(Tokens[1], "MK_SORT") THEN <<"array", InOrder(made[2])>> ELSE made

(* A value as the accessors find it: elements by their index, members by the names
   that are asked for. *)
RECURSIVE Accessed(_, _, _)
Accessed(m0, p0, names) ==
    LET m == DerefM(m0, p0)  p == DerefP(m0, p0)  t == Tok(m, p) IN
    CASE t.type = "array"  -> <<"array", [i \in 1 .. t.len + 1 |->
                                LET e == array_get_element(m, p, i - 1)
                                IN  IF e = <<>> THEN e ELSE Accessed(e[1], e[2], names)]>>
      [] t.type = "object" -> <<"obj", [n \in names |->
                                LET e == object_get_member(m, p, n)
                                IN  IF e = <<>> THEN e ELSE Accessed(e[1], e[2], names)]>>
      [] OTHER -> Value(m, p)

(* What they should find: nothing past the end, the last member of a name *)
RECURSIVE Expected(_, _)
Expected(v, names) ==
    CASE v[1] = "array" -> <<"array", [i \in 1 .. Len(v[2]) + 1 |->
                              IF i > Len(v[2]) THEN <<>> ELSE Expected(v[2][i], names)]>>
      [] v[1] = "obj" -> <<"obj", [n \in names |->
            LET at == {i \in DOMAIN v[2] : v[2][i][1] = n}
            IN  IF at = {} THEN <<>> ELSE Expected(v[2][CHOOSE i \in at : \A j \in at : j <= i][2], names)]>>
      [] OTHER -> v

(* Names that were copied from an indexed object, with a link for their length *)
Linked(m) == {m[q].val : q \in {r \in DOMAIN m : Has(m[r], "KEY") /\ ~Has(m[r], "REF") /\ m[r].len # StrLen[m[r].val]}}

(* The accessors find every element and every member, through indices made on
   the first access: offsets and the size in place of the size alone, buckets
   and links in place of the lengths of names.  A name that was copied from an object
   already indexed is the exception: it is put in the bucket of a hash of the wrong
   length, though this is the "Only time it's safe to use vol_memb->len". *)
FoundAsAsked ==
    made # <<>> => LET names == Names \ Linked(Tokens)
                   IN  Accessed(Tokens, 1, names) = Expected(Value(Tokens, 1), names)

(* The order of members does not matter. *)
RECURSIVE Unordered(_)
Unordered(v) ==
    CASE v[1] \in {"array", "range"} -> <<v[1], [i \in DOMAIN v[2] |-> Unordered(v[2][i])]>>
      [] v[1] = "obj"   -> <<"obj", Len(v[2]), {<<v[2][i][1], Unordered(v[2][i][2])>> : i \in DOMAIN v[2]}>>
      [] OTHER          -> v

(* What is left of a value in its text *)
RECURSIVE Rounded(_)
Rounded(v) ==
    CASE v[1] = "num" -> <<"num", Printed(v[2])>>
      [] v[1] \in {"array", "range"} -> <<v[1], [i \in DOMAIN v[2] |-> Rounded(v[2][i])]>>
      [] v[1] = "obj" -> <<"obj", [i \in DOMAIN v[2] |-> <<v[2][i][1], Rounded(v[2][i][2])>>]>>
      [] OTHER        -> v

(* A value turned into JSON and parsed is the same value, but for the doubles that need
   17 digits, which become the ones that their 16 digits stand for; and all of its text
   is read; also if the parser optimizes arrays, unless there are collections in
   them (see NestedUniform).  A range is read back where casts are allowed. *)
ReadsBack ==
    /\ made # <<>> /\ ~(optimize /\ HasNested(made))
    /\ (\E i \in DOMAIN Tokens : Tokens[i].type = "range") => "ALLOW_CONSTS" \in flags
    =>  LET json == build_json(Tokens, 1)
            r == parse_json(stack_make(1, 100), json, flags)
        IN  /\ r.consumed = Len(json)
            /\ Unordered(Value(r.s.jitsons, 1)) = Unordered(Rounded(Value(Tokens, 1)))
            /\ Accessed(r.s.jitsons, 1, Names)[1] = made[1]

(* Single values to look for, each a jitson of its own *)
Needles == {c \in Calls : c[1] \in {"uint", "number", "string", "string_ref", "null", "bool"}}
NeedleTokens(c) ==
    CASE c[1] = "uint" -> <<make_uint(c[2])>>
      [] c[1] = "number" -> <<make_number(c[2])>>
      [] c[1] = "bool" -> <<make_bool(c[2])>>
      [] c[1] = "null" -> <<make_null>>
      [] OTHER -> <<make_string_ref(c[2])>>

(* IN finds a value in an array exactly if it is there, be the search binary, in
   an array known to be in order, or linear; and an array that is known to be in
   order is.  The array of one null or one boolean is the exception: the parser
   does not consider it ordered, the calls do, and the search fails. *)
InFindsAll ==
    made # <<>> /\ made[1] = "array" /\ ~HasNested(made) =>
        /\ \A c \in {n \in Needles : Has(Tokens[1], "ORD") => n[1] \notin {"null", "bool"}} :
              (in(NeedleTokens(c), 1, Tokens, 1) = <<"true">>) = (\E i \in DOMAIN made[2] : made[2][i] = Asked(c))
        /\ Has(Tokens[1], "ORD") => \A i \in 1 .. Len(made[2]) - 1 :
              CmpAt(stack, Contents(Tokens, 1)[i], Contents(Tokens, 1)[i + 1]) <= 0

(* A value as it is made, and after an element or a member was looked for in it *)
AsMade(m) ==
    {m, IF m[1].type = "object" /\ m[1].len > 0 THEN index_object(m, 1)
        ELSE IF 1 \in Unindexed(m) THEN index_array(m, 1) ELSE m}

(* What copying a value may allocate, but for the block and the top of the copy *)
Owners(m) == {q \in DOMAIN m \ {1} : Has(m[q], "OWN")} \union (Unindexed(m) \ {1})

(* A copy of a value, its indexes with it, is freed with as many frees as there were
   allocations, has the same elements and members, and the indexes that the original got
   on the way are freed with the original.  A copy that fails leaves nothing behind but
   what the members copied before the one that failed own; and only arrays that were
   not indexed yet can make it go on with NULL. *)
CopiesFreed ==
    made # <<>> => \A m \in AsMade(Tokens), k \in 0 .. 6 : LET d == dup(m, 1, k) IN
        /\ d.ret = "true" =>
              /\ free(d.m) = d.live /\ Value(d.m, 1) = Value(m, 1)
              /\ ~Has(m[1], "REF") => freed(d.from, 1) = freed(m, 1) + d.of
              /\ Accessed(d.m, 1, Names) = Accessed(m, 1, Names)
        /\ d.ret = "false" => k < 2 + freed(m, 1) + 2 * Cardinality(Unindexed(m))
                              /\ (d.live = 0 \/ d.live < Cardinality(Owners(m)))
        /\ d.ret = "null" => Has(m[1], "REF") \/ Unindexed(m) # {}

ElementsOf(v) == {v[2][i] : i \in DOMAIN v[2]}

(* The search in an array of one null or boolean that passes for ordered fails. *)
Searchable(m) == ~(Has(m[1], "ORD") /\ Tok(m, 2).type \in {"null", "bool"})

(* A long string that is not copied takes one token, a copy of it several; two
   ordered arrays of elements of different sizes are taken to have none in common
   ("Different sized elements can't intersect"), also if they have such strings. *)
AllCopied(m) == \A i \in DOMAIN m : ~(m[i].type = "string" /\ Has(m[i], "REF") /\ StrLen[m[i].val] >= STRING_SIZE)

(* Two ordered arrays of values of different types are merged and fail to compare. *)
Mergeable(m, n) == Has(m[1], "ORD") /\ Has(n[1], "ORD") /\ Len(m) > 1 => get_type(m, 2) = get_type(n, 2)

Meets(m, n, s, optimized) ==
    LET both == ElementsOf(Value(m, 1)) \intersect ElementsOf(Value(n, 1)) IN
    Mergeable(m, n) => \A r \in {intersect(s, m, 1, n, 1, optimized)} :
        /\ r.ret # <<>> /\ ElementsOf(Value(r.ret, 1)) = both
        /\ r.s.jitsons = s.jitsons /\ r.s.open = s.open /\ r.s.borrow = s.borrow
        /\ intersect_test(m, 1, n, 1) = IF both = {} THEN <<"false">> ELSE <<"true">>

(* The intersection of two arrays has the elements that are in both, either way
   round and be it found by merging, by searching or by comparing all pairs, and
   the test agrees with it.  The stack that is borrowed for the result, on which
   a collection may be open, is as it was before. *)
IntersectsAsSets ==
    made # <<>> /\ made[1] = "array" /\ ~HasNested(made) /\ AllCopied(Tokens) /\ Searchable(Tokens) =>
        \A other \in {parse_json(stack_make(1, 100), o, flags).s.jitsons : o \in Others} :
        \A busy \in {open_collection(stack_make(1, 100), "array", {}, FALSE)} :
        \A pair \in {<<Tokens, other>>, <<other, Tokens>>} : Meets(pair[1], pair[2], busy, optimize)

(***************************************************************************)
(* Texts                                                                   *)
(***************************************************************************)

(* The text of a value, members in their order, and of the constants in a text *)
RECURSIVE Written(_), Listed(_)
Listed(vs) == IF vs = <<>> THEN <<>>
              ELSE Written(Head(vs)) \o (IF Len(vs) = 1 THEN <<>> ELSE << <<",">> >>) \o Listed(Tail(vs))
Written(v) ==
    CASE v[1] = "str"   -> << v >>
      [] v[1] = "num"   -> << <<"num", "UINT", v[2]>> >>
      [] v[1] = "bool"  -> << <<"id", IF v[2] = 1 THEN "true" ELSE "false">> >>
      [] v[1] = "null"  -> << <<"id", "null">> >>
      [] v[1] = "ident" -> << <<"id", CHOOSE name \in DOMAIN SymKey : SymKey[name] = v[2]>> >>
      [] v[1] = "array" -> << <<"[">> >> \o Listed(v[2]) \o << <<"]">> >>
      [] v[1] = "range" -> << <<"id", "range">>, <<"(">>, <<"[">> >> \o Listed(v[2]) \o << <<"]">>, <<")">> >>
      [] v[1] = "obj"   -> << <<"{">> >> \o Listed([i \in DOMAIN v[2] |-> <<"member">> \o v[2][i]]) \o << <<"}">> >>
      [] OTHER          -> << <<"str", v[2]>>, <<":">> >> \o Written(v[3])

ConstantNames == {Constants[i][1] : i \in DOMAIN Constants}
Meaning(l) ==
    IF l[1] = "id" /\ l[2] \in ConstantNames /\ "ALLOW_CONSTS" \in flags
    THEN Written(Value((CHOOSE i \in {Constants[j] : j \in DOMAIN Constants} : i[1] = l[2])[2], 1))
    ELSE <<l>>
Meant(t) == FlattenSeq([i \in DOMAIN t |-> Meaning(t[i])])

(* The parser accepts only texts of values, a range's with its ends in order, and
   loads the value that the text is of; whatever it refuses, for its form or for want of memory, leaves nothing
   behind on the stack: what lay there before is all that lies there after.  A
   text that is a constant of several tokens, of which no copy can be made, is
   the one exception. *)
LoadedAsWritten ==
    mode = "text" =>
        LET before == [stack EXCEPT !.jitsons = <<make_null>>] IN
        \A v \in {load_json(before, source_from(text, flags))} :
            LET value == Value(v.s.jitsons, 2) IN
            IF v.ok
            THEN /\ ~(optimize /\ HasNested(value)) => Written(value) = Meant(SubSeq(text, 1, v.src.next - 1))
                 /\ value[1] = "range" => Len(value[2]) = 2 /\ value[2][1][1] = value[2][2][1] /\ value[2][1][2] <= value[2][2][2]
                 /\ Count(v.s) <= v.s.maximum /\ 1 + size(v.s.jitsons, 2) = Count(v.s)
            ELSE v.s.jitsons = before.jitsons \/ <<text[1]>> # Meaning(text[1])

(* An array whose flag says that its elements are of uniform size ("uniformly
   sized elements (so no index needed)", sxe-jitson.h) gives every element by its
   index, also if elements are arrays: the parser compares each element with the
   value loaded last, which may lie inside the element before it. *)
NestedUniform ==
    mode = "text" =>
        \A v \in {load_json(stack, source_from(text, flags))} :
        v.ok => Accessed(v.s.jitsons, 1, Names) = Expected(Value(v.s.jitsons, 1), Names)
=============================================================================
