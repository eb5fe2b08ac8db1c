---------------------------- MODULE SxeJitsonLoad ----------------------------
(***************************************************************************)
(* The JSON parser (sxe_jitson_stack_load_json in sxe-jitson-stack.c), its *)
(* symbol tables (sxe-jitson-const.c), identifiers (sxe-jitson-ident.c)    *)
(* and the cast to a range (sxe-jitson-range.c).  A source is a text of    *)
(* lexemes, each a tuple that begins with its kind, as the functions of    *)
(* sxe-jitson-source.c find them between white space: module               *)
(* SxeJitsonSource has those functions character by character.             *)
(***************************************************************************)
EXTENDS SxeJitsonStack

CONSTANTS
    SymKey,     \* SymKey[name]: an identifier as a key of the symbol tables
    Constants,  \* the object of named constants of sxe_jitson_const_initialize,
                \* as pairs of a name and the array of tokens of its value
    IdentLen    \* IdentLen[name]: strlen of an identifier

source_from(text, flags) == [text |-> text, next |-> 1, flags |-> flags]

Eof == <<"eof">>
peek_nonspace(src) == IF src.next \in DOMAIN src.text THEN src.text[src.next] ELSE Eof
consume(src) == IF src.next \in DOMAIN src.text THEN [src EXCEPT !.next = @ + 1] ELSE src

(***************************************************************************)
(* Symbols                                                                 *)
(***************************************************************************)
Builtin(value) == [kind |-> "value", tokens |-> <<value>>]

Added(d, name, sym) == dict_add(d, SymKey[name], sym, 100).d

(* sxe_jitson_builtins_initialize_private *)
builtin_symbols ==
    Added(Added(Added(dict_new(3), "true", Builtin(make_bool(1))),
                "false", Builtin(make_bool(0))), "null", Builtin(make_null))

(* sxe_jitson_const_initialize, and the cast that sxe_jitson_range_register adds
   with sxe_jitson_const_register_cast *)
all_symbols ==
    LET builtins == Added(Added(Added(dict_new(3 + Len(Constants)), "true", Builtin(make_bool(1))),
                          "false", Builtin(make_bool(0))), "null", Builtin(make_null))
        with[i \in 0 .. Len(Constants)] ==
            IF i = 0 THEN builtins
            ELSE Added(with[i - 1], Constants[i][1], [kind |-> "value", tokens |-> Constants[i][2]])
    IN  Added(with[Len(Constants)], "range", [kind |-> "cast", tokens |-> <<>>])

const_get(flags, name) ==
    dict_find(IF "ALLOW_CONSTS" \in flags THEN all_symbols ELSE builtin_symbols, SymKey[name])

(* sxe_jitson_ident_push_stack, the hook of the parser: space for the fixed
   header, the name and its NUL; sxe_jitson_ident_size is the same number. *)
ident_push_stack(s, name) ==
    LET n == (STRING_SIZE + IdentLen[name]) \div TOKEN_SIZE + 1
        e == stack_expand(s, n)
    IN  IF e.ret = 0 THEN [e EXCEPT !.ret = FALSE]
        ELSE [e EXCEPT !.ret = TRUE,
                       !.jitsons = s.jitsons \o <<Token("identifier", {}, IdentLen[name], SymKey[name])>>
                                     \o Texts(n - 1)]

AsRange(d, at) == IF d.ret THEN [d EXCEPT !.jitsons[at].type = "range"] ELSE d

(* Mutant of range_cast: the two ends need not be in order. *)
range_cast_unordered(s, from) ==
    IF from[1].type # "array" \/ len(from, 1) # 2 THEN [s EXCEPT !.ret = FALSE]
    ELSE AsRange(dup_at_index(s, Count(s) + 1, from), Count(s) + 1)

(* sxe_jitson_range_cast: an array of two values in order, with its type changed *)
range_cast(s, from) ==
    IF \/ from[1].type # "array" \/ len(from, 1) # 2
       \/ cmp_pair(array_get_element(from, 1, 0), array_get_element(from, 1, 1)) > 0
    THEN [s EXCEPT !.ret = FALSE]
    ELSE AsRange(dup_at_index(s, Count(s) + 1, from), Count(s) + 1)

(* One end of a range, and its end, unless something has failed *)
range_end(s, v, optimize) == IF s.ret THEN add_dup(s, <<v>>, optimize) ELSE s
range_closed(s, at, optimize) ==
    IF s.ret THEN [close_collection(s, optimize) EXCEPT !.jitsons[at].type = "range"] ELSE s

(* sxe_jitson_stack_add_range: an array of the two, with its type changed *)
add_range(s, from, to, optimize) ==
    IF cmp(<<from>>, 1, <<to>>, 1) > 0 THEN [s EXCEPT !.ret = FALSE]
    ELSE range_closed(range_end(range_end(open_collection(s, "array", {}, optimize), from, optimize), to, optimize),
                      Count(s) + 1, optimize)

(***************************************************************************)
(* The parser: what is loaded is [ok, s, src]                              *)
(***************************************************************************)
Loaded(s, src)    == [ok |-> TRUE,  s |-> s, src |-> src]
Pushed(s, src)    == [ok |-> s.ret, s |-> s, src |-> src]
Failed(s, at, src) == [ok |-> FALSE, s |-> Cut(s, at - 1), src |-> src]

(* sxe_jitson_stack_load_string: a token, and another for every 16 bytes that
   the string and its NUL need past the first 8 *)
load_string(s, src) ==
    LET l == peek_nonspace(src)
        e == stack_expand(s, 1)
        more == (StrLen[l[2]] + TOKEN_SIZE - STRING_SIZE) \div TOKEN_SIZE
    IN  IF l[1] \notin {"str", "badstr"} \/ e.ret = 0 THEN [ok |-> FALSE, s |-> s, src |-> consume(src)]
        ELSE IF l[1] = "badstr" THEN Failed(e, e.ret, consume(src))
        ELSE Pushed(push_text(Put(e, e.ret, Token("string", {}, StrLen[l[2]], l[2])), e.ret, more), consume(src))

(* The checks on a new element of an array that is optimized: it is compared
   with the value loaded last before it, which is the element before it unless
   that is a collection. *)
element_checks(s, idx, previous, current) ==
    LET t == s.jitsons[idx]  l == s.jitsons[previous]  r == s.jitsons[current]
        gone == {f \in {"ORD", "UNIF", "HOMO"} :
                    CASE f = "ORD"  -> CmpAt(s, previous, current) > 0
                      [] f = "UNIF" -> current - previous # Count(s) + 1 - current
                      [] OTHER      -> l.type # r.type \/ l.flags # r.flags}
    IN  IF t.len = 0 THEN s ELSE [s EXCEPT !.jitsons[idx].flags = @ \ (@ \intersect gone)]

(* Mutant of array_close: the size counts the elements alone. *)
array_close_short(s, idx) ==
    LET t == s.jitsons[idx] IN
    [s EXCEPT !.jitsons[idx].integer = Count(s) - idx,
              !.jitsons[idx].uniform = IF Has(t, "UNIF") THEN (TOKEN_SIZE * (Count(s) - idx)) \div t.len ELSE 0]

(* The end of an array that is not empty *)
array_close(s, idx) ==
    LET t == s.jitsons[idx] IN
    [s EXCEPT !.jitsons[idx] =
        [t EXCEPT !.flags = IF t.len <= 1 THEN @ \ {"ORD"} ELSE @,
                  !.uniform = IF Has(t, "UNIF") THEN (TOKEN_SIZE * (Count(s) - idx)) \div t.len ELSE @,
                  !.integer = IF Has(t, "UNIF") THEN @ ELSE Count(s) - idx + 1]]

RECURSIVE load_json(_, _), load_members(_, _, _), load_elements(_, _, _)

(* A member is counted, and what follows it *)
next_member(value, previous, idx) ==
    LET added == [value.s EXCEPT !.jitsons[idx].len = @ + 1,
                                 !.jitsons[previous].flags = @ \union {"KEY"}]
        c     == peek_nonspace(value.src)[1]
    IN  IF ~value.ok THEN Failed(value.s, idx, value.src)
        ELSE IF c = "," THEN load_members(added, consume(value.src), idx)
        ELSE IF c = "}" THEN Loaded([added EXCEPT !.jitsons[idx].integer = Count(added) - idx + 1],
                                    consume(value.src))
        ELSE Failed(added, idx, consume(value.src))

(* The value of a member, after its name *)
load_member(name, previous, idx) ==
    IF ~name.ok THEN Failed(name.s, idx, name.src)
    ELSE IF peek_nonspace(name.src) # <<":">> THEN Failed(name.s, idx, consume(name.src))
    ELSE next_member(load_json(name.s, consume(name.src)), previous, idx)

(* The members of an object, from a name on *)
load_members(s, src, idx) ==
    IF peek_nonspace(src)[1] \notin {"str", "badstr"} THEN Failed(s, idx, src)
    ELSE load_member(load_string(s, src), Count(s) + 1, idx)

load_object(s, src, idx) ==
    LET opened == Put(s, idx, Token("object", {}, 0, 0)) IN
    IF peek_nonspace(src) = <<"}">>
    THEN Loaded([opened EXCEPT !.jitsons[idx].integer = 1], consume(src))
    ELSE load_members(opened, src, idx)

(* An element is counted, and what follows it *)
next_element(value, previous, current, idx) ==
    LET checked == IF "OPTIMIZE" \in value.src.flags THEN element_checks(value.s, idx, previous, current) ELSE value.s
        added   == [checked EXCEPT !.jitsons[idx].len = @ + 1]
        c       == peek_nonspace(value.src)[1]
    IN  IF ~value.ok THEN Failed(value.s, idx, value.src)
        ELSE IF c = "," THEN load_elements(added, consume(value.src), idx)
        ELSE IF c = "]" THEN Loaded(array_close(added, idx), consume(value.src))
        ELSE Failed(added, idx, consume(value.src))

(* The elements of an array that is not empty *)
load_elements(s, src, idx) == next_element(load_json(s, src), s.last, Count(s) + 1, idx)

load_array(s, src, idx) ==
    LET checked == IF "OPTIMIZE" \in src.flags THEN {"ORD", "UNIF", "HOMO"} ELSE {}
        opened  == Put(s, idx, Token("array", checked, 0, 0))
    IN  IF peek_nonspace(src) = <<"]">>
        THEN Loaded([opened EXCEPT !.jitsons[idx] = [@ EXCEPT !.flags = @ \ {"ORD"}, !.integer = 1]],
                    consume(src))
        ELSE load_elements(opened, src, idx)

(* A number; one that is not well formed is a lexeme of its own *)
load_number(s, src, idx) ==
    LET l == peek_nonspace(src) IN
    CASE l[2] = "UINT"   -> Loaded(Put(s, idx, Token("number", {"UINT"}, 0, l[3])), consume(src))
      [] l[2] = "DOUBLE" -> Loaded(Put(s, idx, make_number(l[3])), consume(src))
      [] OTHER           -> Failed(s, idx, consume(src))

Finished(s, idx, src) == IF s.ret THEN Loaded(s, src) ELSE Failed(s, idx, src)

(* The argument of a cast, off the stack, which has been returned *)
cast_argument(back, from, src, idx) ==
    IF from = <<>> THEN Failed(back, idx, src)
    ELSE IF peek_nonspace(src) # <<")">> THEN Failed(back, idx, consume(src))
    ELSE Finished(range_cast(back, from), idx, consume(src))

take_argument(arg, iou, idx) ==
    LET got == IF arg.ok THEN get_jitson(arg.s) ELSE [arg.s EXCEPT !.ret = <<>>]
    IN  cast_argument(stack_return(got, iou), got.ret, arg.src, idx)

(* A cast: its argument is loaded on the stack while it is borrowed, and taken
   off as a value of its own. *)
load_cast(s, src, idx) ==
    LET iou == Cut(s, Count(s) - 1) IN
    IF peek_nonspace(src) # <<"(">> THEN Failed(s, idx, consume(src))
    ELSE take_argument(load_json(stack_borrow(iou), consume(src)), iou, idx)

(* A constant, a cast or, if they are allowed, any other identifier *)
load_symbol(s, src, idx, sym) ==
    IF sym # NoValue
    THEN IF sym.kind = "cast" THEN load_cast(s, consume(src), idx)
         ELSE Pushed(dup_at_index(s, idx, sym.tokens), consume(src))
    ELSE IF "ALLOW_IDENTS" \in src.flags
    THEN Finished(ident_push_stack(Cut(s, Count(s) - 1), peek_nonspace(src)[2]), idx, consume(src))
    ELSE Failed(s, idx, consume(src))

load_identifier(s, src, idx) ==
    load_symbol(s, src, idx, const_get(src.flags, peek_nonspace(src)[2]))

(* sxe_jitson_stack_load_json: by the class of the next character *)
load_json(s0, src) ==
    LET l   == peek_nonspace(src)
        e   == stack_expand(s0, 1)
        idx == e.ret
        s   == [e EXCEPT !.last = idx]
    IN  CASE l = Eof \/ e.ret = 0 -> [ok |-> FALSE, s |-> s0, src |-> src]
          [] l[1] \in {"str", "badstr"} -> load_string(Cut(s, idx - 1), src)
          [] l = <<"{">>  -> load_object(s, consume(src), idx)
          [] l = <<"[">>  -> load_array(s, consume(src), idx)
          [] l[1] = "num" -> load_number(s, src, idx)
          [] l[1] = "id"  -> load_identifier(s, src, idx)
          [] OTHER        -> Failed(s, idx, src)

(* sxe_jitson_stack_parse_json: the number of lexemes consumed, -1 for NULL *)
Consumed(v) == [s |-> v.s, consumed |-> IF v.ok THEN v.src.next - 1 ELSE -1]
parse_json(s, text, flags) == Consumed(load_json(s, source_from(text, flags)))
=============================================================================
