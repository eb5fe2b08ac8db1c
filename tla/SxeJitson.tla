----------------------------- MODULE SxeJitson -------------------------------
(***************************************************************************)
(* Jitson values (sxe-jitson.c, sxe-jitson-type.c, sxe-jitson.h): a JSON   *)
(* value flattened into an array of tokens.  A value is a pair m, p: the   *)
(* array m of tokens it lies in and the place p of its first one.  A       *)
(* string is a number with a length and a hash, ordered as strcmp orders;  *)
(* a JSON number is held in halves, so that a double can be a fraction.     *)
(* What a token points to (jitref, the arrays of a concatenation) is held  *)
(* in its field ref, as the arrays of tokens pointed to.                   *)
(***************************************************************************)
EXTENDS Integers, Sequences, FiniteSets

CONSTANTS
    StrLen,      \* StrLen[s]: strlen of s
    StrHash,     \* StrHash[s]: sxe_hash_sum of s
    StrRev,      \* StrRev[s]: s from its end to its beginning
    Digits17,    \* doubles that 16 digits do not tell from the one before them
    DoubleExact  \* doubles hold the integers exactly up to this one (2^53)

TOKEN_SIZE  == 16
STRING_SIZE == 8
CMP_ERROR   == 2      \* INT_MAX: greater than any other result
INDEXED     == "OWN"  \* SXE_JITSON_TYPE_INDEXED and _IS_OWN are the same bit

(* struct sxe_jitson: the type with its flags, and the members of the unions:
   len or link; val (number, boolean, string), last (partial.last or, if it is
   not 0, partial.no_value), coll, integer, uniform (uniform.size), index, ref. *)
Token(type, flags, len, val) ==
    [type |-> type, flags |-> flags, len |-> len, val |-> val,
     last |-> 0, coll |-> 0, integer |-> 0, uniform |-> 0, index |-> <<>>, ref |-> <<>>]

Has(t, flag) == flag \in t.flags

NoToken  == Token("invalid", {}, 0, 0)
Tok(m, p) == IF p \in DOMAIN m THEN m[p] ELSE NoToken

make_null        == Token("null", {}, 0, 0)
make_bool(b)     == Token("bool", {}, 0, b)
make_number(v)   == Token("number", {}, 0, v)
make_uint(n)     == Token("number", {"UINT"}, 0, 2 * n)
make_string_ref(s) == Token("string", {"REF"}, 0, s)

(* References to references are not made. *)
make_reference(m, p) ==
    [Token("reference", {}, 0, 0) EXCEPT
        !.ref = IF m[p].type = "reference" THEN m[p].ref
                ELSE << SubSeq(m, p, Len(m)) >>]

(* sxe_jitson_dereference *)
DerefM(m, p) == IF Tok(m, p).type = "reference" THEN m[p].ref[1] ELSE m
DerefP(m, p) == IF Tok(m, p).type = "reference" THEN 1 ELSE p

get_type(m, p) == Tok(DerefM(m, p), DerefP(m, p)).type

(***************************************************************************)
(* Sizes, in tokens, and lengths                                           *)
(***************************************************************************)

(* The len of a key is its link in the index; the length of a reference is not
   known until it is asked for.  Keeping it then changes no answer. *)
string_len(t) ==
    IF Has(t, "KEY") \/ (t.len = 0 /\ Has(t, "REF")) THEN StrLen[t.val] ELSE t.len

string_size(t) ==
    IF Has(t, "REF") THEN 1
    ELSE 1 + (string_len(t) + TOKEN_SIZE - STRING_SIZE) \div TOKEN_SIZE

size_indexed(t) == IF Has(t, INDEXED) THEN t.index[t.len + 1] ELSE t.integer

array_size(t) ==
    IF Has(t, "REF") THEN 2
    ELSE IF Has(t, "UNIF") THEN 1 + t.len * ((t.uniform + TOKEN_SIZE - 1) \div TOKEN_SIZE)
    ELSE size_indexed(t)

(* Identifiers are stored like strings. *)
ident_size(t) == 1 + (t.len + STRING_SIZE) \div TOKEN_SIZE

(* sxe_jitson_size: the size function of the value's type *)
token_size(t) ==
    CASE t.type = "string" -> string_size(t)
      [] t.type = "identifier" -> ident_size(t)
      [] t.type \in {"array", "range"} -> array_size(t)
      [] t.type = "object" -> size_indexed(t)
      [] OTHER             -> 1

size(m, p) == token_size(Tok(m, p))

(* sxe_jitson_len, on the types that support it; sxe_jitson_reference_len *)
len(m, p) ==
    LET t == Tok(DerefM(m, p), DerefP(m, p)) IN
    IF t.type = "string" THEN string_len(t) ELSE t.len

(***************************************************************************)
(* Elements and members, by the index that is made on first access         *)
(***************************************************************************)

(* The offsets of n values that follow one another from offset 1 on. *)
Offsets(m, p, n) ==
    LET off[i \in 0 .. n] ==
          IF i = 0 THEN 1 ELSE off[i - 1] + size(m, p + off[i - 1])
    IN  [i \in 1 .. n |-> off[i - 1]]

(* The index is the offsets of the elements, and the size at its end.  It can be made
   here: an accessor that cannot allocate it returns NULL and changes nothing (see
   Recheck in SxeJitsonIndex). *)
index_array(m, p) ==
    [m EXCEPT ![p].index = Append(Offsets(m, p, m[p].len), m[p].integer),
              ![p].flags = @ \union {INDEXED}]

(* The hash by which a name is put in a bucket: of the bytes that its field len tells,
   unless it is a reference.  In a name that was copied from an indexed object, len is
   a link, and the hash is that of more or fewer bytes than the name has. *)
Hashed(t) ==
    IF Has(t, "REF") \/ t.len = StrLen[t.val] THEN StrHash[t.val] ELSE StrHash[t.val] + t.len + 1

(* The buckets hold the offset of the name added last, 0 if they are empty;
   a name's link, which is its field len, that of the one added before it. *)
index_object(m, p) ==
    LET n == m[p].len
        at == Offsets(m, p, 2 * n)
        Bucket(i) == Hashed(m[p + at[2 * i - 1]]) % n
        Newest(S) == IF S = {} THEN 0 ELSE at[2 * (CHOOSE i \in S : \A j \in S : j <= i) - 1]
        chained[i \in 0 .. n] ==
            IF i = 0 THEN m
            ELSE [chained[i - 1] EXCEPT ![p + at[2 * i - 1]].len =
                     Newest({j \in 1 .. i - 1 : Bucket(j) = Bucket(i)})]
    IN  [chained[n] EXCEPT
            ![p].index = Append([b \in 1 .. n |-> Newest({i \in 1 .. n : Bucket(i) = b - 1})],
                                m[p].integer),
            ![p].flags = @ \union {INDEXED}]

(* sxe_jitson_array_get_element by the index, which is there *)
Element(x, p, idx) == << x, p + x[p].index[idx + 1] >>

(* The place of the element, counted from 0, as an array and a place in it;
   <<>> if the index is out of range. *)
RECURSIVE array_get_element(_, _, _)

element_of(m, p, idx) ==
    LET t == m[p] IN
    IF idx >= t.len THEN <<>>
    ELSE IF Has(t, "REF")  \* a concatenation of two arrays
    THEN LET first == t.ref[1][1].len IN
         IF idx < first THEN array_get_element(t.ref[1], 1, idx)
         ELSE array_get_element(t.ref[2], 1, idx - first)
    ELSE IF Has(t, "UNIF") THEN << m, p + 1 + (t.uniform \div TOKEN_SIZE) * idx >>
    ELSE Element(IF Has(t, INDEXED) THEN m ELSE index_array(m, p), p, idx)

array_get_element(m, p, idx) == element_of(DerefM(m, p), DerefP(m, p), idx)

(* Mutant of object_get_member: the first name of the bucket is taken for it. *)
object_get_member_first(m0, p0, name) ==
    LET m == DerefM(m0, p0)  p == DerefP(m0, p0)
        x == IF Has(m[p], INDEXED) \/ m[p].len = 0 THEN m ELSE index_object(m, p)
        o == IF m[p].len = 0 THEN 0 ELSE x[p].index[1 + (StrHash[name] % x[p].len)]
    IN  IF o = 0 THEN <<>> ELSE << x, p + o + size(x, p + o) >>

(* The value of the member whose name is at offset o *)
Member(x, p, o) == IF o = 0 THEN <<>> ELSE << x, p + o + size(x, p + o) >>

find_member(x, p, name) ==
    LET walk[o \in 0 .. Len(x)] ==
          IF o = 0 THEN 0
          ELSE IF x[p + o].val = name THEN o ELSE walk[x[p + o].len]
    IN  IF x[p].len = 0 THEN <<>>
        ELSE Member(x, p, walk[x[p].index[1 + (StrHash[name] % x[p].len)]])

object_get_member(m0, p0, name) ==
    LET m == DerefM(m0, p0)  p == DerefP(m0, p0) IN
    find_member(IF Has(m[p], INDEXED) \/ m[p].len = 0 THEN m ELSE index_object(m, p), p, name)

(***************************************************************************)
(* Tests, comparisons and equality                                         *)
(***************************************************************************)
null_test(t)    == FALSE
bool_test(t)    == t.val = 1
number_test(t)  == t.val # 0
string_test(t)  == IF Has(t, "REF") THEN StrLen[t.val] # 0 ELSE t.len # 0
test_len(t)     == t.len # 0
range_test(t)   == TRUE

(* sxe_jitson_test; sxe_jitson_reference_test tests what it points to *)
test(m, p) ==
    LET t == Tok(DerefM(m, p), DerefP(m, p)) IN
    CASE t.type = "null"   -> null_test(t)
      [] t.type = "bool"   -> bool_test(t)
      [] t.type = "number" -> number_test(t)
      [] t.type = "string" -> string_test(t)
      [] t.type = "range"  -> range_test(t)
      [] OTHER             -> test_len(t)

Sign(a, b) == IF a < b THEN -1 ELSE IF a = b THEN 0 ELSE 1

(* (double) of an unsigned integer, in halves: past DoubleExact every other
   integer is missing, and a tie goes to the even neighbour. *)
ToDouble(v) ==
    IF v <= 2 * DoubleExact \/ v % 4 = 0 THEN v
    ELSE IF ((v \div 2) - 1) % 4 = 0 THEN v - 2 ELSE v + 2

(* (double)(uint64_t)d = d.  Converting any other double is undefined, and no
   unsigned integer that it may give converts back to it. *)
IsUint(d) == d >= 0 /\ d % 2 = 0

(* sxe_jitson_number_cmp; sxe_uint64_cmp is Sign *)
number_cmp(l, r) ==
    CASE Has(l, "UINT") = Has(r, "UINT") -> Sign(l.val, r.val)
      [] Has(l, "UINT") /\ ~Has(r, "UINT") ->
            IF IsUint(r.val) \/ ToDouble(l.val) = l.val THEN Sign(l.val, r.val) ELSE CMP_ERROR
      [] OTHER ->
            IF IsUint(l.val) \/ ToDouble(r.val) = r.val THEN Sign(l.val, r.val) ELSE CMP_ERROR

string_cmp(l, r) == Sign(l.val, r.val)

RECURSIVE cmp(_, _, _, _), array_cmp(_, _, _, _, _)

cmp_pair(l, r) == cmp(l[1], l[2], r[1], r[2])

(* The cmp function of the type, if it has one, of values that are no references *)
cmp_by_type(lm, lp, rm, rp) ==
    LET l == Tok(lm, lp)  r == Tok(rm, rp) IN
    IF l.type # r.type \/ l.type \notin {"number", "string", "array"} THEN CMP_ERROR
    ELSE CASE l.type = "number" -> number_cmp(l, r)
           [] l.type = "string" -> string_cmp(l, r)
           [] OTHER             -> array_cmp(lm, lp, rm, rp, 0)

(* sxe_jitson_cmp, of values that are there *)
cmp(lm, lp, rm, rp) == cmp_by_type(DerefM(lm, lp), DerefP(lm, lp), DerefM(rm, rp), DerefP(rm, rp))

cmp_after(ret, lm, lp, rm, rp, i) == IF ret # 0 THEN ret ELSE array_cmp(lm, lp, rm, rp, i)

(* From element i on: the first difference decides, then the lengths. *)
array_cmp(lm, lp, rm, rp, i) ==
    IF i = lm[lp].len THEN (IF i < rm[rp].len THEN -1 ELSE 0)
    ELSE IF i >= rm[rp].len THEN 1
    ELSE cmp_after(cmp_pair(array_get_element(lm, lp, i), array_get_element(rm, rp, i)), lm, lp, rm, rp, i + 1)

null_eq(l, r) == TRUE
bool_eq(l, r) == l.val = r.val

(* If both lengths are known and differ, the strings are not compared. *)
string_eq(l, r) ==
    ~(l.len # 0 /\ r.len # 0 /\ l.len # r.len) /\ l.val = r.val

RECURSIVE eq(_, _, _, _), array_eq(_, _, _, _, _)

eq_pair(l, r) == eq(l[1], l[2], r[1], r[2])

(* sxe_jitson_eq: 1, 0 or -1, SXE_JITSON_TEST_ERROR *)
eq_by_type(lm, lp, rm, rp) ==
    LET l == Tok(lm, lp)  r == Tok(rm, rp)
        Bit(b) == IF b THEN 1 ELSE 0
    IN  CASE l.type # r.type    -> 0
          [] l.type = "null"    -> Bit(null_eq(l, r))
          [] l.type = "bool"    -> Bit(bool_eq(l, r))
          [] l.type = "string"  -> Bit(string_eq(l, r))
          [] l.type \in {"array", "range"} -> array_eq(lm, lp, rm, rp, 0)
          [] l.type = "number"  ->
                LET ret == number_cmp(l, r)
                IN  IF ret = CMP_ERROR THEN -1 ELSE Bit(ret = 0)
          [] OTHER -> -1

eq(lm, lp, rm, rp) == eq_by_type(DerefM(lm, lp), DerefP(lm, lp), DerefM(rm, rp), DerefP(rm, rp))

eq_after(ret, lm, lp, rm, rp, i) == IF ret # 1 THEN ret ELSE array_eq(lm, lp, rm, rp, i)

array_eq(lm, lp, rm, rp, i) ==
    IF lm[lp].len # rm[rp].len THEN 0
    ELSE IF i = lm[lp].len THEN 1
    ELSE eq_after(eq_pair(array_get_element(lm, lp, i), array_get_element(rm, rp, i)), lm, lp, rm, rp, i + 1)

(***************************************************************************)
(* Duplicating and freeing.  What matters of an allocation is whether it   *)
(* succeeded and whether it is freed: k is the number of allocations that  *)
(* still succeed, live the number of those made and not freed.             *)
(***************************************************************************)

(* The values inside an array or an object: names and values alternate. *)
Contents(m, p) ==
    LET n == IF m[p].type = "object" THEN 2 * m[p].len ELSE m[p].len
        at == Offsets(m, p, n)
    IN  [i \in 1 .. n |-> p + at[i]]

(* What became of a copy: ret is "true", "false" or, after which anything may happen,
   "null"; k and live as above; of is how many indexes the original was given. *)
Copied(ret, k, live, of) == [ret |-> ret, k |-> k, live |-> live, of |-> of]

(* Mutant of string_clone: the copy shares what the original owns. *)
string_clone_shared(t, k) == Copied("true", k, 0, 0)

string_clone(t, k) ==
    IF ~Has(t, "OWN") THEN Copied("true", k, 0, 0)
    ELSE IF k = 0 THEN Copied("false", 0, 0, 0)
    ELSE Copied("true", k - 1, 1, 0)

(* The arrays that asking for an element indexes *)
Unindexed(m) == {q \in DOMAIN m : /\ m[q].type \in {"array", "range"} /\ m[q].len > 0
                                  /\ m[q].flags \intersect {"REF", "UNIF", INDEXED} = {}}
IndexArrays(m) == [q \in DOMAIN m |-> IF q \in Unindexed(m) THEN index_array(m, q)[q] ELSE m[q]]

(* The indexes that cloning a collection allocates.  That of an indexed one is copied
   first.  sxe_jitson_array_clone gets the elements of the original and of the copy to
   clone one into the other, and so indexes both if the original was not. *)
Indexes(t) == IF Has(t, INDEXED) THEN 1 ELSE IF t.type = "object" \/ Has(t, "UNIF") THEN 0 ELSE 2

(* The copy's own index is held with what is inside, or freed if cloning that failed. *)
WithIndex(indexes, c) == IF c.ret = "true" /\ indexes # 0 THEN [c EXCEPT !.live = @ + 1] ELSE c

(* A concatenation and its copy have the same elements, got from the two arrays, which
   are indexed; each is cloned into itself.  Those made here own nothing, nor do their
   elements, and so only the indexes count. *)
clone_concat(t, k) ==
    LET n == Cardinality({i \in {1, 2} : 1 \in Unindexed(t.ref[i])})
    IN  IF k < n THEN Copied("null", 0, 0, 0) ELSE Copied("true", k - n, 0, n)

RECURSIVE clone(_, _, _), clone_members(_, _, _, _, _, _, _)

(* sxe_jitson_clone; sxe_jitson_array_clone and sxe_jitson_object_clone copy the index,
   then clone what is inside.  An element that cannot be got for want of an index is a
   NULL with which array_clone goes on: it reads through it, or clones nothing, as the
   compiler orders the two calls. *)
clone(m, p, k) ==
    LET t == m[p]
        n == Indexes(t)
    IN  CASE t.type = "string" -> string_clone(t, k)
          [] t.type \notin {"string", "array", "object", "range"} \/ (t.type # "string" /\ t.len = 0) ->
                Copied("true", k, 0, 0)
          [] OTHER -> IF Has(t, "REF") THEN clone_concat(t, k)
                      ELSE IF k < n THEN Copied(IF n = 2 THEN "null" ELSE "false", 0, 0, 0)
                      ELSE WithIndex(n, clone_members(m, Contents(m, p), 1, k - n, 0, 0, n \div 2))

(* sxe_jitson_object_clone_members, and the loop of sxe_jitson_array_clone: "On error,
   free any allocations done", but sxe_jitson_free, called on every value already
   cloned, frees nothing of one without the flag ALLOCED; kept is what it leaves. *)
clone_members(m, places, i, k, live, kept, of) ==
    IF i > Len(places) THEN Copied("true", k, live, of)
    ELSE LET c == clone(m, places[i], k) IN
         IF c.ret = "true"
         THEN clone_members(m, places, i + 1, c.k, live + c.live,
                            kept + IF Has(m[places[i]], "ALLOCED") THEN 0 ELSE c.live, of + c.of)
         ELSE [c EXCEPT !.live = @ + kept, !.of = @ + of]

(* The copy m of the value v after cloning, which came out as c: in a block of its own,
   freed if that failed.  from is the original after it. *)
Duplicated(v, full, c) ==
    IF c.ret = "true" THEN [ret |-> "true", live |-> c.live + 1, of |-> c.of, from |-> full,
                            m |-> [full EXCEPT ![1].flags = @ \union {"ALLOCED"}]]
    ELSE [ret |-> c.ret, live |-> c.live, of |-> c.of, from |-> v, m |-> <<>>]

(* sxe_jitson_dup: a block of the size of the value *)
dup(m0, p0, k) ==
    LET m == DerefM(m0, p0)  p == DerefP(m0, p0)
        v == SubSeq(m, p, p + size(m, p) - 1)
    IN  Duplicated(v, IndexArrays(v), IF k = 0 THEN Copied("false", 0, 0, 0) ELSE clone(v, 1, k - 1))

(* The allocations freed with a value: sxe_jitson_free_base frees an owned
   string or index, array_free and free_object what is inside first. *)
RECURSIVE freed(_, _)
freed(m, p) ==
    LET t == m[p]
        inside == IF t.type \in {"array", "object", "range"} /\ ~Has(t, "REF") THEN Contents(m, p) ELSE <<>>
        sum[i \in 0 .. Len(inside)] ==
            IF i = 0 THEN 0 ELSE sum[i - 1] + freed(m, inside[i])
    IN  sum[Len(inside)] + IF Has(t, "OWN") THEN 1 ELSE 0

(* sxe_jitson_free *)
free(m) == IF Has(m[1], "ALLOCED") THEN 1 + freed(m, 1) ELSE 0

(***************************************************************************)
(* The text of a value, as a sequence of lexemes                           *)
(***************************************************************************)
null_build_json(t) == << <<"id", "null">> >>
bool_build_json(t) == << <<"id", IF t.val = 1 THEN "true" ELSE "false">> >>

(* What the text of a double stands for: 17 digits tell all doubles apart, and the 16
   of %.16G do not. *)
Printed(v) == IF v \in Digits17 THEN v - 2 ELSE v

(* An unsigned integer is written as one: %.16G writes a double that is an
   integer in the same way, so that it is one when it is read. *)
number_build_json(t) ==
    LET v == IF Has(t, "UINT") THEN t.val ELSE Printed(t.val)
    IN  << <<"num", IF IsUint(v) THEN "UINT" ELSE "DOUBLE", v>> >>

(* Control characters, " and \ are escaped; see SxeJitsonSource. *)
string_build_json(t) == << <<"str", t.val>> >>

RECURSIVE build_json(_, _), array_build_json(_, _, _), bucket_build_json(_, _, _)

(* sxe_jitson_range_build_json: the cast of an array *)
range_build_json(m, p) ==
    << <<"id", "range">>, <<"(">>, <<"[">> >> \o array_build_json(m, p, 0) \o << <<"]">>, <<")">> >>

(* sxe_jitson_build_json and sxe_jitson_to_json *)
build_json(m0, p0) ==
    LET m == DerefM(m0, p0)  p == DerefP(m0, p0)  t == Tok(m, p)
        x == IF t.len = 0 \/ Has(t, INDEXED) THEN m ELSE index_object(m, p)
        bucket[b \in 0 .. t.len] ==
            IF b = 0 THEN <<>> ELSE bucket[b - 1] \o bucket_build_json(x, p, x[p].index[b])
    IN  CASE t.type = "null"   -> null_build_json(t)
          [] t.type = "bool"   -> bool_build_json(t)
          [] t.type = "number" -> number_build_json(t)
          [] t.type = "string" -> string_build_json(t)
          [] t.type = "array"  -> << <<"[">> >> \o array_build_json(m, p, 0) \o << <<"]">> >>
          [] t.type = "range"  -> range_build_json(m, p)
          [] OTHER -> << <<"{">> >> \o (IF t.len = 0 THEN <<>> ELSE Tail(bucket[t.len]))
                        \o << <<"}">> >>

array_build_json(m, p, i) ==
    IF i = m[p].len THEN <<>>
    ELSE LET e == array_get_element(m, p, i)
         IN  (IF i > 0 THEN << <<",">> >> ELSE <<>>)
               \o build_json(e[1], e[2]) \o array_build_json(m, p, i + 1)

(* The members of a bucket, from offset o on, each with a comma before it. *)
bucket_build_json(x, p, o) ==
    IF o = 0 THEN <<>>
    ELSE << <<",">> >> \o build_json(x, p + o) \o << <<":">> >>
           \o build_json(x, p + o + size(x, p + o)) \o bucket_build_json(x, p, x[p + o].len)
=============================================================================
