---------------------------- MODULE ContainerOps -----------------------------
(***************************************************************************)
(* The containers that jitson is built on, as operators: sorted arrays and *)
(* dictionaries.                                                           *)
(***************************************************************************)
EXTENDS Integers, Sequences, SequencesExt

(***************************************************************************)
(* Sorted arrays (lib-kit/kit-sortedarray.c): sequences kept in the order  *)
(* of a comparison, a function cmp_fcn of two elements whose value is      *)
(* negative, 0, positive or, if it can fail, INT_MAX.  Places are counted  *)
(* from 0, as in the code.  An element stands for its key too.             *)
(***************************************************************************)

INT_MAX  == 2
NotFound == -1      \* ~0U: a comparison failed

kit_sortedarray_find_key(cmp_fcn, A, key) ==
    LET search[pos \in 0 .. Len(A), lim \in 0 .. Len(A)] ==
          LET i == pos + (lim \div 2)  c == cmp_fcn[key, A[i + 1]] IN
          CASE lim = 0 -> [pos |-> pos, match |-> FALSE]
            [] lim > 0 /\ c = 0 -> [pos |-> i, match |-> TRUE]
            [] lim > 0 /\ c = INT_MAX -> [pos |-> NotFound, match |-> FALSE]
            [] lim > 0 /\ c = 1 -> search[i + 1, (lim - 1) \div 2]
            [] OTHER -> search[pos, lim \div 2]
    IN  search[0, Len(A)]

(* The place of the element, NotFound (NULL) if there is none *)
kit_sortedarray_get_elem(cmp_fcn, A, key) ==
    LET f == kit_sortedarray_find_key(cmp_fcn, A, key)
    IN  IF f.match THEN f.pos ELSE NotFound

(* The array of the first n slots of alloc; flags a set; realloc tells whether
   kit_realloc succeeds.  pos is where the element was put, NotFound for NULL. *)
kit_sortedarray_add_elem(cmp_fcn, a, elem, flags, realloc) ==
    LET n    == Len(a.elems)
        c    == cmp_fcn[a.elems[n], elem]
        f    == kit_sortedarray_find_key(cmp_fcn, a.elems, elem)
        pos  == IF n > 0 /\ c > 0 THEN f.pos ELSE n
        more == IF n < a.alloc THEN 0 ELSE IF a.alloc > 100 THEN a.alloc \div 2 ELSE 10
        refused == \/ n > 0 /\ c = 0
                   \/ n > 0 /\ c > 0 /\ ("ALLOW_INSERTS" \notin flags \/ f.match)
                   \/ n = a.alloc /\ "ALLOW_GROWTH" \notin flags
                   \/ (a.null \/ more > 0) /\ ~realloc
    IN  IF refused THEN [a |-> a, pos |-> NotFound]
        ELSE [a |-> [elems |-> InsertAt(a.elems, pos + 1, elem),
                     alloc |-> a.alloc + more, null |-> FALSE], pos |-> pos]

kit_sortedarray_delete_elem(cmp_fcn, a, key) ==
    LET f == kit_sortedarray_find_key(cmp_fcn, a.elems, key)
    IN  IF Len(a.elems) = 0 \/ ~f.match THEN a
        ELSE [a EXCEPT !.elems = RemoveAt(@, f.pos + 1)]

(* The elements of L that the visit function is called with, in order, when it
   returns false for those in stops, and what is returned.  The two arrays are l
   elements of L from i on and r elements of R from j on; the array with one
   element, and one element after a match, are the same search.  The upper parts
   are passed on as SORTEDARRAY_KEY: from where their first keys are, at keyoffset in
   the elements, so that other bytes are read for all that is in them. *)
kit_sortedarray_intersect(cmp_fcn, L, R, stops, keyoffset) ==
    LET Part(S, at, n) == SubSeq(S, at + 1, at + n)
        Nothing == [ok |-> TRUE, visited |-> <<>>, misread |-> FALSE]
        Failed(s) == [s EXCEPT !.ok = FALSE]
        Visit(s, x) == [s EXCEPT !.ok = x \notin stops, !.visited = Append(@, x)]
        meet[i \in 0 .. Len(L), l \in 0 .. Len(L), j \in 0 .. Len(R), r \in 0 .. Len(R)] ==
          LET median == l \div 2
              f     == kit_sortedarray_find_key(cmp_fcn, Part(R, j, r), L[i + median + 1])
              low   == IF median > 0 /\ f.pos > 0 THEN meet[i, median, j, f.pos] ELSE Nothing
              here  == IF f.match THEN Visit(low, L[i + median + 1]) ELSE low
              idx   == IF f.match THEN f.pos + 1 ELSE f.pos
              more  == l - median - 1
              high  == IF idx = r \/ more = 0 THEN Nothing
                       ELSE IF keyoffset # 0 /\ ~(f.match /\ more = 1) THEN [Nothing EXCEPT !.misread = TRUE]
                       ELSE meet[i + median + 1, more, j + idx, r - idx]
          IN  IF l = 0 \/ r = 0 THEN Nothing
              ELSE IF f.pos = NotFound THEN Failed(Nothing)
              ELSE IF ~low.ok \/ low.misread THEN low
              ELSE IF ~here.ok THEN here
              ELSE [high EXCEPT !.visited = here.visited \o @]
    IN  meet[0, Len(L), 0, Len(R)]

(* The deprecated interfaces, with no flags but those of the caller. *)
kit_sortedarray_find(cmp_fcn, A, key)   == kit_sortedarray_find_key(cmp_fcn, A, key)
kit_sortedarray_get(cmp_fcn, A, key)    == kit_sortedarray_get_elem(cmp_fcn, A, key)
kit_sortedarray_delete(cmp_fcn, a, key) == kit_sortedarray_delete_elem(cmp_fcn, a, key)
-----------------------------------------------------------------------------
(***************************************************************************)
(* Dictionaries (lib-sxe-dict/sxe-dict.c): a hash table of chained nodes   *)
(* that grows.  A dictionary is a record and each function an operator on  *)
(* it; a bucket is the sequence of its nodes, first one first.  A key is a *)
(* number, Hash64[key] its hash.  Allocations are granted one by one: k is *)
(* the number of them that still succeed.                                  *)
(***************************************************************************)

CONSTANTS
    Hash64,     \* sxe_hash_64: a function of keys
    NoValue     \* NULL, the value of a node until the caller stores one

(* The allocations of a node; the copy of a key is one more. *)
NodeAllocs(flags) == IF flags \intersect {"KEYS_HASHED", "KEYS_NOCOPY"} = {} THEN 2 ELSE 1

(* sxe_dict_node_new; the node keeps the key (a copy or a reference) or, if keys
   are hashed, its hash alone. *)
dict_node_new(flags, key) ==
    [key |-> IF "KEYS_HASHED" \in flags THEN Hash64[key] ELSE key, value |-> NoValue]

EmptyTable(size) == <<>> \o [b \in 1 .. size |-> <<>>]

(* sxe_dict_init, once its table is allocated, and sxe_dict_new *)
dict_init(initial_size, load, growth, flags) ==
    [table |-> EmptyTable(initial_size), size |-> initial_size, count |-> 0,
     load |-> load, growth |-> growth, flags |-> flags]

dict_new(initial_size) == dict_init(initial_size, 100, 2, {"KEYS_BINARY"})

(* The nodes freed by sxe_dict_fini, sxe_dict_node_free by sxe_dict_node_free. *)
dict_fini(d) == FlattenSeq(d.table)

NodeHash(d, node) == IF "KEYS_HASHED" \in d.flags THEN node.key ELSE Hash64[node.key]

(* Mutant of reinsert_when_resizing: the chain already there is lost. *)
reinsert_drops_chain(d, node) ==
    LET n == (NodeHash(d, node) % d.size) + 1 IN [d EXCEPT !.table[n] = <<node>>]

(* sxe_dict_reinsert_when_resizing: at the head of its new bucket *)
reinsert_when_resizing(d, node) ==
    LET n == (NodeHash(d, node) % d.size) + 1 IN [d EXCEPT !.table[n] = <<node>> \o @]

(* sxe_dict_resize *)
dict_resize(d, newsize) ==
    LET nodes == dict_fini(d)
        moved[i \in 0 .. Len(nodes)] ==
            IF i = 0 THEN [d EXCEPT !.size = newsize, !.table = EmptyTable(newsize)]
            ELSE reinsert_when_resizing(moved[i - 1], nodes[i])
    IN  moved[Len(nodes)]

(* Binary keys are compared with their lengths, strings with strcmp, hashed keys
   as hashes: two keys of one hash are then one. *)
compare_keys(d, node, key) ==
    node.key = IF "KEYS_HASHED" \in d.flags THEN Hash64[key] ELSE key

(* Where the key is in its bucket; 0 if it is not there *)
find_node(d, b, key) ==
    LET at == {i \in DOMAIN d.table[b] : compare_keys(d, d.table[b][i], key)}
    IN  IF at = {} THEN 0 ELSE CHOOSE i \in at : \A j \in at : i <= j

(* The end of add_entry: the key's node, or a new one at the end of its bucket.  That
   there is memory for the copy of its key is not tested: it is written through NULL. *)
add_to_bucket(d, key, k) ==
    LET b  == (Hash64[key] % d.size) + 1
        at == find_node(d, b, key)
    IN  IF at # 0 THEN [d |-> d, k |-> k, at |-> <<b, at>>, crash |-> FALSE]
        ELSE IF k < NodeAllocs(d.flags) THEN [d |-> d, k |-> 0, at |-> <<>>, crash |-> k > 0]
        ELSE [d |-> [d EXCEPT !.table[b] = Append(@, dict_node_new(d.flags, key)), !.count = @ + 1],
              k |-> k - NodeAllocs(d.flags), at |-> <<b, Len(d.table[b]) + 1>>, crash |-> FALSE]

(* add_entry, once there is a table: it grows before an addition to a bucket in
   use, even of a key that is already there. *)
add_to_table(d, key, k) ==
    LET full == /\ d.table[(Hash64[key] % d.size) + 1] # <<>>
                /\ (d.count * 100) \div d.size >= d.load
    IN  IF ~full THEN add_to_bucket(d, key, k)
        ELSE IF k = 0 THEN [d |-> d, k |-> 0, at |-> <<>>, crash |-> FALSE]
        ELSE add_to_bucket(dict_resize(d, d.size * d.growth), key, k - 1)

(* add_entry: at is the bucket and the place of the node whose value is
   returned, <<>> for NULL.  The table is made on the first addition. *)
add_entry(d, key, k) ==
    IF d.size > 0 THEN add_to_table(d, key, k)
    ELSE IF k = 0 THEN [d |-> d, k |-> 0, at |-> <<>>, crash |-> FALSE]
    ELSE add_to_table([d EXCEPT !.size = 1, !.table = EmptyTable(1)], key, k - 1)

(* The store of a value where add_entry returned to *)
store_value(a, value) ==
    IF a.at = <<>> THEN a ELSE [a EXCEPT !.d.table[a.at[1]][a.at[2]].value = value]

(* sxe_dict_add and sxe_dict_add_hash, and the store of the value by the caller *)
dict_add(d, key, value, k) ==
    store_value(add_entry(d, key, k), value)

(* find_entry *)
find_entry(d, key) ==
    LET b == (Hash64[key] % d.size) + 1  at == find_node(d, b, key)
    IN  IF d.size = 0 \/ at = 0 THEN NoValue ELSE d.table[b][at].value

(* sxe_dict_find and sxe_dict_find_hash *)
dict_find(d, key) == find_entry(d, key)

(* sxe_dict_walk: the nodes the function is called with; it is false for those
   whose key is in stops, and the walk ends there. *)
dict_walk(d, stops) ==
    LET nodes == dict_fini(d)
        ends  == {i \in DOMAIN nodes : nodes[i].key \in stops}
    IN  IF ends = {} THEN [visited |-> nodes, ret |-> TRUE]
        ELSE [visited |-> SubSeq(nodes, 1, CHOOSE i \in ends : \A j \in ends : i <= j), ret |-> FALSE]
=============================================================================
