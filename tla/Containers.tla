----------------------------- MODULE Containers ------------------------------
(***************************************************************************)
(* A program that uses the containers below jitson: a dictionary, a sorted *)
(* array (both in ContainerOps), a string factory (below) or the registry  *)
(* of operators (SxeJitsonOper), with allocations that may be refused at   *)
(* each call.  Beside the container runs what was put in it.               *)
(***************************************************************************)
EXTENDS SxeJitsonOper, FiniteSets

CONSTANTS
    Keys,       \* the keys of the dictionary
    Elems,      \* the elements of the sorted array, numbers
    Pieces,     \* the texts added to the factory
    OperTypes,  \* the number of types, and of operators, there may be
    MaxAdds     \* bound on the calls that add

VARIABLES
    subject,    \* "dict", "array", "factory" or "registry"
    dict, array, factory, registry,
    adds,       \* how many calls have added
    put         \* what was put in: a function, a set, a sequence or a function

containerVars == <<subject, dict, array, factory, registry, adds, put>>

(***************************************************************************)
(* String factories (lib-sxe-jitson/sxe-factory.c): text put together in   *)
(* an allocated block that grows.  The text is a sequence of bytes; size   *)
(* is that of the block, once there is one.                                *)
(***************************************************************************)
(* sxe_factory_alloc_make *)
factory_alloc_make(minsize, maxincr) ==
    [data |-> <<>>, size |-> IF minsize = 0 THEN 8 ELSE minsize, null |-> TRUE,
     maxincr |-> IF maxincr = 0 THEN 4096 ELSE maxincr, nul |-> -1]

(* The sizes tried: doubled, or increased by maxincr once that is reached. *)
grown_size(from, maxincr, needed) ==
    LET grow[n \in 0 .. from + 2 * needed + maxincr] ==
          IF n >= needed THEN n ELSE grow[IF n >= maxincr THEN n + maxincr ELSE 2 * n]
    IN  grow[from]

(* sxe_factory_reserve: so many bytes and the NUL after them, in the block *)
factory_reserve(f, bytes, granted) ==
    LET needed == Len(f.data) + bytes + 1
        grow == needed > f.size \/ f.null
    IN  IF grow /\ ~granted THEN [f |-> f, ok |-> FALSE]
        ELSE [f |-> [f EXCEPT !.size = IF grow THEN grown_size(@, f.maxincr, needed) ELSE @,
                              !.null = FALSE], ok |-> TRUE]

(* sxe_factory_commit; nul is the place of the NUL written behind the data. *)
factory_commit(f, data) == [f EXCEPT !.data = @ \o data, !.nul = Len(f.data) + Len(data)]

factory_add(f, data, granted) ==
    LET r == factory_reserve(f, Len(data), granted)
    IN  IF r.ok THEN factory_commit(r.f, data) ELSE f

factory_look(f) == f.data

(* sxe_factory_remove: the block is cut to the data and given away; the size is
   kept for the next one. *)
factory_remove(f) == [f EXCEPT !.data = <<>>, !.null = TRUE, !.nul = -1]
-----------------------------------------------------------------------------
ElemCmp == [a, b \in Elems |-> IF a < b THEN -1 ELSE IF a = b THEN 0 ELSE 1]

ContainersInit ==
    /\ subject \in {"dict", "array", "factory", "registry"}
    /\ dict \in {dict_init(0, 100, 2, {"KEYS_BINARY"}), dict_new(2), dict_init(1, 200, 3, {"KEYS_HASHED"})}
    /\ array \in {[elems |-> <<>>, alloc |-> n, null |-> TRUE] : n \in {0, 2}}
    /\ factory \in {factory_alloc_make(n, 4) : n \in {0, 2}}
    /\ registry = registry_empty
    /\ adds = 0 /\ put = <<>>
    /\ subject # "dict" => dict.size = 0
    /\ subject # "array" => array.alloc = 0
    /\ subject # "factory" => factory.size = 2

(* What a dictionary tells keys apart by *)
KeyOf(key) == IF "KEYS_HASHED" \in dict.flags THEN Hash64[key] ELSE key

Holding(f, x, v) == [y \in DOMAIN f \union {x} |-> IF y = x THEN v ELSE f[y]]

(* sxe_dict_add and the store of a value, when k allocations succeed; a write through
   NULL is the end of the program *)
DictAdd(key, k) ==
    LET a == dict_add(dict, key, adds, k) IN
    /\ subject = "dict" /\ adds < MaxAdds /\ adds' = adds + 1
    /\ ~a.crash
    /\ dict' = a.d
    /\ put' = IF a.at = <<>> THEN put ELSE Holding(put, KeyOf(key), adds)
    /\ UNCHANGED <<subject, array, factory, registry>>

(* kit_sortedarray_add_elem: a new element is to be added, at the end or where it is
   to be inserted, if there is room or room can be made. *)
ArrayAdd(elem, how, granted) ==
    LET own == {put[i] : i \in DOMAIN put}
        due == /\ elem \notin own /\ ("ALLOW_INSERTS" \in how \/ \A e \in own : e < elem)
               /\ Len(put) < array.alloc \/ "ALLOW_GROWTH" \in how
               /\ granted \/ (Len(put) < array.alloc /\ ~array.null)
    IN
    /\ subject = "array" /\ adds < MaxAdds /\ adds' = adds + 1
    /\ array' = kit_sortedarray_add_elem(ElemCmp, array, elem, how, granted).a
    /\ put' = IF due THEN Append(put, elem) ELSE put
    /\ UNCHANGED <<subject, dict, factory, registry>>

(* kit_sortedarray_delete_elem *)
ArrayDelete(elem) ==
    /\ subject = "array"
    /\ array' = kit_sortedarray_delete_elem(ElemCmp, array, elem)
    /\ put' = SelectSeq(put, LAMBDA e : e # elem)
    /\ UNCHANGED <<subject, dict, factory, registry, adds>>

(* sxe_factory_add *)
FactoryAdd(piece, granted) ==
    /\ subject = "factory" /\ adds < MaxAdds /\ adds' = adds + 1
    /\ factory' = factory_add(factory, piece, granted)
    /\ put' = IF factory_reserve(factory, Len(piece), granted).ok THEN put \o piece ELSE put
    /\ UNCHANGED <<subject, dict, array, registry>>

(* sxe_factory_remove *)
FactoryRemove ==
    /\ subject = "factory" /\ ~factory.null
    /\ factory' = factory_remove(factory) /\ put' = <<>>
    /\ UNCHANGED <<subject, dict, array, registry, adds>>

(* A type is registered (sxe_jitson_type_register increases their number). *)
RegisterType ==
    /\ subject = "registry" /\ registry.types < OperTypes
    /\ registry' = oper_increase_num_types(registry, registry.types)
    /\ UNCHANGED <<subject, dict, array, factory, adds, put>>

RegisterOper(func) ==
    LET n == Len(registry.names)  r == oper_register(registry, n, func) IN
    /\ subject = "registry" /\ n < OperTypes /\ r.ok
    /\ registry' = r.r /\ put' = Holding(put, <<n + 1>>, func)
    /\ UNCHANGED <<subject, dict, array, factory, adds>>

AddToType(op, type, func) ==
    LET r == oper_add_to_type(registry, op, type, func) IN
    /\ subject = "registry" /\ r.ok /\ adds < MaxAdds /\ adds' = adds + 1
    /\ registry' = r.r /\ put' = Holding(put, <<op, type>>, func)
    /\ UNCHANGED <<subject, dict, array, factory>>

ContainersNext ==
    \/ \E key \in Keys, k \in 0 .. 3 : DictAdd(key, k)
    \/ \E e \in Elems, how \in SUBSET {"ALLOW_INSERTS", "ALLOW_GROWTH"}, granted \in BOOLEAN : ArrayAdd(e, how, granted)
    \/ \E e \in Elems : ArrayDelete(e)
    \/ \E p \in Pieces, granted \in BOOLEAN : FactoryAdd(p, granted)
    \/ FactoryRemove
    \/ RegisterType
    \/ \E f \in {NoFunc, "f"} : RegisterOper(f)
    \/ \E op \in 1 .. OperTypes, type \in 0 .. OperTypes - 1, f \in {"g", "h"} : AddToType(op, type, f)

ContainersSpec == ContainersInit /\ [][ContainersNext]_containerVars
-----------------------------------------------------------------------------
(* A dictionary finds the value stored last for each key and nothing for the others,
   and a walk comes by every node once, or up to the one where it is stopped, however
   often the table has grown and whichever allocations were refused. *)
DictAsMap ==
    LET nodes == dict_walk(dict, {}).visited
        stop  == IF nodes = <<>> THEN 0 ELSE nodes[Len(nodes)].key
    IN  /\ \A key \in Keys : dict_find(dict, key) = IF KeyOf(key) \in DOMAIN put THEN put[KeyOf(key)] ELSE NoValue
        /\ {nodes[i].key : i \in DOMAIN nodes} = DOMAIN put /\ Len(nodes) = Cardinality(DOMAIN put)
        /\ dict.count = Len(nodes)
        /\ dict_walk(dict, {stop}) = [visited |-> nodes, ret |-> nodes = <<>>]

(* A sorted array has what was added to it, each element once and in order; its
   elements are found and those of any other are met in both, up to the first at
   which the visitor stops.  Where keys are not at the start of the elements this is
   so only until other bytes are read for an upper part. *)
ArrayAsSet ==
    LET own == {put[i] : i \in DOMAIN put}
        In(s) == SetToSortSeq(s, LAMBDA a, b : a < b)
    IN  /\ array.elems = In(own) /\ Len(put) = Cardinality(own) /\ Len(put) <= array.alloc
        /\ \A e \in Elems : (kit_sortedarray_get_elem(ElemCmp, array.elems, e) = NotFound) = (e \notin own)
        /\ \A other \in SUBSET Elems, stop \in Elems, keyoffset \in {0, 8} :
              LET met   == kit_sortedarray_intersect(ElemCmp, array.elems, In(other), {stop}, keyoffset)
                  right == In({e \in own \intersect other : stop \in own \intersect other => e <= stop})
              IN  IF met.misread THEN keyoffset # 0 /\ IsPrefix(met.visited, right)
                  ELSE met.visited = right /\ met.ok = (stop \notin own \intersect other)

(* A factory holds all that was added, with the NUL behind it inside its block. *)
FactoryAsText ==
    /\ factory_look(factory) = put
    /\ put # <<>> => ~factory.null /\ factory.nul = Len(put) /\ factory.nul < factory.size

(* An operator applied to a type calls the function added last for the two, or else the
   default of the operator, in whichever order types, operators and functions came. *)
RegistryAsFunction ==
    \A op \in 1 .. Len(registry.names), type \in 0 .. registry.types - 1 :
        oper_apply(registry, op, type) = put[IF <<op, type>> \in DOMAIN put THEN <<op, type>> ELSE <<op>>]

(* Containers hold what was put in them, also when allocations are refused. *)
ContainersAsSpecified ==
    CASE subject = "dict"    -> DictAsMap
      [] subject = "array"   -> ArrayAsSet
      [] subject = "factory" -> FactoryAsText
      [] OTHER               -> RegistryAsFunction
=============================================================================
