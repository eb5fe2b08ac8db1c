------------------------------- MODULE SxeList -------------------------------
(***************************************************************************)
(* The doubly linked lists of lib-sxe-list (sxe-list.c), pointer by        *)
(* pointer.  A list is a ring through its sentinel; the list itself stands *)
(* for its sentinel node.  The queues of a pool are such lists.            *)
(***************************************************************************)
EXTENDS Integers, FiniteSets

CONSTANTS
    List,       \* the lists, each also its sentinel
    Object,     \* the objects, each also the node embedded in it
    NULL        \* NULL_REL, in the pointers of an object that is on no list

ASSUME ListAssumption ==
    /\ List \intersect Object = {}
    /\ NULL \notin List \union Object
    /\ IsFiniteSet(Object)

VARIABLES
    next,       \* node->next, towards the tail; for a sentinel, the HEAD
    prev,       \* node->prev, towards the head; for a sentinel, the TAIL
    id,         \* node->id
    length      \* list->length

vars == <<next, prev, id, length>>

Node == List \union Object

(* sxe_list_construct_impl for every list; the nodes are zeroed, as those of
   a pool are, and a list's id is the list. *)
Init ==
    /\ next = [n \in Node |-> IF n \in List THEN n ELSE NULL]
    /\ prev = [n \in Node |-> IF n \in List THEN n ELSE NULL]
    /\ \E l \in List : id = [n \in Node |-> IF n \in List THEN n ELSE l]
    /\ length = [l \in List |-> 0]

(* The caller's object is on no list. *)
OnNoList(o) == next[o] = NULL

(* Mutant of Push: the object goes to the head. *)
PushAtHead(l, o) ==
    /\ OnNoList(o)
    /\ next' = [next EXCEPT ![o] = next[l], ![l] = o]
    /\ prev' = [prev EXCEPT ![o] = l, ![next[l]] = o]
    /\ id'   = [id EXCEPT ![o] = id[l]]
    /\ length' = [length EXCEPT ![l] = @ + 1]

(* sxe_list_push *)
Push(l, o) ==
    /\ OnNoList(o)
    /\ next' = [next EXCEPT ![o] = l, ![prev[l]] = o]
    /\ prev' = [prev EXCEPT ![o] = prev[l], ![l] = o]
    /\ id'   = [id EXCEPT ![o] = id[l]]
    /\ length' = [length EXCEPT ![l] = @ + 1]

(* Mutant of Unshift: the old head is not linked back to the new one. *)
UnshiftOneWay(l, o) ==
    /\ OnNoList(o)
    /\ next' = [next EXCEPT ![o] = next[l], ![l] = o]
    /\ prev' = [prev EXCEPT ![o] = l]
    /\ id'   = [id EXCEPT ![o] = id[l]]
    /\ length' = [length EXCEPT ![l] = @ + 1]

(* sxe_list_unshift *)
Unshift(l, o) ==
    /\ OnNoList(o)
    /\ next' = [next EXCEPT ![o] = next[l], ![l] = o]
    /\ prev' = [prev EXCEPT ![o] = l, ![next[l]] = o]
    /\ id'   = [id EXCEPT ![o] = id[l]]
    /\ length' = [length EXCEPT ![l] = @ + 1]

(* Mutant of Remove: the id is cleared too, and the length is forgotten. *)
RemoveAndClear(l, o) ==
    /\ next[l] # l /\ prev[l] # l
    /\ id[o] = id[l]
    /\ next[o] # NULL /\ prev[o] # NULL
    /\ prev' = [prev EXCEPT ![next[o]] = prev[o], ![o] = NULL]
    /\ next' = [next EXCEPT ![prev[o]] = next[o], ![o] = NULL]
    /\ id' = [id EXCEPT ![o] = NULL]
    /\ UNCHANGED length

(* sxe_list_remove, past its assertions: the list is not empty, the object's id
   is the list's, and the object is on a list. *)
Remove(l, o) ==
    /\ next[l] # l /\ prev[l] # l
    /\ id[o] = id[l]
    /\ next[o] # NULL /\ prev[o] # NULL
    /\ prev' = [prev EXCEPT ![next[o]] = prev[o], ![o] = NULL]
    /\ next' = [next EXCEPT ![prev[o]] = next[o], ![o] = NULL]
    /\ length' = [length EXCEPT ![l] = @ - 1]
    /\ UNCHANGED id

(* sxe_list_pop and sxe_list_shift; on an empty list they return NULL. *)
Pop(l)   == prev[l] # l /\ Remove(l, prev[l])
Shift(l) == next[l] # l /\ Remove(l, next[l])

Next ==
    \E l \in List :
       \/ \E o \in Object : Push(l, o) \/ Unshift(l, o) \/ Remove(l, o)
       \/ Pop(l)
       \/ Shift(l)

Spec == Init /\ [][Next]_vars
-----------------------------------------------------------------------------
TypeOK ==
    /\ next \in [Node -> Node \union {NULL}]
    /\ prev \in [Node -> Node \union {NULL}]
    /\ id \in [Node -> List]
    /\ length \in [List -> Int]

(* The nodes linked into a ring. *)
Linked == {n \in Node : next[n] # NULL}

(* Going to a neighbour and back leads to where one was, for every node that is
   on a list and for the sentinels: the assertions of sxe_list_peek_head and
   sxe_list_peek_tail ("Catch a bug seen in pool testing"), at every node. *)
RingsClosed ==
    /\ List \subseteq Linked
    /\ \A n \in Node : next[n] = NULL <=> prev[n] = NULL
    /\ \A n \in Linked : prev[next[n]] = n /\ next[prev[n]] = n

(* Neighbours have the same id, and a list has its own: sxe_list_remove's
   assertion on the id tells exactly whether an object is on that list. *)
IdsAgree ==
    /\ \A l \in List : id[l] = l
    /\ \A n \in Linked : id[next[n]] = id[n]

(* length counts the objects whose id is the list's. *)
LengthRight ==
    \A l \in List : length[l] = Cardinality({o \in Object : next[o] # NULL /\ id[o] = l})

(* The objects of list l from its head on: what a walker visits. *)
Contents(l) ==
    LET from[n \in 0 .. Cardinality(Object)] ==
            IF n = 0 THEN next[l] ELSE IF from[n - 1] = l THEN l ELSE next[from[n - 1]]
        len == Cardinality({n \in DOMAIN from : from[n] # l})
    IN  [i \in 1 .. len |-> from[i - 1]]

Abstract == INSTANCE SxeListSpec WITH contents <- [l \in List |-> Contents(l)]

(* Every operation on the pointers has on the sequence of the list's objects the
   effect its name promises, and leaves the other lists alone. *)
ImplementsSpec ==
    /\ Abstract!Spec
    /\ [][\A l \in List, o \in Object :
            /\ Push(l, o) => Abstract!Push(l, o)
            /\ Unshift(l, o) => Abstract!Unshift(l, o)
            /\ Remove(l, o) => Abstract!Remove(l, o)
            /\ Pop(l) => Abstract!Pop(l)
            /\ Shift(l) => Abstract!Shift(l)]_vars
=============================================================================
