---------------------------- MODULE SxeListProofs ----------------------------
(***************************************************************************)
(* The lists of lib-sxe-list stay well formed for any number of lists and  *)
(* objects.  RingsClosed is inductive only together with the types and     *)
(* IdsAgree: sxe_list_remove trusts the id to tell that an object is on    *)
(* the list it is told to remove it from.  The second part shows that the  *)
(* pointers implement sequences.                                           *)
(***************************************************************************)
EXTENDS SxeList, Sequences, FiniteSetTheorems, SequenceTheorems, TLAPS

Inv == TypeOK /\ RingsClosed /\ IdsAgree

(* The node before and the node after a linked node are linked nodes. *)
LEMMA Neighbours ==
    ASSUME Inv, NEW n \in Linked
    PROVE  /\ n \in Node /\ next[n] \in Linked /\ prev[n] \in Linked
           /\ prev[next[n]] = n /\ next[prev[n]] = n
           /\ id[next[n]] = id[n] /\ id[prev[n]] = id[n]
  <1>1. n \in Node /\ next[n] # NULL /\ prev[n] # NULL
    BY DEF Inv, RingsClosed, Linked
  <1>2. next[n] \in Node /\ prev[n] \in Node
    BY <1>1 DEF Inv, TypeOK
  <1>3. prev[next[n]] = n /\ next[prev[n]] = n
    BY DEF Inv, RingsClosed
  <1>4. n # NULL
    BY <1>1, ListAssumption DEF Node
  <1>5. next[n] \in Linked /\ prev[n] \in Linked
    BY <1>2, <1>3, <1>4 DEF Inv, RingsClosed, Linked
  <1>6. id[next[n]] = id[n] /\ id[prev[n]] = id[n]
    BY <1>3, <1>5 DEF Inv, IdsAgree
  <1> QED
    BY <1>1, <1>3, <1>5, <1>6

(* Linking object o between the neighbours a and b of list l keeps the lists well
   formed: what sxe_list_push and sxe_list_unshift both do. *)
LEMMA Insertion ==
    ASSUME Inv, TypeOK', NEW l \in List, NEW o \in Object, NEW a \in Linked, NEW b \in Linked,
           o \notin Linked, next[a] = b, prev[b] = a, id[a] = l, id[b] = l,
           next'[a] = o, next'[o] = b, \A n \in Node \ {a, o} : next'[n] = next[n],
           prev'[b] = o, prev'[o] = a, \A n \in Node \ {b, o} : prev'[n] = prev[n],
           id'[o] = l, \A n \in Node \ {o} : id'[n] = id[n]
    PROVE  Inv'
  <1>1. a \in Node /\ b \in Node /\ o \in Node /\ a # o /\ b # o /\ o \notin List /\ NULL \notin Node
    BY ListAssumption DEF Linked, Node
  <1>2. Linked' = Linked \union {o}
    BY <1>1 DEF Linked
  <1>3. ASSUME NEW n \in Linked, n # a
        PROVE  next'[n] = next[n] /\ next[n] # b
    <2>1. n \in Node /\ n # o /\ prev[next[n]] = n
      BY Neighbours
    <2> QED
      BY <1>3, <2>1
  <1>4. ASSUME NEW n \in Linked, n # b
        PROVE  prev'[n] = prev[n] /\ prev[n] # a
    <2>1. n \in Node /\ n # o /\ next[prev[n]] = n
      BY Neighbours
    <2> QED
      BY <1>4, <2>1
  <1>5. \A n \in Linked : id'[n] = id[n]
    BY DEF Linked
  <1>6. RingsClosed'
    <2>1. List \subseteq Linked'
      BY <1>2 DEF Inv, RingsClosed
    <2>2. ASSUME NEW n \in Node PROVE next'[n] = NULL <=> prev'[n] = NULL
      <3>1. CASE n \in Linked'
        <4>1. CASE n = o
          BY <4>1, <1>1
        <4>2. CASE n # o
          <5>1. n \in Linked /\ next[n] \in Node /\ prev[n] \in Node
            BY <3>1, <4>2, <1>2, Neighbours
          <5>2. next'[n] \in Node /\ prev'[n] \in Node
            BY <5>1, <1>1, <1>3, <1>4
          <5> QED
            BY <5>2, <1>1
        <4> QED
          BY <4>1, <4>2
      <3>2. CASE n \notin Linked'
        <4>1. n \notin Linked /\ n \notin {a, b, o}
          BY <3>2, <1>2
        <4>2. next[n] = NULL /\ prev[n] = NULL
          BY <4>1 DEF Inv, RingsClosed, Linked
        <4> QED
          BY <4>1, <4>2
      <3> QED
        BY <3>1, <3>2
    <2>3. ASSUME NEW n \in Linked' PROVE prev'[next'[n]] = n
      <3>1. CASE n \in {o, a}
        BY <3>1
      <3>2. CASE n \notin {o, a}
        <4>1. n \in Linked /\ next[n] \in Linked /\ prev[next[n]] = n
          BY <3>2, <1>2, Neighbours
        <4> QED
          BY <4>1, <3>2, <1>3, <1>4
      <3> QED
        BY <3>1, <3>2
    <2>4. ASSUME NEW n \in Linked' PROVE next'[prev'[n]] = n
      <3>1. CASE n \in {o, b}
        BY <3>1
      <3>2. CASE n \notin {o, b}
        <4>1. n \in Linked /\ prev[n] \in Linked /\ next[prev[n]] = n
          BY <3>2, <1>2, Neighbours
        <4> QED
          BY <4>1, <3>2, <1>3, <1>4
      <3> QED
        BY <3>1, <3>2
    <2> QED
      BY <2>1, <2>2, <2>3, <2>4 DEF RingsClosed
  <1>7. IdsAgree'
    <2>1. \A m \in List : id'[m] = m
      BY <1>1 DEF Inv, IdsAgree, Node
    <2>2. ASSUME NEW n \in Linked' PROVE id'[next'[n]] = id'[n]
      <3>1. CASE n \in {o, a}
        BY <3>1, <1>5
      <3>2. CASE n \notin {o, a}
        <4>1. n \in Linked /\ next[n] \in Linked /\ id[next[n]] = id[n]
          BY <3>2, <1>2, Neighbours
        <4> QED
          BY <4>1, <3>2, <1>3, <1>5
      <3> QED
        BY <3>1, <3>2
    <2> QED
      BY <2>1, <2>2 DEF IdsAgree
  <1> QED
    BY <1>6, <1>7 DEF Inv

LEMMA PushKeepsInv ==
    ASSUME Inv, NEW l \in List, NEW o \in Object, Push(l, o)
    PROVE  Inv'
  <1> DEFINE a == prev[l]
  <1>1. l \in Linked /\ id[l] = l
    BY DEF Inv, RingsClosed, IdsAgree
  <1>2. a \in Linked /\ next[a] = l /\ id[a] = l /\ l \in Node /\ a \in Node
    BY <1>1, Neighbours
  <1>3. o \notin Linked /\ o \in Node /\ o # a /\ o # l
    BY <1>1, <1>2 DEF Push, OnNoList, Linked, Node
  <1>4. /\ next'[a] = o /\ next'[o] = l /\ \A n \in Node \ {a, o} : next'[n] = next[n]
        /\ prev'[l] = o /\ prev'[o] = a /\ \A n \in Node \ {l, o} : prev'[n] = prev[n]
        /\ id'[o] = l /\ \A n \in Node \ {o} : id'[n] = id[n]
    BY <1>1, <1>2, <1>3 DEF Push, Inv, TypeOK
  <1>5. TypeOK'
    BY <1>1, <1>2, <1>3 DEF Push, Inv, TypeOK
  <1> QED
    BY <1>1, <1>2, <1>3, <1>4, <1>5, Insertion

LEMMA UnshiftKeepsInv ==
    ASSUME Inv, NEW l \in List, NEW o \in Object, Unshift(l, o)
    PROVE  Inv'
  <1> DEFINE b == next[l]
  <1>1. l \in Linked /\ id[l] = l
    BY DEF Inv, RingsClosed, IdsAgree
  <1>2. b \in Linked /\ prev[b] = l /\ id[b] = l /\ l \in Node /\ b \in Node
    BY <1>1, Neighbours
  <1>3. o \notin Linked /\ o \in Node /\ o # b /\ o # l
    BY <1>1, <1>2 DEF Unshift, OnNoList, Linked, Node
  <1>4. /\ next'[l] = o /\ next'[o] = b /\ \A n \in Node \ {l, o} : next'[n] = next[n]
        /\ prev'[b] = o /\ prev'[o] = l /\ \A n \in Node \ {b, o} : prev'[n] = prev[n]
        /\ id'[o] = l /\ \A n \in Node \ {o} : id'[n] = id[n]
    BY <1>1, <1>2, <1>3 DEF Unshift, Inv, TypeOK
  <1>5. TypeOK'
    BY <1>1, <1>2, <1>3 DEF Unshift, Inv, TypeOK
  <1> QED
    BY <1>1, <1>2, <1>3, <1>4, <1>5, Insertion

(* When an object leaves, its neighbours close the ring behind it. *)
LEMMA RemoveKeepsInv ==
    ASSUME Inv, NEW l \in List, NEW o \in Object, Remove(l, o)
    PROVE  Inv'
  <1> DEFINE a == prev[o]
             b == next[o]
  <1>1. o \in Linked /\ o \in Node /\ o \notin List /\ NULL \notin Node
    BY ListAssumption DEF Remove, Linked, Node
  <1>2. /\ a \in Linked /\ b \in Linked /\ a \in Node /\ b \in Node
        /\ next[a] = o /\ prev[b] = o /\ id[a] = id[o] /\ id[b] = id[o]
    BY <1>1, Neighbours
  <1>3. /\ next'[o] = NULL /\ (a # o => next'[a] = b) /\ \A n \in Node \ {a, o} : next'[n] = next[n]
        /\ prev'[o] = NULL /\ (b # o => prev'[b] = a) /\ \A n \in Node \ {b, o} : prev'[n] = prev[n]
        /\ id' = id
    BY <1>1, <1>2 DEF Remove, Inv, TypeOK
  <1>4. TypeOK'
    BY <1>1, <1>2 DEF Remove, Inv, TypeOK
  <1>5. Linked' = Linked \ {o}
    BY <1>1, <1>2, <1>3 DEF Linked
  <1>6. RingsClosed'
    <2>1. List \subseteq Linked'
      BY <1>1, <1>5 DEF Inv, RingsClosed
    <2>2. ASSUME NEW n \in Node PROVE next'[n] = NULL <=> prev'[n] = NULL
      <3>1. CASE n = o
        BY <3>1, <1>3
      <3>2. CASE n # o
        <4>1. next'[n] = IF n = a THEN b ELSE next[n]
          BY <3>2, <1>3
        <4>2. prev'[n] = IF n = b THEN a ELSE prev[n]
          BY <3>2, <1>3
        <4>3. next[n] = NULL <=> prev[n] = NULL
          BY DEF Inv, RingsClosed
        <4>4. a # NULL /\ b # NULL /\ next[a] # NULL /\ prev[b] # NULL
          BY <1>1, <1>2
        <4> QED
          BY <4>1, <4>2, <4>3, <4>4
      <3> QED
        BY <3>1, <3>2
    <2>3. ASSUME NEW n \in Linked' PROVE prev'[next'[n]] = n
      <3>1. n \in Linked /\ n # o /\ n \in Node
        BY <1>5 DEF Linked
      <3>2. next[n] \in Linked /\ next[n] \in Node /\ prev[next[n]] = n
        BY <3>1, Neighbours
      <3>3. CASE n = a
        BY <3>1, <3>3, <1>2, <1>3
      <3>4. CASE n # a
        <4>1. next'[n] = next[n]
          BY <3>1, <3>4, <1>3
        <4>2. next[n] # b /\ next[n] # o
          BY <3>1, <3>2, <3>4, <1>2
        <4> QED
          BY <3>2, <4>1, <4>2, <1>3
      <3> QED
        BY <3>3, <3>4
    <2>4. ASSUME NEW n \in Linked' PROVE next'[prev'[n]] = n
      <3>1. n \in Linked /\ n # o /\ n \in Node
        BY <1>5 DEF Linked
      <3>2. prev[n] \in Linked /\ prev[n] \in Node /\ next[prev[n]] = n
        BY <3>1, Neighbours
      <3>3. CASE n = b
        BY <3>1, <3>3, <1>2, <1>3
      <3>4. CASE n # b
        <4>1. prev'[n] = prev[n]
          BY <3>1, <3>4, <1>3
        <4>2. prev[n] # a /\ prev[n] # o
          BY <3>1, <3>2, <3>4, <1>2
        <4> QED
          BY <3>2, <4>1, <4>2, <1>3
      <3> QED
        BY <3>3, <3>4
    <2> QED
      BY <2>1, <2>2, <2>3, <2>4 DEF RingsClosed
  <1>7. IdsAgree'
    <2>1. \A m \in List : id'[m] = m
      BY <1>3 DEF Inv, IdsAgree
    <2>2. ASSUME NEW n \in Linked' PROVE id'[next'[n]] = id'[n]
      <3>1. n \in Linked /\ n # o /\ n \in Node /\ id[next[n]] = id[n]
        BY <1>5, Neighbours DEF Linked
      <3>2. CASE n = a
        BY <3>1, <3>2, <1>2, <1>3
      <3>3. CASE n # a
        BY <3>1, <3>3, <1>3
      <3> QED
        BY <3>2, <3>3
    <2> QED
      BY <2>1, <2>2 DEF IdsAgree
  <1> QED
    BY <1>4, <1>6, <1>7 DEF Inv

LEMMA InitInv == Init => Inv
  <1> SUFFICES ASSUME Init PROVE Inv
    OBVIOUS
  <1>1. TypeOK
    BY DEF Init, TypeOK, Node
  <1>2. NULL \notin Node /\ \A n \in Node : n \in List <=> n \notin Object
    BY ListAssumption DEF Node
  <1>3. Linked = List
    BY <1>2 DEF Init, Linked, Node
  <1>4. RingsClosed
    BY <1>2, <1>3 DEF Init, RingsClosed, Node
  <1>5. IdsAgree
    BY <1>2, <1>3 DEF Init, IdsAgree, Node
  <1> QED
    BY <1>1, <1>4, <1>5 DEF Inv

(* The neighbours of a list that is not empty are objects. *)
LEMMA EndsAreObjects ==
    ASSUME Inv, NEW l \in List
    PROVE  /\ prev[l] # l => prev[l] \in Object
           /\ next[l] # l => next[l] \in Object
  <1>1. l \in Linked /\ id[l] = l
    BY DEF Inv, RingsClosed, IdsAgree
  <1>2. prev[l] \in Node /\ next[l] \in Node /\ id[prev[l]] = l /\ id[next[l]] = l
    BY <1>1, Neighbours DEF Linked
  <1> QED
    BY <1>2 DEF Node, Inv, IdsAgree

(* Pop and Shift remove an object like Remove: a step of Next pushes, unshifts
   or removes one object, or changes nothing. *)
LEMMA StepKinds ==
    ASSUME Inv, [Next]_vars
    PROVE  \/ \E l \in List, o \in Object : Push(l, o) \/ Unshift(l, o) \/ Remove(l, o)
           \/ UNCHANGED vars
  <1>1. ASSUME NEW l \in List, Pop(l) PROVE \E o \in Object : Remove(l, o)
    BY <1>1, EndsAreObjects DEF Pop
  <1>2. ASSUME NEW l \in List, Shift(l) PROVE \E o \in Object : Remove(l, o)
    BY <1>2, EndsAreObjects DEF Shift
  <1> QED
    BY <1>1, <1>2 DEF Next

LEMMA NextKeepsInv == Inv /\ [Next]_vars => Inv'
  <1> SUFFICES ASSUME Inv, [Next]_vars PROVE Inv'
    OBVIOUS
  <1>1. CASE UNCHANGED vars
    BY <1>1 DEF vars, Inv, TypeOK, RingsClosed, IdsAgree, Linked
  <1>2. ASSUME NEW l \in List, NEW o \in Object, Push(l, o) \/ Unshift(l, o) \/ Remove(l, o)
        PROVE  Inv'
    BY <1>2, PushKeepsInv, UnshiftKeepsInv, RemoveKeepsInv
  <1> QED
    BY <1>1, <1>2, StepKinds
-----------------------------------------------------------------------------
(* The pointers, ids and lengths keep their types. *)
THEOREM ListTyped == Spec => []TypeOK
  <1>1. Inv => TypeOK
    BY DEF Inv
  <1> QED
    BY <1>1, InitInv, NextKeepsInv, PTL DEF Spec

(* For any number of lists and objects, from every node of a list the way to a
   neighbour and back leads to where it began: the rings that sxe_list_remove
   and the walkers follow are never broken. *)
THEOREM ListRingsClosed == Spec => []RingsClosed
  <1>1. Inv => RingsClosed
    BY DEF Inv
  <1> QED
    BY <1>1, InitInv, NextKeepsInv, PTL DEF Spec

(* The id in an object's node names the list it is on. *)
THEOREM ListIdsAgree == Spec => []IdsAgree
  <1>1. Inv => IdsAgree
    BY DEF Inv
  <1> QED
    BY <1>1, InitInv, NextKeepsInv, PTL DEF Spec
-----------------------------------------------------------------------------
(* The objects on list l, by their ids. *)
Members(l) == {o \in Object : next[o] # NULL /\ id[o] = l}

LEMMA MembersFinite ==
    ASSUME NEW l PROVE IsFiniteSet(Members(l)) /\ Cardinality(Members(l)) \in Nat
  <1>1. IsFiniteSet(Object) /\ Members(l) \subseteq Object
    BY ListAssumption DEF Members
  <1> QED
    BY <1>1, FS_Subset, FS_CardinalityType

(* One object more on list l, none more or less on the others. *)
LEMMA InsertionCounts ==
    ASSUME Inv, LengthRight, NEW l \in List, NEW o \in Object, Push(l, o) \/ Unshift(l, o)
    PROVE  LengthRight'
  <1>1. /\ o \notin Linked /\ o \in Node /\ l \in Linked /\ id[l] = l /\ l \in Node
        /\ prev[l] \in Linked /\ next[l] \in Linked
    <2>1. l \in Linked /\ id[l] = l
      BY DEF Inv, RingsClosed, IdsAgree
    <2> QED
      BY <2>1, Neighbours DEF Push, Unshift, OnNoList, Linked, Node
  <1>2. \A p \in Object : /\ next'[p] = NULL <=> (next[p] = NULL /\ p # o)
                          /\ id'[p] = IF p = o THEN l ELSE id[p]
    <2>1. NULL \notin Node /\ Object \subseteq Node
      BY ListAssumption DEF Node
    <2>2. CASE Push(l, o)
      BY <1>1, <2>1, <2>2 DEF Push, Inv, TypeOK, Linked
    <2>3. CASE Unshift(l, o)
      BY <1>1, <2>1, <2>3 DEF Unshift, Inv, TypeOK, Linked
    <2> QED
      BY <2>2, <2>3
  <1>3. length' = [length EXCEPT ![l] = @ + 1] /\ length \in [List -> Int]
    BY DEF Push, Unshift, Inv, TypeOK
  <1>4. ASSUME NEW m \in List PROVE length'[m] = Cardinality(Members(m)')
    <2>1. length[m] = Cardinality(Members(m))
      BY DEF LengthRight, Members
    <2>2. CASE m = l
      <3>1. Members(m)' = Members(m) \union {o} /\ o \notin Members(m)
        BY <2>2, <1>1, <1>2 DEF Members, Linked
      <3>2. Cardinality(Members(m)') = Cardinality(Members(m)) + 1
        BY <3>1, MembersFinite, FS_AddElement
      <3> QED
        BY <2>1, <2>2, <3>2, <1>3
    <2>3. CASE m # l
      <3>1. Members(m)' = Members(m)
        BY <2>3, <1>1, <1>2 DEF Members, Linked
      <3> QED
        BY <2>1, <2>3, <3>1, <1>3
    <2> QED
      BY <2>2, <2>3
  <1> QED
    BY <1>4 DEF LengthRight, Members

(* One object less on list l: the one whose id is l. *)
LEMMA RemovalCounts ==
    ASSUME Inv, LengthRight, NEW l \in List, NEW o \in Object, Remove(l, o)
    PROVE  LengthRight'
  <1>1. o \in Linked /\ o \in Node /\ id[o] = l /\ prev[o] \in Node /\ next[o] \in Linked /\ prev[o] \in Linked
    <2>1. o \in Linked /\ o \in Node /\ id[o] = l
      BY DEF Remove, Linked, Node, Inv, IdsAgree
    <2> QED
      BY <2>1, Neighbours
  <1>2. \A p \in Object : /\ next'[p] = NULL <=> (next[p] = NULL \/ p = o)
                          /\ id'[p] = id[p]
    <2>1. NULL \notin Node /\ Object \subseteq Node
      BY ListAssumption DEF Node
    <2> QED
      BY <1>1, <2>1 DEF Remove, Inv, TypeOK, Linked
  <1>3. length' = [length EXCEPT ![l] = @ - 1] /\ length \in [List -> Int]
    BY DEF Remove, Inv, TypeOK
  <1>4. ASSUME NEW m \in List PROVE length'[m] = Cardinality(Members(m)')
    <2>1. length[m] = Cardinality(Members(m))
      BY DEF LengthRight, Members
    <2>2. CASE m = l
      <3>1. Members(m)' = Members(m) \ {o} /\ o \in Members(m)
        BY <2>2, <1>1, <1>2 DEF Members, Linked
      <3>2. Cardinality(Members(m)') = Cardinality(Members(m)) - 1
        BY <3>1, MembersFinite, FS_RemoveElement
      <3> QED
        BY <2>1, <2>2, <3>2, <1>3
    <2>3. CASE m # l
      <3>1. Members(m)' = Members(m)
        BY <2>3, <1>1, <1>2 DEF Members, Linked
      <3> QED
        BY <2>1, <2>3, <3>1, <1>3
    <2> QED
      BY <2>2, <2>3
  <1> QED
    BY <1>4 DEF LengthRight, Members

(* SXE_LIST_GET_LENGTH is right: length is the number of objects that are on the
   list, so that it never falls below zero either. *)
THEOREM ListLengthRight == Spec => []LengthRight
  <1>1. Init => LengthRight
    <2> SUFFICES ASSUME Init, NEW l \in List PROVE length[l] = Cardinality(Members(l))
      BY DEF LengthRight, Members
    <2>1. Members(l) = {}
      BY ListAssumption DEF Init, Members, Node
    <2> QED
      BY <2>1, FS_EmptySet DEF Init
  <1>2. Inv /\ LengthRight /\ [Next]_vars => LengthRight'
    <2> SUFFICES ASSUME Inv, LengthRight, [Next]_vars PROVE LengthRight'
      OBVIOUS
    <2>1. CASE UNCHANGED vars
      BY <2>1 DEF vars, LengthRight
    <2>2. ASSUME NEW l \in List, NEW o \in Object, Push(l, o) \/ Unshift(l, o) \/ Remove(l, o)
          PROVE  LengthRight'
      BY <2>2, InsertionCounts, RemovalCounts
    <2> QED
      BY <2>1, <2>2, StepKinds
  <1> QED
    BY <1>1, <1>2, InitInv, NextKeepsInv, PTL DEF Spec
-----------------------------------------------------------------------------
(***************************************************************************)
(* The lists are sequences. The invariant gives each list the sequence of  *)
(* its objects: the pointers lead from the sentinel through it and back,   *)
(* and its objects are those whose id is the list's.                       *)
(***************************************************************************)
(* The i-th object of the sequence s of length n; the list l before and behind it. *)
Nth(s, n, l, i) == IF i \in 1 .. n THEN s[i] ELSE l

IsRing(nx, ids, l, n, s) ==
    /\ n \in Nat /\ s \in [1 .. n -> Object]
    /\ \A i, j \in 1 .. n : s[i] = s[j] => i = j
    /\ \A i \in 0 .. n : nx[Nth(s, n, l, i)] = Nth(s, n, l, i + 1)
    /\ \A o \in Object : (nx[o] # NULL /\ ids[o] = l) <=> \E i \in 1 .. n : s[i] = o

RingInv == \A l \in List : \E n, s : IsRing(next, id, l, n, s)

(* Contents, of any pointers. *)
FollowOf(nx, l) ==
    LET from[n \in 0 .. Cardinality(Object)] ==
            IF n = 0 THEN nx[l] ELSE IF from[n - 1] = l THEN l ELSE nx[from[n - 1]]
        len == Cardinality({n \in DOMAIN from : from[n] # l})
    IN  [i \in 1 .. len |-> from[i - 1]]

LEMMA ContentsFollow ==
    ASSUME NEW l
    PROVE  Contents(l) = FollowOf(next, l) /\ Contents(l)' = FollowOf(next', l)
  BY DEF Contents, FollowOf

(* Every set of numbers has a least one. *)
LEMMA Least ==
    ASSUME NEW N \in SUBSET Nat, N # {}
    PROVE  \E k \in N : \A m \in N : k <= m
  <1> DEFINE R == OpToRel(<, Nat)
  <1>1. IsWellFoundedOn(R, Nat)
    BY NatLessThanWellFounded
  <1>2. \A x, y \in Nat : y < x => <<y, x>> \in R
    BY DEF OpToRel
  <1> HIDE DEF R
  <1>3. PICK k \in N : \A m \in N : ~ (<<m, k>> \in R)
    BY <1>1, WFMin
  <1>4. ASSUME NEW m \in N PROVE k <= m
    <2>1. ~ (m < k)
      BY <1>2, <1>3
    <2> QED
      BY <2>1
  <1> QED
    BY <1>4

(* A list has no more objects than there are. *)
LEMMA RingFits ==
    ASSUME NEW nx, NEW ids, NEW l, NEW n, NEW s, IsRing(nx, ids, l, n, s)
    PROVE  n \in Nat /\ Cardinality(Object) \in Nat /\ n <= Cardinality(Object)
  <1>1. n \in Nat /\ s \in [1 .. n -> Object] /\ \A i, j \in 1 .. n : s[i] = s[j] => i = j
    BY DEF IsRing
  <1>2. PICK D : D = 1 .. n
    OBVIOUS
  <1>3. 1 \in Int /\ n \in Int
    BY <1>1
  <1>4. IsFiniteSet(1 .. n) /\ Cardinality(1 .. n) = IF 1 > n THEN 0 ELSE n - 1 + 1
    BY <1>3, FS_Interval
  <1>5. IsFiniteSet(D) /\ Cardinality(D) = n
    BY <1>1, <1>2, <1>4
  <1>6. IsFiniteSet(Object) /\ Cardinality(Object) \in Nat
    BY ListAssumption, FS_CardinalityType
  <1>7. s \in [D -> Object] /\ ~ \E x, y \in D : x # y /\ s[x] = s[y]
    BY <1>1, <1>2
  <1>8. ~ (Cardinality(Object) < Cardinality(D))
    BY <1>5, <1>6, <1>7, FS_PigeonHole
  <1> QED
    BY <1>1, <1>5, <1>6, <1>8

(* Following the pointers visits the objects of the sequence, in its order. *)
LEMMA FollowRing ==
    ASSUME NEW nx, NEW ids, NEW l \in List, NEW n, NEW s, IsRing(nx, ids, l, n, s)
    PROVE  FollowOf(nx, l) = s
  <1>c. PICK c : c = Cardinality(Object)
    OBVIOUS
  <1>1. n \in Nat /\ c \in Nat /\ n <= c
    BY <1>c, RingFits
  <1>2. /\ s \in [1 .. n -> Object]
        /\ \A i \in 0 .. n : nx[Nth(s, n, l, i)] = Nth(s, n, l, i + 1)
    BY DEF IsRing
  <1>3. \A i \in 1 .. n : s[i] \in Object /\ s[i] # l
    BY <1>2, ListAssumption
  <1> DEFINE E(h) == h = [k \in 0 .. c |-> IF k = 0 THEN nx[l] ELSE IF h[k - 1] = l THEN l ELSE nx[h[k - 1]]]
             f == [k \in 0 .. c |-> Nth(s, n, l, k + 1)]
  <1>4. nx[l] = Nth(s, n, l, 1)
    <2>1. 0 \in 0 .. n /\ 0 + 1 = 1 /\ Nth(s, n, l, 0) = l
      BY <1>1 DEF Nth
    <2> QED
      BY <1>2, <2>1
  <1>5. ASSUME NEW k \in 0 .. c, k # 0
        PROVE  Nth(s, n, l, k + 1) = IF Nth(s, n, l, k) = l THEN l ELSE nx[Nth(s, n, l, k)]
    <2>1. CASE k \in 1 .. n
      <3>1. Nth(s, n, l, k) # l /\ k \in 0 .. n
        BY <2>1, <1>1, <1>3 DEF Nth
      <3> QED
        BY <3>1, <1>2
    <2>2. CASE k \notin 1 .. n
      <3>1. k + 1 \notin 1 .. n
        BY <2>2, <1>1, <1>5
      <3> QED
        BY <2>2, <3>1 DEF Nth
    <2> QED
      BY <2>1, <2>2
  <1>6. E(f)
    <2>1. ASSUME NEW k \in 0 .. c, k # 0
          PROVE  f[k] = IF f[k - 1] = l THEN l ELSE nx[f[k - 1]]
      <3>1. k - 1 \in 0 .. c /\ (k - 1) + 1 = k
        BY <2>1, <1>1
      <3>2. f[k] = Nth(s, n, l, k + 1) /\ f[k - 1] = Nth(s, n, l, k)
        BY <3>1
      <3> QED
        BY <2>1, <3>2, <1>5
    <2>2. 0 \in 0 .. c /\ f[0] = nx[l]
      BY <1>1, <1>4
    <2> DEFINE e == [k \in 0 .. c |-> IF k = 0 THEN nx[l] ELSE IF f[k - 1] = l THEN l ELSE nx[f[k - 1]]]
    <2>3. f = [k \in 0 .. c |-> f[k]] /\ e = [k \in 0 .. c |-> e[k]]
      OBVIOUS
    <2> HIDE DEF f
    <2>4. \A k \in 0 .. c : f[k] = e[k]
      BY <2>1, <2>2
    <2> HIDE DEF e
    <2>5. f = e
      BY <2>3, <2>4
    <2> QED
      BY <2>5 DEF e
  <1>7. ASSUME NEW h, E(h) PROVE h = f
    <2> DEFINE Bad == {k \in 0 .. c : f[k] # h[k]}
    <2>0. Bad \in SUBSET Nat
      OBVIOUS
    <2>1. CASE Bad # {}
      <3>1. PICK k \in Bad : \A i \in Bad : k <= i
        BY <2>0, <2>1, Least
      <3>2. k \in 0 .. c /\ f[k] # h[k]
        OBVIOUS
      <3>3. 0 \in 0 .. c
        BY <1>1
      <3>4. k # 0
        BY <3>2, <3>3, <1>6, <1>7
      <3>5. k - 1 \in 0 .. c /\ ~ (k <= k - 1)
        BY <3>2, <3>4, <1>1
      <3>6. f[k - 1] = h[k - 1]
        BY <3>1, <3>5
      <3>7. h[k] = IF h[k - 1] = l THEN l ELSE nx[h[k - 1]]
        BY <3>2, <3>4, <1>7
      <3>8. f[k] = IF f[k - 1] = l THEN l ELSE nx[f[k - 1]]
        <4> HIDE DEF f
        <4> QED
          BY <3>2, <3>4, <1>6
      <3> QED
        BY <3>2, <3>6, <3>7, <3>8
    <2>2. CASE Bad = {}
      <3>1. \A i \in 0 .. c : f[i] = h[i]
        BY <2>2
      <3>2. f = [i \in 0 .. c |-> f[i]] /\ h = [i \in 0 .. c |-> h[i]]
        BY <1>7
      <3> HIDE DEF f, E
      <3> QED
        BY <3>1, <3>2
    <2> QED
      BY <2>1, <2>2
  <1> DEFINE from == CHOOSE h : E(h)
  <1>8. from = f
    <2> HIDE DEF E, f
    <2> QED
      BY <1>6, <1>7
  <1>9. FollowOf(nx, l) = [i \in 1 .. Cardinality({k \in DOMAIN from : from[k] # l}) |-> from[i - 1]]
    BY <1>c DEF FollowOf
  <1> HIDE DEF from
  <1>10. {k \in DOMAIN f : f[k] # l} = 0 .. n - 1
    <2>1. ASSUME NEW k \in 0 .. c PROVE Nth(s, n, l, k + 1) # l <=> k \in 0 .. n - 1
      <3>1. k + 1 \in 1 .. n <=> k \in 0 .. n - 1
        BY <1>1
      <3> QED
        BY <3>1, <1>3 DEF Nth
    <2>2. 0 .. n - 1 \subseteq 0 .. c
      BY <1>1
    <2> QED
      BY <2>1, <2>2
  <1>11. Cardinality({k \in DOMAIN f : f[k] # l}) = n
    <2>1. PICK b : b = n - 1
      OBVIOUS
    <2>2. 0 \in Int /\ b \in Int
      BY <1>1, <2>1
    <2>3. Cardinality(0 .. b) = IF 0 > b THEN 0 ELSE b - 0 + 1
      BY <2>2, FS_Interval
    <2>4. Cardinality(0 .. b) = n
      BY <1>1, <2>1, <2>3
    <2> QED
      BY <2>1, <2>4, <1>10
  <1>12. FollowOf(nx, l) = [i \in 1 .. n |-> f[i - 1]]
    BY <1>8, <1>9, <1>11
  <1>13. ASSUME NEW i \in 1 .. n PROVE f[i - 1] = s[i]
    <2>1. i - 1 \in 0 .. c /\ (i - 1) + 1 = i
      BY <1>1
    <2> QED
      BY <2>1 DEF Nth
  <1>14. s = [i \in 1 .. n |-> s[i]]
    BY <1>2
  <1> HIDE DEF f
  <1> QED
    BY <1>12, <1>13, <1>14
-----------------------------------------------------------------------------
(* Object o put behind the first p of s; the p-th object cut out of s. *)
Put(s, n, p, o) == [i \in 1 .. n + 1 |-> IF i <= p THEN s[i] ELSE IF i = p + 1 THEN o ELSE s[i - 1]]
Cut(s, n, p)    == [i \in 1 .. n - 1 |-> IF i < p THEN s[i] ELSE s[i + 1]]

(* The places of a ring are different linked nodes. *)
Places(nx, ids, l, n, s) ==
    /\ \A i \in 0 .. n + 1 : Nth(s, n, l, i) \in Node
    /\ \A i, j \in 0 .. n : Nth(s, n, l, i) = Nth(s, n, l, j) => i = j
    /\ \A i \in 1 .. n : s[i] \in Object /\ s[i] # l /\ nx[s[i]] # NULL /\ ids[s[i]] = l
    /\ \A i \in 0 .. n : nx[Nth(s, n, l, i)] # NULL

LEMMA RingPlaces ==
    ASSUME NEW nx, NEW ids, NEW l \in List, NEW n, NEW s, IsRing(nx, ids, l, n, s)
    PROVE  Places(nx, ids, l, n, s)
  <1>1. /\ n \in Nat /\ s \in [1 .. n -> Object]
        /\ \A i, j \in 1 .. n : s[i] = s[j] => i = j
        /\ \A i \in 0 .. n : nx[Nth(s, n, l, i)] = Nth(s, n, l, i + 1)
        /\ \A o \in Object : (nx[o] # NULL /\ ids[o] = l) <=> \E i \in 1 .. n : s[i] = o
    BY DEF IsRing
  <1>2. \A i \in 1 .. n : s[i] \in Object /\ s[i] # l /\ nx[s[i]] # NULL /\ ids[s[i]] = l
    BY <1>1, ListAssumption
  <1>3. \A i \in 0 .. n + 1 : Nth(s, n, l, i) \in Node
    BY <1>2 DEF Nth, Node
  <1>4. ASSUME NEW i \in 0 .. n, NEW j \in 0 .. n, Nth(s, n, l, i) = Nth(s, n, l, j) PROVE i = j
    <2>1. CASE i \in 1 .. n /\ j \in 1 .. n
      BY <2>1, <1>1, <1>4 DEF Nth
    <2>2. CASE i \notin 1 .. n /\ j \in 1 .. n
      BY <2>2, <1>2, <1>4 DEF Nth
    <2>3. CASE i \in 1 .. n /\ j \notin 1 .. n
      BY <2>3, <1>2, <1>4 DEF Nth
    <2>4. CASE i \notin 1 .. n /\ j \notin 1 .. n
      BY <2>4, <1>1
    <2> QED
      BY <2>1, <2>2, <2>3, <2>4
  <1>5. ASSUME NEW i \in 0 .. n PROVE nx[Nth(s, n, l, i)] # NULL
    <2>1. i + 1 \in 0 .. n + 1
      BY <1>1
    <2> QED
      BY <2>1, <1>1, <1>3, ListAssumption DEF Node
  <1> QED
    BY <1>2, <1>3, <1>4, <1>5 DEF Places

LEMMA InsertRing ==
    ASSUME NEW nx, NEW ids, NEW l \in List, NEW n, NEW s, IsRing(nx, ids, l, n, s),
           NEW o \in Object, nx[o] = NULL, NEW p \in 0 .. n, NEW nx2, NEW ids2,
           nx2[Nth(s, n, l, p)] = o, nx2[o] = Nth(s, n, l, p + 1),
           \A x \in Node \ {Nth(s, n, l, p), o} : nx2[x] = nx[x],
           ids2[o] = l, \A x \in Node \ {o} : ids2[x] = ids[x]
    PROVE  IsRing(nx2, ids2, l, n + 1, Put(s, n, p, o))
  <1>1. /\ n \in Nat /\ s \in [1 .. n -> Object]
        /\ \A i, j \in 1 .. n : s[i] = s[j] => i = j
        /\ \A i \in 0 .. n : nx[Nth(s, n, l, i)] = Nth(s, n, l, i + 1)
        /\ \A x \in Object : (nx[x] # NULL /\ ids[x] = l) <=> \E i \in 1 .. n : s[i] = x
    BY DEF IsRing
  <1>0. Places(nx, ids, l, n, s)
    BY RingPlaces
  <1>2. /\ \A i \in 0 .. n + 1 : Nth(s, n, l, i) \in Node
        /\ \A i, j \in 0 .. n : Nth(s, n, l, i) = Nth(s, n, l, j) => i = j
        /\ \A i \in 1 .. n : s[i] \in Object /\ s[i] # l /\ nx[s[i]] # NULL /\ ids[s[i]] = l
        /\ \A i \in 0 .. n : nx[Nth(s, n, l, i)] # NULL
    BY <1>0 DEF Places
  <1>3. o # l /\ o # NULL /\ o \in Node /\ NULL \notin Node /\ Object \subseteq Node
    BY ListAssumption DEF Node
  <1>t. PICK t : t = Put(s, n, p, o)
    OBVIOUS
  <1>4. /\ \A i \in 1 .. p : t[i] = s[i]
        /\ t[p + 1] = o
        /\ \A i \in p + 1 .. n : t[i + 1] = s[i]
    <2>1. \A i \in 1 .. p : i \in 1 .. n + 1
      BY <1>1
    <2>2. p + 1 \in 1 .. n + 1 /\ ~ (p + 1 <= p)
      BY <1>1
    <2>3. \A i \in p + 1 .. n : i + 1 \in 1 .. n + 1 /\ ~ (i + 1 <= p) /\ i + 1 # p + 1 /\ (i + 1) - 1 = i
      BY <1>1
    <2> QED
      BY <2>1, <2>2, <2>3, <1>t DEF Put
  <1>5. t \in [1 .. n + 1 -> Object]
    <2>1. ASSUME NEW i \in 1 .. n + 1
          PROVE (IF i <= p THEN s[i] ELSE IF i = p + 1 THEN o ELSE s[i - 1]) \in Object
      <3>1. CASE i <= p
        BY <3>1, <1>1
      <3>2. CASE i = p + 1
        BY <3>2
      <3>3. CASE ~ (i <= p) /\ i # p + 1
        <4>1. i - 1 \in 1 .. n
          BY <3>3, <1>1
        <4> QED
          BY <3>3, <4>1, <1>1
      <3> QED
        BY <3>1, <3>2, <3>3
    <2> QED
      BY <2>1, <1>t DEF Put
  <1>6. \A i \in 1 .. n + 1 : \/ i \in 1 .. p
                              \/ i = p + 1
                              \/ \E k \in p + 1 .. n : i = k + 1
    <2>1. ASSUME NEW i \in 1 .. n + 1, i \notin 1 .. p, i # p + 1 PROVE i - 1 \in p + 1 .. n /\ i = (i - 1) + 1
      BY <2>1, <1>1
    <2> QED
      BY <2>1
  <1>7. \A i \in 1 .. n : s[i] # o
    BY <1>2
  <1>8. ASSUME NEW i \in 1 .. n + 1, NEW j \in 1 .. n + 1, t[i] = t[j] PROVE i = j
    <2> DEFINE Src(k) == IF k <= p THEN k ELSE k - 1
    <2>1. ASSUME NEW k \in 1 .. n + 1, k # p + 1 PROVE Src(k) \in 1 .. n /\ t[k] = s[Src(k)]
      <3>1. CASE k <= p
        BY <3>1, <1>1, <1>4
      <3>2. CASE ~ (k <= p)
        <4>1. k - 1 \in p + 1 .. n /\ (k - 1) + 1 = k /\ k - 1 \in 1 .. n
          BY <2>1, <3>2, <1>1
        <4> QED
          BY <3>2, <4>1, <1>4
      <3> QED
        BY <3>1, <3>2
    <2>2. CASE i = p + 1 \/ j = p + 1
      <3> HIDE DEF Src
      <3> QED
        BY <2>1, <2>2, <1>4, <1>7, <1>8
    <2>3. CASE i # p + 1 /\ j # p + 1
      <3>1. Src(i) = Src(j)
        <4> HIDE DEF Src
        <4> QED
          BY <2>1, <2>3, <1>1, <1>8
      <3> QED
        BY <3>1, <2>3, <1>1
    <2> QED
      BY <2>2, <2>3
  <1>9. /\ \A i \in 0 .. p : Nth(t, n + 1, l, i) = Nth(s, n, l, i)
        /\ Nth(t, n + 1, l, p + 1) = o
        /\ \A i \in p + 1 .. n + 1 : Nth(t, n + 1, l, i + 1) = Nth(s, n, l, i)
    <2>1. ASSUME NEW i \in 0 .. p PROVE Nth(t, n + 1, l, i) = Nth(s, n, l, i)
      <3>1. i \in 1 .. n + 1 <=> i \in 1 .. p
        BY <1>1
      <3>2. i \in 1 .. n <=> i \in 1 .. p
        BY <1>1
      <3> QED
        BY <3>1, <3>2, <1>4 DEF Nth
    <2>2. p + 1 \in 1 .. n + 1
      BY <1>1
    <2>3. ASSUME NEW i \in p + 1 .. n + 1 PROVE Nth(t, n + 1, l, i + 1) = Nth(s, n, l, i)
      <3>1. CASE i = n + 1
        <4>1. i \notin 1 .. n /\ i + 1 \notin 1 .. n + 1
          BY <3>1, <1>1
        <4> QED
          BY <4>1 DEF Nth
      <3>2. CASE i # n + 1
        <4>1. i \in p + 1 .. n /\ i \in 1 .. n /\ i + 1 \in 1 .. n + 1
          BY <3>2, <1>1
        <4> QED
          BY <4>1, <1>4 DEF Nth
      <3> QED
        BY <3>1, <3>2
    <2> QED
      BY <2>1, <2>2, <2>3, <1>4 DEF Nth
  <1>10. ASSUME NEW i \in 0 .. n, i # p PROVE nx2[Nth(s, n, l, i)] = Nth(s, n, l, i + 1)
    <2>1. Nth(s, n, l, i) # Nth(s, n, l, p) /\ Nth(s, n, l, i) # o /\ Nth(s, n, l, i) \in Node
      <3>1. i \in 0 .. n + 1
        BY <1>1
      <3> QED
        BY <3>1, <1>2, <1>10
    <2> QED
      BY <2>1, <1>1
  <1>11. ASSUME NEW i \in 0 .. n + 1 PROVE nx2[Nth(t, n + 1, l, i)] = Nth(t, n + 1, l, i + 1)
    <2>1. CASE i < p
      <3>1. i \in 0 .. n /\ i # p /\ i \in 0 .. p /\ i + 1 \in 0 .. p
        BY <2>1, <1>1
      <3> QED
        BY <3>1, <1>9, <1>10
    <2>2. CASE i = p
      <3>1. i \in 0 .. p
        BY <2>2, <1>1
      <3> QED
        BY <2>2, <3>1, <1>9
    <2>3. CASE i = p + 1
      <3>1. i \in p + 1 .. n + 1
        BY <2>3, <1>1
      <3> QED
        BY <2>3, <3>1, <1>9
    <2>4. CASE i > p + 1
      <3>1. i - 1 \in p + 1 .. n + 1 /\ (i - 1) + 1 = i /\ i \in p + 1 .. n + 1 /\ i - 1 \in 0 .. n /\ i - 1 # p
        BY <2>4, <1>1
      <3>2. nx2[Nth(s, n, l, i - 1)] = Nth(s, n, l, i)
        BY <3>1, <1>10
      <3>3. Nth(t, n + 1, l, i) = Nth(s, n, l, i - 1)
        BY <3>1, <1>9
      <3>4. Nth(t, n + 1, l, i + 1) = Nth(s, n, l, i)
        BY <3>1, <1>9
      <3> QED
        BY <3>2, <3>3, <3>4
    <2>5. i < p \/ i = p \/ i = p + 1 \/ i > p + 1
      BY <1>1
    <2> QED
      BY <2>1, <2>2, <2>3, <2>4, <2>5
  <1>12. ASSUME NEW x \in Object
         PROVE  (nx2[x] # NULL /\ ids2[x] = l) <=> \E i \in 1 .. n + 1 : t[i] = x
    <2>1. CASE x = o
      <3>1. p + 1 \in 0 .. n + 1 /\ p + 1 \in 1 .. n + 1
        BY <1>1
      <3> QED
        BY <2>1, <3>1, <1>2, <1>3, <1>4
    <2>2. CASE x # o
      <3>1. nx2[x] # NULL <=> nx[x] # NULL
        BY <2>2, <1>2, <1>3
      <3>2. (\E i \in 1 .. n + 1 : t[i] = x) <=> \E i \in 1 .. n : s[i] = x
        <4>1. ASSUME NEW i \in 1 .. n, s[i] = x PROVE \E j \in 1 .. n + 1 : t[j] = x
          <5>1. i \in 1 .. n + 1 /\ i + 1 \in 1 .. n + 1 /\ (i \in 1 .. p \/ i \in p + 1 .. n)
            BY <1>1
          <5> QED
            BY <4>1, <5>1, <1>4
        <4>2. ASSUME NEW i \in 1 .. n + 1, t[i] = x PROVE \E j \in 1 .. n : s[j] = x
          <5>1. 1 .. p \subseteq 1 .. n /\ p + 1 .. n \subseteq 1 .. n
            BY <1>1
          <5> QED
            BY <4>2, <5>1, <1>4, <1>6, <2>2
        <4> QED
          BY <4>1, <4>2
      <3> QED
        BY <2>2, <3>1, <3>2, <1>1, <1>3
    <2> QED
      BY <2>1, <2>2
  <1>13. n + 1 \in Nat
    BY <1>1
  <1> QED
    BY <1>t, <1>5, <1>8, <1>11, <1>12, <1>13 DEF IsRing

LEMMA CutRing ==
    ASSUME NEW nx, NEW ids, NEW l \in List, NEW n, NEW s, IsRing(nx, ids, l, n, s),
           NEW p \in 1 .. n, NEW nx2,
           nx2[s[p]] = NULL, nx2[Nth(s, n, l, p - 1)] = Nth(s, n, l, p + 1),
           \A x \in Node \ {Nth(s, n, l, p - 1), s[p]} : nx2[x] = nx[x]
    PROVE  IsRing(nx2, ids, l, n - 1, Cut(s, n, p))
  <1>1. /\ n \in Nat /\ s \in [1 .. n -> Object]
        /\ \A i, j \in 1 .. n : s[i] = s[j] => i = j
        /\ \A i \in 0 .. n : nx[Nth(s, n, l, i)] = Nth(s, n, l, i + 1)
        /\ \A x \in Object : (nx[x] # NULL /\ ids[x] = l) <=> \E i \in 1 .. n : s[i] = x
    BY DEF IsRing
  <1>0. Places(nx, ids, l, n, s)
    BY RingPlaces
  <1>2. /\ \A i \in 0 .. n + 1 : Nth(s, n, l, i) \in Node
        /\ \A i, j \in 0 .. n : Nth(s, n, l, i) = Nth(s, n, l, j) => i = j
        /\ \A i \in 1 .. n : s[i] \in Object /\ s[i] # l /\ nx[s[i]] # NULL /\ ids[s[i]] = l
        /\ \A i \in 0 .. n : nx[Nth(s, n, l, i)] # NULL
    BY <1>0 DEF Places
  <1>3. NULL \notin Node /\ Object \subseteq Node
    BY ListAssumption DEF Node
  <1>m. PICK m \in Nat : m = n - 1 /\ n = m + 1
    BY <1>1
  <1>t. PICK t : t = Cut(s, n, p)
    OBVIOUS
  <1>4. /\ \A i \in 1 .. p - 1 : t[i] = s[i]
        /\ \A i \in p .. m : t[i] = s[i + 1]
    <2>1. \A i \in 1 .. p - 1 : i \in 1 .. n - 1 /\ i < p
      BY <1>1
    <2>2. \A i \in p .. m : i \in 1 .. n - 1 /\ ~ (i < p)
      BY <1>m
    <2> QED
      BY <2>1, <2>2, <1>t DEF Cut
  <1>5. t \in [1 .. m -> Object]
    <2>1. ASSUME NEW i \in 1 .. m PROVE (IF i < p THEN s[i] ELSE s[i + 1]) \in Object
      <3>1. i \in 1 .. n /\ i + 1 \in 1 .. n
        BY <1>m
      <3> QED
        BY <3>1, <1>1
    <2> QED
      BY <2>1, <1>t, <1>m DEF Cut
  <1>8. ASSUME NEW i \in 1 .. m, NEW j \in 1 .. m, t[i] = t[j] PROVE i = j
    <2> DEFINE Src(k) == IF k < p THEN k ELSE k + 1
    <2>1. ASSUME NEW k \in 1 .. m PROVE Src(k) \in 1 .. n /\ t[k] = s[Src(k)]
      <3>1. CASE k < p
        <4>1. k \in 1 .. p - 1 /\ k \in 1 .. n
          BY <3>1, <1>m
        <4> QED
          BY <3>1, <4>1, <1>4
      <3>2. CASE ~ (k < p)
        <4>1. k \in p .. m /\ k + 1 \in 1 .. n
          BY <3>2, <1>m
        <4> QED
          BY <3>2, <4>1, <1>4
      <3> QED
        BY <3>1, <3>2
    <2>2. Src(i) = Src(j)
      <3> HIDE DEF Src
      <3> QED
        BY <2>1, <1>1, <1>8
    <2> QED
      BY <2>2, <1>m
  <1>9. /\ \A i \in 0 .. p - 1 : Nth(t, m, l, i) = Nth(s, n, l, i)
        /\ \A i \in p .. n : Nth(t, m, l, i) = Nth(s, n, l, i + 1)
    <2>1. ASSUME NEW i \in 0 .. p - 1 PROVE Nth(t, m, l, i) = Nth(s, n, l, i)
      <3>1. i \in 1 .. m <=> i \in 1 .. p - 1
        BY <1>m
      <3>2. i \in 1 .. n <=> i \in 1 .. p - 1
        BY <1>m
      <3> QED
        BY <3>1, <3>2, <1>4 DEF Nth
    <2>2. ASSUME NEW i \in p .. n PROVE Nth(t, m, l, i) = Nth(s, n, l, i + 1)
      <3>1. i \in 1 .. m <=> i \in p .. m
        BY <1>m
      <3>2. i + 1 \in 1 .. n <=> i \in p .. m
        BY <1>m
      <3> QED
        BY <3>1, <3>2, <1>4 DEF Nth
    <2> QED
      BY <2>1, <2>2
  <1>6. p \in 0 .. n /\ p - 1 \in 0 .. n /\ Nth(s, n, l, p) = s[p]
    BY <1>1 DEF Nth
  <1>10. ASSUME NEW i \in 0 .. n, i # p, i # p - 1 PROVE nx2[Nth(s, n, l, i)] = Nth(s, n, l, i + 1)
    <2>1. i \in 0 .. n + 1
      BY <1>1
    <2>2. Nth(s, n, l, i) # Nth(s, n, l, p - 1) /\ Nth(s, n, l, i) # s[p] /\ Nth(s, n, l, i) \in Node
      BY <2>1, <1>2, <1>6, <1>10
    <2> QED
      BY <2>2, <1>1
  <1>11. ASSUME NEW i \in 0 .. m PROVE nx2[Nth(t, m, l, i)] = Nth(t, m, l, i + 1)
    <2>1. CASE i < p - 1
      <3>1. i \in 0 .. n /\ i # p /\ i # p - 1 /\ i \in 0 .. p - 1 /\ i + 1 \in 0 .. p - 1
        BY <2>1, <1>m
      <3> QED
        BY <3>1, <1>9, <1>10
    <2>2. CASE i = p - 1
      <3>1. i \in 0 .. p - 1 /\ i + 1 = p /\ i + 1 \in p .. n
        BY <2>2, <1>m
      <3> QED
        BY <2>2, <3>1, <1>9
    <2>3. CASE i >= p
      <3>1. i \in p .. n /\ i + 1 \in p .. n /\ i + 1 \in 0 .. n /\ i + 1 # p /\ i + 1 # p - 1
        BY <2>3, <1>m
      <3>2. nx2[Nth(s, n, l, i + 1)] = Nth(s, n, l, (i + 1) + 1)
        BY <3>1, <1>10
      <3> QED
        BY <3>1, <3>2, <1>9
    <2>4. i < p - 1 \/ i = p - 1 \/ i >= p
      BY <1>m
    <2> QED
      BY <2>1, <2>2, <2>3, <2>4
  <1>12. ASSUME NEW x \in Object
         PROVE  (nx2[x] # NULL /\ ids[x] = l) <=> \E i \in 1 .. m : t[i] = x
    <2>1. CASE x = s[p]
      <3>1. ASSUME NEW i \in 1 .. m PROVE t[i] # s[p]
        <4>2. CASE i \in 1 .. p - 1
          <5>1. i # p /\ i \in 1 .. n
            BY <4>2, <1>m
          <5> QED
            BY <4>2, <5>1, <1>1, <1>4
        <4>3. CASE i \notin 1 .. p - 1
          <5>1. i \in p .. m /\ i + 1 # p /\ i + 1 \in 1 .. n
            BY <4>3, <1>m
          <5> QED
            BY <5>1, <1>1, <1>4
        <4> QED
          BY <4>2, <4>3
      <3> QED
        BY <2>1, <3>1
    <2>2. CASE x # s[p]
      <3>1. nx2[x] # NULL <=> nx[x] # NULL
        <4>1. CASE x = Nth(s, n, l, p - 1)
          <5>1. p + 1 \in 0 .. n + 1
            BY <1>1
          <5> QED
            BY <4>1, <5>1, <1>2, <1>3, <1>6
        <4>2. CASE x # Nth(s, n, l, p - 1)
          BY <4>2, <2>2, <1>3
        <4> QED
          BY <4>1, <4>2
      <3>2. (\E i \in 1 .. m : t[i] = x) <=> \E i \in 1 .. n : s[i] = x
        <4>1. ASSUME NEW i \in 1 .. n, s[i] = x PROVE \E j \in 1 .. m : t[j] = x
          <5>1. i # p
            BY <4>1, <2>2
          <5>2. CASE i < p
            <6>1. i \in 1 .. p - 1 /\ i \in 1 .. m
              BY <5>2, <1>m
            <6> QED
              BY <4>1, <6>1, <1>4
          <5>3. CASE i > p
            <6>1. i - 1 \in p .. m /\ i - 1 \in 1 .. m /\ (i - 1) + 1 = i
              BY <5>3, <1>m
            <6> QED
              BY <4>1, <6>1, <1>4
          <5> QED
            BY <5>1, <5>2, <5>3, <1>m
        <4>2. ASSUME NEW i \in 1 .. m, t[i] = x PROVE \E j \in 1 .. n : s[j] = x
          <5>1. i \in 1 .. n /\ i + 1 \in 1 .. n /\ (i \in 1 .. p - 1 \/ i \in p .. m)
            BY <1>m
          <5> QED
            BY <4>2, <5>1, <1>4
        <4> QED
          BY <4>1, <4>2
      <3> QED
        BY <3>1, <3>2, <1>1
    <2> QED
      BY <2>1, <2>2
  <1> QED
    BY <1>t, <1>m, <1>5, <1>8, <1>11, <1>12 DEF IsRing

(* A ring whose nodes an operation leaves alone. *)
LEMMA SameRing ==
    ASSUME NEW nx, NEW ids, NEW m \in List, NEW k, NEW t, IsRing(nx, ids, m, k, t), NEW nx2, NEW ids2,
           nx2[m] = nx[m],
           \A x \in Object : /\ nx[x] # NULL /\ ids[x] = m => nx2[x] = nx[x]
                             /\ (nx2[x] # NULL /\ ids2[x] = m) <=> (nx[x] # NULL /\ ids[x] = m)
    PROVE  IsRing(nx2, ids2, m, k, t)
  <1>1. \A i \in 1 .. k : t[i] \in Object /\ nx[t[i]] # NULL /\ ids[t[i]] = m
    BY RingPlaces DEF Places
  <1>2. \A i \in 0 .. k : nx2[Nth(t, k, m, i)] = nx[Nth(t, k, m, i)]
    BY <1>1 DEF Nth
  <1>3. \A x \in Object : (nx2[x] # NULL /\ ids2[x] = m) <=> \E i \in 1 .. k : t[i] = x
    BY DEF IsRing
  <1>4. \A i \in 0 .. k : nx2[Nth(t, k, m, i)] = Nth(t, k, m, i + 1)
    BY <1>2 DEF IsRing
  <1> QED
    BY <1>3, <1>4 DEF IsRing

(* Every node of a ring has the place before it as its prev. *)
LEMMA RingBackwards ==
    ASSUME Inv, NEW l \in List, NEW n, NEW s, IsRing(next, id, l, n, s), NEW i \in 0 .. n
    PROVE  prev[Nth(s, n, l, i + 1)] = Nth(s, n, l, i)
  <1>1. Nth(s, n, l, i) \in Node /\ next[Nth(s, n, l, i)] # NULL /\ next[Nth(s, n, l, i)] = Nth(s, n, l, i + 1)
    <2>1. i \in 0 .. n + 1
      BY DEF IsRing
    <2>2. Places(next, id, l, n, s)
      BY RingPlaces
    <2> QED
      BY <2>1, <2>2 DEF IsRing, Places
  <1>2. Nth(s, n, l, i) \in Linked
    BY <1>1 DEF Linked
  <1> QED
    BY <1>1, <1>2, Neighbours

(* What an operation on list l does to the rings: s becomes t. *)
Becomes(l, n, s, k, t) ==
    /\ IsRing(next, id, l, n, s) /\ IsRing(next', id', l, k, t)
    /\ \A m \in List \ {l} : \A j, u : IsRing(next, id, m, j, u) => IsRing(next', id', m, j, u)

(* Linking an object into list l does not touch the ring of another list. *)
LEMMA InsertElsewhere ==
    ASSUME Inv, NEW l \in List, NEW o \in Object, NEW a \in Node, o \in Node, next[o] = NULL, id[a] = l,
           next'[o] # NULL, next'[a] # NULL,
           \A x \in Node \ {a, o} : next'[x] = next[x],
           id'[o] = l, \A x \in Node \ {o} : id'[x] = id[x],
           NEW m \in List \ {l}, NEW j, NEW u, IsRing(next, id, m, j, u)
    PROVE  IsRing(next', id', m, j, u)
  <1>1. m \in Node /\ id[m] = m /\ m # a /\ m # o /\ m # l
    BY ListAssumption DEF Node, Inv, IdsAgree
  <1>2. ASSUME NEW x \in Object
        PROVE  /\ next[x] # NULL /\ id[x] = m => next'[x] = next[x]
               /\ (next'[x] # NULL /\ id'[x] = m) <=> (next[x] # NULL /\ id[x] = m)
    <2>1. x \in Node
      BY DEF Node
    <2>2. CASE x = o
      BY <2>2, <1>1
    <2>3. CASE x = a
      BY <2>3, <2>1, <1>1
    <2>4. CASE x \notin {a, o}
      BY <2>4, <2>1
    <2> QED
      BY <2>2, <2>3, <2>4
  <1> QED
    BY <1>1, <1>2, SameRing

LEMMA PushBecomes ==
    ASSUME Inv, NEW l \in List, NEW o \in Object, Push(l, o),
           NEW n, NEW s, IsRing(next, id, l, n, s)
    PROVE  Becomes(l, n, s, n + 1, Put(s, n, n, o))
  <1>a. PICK a : a = prev[l]
    OBVIOUS
  <1>1. l \in Linked /\ id[l] = l /\ n \in Nat
    BY DEF Inv, RingsClosed, IdsAgree, IsRing
  <1>2. a \in Linked /\ next[a] = l /\ id[a] = l /\ l \in Node /\ a \in Node
    BY <1>1, <1>a, Neighbours
  <1>3. o \notin Linked /\ o \in Node /\ o # a /\ o # l /\ next[o] = NULL
    BY <1>1, <1>2 DEF Push, OnNoList, Linked, Node
  <1>4. /\ next'[a] = o /\ next'[o] = l /\ \A x \in Node \ {a, o} : next'[x] = next[x]
        /\ id'[o] = l /\ \A x \in Node \ {o} : id'[x] = id[x]
    BY <1>1, <1>2, <1>3, <1>a DEF Push, Inv, TypeOK
  <1>5. n \in 0 .. n /\ Nth(s, n, l, n + 1) = l
    BY <1>1 DEF Nth
  <1>6. Nth(s, n, l, n) = a
    BY <1>5, <1>a, RingBackwards
  <1>7. IsRing(next', id', l, n + 1, Put(s, n, n, o))
    BY <1>3, <1>4, <1>5, <1>6, InsertRing
  <1>8. ASSUME NEW m \in List \ {l}, NEW j, NEW u, IsRing(next, id, m, j, u)
        PROVE  IsRing(next', id', m, j, u)
    <2>1. next'[o] # NULL /\ next'[a] # NULL
      BY <1>2, <1>3, <1>4, ListAssumption DEF Node
    <2> QED
      BY <2>1, <1>2, <1>3, <1>4, <1>8, InsertElsewhere
  <1> QED
    BY <1>7, <1>8 DEF Becomes

LEMMA UnshiftBecomes ==
    ASSUME Inv, NEW l \in List, NEW o \in Object, Unshift(l, o),
           NEW n, NEW s, IsRing(next, id, l, n, s)
    PROVE  Becomes(l, n, s, n + 1, Put(s, n, 0, o))
  <1>b. PICK b : b = next[l]
    OBVIOUS
  <1>1. l \in Linked /\ id[l] = l /\ n \in Nat
    BY DEF Inv, RingsClosed, IdsAgree, IsRing
  <1>2. b \in Linked /\ l \in Node /\ b \in Node
    BY <1>1, <1>b, Neighbours
  <1>3. o \notin Linked /\ o \in Node /\ o # b /\ o # l /\ next[o] = NULL
    BY <1>1, <1>2 DEF Unshift, OnNoList, Linked, Node
  <1>4. /\ next'[l] = o /\ next'[o] = b /\ \A x \in Node \ {l, o} : next'[x] = next[x]
        /\ id'[o] = l /\ \A x \in Node \ {o} : id'[x] = id[x]
    BY <1>1, <1>2, <1>3, <1>b DEF Unshift, Inv, TypeOK
  <1>5. 0 \in 0 .. n /\ Nth(s, n, l, 0) = l
    BY <1>1 DEF Nth
  <1>6. Nth(s, n, l, 0 + 1) = b
    BY <1>5, <1>b DEF IsRing
  <1>7. IsRing(next', id', l, n + 1, Put(s, n, 0, o))
    BY <1>3, <1>4, <1>5, <1>6, InsertRing
  <1>8. ASSUME NEW m \in List \ {l}, NEW j, NEW u, IsRing(next, id, m, j, u)
        PROVE  IsRing(next', id', m, j, u)
    <2>1. next'[o] # NULL /\ next'[l] # NULL
      BY <1>2, <1>3, <1>4, ListAssumption DEF Node
    <2> QED
      BY <2>1, <1>1, <1>2, <1>3, <1>4, <1>8, InsertElsewhere
  <1> QED
    BY <1>7, <1>8 DEF Becomes

(* Remove cuts the object out where it is: on l, as its id says. *)
LEMMA RemoveBecomes ==
    ASSUME Inv, NEW l \in List, NEW o \in Object, Remove(l, o),
           NEW n, NEW s, IsRing(next, id, l, n, s)
    PROVE  \E p \in 1 .. n : s[p] = o /\ Becomes(l, n, s, n - 1, Cut(s, n, p))
  <1>1. /\ o \in Linked /\ o \in Node /\ id[o] = l /\ NULL \notin Node
        /\ next[o] # NULL /\ n \in Nat
    BY ListAssumption DEF Remove, Linked, Node, Inv, IdsAgree, IsRing
  <1>2. PICK p \in 1 .. n : s[p] = o
    BY <1>1 DEF IsRing
  <1>a. PICK a, b : a = prev[o] /\ b = next[o]
    OBVIOUS
  <1>3. a \in Linked /\ a \in Node /\ b \in Node /\ id[a] = l
    BY <1>1, <1>a, Neighbours DEF Linked
  <1>4. p - 1 \in 0 .. n /\ (p - 1) + 1 = p /\ p \in 0 .. n /\ p - 1 # p /\ Nth(s, n, l, p) = o
    BY <1>1, <1>2 DEF Nth
  <1>5. Nth(s, n, l, p - 1) = a
    BY <1>4, <1>a, RingBackwards
  <1>6. Nth(s, n, l, p + 1) = b
    BY <1>4, <1>a DEF IsRing
  <1>7. a # o
    <2>1. Places(next, id, l, n, s)
      BY RingPlaces
    <2> QED
      BY <2>1, <1>4, <1>5 DEF Places
  <1>8. /\ next'[o] = NULL /\ next'[a] = b /\ \A x \in Node \ {a, o} : next'[x] = next[x]
        /\ id' = id
    BY <1>1, <1>3, <1>7, <1>a DEF Remove, Inv, TypeOK
  <1>9. IsRing(next', id', l, n - 1, Cut(s, n, p))
    BY <1>2, <1>5, <1>6, <1>8, CutRing
  <1>10. ASSUME NEW m \in List \ {l}, NEW j, NEW u, IsRing(next, id, m, j, u)
         PROVE  IsRing(next', id', m, j, u)
    <2>1. m \in Node /\ id[m] = m /\ m # a /\ m # o
      BY <1>1, <1>3 DEF Node, Inv, IdsAgree
    <2>2. \A x \in Object : id[x] = m => x \in Node \ {a, o}
      BY <1>1, <1>3 DEF Node
    <2> QED
      BY <2>1, <2>2, <1>8, <1>10, SameRing
  <1> QED
    BY <1>2, <1>9, <1>10 DEF Becomes
-----------------------------------------------------------------------------
(* The same insertions and cuts, in the operators of Sequences. *)
LEMMA RingSeq ==
    ASSUME NEW n \in Nat, NEW s \in [1 .. n -> Object]
    PROVE  s \in Seq(Object) /\ Len(s) = n /\ DOMAIN s = 1 .. n /\ (s = <<>> <=> n = 0)
  <1>1. s \in Seq(Object)
    BY SeqDef
  <1>2. Len(s) \in Nat /\ DOMAIN s = 1 .. Len(s) /\ DOMAIN s = 1 .. n
    BY <1>1, LenProperties
  <1>3. Len(s) = n
    BY <1>2
  <1>4. s = <<>> <=> Len(s) = 0
    BY <1>1, EmptySeq
  <1> QED
    BY <1>1, <1>2, <1>3, <1>4

(* Sequences of n objects that agree everywhere are the same. *)
LEMMA SameSeq ==
    ASSUME NEW n \in Nat, NEW s \in [1 .. n -> Object], NEW t \in Seq(Object), Len(t) = n,
           \A i \in 1 .. n : s[i] = t[i]
    PROVE  s = t
  <1>1. s \in Seq(Object) /\ Len(s) = n
    BY RingSeq
  <1> QED
    BY <1>1, SeqEqual

LEMMA PutLast ==
    ASSUME NEW n \in Nat, NEW s \in [1 .. n -> Object], NEW o \in Object,
           Put(s, n, n, o) \in [1 .. n + 1 -> Object]
    PROVE  Put(s, n, n, o) = Append(s, o)
  <1>1. s \in Seq(Object) /\ Len(s) = n
    BY RingSeq
  <1>2. /\ Append(s, o) \in Seq(Object) /\ Len(Append(s, o)) = n + 1
        /\ \A i \in 1 .. n : Append(s, o)[i] = s[i]
        /\ Append(s, o)[n + 1] = o
    BY <1>1, AppendProperties
  <1>3. ASSUME NEW i \in 1 .. n + 1 PROVE Put(s, n, n, o)[i] = Append(s, o)[i]
    <2>1. CASE i \in 1 .. n
      <3>1. Put(s, n, n, o)[i] = s[i]
        BY <2>1 DEF Put
      <3> QED
        BY <2>1, <3>1, <1>2
    <2>2. CASE i = n + 1
      <3>1. Put(s, n, n, o)[n + 1] = o
        BY DEF Put
      <3> QED
        BY <2>2, <3>1, <1>2
    <2>3. i \in 1 .. n \/ i = n + 1
      OBVIOUS
    <2> QED
      BY <2>1, <2>2, <2>3
  <1>4. n + 1 \in Nat
    OBVIOUS
  <1> QED
    BY <1>2, <1>3, <1>4, SameSeq

LEMMA PutFirst ==
    ASSUME NEW n \in Nat, NEW s \in [1 .. n -> Object], NEW o \in Object,
           Put(s, n, 0, o) \in [1 .. n + 1 -> Object]
    PROVE  Put(s, n, 0, o) = <<o>> \o s
  <1>1. s \in Seq(Object) /\ Len(s) = n
    BY RingSeq
  <1>2. <<o>> \in Seq(Object) /\ Len(<<o>>) = 1 /\ <<o>>[1] = o
    OBVIOUS
  <1>3. /\ <<o>> \o s \in Seq(Object) /\ Len(<<o>> \o s) = 1 + n
        /\ \A i \in 1 .. 1 + n : (<<o>> \o s)[i] = IF i <= 1 THEN <<o>>[i] ELSE s[i - 1]
    BY <1>1, <1>2, ConcatProperties
  <1>4. ASSUME NEW i \in 1 .. n + 1 PROVE Put(s, n, 0, o)[i] = (<<o>> \o s)[i]
    <2>1. Put(s, n, 0, o)[i] = IF i <= 0 THEN s[i] ELSE IF i = 0 + 1 THEN o ELSE s[i - 1]
      BY DEF Put
    <2>2. i \in 1 .. 1 + n /\ ~ (i <= 0) /\ (i = 0 + 1 <=> i = 1) /\ (i <= 1 <=> i = 1)
      OBVIOUS
    <2> QED
      BY <2>1, <2>2, <1>2, <1>3
  <1>5. n + 1 \in Nat /\ 1 + n = n + 1
    OBVIOUS
  <1> QED
    BY <1>3, <1>4, <1>5, SameSeq

LEMMA CutOut ==
    ASSUME NEW n \in Nat, NEW s \in [1 .. n -> Object], NEW p \in 1 .. n,
           Cut(s, n, p) \in [1 .. n - 1 -> Object]
    PROVE  Cut(s, n, p) = SubSeq(s, 1, p - 1) \o SubSeq(s, p + 1, Len(s))
  <1>1. s \in Seq(Object) /\ Len(s) = n
    BY RingSeq
  <1>2. PICK b, e : b = SubSeq(s, 1, p - 1) /\ e = SubSeq(s, p + 1, n)
    OBVIOUS
  <1>3. 1 \in Int /\ p - 1 \in Int /\ p + 1 \in Int /\ n \in Int
    OBVIOUS
  <1>4. \A i \in 1 .. p - 1 : s[i] \in Object
    OBVIOUS
  <1>5. \A i \in p + 1 .. n : s[i] \in Object
    OBVIOUS
  <1>6. /\ SubSeq(s, 1, p - 1) \in Seq(Object)
        /\ Len(SubSeq(s, 1, p - 1)) = IF 1 <= p - 1 THEN (p - 1) - 1 + 1 ELSE 0
        /\ \A i \in 1 .. (p - 1) - 1 + 1 : SubSeq(s, 1, p - 1)[i] = s[1 + i - 1]
    BY <1>3, <1>4, SubSeqProperties
  <1>7. b \in Seq(Object) /\ Len(b) = p - 1 /\ \A i \in 1 .. p - 1 : b[i] = s[i]
    BY <1>2, <1>6
  <1>8. /\ SubSeq(s, p + 1, n) \in Seq(Object)
        /\ Len(SubSeq(s, p + 1, n)) = IF p + 1 <= n THEN n - (p + 1) + 1 ELSE 0
        /\ \A i \in 1 .. n - (p + 1) + 1 : SubSeq(s, p + 1, n)[i] = s[(p + 1) + i - 1]
    BY <1>3, <1>5, SubSeqProperties
  <1>9. e \in Seq(Object) /\ Len(e) = n - p /\ \A i \in 1 .. n - p : e[i] = s[p + i]
    <2>1. \A i \in 1 .. n - p : i \in 1 .. n - (p + 1) + 1 /\ (p + 1) + i - 1 = p + i
      OBVIOUS
    <2> QED
      BY <2>1, <1>2, <1>8
  <1>10. /\ b \o e \in Seq(Object) /\ Len(b \o e) = Len(b) + Len(e)
         /\ \A i \in 1 .. Len(b) + Len(e) : (b \o e)[i] = IF i <= Len(b) THEN b[i] ELSE e[i - Len(b)]
    BY <1>7, <1>9, ConcatProperties
  <1>11. Len(b) + Len(e) = n - 1 /\ n - 1 \in Nat
    BY <1>7, <1>9
  <1>12. ASSUME NEW i \in 1 .. n - 1 PROVE Cut(s, n, p)[i] = (b \o e)[i]
    <2>1. (b \o e)[i] = IF i <= p - 1 THEN b[i] ELSE e[i - (p - 1)]
      BY <1>7, <1>10, <1>11
    <2>2. Cut(s, n, p)[i] = IF i < p THEN s[i] ELSE s[i + 1]
      BY DEF Cut
    <2>3. CASE i < p
      <3>1. i \in 1 .. p - 1 /\ i <= p - 1
        BY <2>3
      <3> QED
        BY <2>1, <2>2, <2>3, <3>1, <1>7
    <2>4. CASE ~ (i < p)
      <3>1. i - (p - 1) \in 1 .. n - p /\ ~ (i <= p - 1) /\ p + (i - (p - 1)) = i + 1
        BY <2>4
      <3> QED
        BY <2>1, <2>2, <2>4, <3>1, <1>9
    <2> QED
      BY <2>3, <2>4
  <1>13. Cut(s, n, p) = b \o e
    BY <1>10, <1>11, <1>12, SameSeq
  <1> QED
    BY <1>1, <1>2, <1>13

LEMMA CutEnds ==
    ASSUME NEW n \in Nat, NEW s \in [1 .. n -> Object], n # 0
    PROVE  /\ Cut(s, n, n) \in [1 .. n - 1 -> Object] => Cut(s, n, n) = SubSeq(s, 1, Len(s) - 1)
           /\ Cut(s, n, 1) \in [1 .. n - 1 -> Object] => Cut(s, n, 1) = Tail(s)
  <1>1. s \in Seq(Object) /\ Len(s) = n /\ s # <<>>
    BY RingSeq
  <1>m. PICK m \in Nat : m = n - 1 /\ n = m + 1
    OBVIOUS
  <1>2. ASSUME Cut(s, n, n) \in [1 .. n - 1 -> Object] PROVE Cut(s, n, n) = SubSeq(s, 1, Len(s) - 1)
    <2>1. 1 \in Int /\ m \in Int /\ \A i \in 1 .. m : s[i] \in Object
      BY <1>m
    <2>2. /\ SubSeq(s, 1, m) \in Seq(Object)
          /\ Len(SubSeq(s, 1, m)) = IF 1 <= m THEN m - 1 + 1 ELSE 0
          /\ \A i \in 1 .. m - 1 + 1 : SubSeq(s, 1, m)[i] = s[1 + i - 1]
      BY <2>1, SubSeqProperties
    <2>3. Len(SubSeq(s, 1, m)) = m /\ \A i \in 1 .. m : SubSeq(s, 1, m)[i] = s[i]
      BY <2>2
    <2>4. \A i \in 1 .. m : Cut(s, n, n)[i] = s[i]
      BY <1>m DEF Cut
    <2>5. Cut(s, n, n) = SubSeq(s, 1, m)
      BY <2>2, <2>3, <2>4, <1>2, <1>m, SameSeq
    <2> QED
      BY <2>5, <1>1, <1>m
  <1>3. ASSUME Cut(s, n, 1) \in [1 .. n - 1 -> Object] PROVE Cut(s, n, 1) = Tail(s)
    <2>1. Tail(s) \in Seq(Object) /\ Len(Tail(s)) = m /\ \A i \in 1 .. m : Tail(s)[i] = s[i + 1]
      BY <1>1, <1>m, HeadTailProperties
    <2>2. \A i \in 1 .. m : Cut(s, n, 1)[i] = s[i + 1]
      BY <1>m DEF Cut
    <2> QED
      BY <2>1, <2>2, <1>3, <1>m, SameSeq
  <1> QED
    BY <1>2, <1>3
-----------------------------------------------------------------------------
(* The sequence of a list is what Contents returns, before and after a step. *)
LEMMA ContentsIsRing ==
    ASSUME NEW l \in List, NEW n, NEW s
    PROVE  /\ IsRing(next, id, l, n, s) => Contents(l) = s
           /\ IsRing(next', id', l, n, s) => Contents(l)' = s
  BY ContentsFollow, FollowRing

(* On the sequences, such an operation sets list l to t. *)
LEMMA BecomesIsSet ==
    ASSUME RingInv, NEW l \in List, NEW n, NEW s, NEW k, NEW t, Becomes(l, n, s, k, t)
    PROVE  /\ RingInv'
           /\ Abstract!Set(l, t)
           /\ [m \in List |-> Contents(m)][l] = s
  <1>1. /\ IsRing(next, id, l, n, s) /\ IsRing(next', id', l, k, t)
        /\ \A m \in List \ {l} : \A j, u : IsRing(next, id, m, j, u) => IsRing(next', id', m, j, u)
    BY DEF Becomes
  <1>2. RingInv'
    BY <1>1 DEF RingInv
  <1>3. Contents(l) = s /\ Contents(l)' = t
    BY <1>1, ContentsIsRing
  <1>4. ASSUME NEW m \in List \ {l} PROVE Contents(m)' = Contents(m)
    <2>1. PICK j, u : IsRing(next, id, m, j, u)
      BY DEF RingInv
    <2> QED
      BY <2>1, <1>1, ContentsIsRing
  <1>5. PICK c, d : c = [m \in List |-> Contents(m)] /\ d = [m \in List |-> Contents(m)']
    OBVIOUS
  <1>6. d = [c EXCEPT ![l] = t]
    BY <1>3, <1>4, <1>5
  <1>7. Abstract!Set(l, t)
    BY <1>5, <1>6 DEF Abstract!Set
  <1> QED
    BY <1>2, <1>3, <1>7

(* An object that is on no list is free. *)
LEMMA UnlinkedFree ==
    ASSUME RingInv, NEW o \in Object, next[o] = NULL
    PROVE  o \in Abstract!Free
  <1>1. ASSUME NEW l \in List PROVE o \notin Abstract!On(l)
    <2>1. PICK n, s : IsRing(next, id, l, n, s)
      BY DEF RingInv
    <2>2. Contents(l) = s
      BY <2>1, ContentsIsRing
    <2>3. \A i \in 1 .. n : s[i] # o
      BY <2>1 DEF IsRing
    <2>4. DOMAIN s = 1 .. n
      BY <2>1 DEF IsRing
    <2> QED
      BY <2>2, <2>3, <2>4 DEF Abstract!On
  <1> QED
    BY <1>1 DEF Abstract!Free

LEMMA RingTyped ==
    ASSUME NEW nx, NEW ids, NEW l, NEW n, NEW s, IsRing(nx, ids, l, n, s)
    PROVE  n \in Nat /\ s \in [1 .. n -> Object]
  BY DEF IsRing

LEMMA PushRefines ==
    ASSUME Inv, RingInv, NEW l \in List, NEW o \in Object, Push(l, o)
    PROVE  RingInv' /\ Abstract!Push(l, o)
  <1>1. PICK n, s : IsRing(next, id, l, n, s)
    BY DEF RingInv
  <1>2. PICK t : t = Put(s, n, n, o)
    OBVIOUS
  <1>3. Becomes(l, n, s, n + 1, t)
    BY <1>1, <1>2, PushBecomes
  <1>4. t = Append(s, o)
    BY <1>1, <1>2, <1>3, RingTyped, PutLast DEF Becomes
  <1>5. RingInv' /\ Abstract!Set(l, t) /\ [m \in List |-> Contents(m)][l] = s
    BY <1>3, BecomesIsSet
  <1>6. o \in Abstract!Free
    BY UnlinkedFree DEF Push, OnNoList
  <1> QED
    BY <1>4, <1>5, <1>6 DEF Abstract!Push

LEMMA UnshiftRefines ==
    ASSUME Inv, RingInv, NEW l \in List, NEW o \in Object, Unshift(l, o)
    PROVE  RingInv' /\ Abstract!Unshift(l, o)
  <1>1. PICK n, s : IsRing(next, id, l, n, s)
    BY DEF RingInv
  <1>2. PICK t : t = Put(s, n, 0, o)
    OBVIOUS
  <1>3. Becomes(l, n, s, n + 1, t)
    BY <1>1, <1>2, UnshiftBecomes
  <1>4. t = <<o>> \o s
    BY <1>1, <1>2, <1>3, RingTyped, PutFirst DEF Becomes
  <1>5. RingInv' /\ Abstract!Set(l, t) /\ [m \in List |-> Contents(m)][l] = s
    BY <1>3, BecomesIsSet
  <1>6. o \in Abstract!Free
    BY UnlinkedFree DEF Unshift, OnNoList
  <1> QED
    BY <1>4, <1>5, <1>6 DEF Abstract!Unshift

(* Remove, Pop and Shift cut one object: any, the last and the first. *)
LEMMA RemoveRefines ==
    ASSUME Inv, RingInv, NEW l \in List, NEW o \in Object, Remove(l, o)
    PROVE  /\ RingInv' /\ Abstract!Remove(l, o)
           /\ o = prev[l] => Abstract!Pop(l)
           /\ o = next[l] => Abstract!Shift(l)
  <1>1. PICK n, s : IsRing(next, id, l, n, s)
    BY DEF RingInv
  <1>2. PICK p \in 1 .. n : s[p] = o /\ Becomes(l, n, s, n - 1, Cut(s, n, p))
    BY <1>1, RemoveBecomes
  <1>3. PICK t : t = Cut(s, n, p)
    OBVIOUS
  <1>4. n \in Nat /\ s \in [1 .. n -> Object] /\ Cut(s, n, p) \in [1 .. n - 1 -> Object]
    BY <1>1, <1>2, RingTyped DEF Becomes
  <1>5. RingInv' /\ Abstract!Set(l, t) /\ [m \in List |-> Contents(m)][l] = s
    BY <1>2, <1>3, BecomesIsSet
  <1>6. DOMAIN s = 1 .. n /\ s # <<>> /\ n # 0
    <2>1. n # 0
      BY <1>4
    <2> QED
      BY <2>1, <1>4, RingSeq
  <1>7. Abstract!Remove(l, o)
    <2>1. t = SubSeq(s, 1, p - 1) \o SubSeq(s, p + 1, Len(s))
      BY <1>3, <1>4, CutOut
    <2> QED
      BY <2>1, <1>2, <1>5, <1>6 DEF Abstract!Remove
  <1>8. \A i, j \in 1 .. n : s[i] = s[j] => i = j
    BY <1>1 DEF IsRing
  <1>9. ASSUME o = prev[l] PROVE Abstract!Pop(l)
    <2>1. n \in 0 .. n /\ n \in 1 .. n /\ Nth(s, n, l, n + 1) = l /\ Nth(s, n, l, n) = s[n]
      BY <1>4, <1>6 DEF Nth
    <2>2. prev[l] = s[n]
      BY <2>1, <1>1, RingBackwards
    <2>3. p = n
      BY <2>1, <2>2, <1>2, <1>8, <1>9
    <2>4. t = SubSeq(s, 1, Len(s) - 1)
      BY <2>3, <1>3, <1>4, <1>6, CutEnds
    <2> QED
      BY <2>4, <1>5, <1>6 DEF Abstract!Pop
  <1>10. ASSUME o = next[l] PROVE Abstract!Shift(l)
    <2>1. 0 \in 0 .. n /\ 1 \in 1 .. n /\ Nth(s, n, l, 0) = l /\ Nth(s, n, l, 0 + 1) = s[1]
      BY <1>4, <1>6 DEF Nth
    <2>2. next[l] = s[1]
      BY <2>1, <1>1 DEF IsRing
    <2>3. p = 1
      BY <2>1, <2>2, <1>2, <1>8, <1>10
    <2>4. t = Tail(s)
      BY <2>3, <1>3, <1>4, <1>6, CutEnds
    <2> QED
      BY <2>4, <1>5, <1>6 DEF Abstract!Shift
  <1> QED
    BY <1>5, <1>7, <1>9, <1>10

LEMMA InitRefines == Init => RingInv /\ Abstract!Init
  <1> SUFFICES ASSUME Init PROVE RingInv /\ Abstract!Init
    OBVIOUS
  <1>1. ASSUME NEW l \in List PROVE IsRing(next, id, l, 0, <<>>)
    <2>1. next[l] = l /\ \A o \in Object : next[o] = NULL
      BY ListAssumption DEF Init, Node
    <2>2. 0 \in Nat /\ <<>> \in [1 .. 0 -> Object]
      OBVIOUS
    <2>3. \A i \in 0 .. 0 : Nth(<<>>, 0, l, i) = l /\ Nth(<<>>, 0, l, i + 1) = l
      BY DEF Nth
    <2> QED
      BY <2>1, <2>2, <2>3 DEF IsRing
  <1>2. RingInv
    BY <1>1 DEF RingInv
  <1>3. \A l \in List : Contents(l) = <<>>
    BY <1>1, ContentsIsRing
  <1> QED
    BY <1>2, <1>3 DEF Abstract!Init

(* What each operation does to the sequences. *)
Effects ==
    \A l \in List, o \in Object :
        /\ Push(l, o) => Abstract!Push(l, o)
        /\ Unshift(l, o) => Abstract!Unshift(l, o)
        /\ Remove(l, o) => Abstract!Remove(l, o)
        /\ Pop(l) => Abstract!Pop(l)
        /\ Shift(l) => Abstract!Shift(l)

LEMMA OperationsHaveEffects == Inv /\ RingInv => Effects
  <1> SUFFICES ASSUME Inv, RingInv PROVE Effects
    OBVIOUS
  <1>1. ASSUME NEW l \in List, Pop(l) PROVE Abstract!Pop(l)
    <2>1. prev[l] \in Object /\ Remove(l, prev[l])
      BY <1>1, EndsAreObjects DEF Pop
    <2> QED
      BY <2>1, RemoveRefines
  <1>2. ASSUME NEW l \in List, Shift(l) PROVE Abstract!Shift(l)
    <2>1. next[l] \in Object /\ Remove(l, next[l])
      BY <1>2, EndsAreObjects DEF Shift
    <2> QED
      BY <2>1, RemoveRefines
  <1> QED
    BY <1>1, <1>2, PushRefines, UnshiftRefines, RemoveRefines DEF Effects

LEMMA NextRefines ==
    Inv /\ RingInv /\ [Next]_vars
        => RingInv' /\ [Abstract!Next]_([l \in List |-> Contents(l)]) /\ [Effects]_vars
  <1> SUFFICES ASSUME Inv, RingInv, [Next]_vars
               PROVE  RingInv' /\ [Abstract!Next]_([l \in List |-> Contents(l)]) /\ [Effects]_vars
    OBVIOUS
  <1>1. CASE UNCHANGED vars
    <2>1. next' = next /\ id' = id
      BY <1>1 DEF vars
    <2>2. RingInv'
      BY <2>1 DEF RingInv
    <2>3. \A l : Contents(l)' = Contents(l)
      BY <2>1, ContentsFollow
    <2> QED
      BY <1>1, <2>2, <2>3
  <1>2. ASSUME NEW l \in List, NEW o \in Object, Push(l, o) \/ Unshift(l, o) \/ Remove(l, o)
        PROVE  RingInv' /\ Abstract!Next
    BY <1>2, PushRefines, UnshiftRefines, RemoveRefines DEF Abstract!Next
  <1>3. Effects
    BY OperationsHaveEffects
  <1> QED
    BY <1>1, <1>2, <1>3, StepKinds

(* For any number of lists and objects, the pointer operations of sxe-list.c are
   those of a sequence: push appends, unshift prepends, pop and shift take the last
   and the first, remove takes the object from where it stands, and no operation
   touches another list. *)
THEOREM ListImplementsSpec == Spec => ImplementsSpec
  <1>1. Init => Inv /\ RingInv /\ Abstract!Init
    BY InitInv, InitRefines
  <1>2. Inv /\ RingInv /\ [Next]_vars
            => Inv' /\ RingInv' /\ [Abstract!Next]_([l \in List |-> Contents(l)]) /\ [Effects]_vars
    BY NextKeepsInv, NextRefines
  <1> QED
    BY <1>1, <1>2, PTL DEF Spec, ImplementsSpec, Effects, Abstract!Spec
=============================================================================
