---------------------------- MODULE SxeHashProofs ----------------------------
(***************************************************************************)
(* A walk over a state of a pool goes forward and skips nothing, and a     *)
(* lookup in a hash table finds a key that is there, however many elements *)
(* there are and whatever other threads do to them between two steps.      *)
(*                                                                         *)
(* The walker remembers its node, the node before it and the stamp of its  *)
(* node as it was when the walker got there.  All three may be out of date *)
(* when the next step is made.  The invariant says what is true of them    *)
(* all the same: the stamp divides the elements now in the walked state    *)
(* into those behind the walker and those ahead of it, and none of the     *)
(* former lies behind the node before its own.  As long as nothing that    *)
(* was visited comes back, all that is behind the walker was visited.      *)
(***************************************************************************)
EXTENDS SxeHash, WellFoundedInduction, TLAPS

(* The lists of the pool: every element is on the list its id names, and the stamps
   on a list rise. *)
PoolTyped ==
    /\ queue \in [State -> Seq(Element)] /\ stateOf \in [Element -> State]
    /\ last \in [Element -> Nat] /\ nextCount \in Nat

PoolSound ==
    /\ \A e \in Element : 1 <= last[e] /\ last[e] <= nextCount
    /\ Sorted /\ QueueMatchesId
    /\ \A e \in Element : e \in On(queue[stateOf[e]])

WalkTyped ==
    /\ wstate \in State /\ wlast \in Nat /\ wlast <= nextCount
    /\ node \in Element \union {Sentinel} /\ back \in Element \union {Sentinel}
    /\ visited \subseteq Element

(* Where the walker is among the elements that are in the state now. *)
WalkPlace ==
    /\ node = Sentinel => wlast = 0 /\ back = Sentinel
    /\ node # Sentinel => wlast <= last[node]
    /\ \A f \in Element : stateOf[f] = wstate /\ last[f] = wlast => f = node
    /\ back # Sentinel /\ stateOf[back] = wstate =>
          \A f \in Element : stateOf[f] = wstate /\ last[f] > last[back] => last[f] >= wlast

(* What has been visited. *)
WalkMemory ==
    /\ \A f \in Element : stateOf[f] = wstate /\ last[f] <= wlast => f \in visited
    /\ node # Sentinel => node \in visited /\ (stateOf[node] = wstate => last[node] = wlast)
    /\ back # Sentinel => back \in visited /\ (stateOf[back] = wstate => last[back] <= wlast)

WalkSound == WalkTyped /\ WalkPlace /\ (~ returned => WalkMemory)

WalkInv ==
    /\ PoolTyped /\ PoolSound
    /\ wstate \in State
    /\ \A f \in stayed : f \in Element /\ stateOf[f] = wstate
    /\ walking => WalkSound

(* The elements of the table are in the bucket of their key; those that are being
   filled in belong to one writer and are not in the table. *)
HashTyped ==
    /\ key \in [Element -> Key]
    /\ held \in [Writer -> Element \union {NoIndex, LockNotTaken}]
    /\ giving \in [Writer -> (Element \union {NoIndex}) \X Nat]

HashSound ==
    /\ \A e \in Element : stateOf[e] >= Reserved => stateOf[e] = Bucket(key[e])
    /\ \A w \in Writer : held[w] \in Element => stateOf[held[w]] = New
    /\ \A w, v \in Writer : held[w] \in Element /\ held[w] = held[v] => w = v
    /\ \A w \in Writer : giving[w][1] # NoIndex => giving[w][2] >= Reserved

(* During a lookup: what has been in the table all along is in the bucket that is
   walked, and is not among the elements that were compared. *)
LookSound ==
    looking # NoIndex =>
        /\ looking \in Key /\ wstate = Bucket(looking)
        /\ walking /\ WalkSound
        /\ cand \in Element \union {NoIndex, LockNotTaken}
        /\ \A e \in present : /\ e \in Element /\ stateOf[e] = wstate /\ key[e] = looking
                              /\ e \in visited => e = cand

HashInv == PoolTyped /\ PoolSound /\ HashAssumption /\ HashTyped /\ HashSound /\ LookSound
-----------------------------------------------------------------------------
(* Lists. *)

LEMMA SeqFacts ==
    ASSUME NEW S, NEW q \in Seq(S)
    PROVE  /\ Len(q) \in Nat /\ DOMAIN q = 1 .. Len(q) /\ DOMAIN q \subseteq Nat
           /\ \A i \in DOMAIN q : q[i] \in S
  OBVIOUS

LEMMA AppendFacts ==
    ASSUME NEW S, NEW q \in Seq(S), NEW e \in S
    PROVE  /\ Append(q, e) \in Seq(S)
           /\ DOMAIN Append(q, e) = 1 .. Len(q) + 1
           /\ \A i \in 1 .. Len(q) : Append(q, e)[i] = q[i]
           /\ Append(q, e)[Len(q) + 1] = e
  OBVIOUS

(* The stamps l rise along the list q. *)
Rising(q, l) == \A i, j \in DOMAIN q : i < j => l[q[i]] < l[q[j]]

(* A list in order of age holds an element once. *)
LEMMA RisingOnce ==
    ASSUME NEW q \in Seq(Element), NEW l \in [Element -> Nat], Rising(q, l)
    PROVE  /\ \A i, j \in DOMAIN q : q[i] = q[j] => i = j
           /\ \A i, j \in DOMAIN q : l[q[i]] < l[q[j]] => i < j
  <1>1. DOMAIN q \subseteq Nat /\ \A i \in DOMAIN q : q[i] \in Element
    BY SeqFacts
  <1>2. \A i \in DOMAIN q : l[q[i]] \in Nat
    BY <1>1
  <1>3. \A i, j \in DOMAIN q : i < j \/ j < i \/ i = j
    BY <1>1
  <1>4. ASSUME NEW i \in DOMAIN q, NEW j \in DOMAIN q, q[i] = q[j] PROVE i = j
    BY <1>2, <1>3, <1>4 DEF Rising
  <1>5. ASSUME NEW i \in DOMAIN q, NEW j \in DOMAIN q, l[q[i]] < l[q[j]] PROVE i < j
    <2>1. ~ (j < i) /\ i # j
      BY <1>2, <1>5 DEF Rising
    <2> QED
      BY <2>1, <1>3
  <1> QED
    BY <1>4, <1>5

(* What is left of a list when e is removed: everything but e, in the same order. *)
LEMMA WithoutFacts ==
    ASSUME NEW q \in Seq(Element), NEW l \in [Element -> Nat], Rising(q, l), NEW e \in On(q)
    PROVE  /\ Without(q, e) \in Seq(Element)
           /\ On(Without(q, e)) = On(q) \ {e}
           /\ Rising(Without(q, e), l)
  <1> DEFINE k == CHOOSE i \in DOMAIN q : q[i] = e
             w == [i \in 1 .. Len(q) - 1 |-> IF i < k THEN q[i] ELSE q[i + 1]]
  <1>1. Len(q) \in Nat /\ DOMAIN q = 1 .. Len(q) /\ \A i \in 1 .. Len(q) : q[i] \in Element
    BY SeqFacts
  <1>2. k \in 1 .. Len(q) /\ q[k] = e
    BY <1>1 DEF On
  <1>3. Without(q, e) = w
    BY DEF Without
  <1> HIDE DEF k
  <1>4. Len(q) - 1 \in Nat /\ \A i \in 1 .. Len(q) - 1 : (IF i < k THEN q[i] ELSE q[i + 1]) \in Element
    BY <1>1, <1>2
  <1>5. w \in Seq(Element) /\ DOMAIN w = 1 .. Len(q) - 1
    BY <1>4
  <1>6. DOMAIN q = 1 .. Len(q) /\ DOMAIN w = 1 .. Len(q) - 1 /\ Len(q) \in Nat /\ k \in 1 .. Len(q)
    BY <1>1, <1>2, <1>5
  <1>7. \A i, j \in DOMAIN q : q[i] = q[j] => i = j
    BY RisingOnce
  <1>8. \A i \in 1 .. Len(q) - 1 : w[i] = q[IF i < k THEN i ELSE i + 1]
    OBVIOUS
  <1> HIDE DEF w
  <1>9. ASSUME NEW i \in DOMAIN w PROVE w[i] \in On(q) \ {e}
    <2>1. PICK m \in DOMAIN q : m = IF i < k THEN i ELSE i + 1
      BY <1>6
    <2>2. m # k /\ w[i] = q[m]
      BY <2>1, <1>6, <1>8
    <2> QED
      BY <2>2, <1>6, <1>2, <1>7 DEF On
  <1>10. ASSUME NEW i \in DOMAIN q, q[i] # e PROVE q[i] \in On(w)
    <2>1. i # k
      BY <1>2, <1>10
    <2>2. CASE i < k
      <3>1. i \in DOMAIN w /\ w[i] = q[i]
        BY <1>6, <1>8, <2>2
      <3> QED
        BY <3>1 DEF On
    <2>3. CASE i > k
      <3>1. i - 1 \in DOMAIN w /\ ~ (i - 1 < k) /\ (i - 1) + 1 = i
        BY <1>6, <2>3
      <3>2. w[i - 1] = q[i]
        BY <3>1, <1>6, <1>8
      <3> QED
        BY <3>1, <3>2 DEF On
    <2> QED
      BY <1>6, <2>1, <2>2, <2>3
  <1>11. On(w) = On(q) \ {e}
    BY <1>9, <1>10 DEF On
  <1>12. ASSUME NEW i \in DOMAIN w, NEW j \in DOMAIN w, i < j PROVE l[w[i]] < l[w[j]]
    <2>1. PICK m \in DOMAIN q : m = IF i < k THEN i ELSE i + 1
      BY <1>6
    <2>2. PICK n \in DOMAIN q : n = IF j < k THEN j ELSE j + 1
      BY <1>6
    <2>3. w[i] = q[m] /\ w[j] = q[n]
      BY <2>1, <2>2, <1>6, <1>8
    <2>4. i \in Nat /\ j \in Nat /\ k \in Nat
      BY <1>6
    <2>5. m < n
      BY <2>1, <2>2, <2>4, <1>12
    <2> QED
      BY <2>3, <2>5 DEF Rising
  <1> QED
    BY <1>3, <1>5, <1>11, <1>12 DEF Rising
-----------------------------------------------------------------------------
(* The pool. *)

(* The list of a state has the elements of that state, in order of age. *)
LEMMA ListFacts ==
    ASSUME PoolTyped, PoolSound, NEW s \in State
    PROVE  /\ queue[s] \in Seq(Element)
           /\ \A i \in DOMAIN queue[s] : queue[s][i] \in Element /\ stateOf[queue[s][i]] = s
           /\ \A f \in Element : stateOf[f] = s => \E i \in DOMAIN queue[s] : queue[s][i] = f
           /\ Rising(queue[s], last)
  <1>1. queue[s] \in Seq(Element)
    BY DEF PoolTyped
  <1>2. \A i \in DOMAIN queue[s] : queue[s][i] \in Element
    BY <1>1, SeqFacts
  <1>3. \A f \in Element : stateOf[f] = s => \E i \in DOMAIN queue[s] : queue[s][i] = f
    BY DEF PoolSound, On
  <1>4. Rising(queue[s], last)
    BY DEF PoolSound, Sorted, Rising
  <1> QED
    BY <1>1, <1>2, <1>3, <1>4 DEF PoolSound, QueueMatchesId

(* Stamps of elements in one state differ. *)
LEMMA StampsDiffer ==
    ASSUME PoolTyped, PoolSound, NEW e \in Element, NEW f \in Element,
           stateOf[e] = stateOf[f], last[e] = last[f]
    PROVE  e = f
  <1>1. stateOf[e] \in State /\ last[e] \in Nat
    BY DEF PoolTyped
  <1>2. PICK s \in State : s = stateOf[e]
    BY <1>1
  <1>3. PICK i \in DOMAIN queue[s] : queue[s][i] = e
    BY <1>2, ListFacts
  <1>4. PICK j \in DOMAIN queue[s] : queue[s][j] = f
    BY <1>2, ListFacts
  <1>5. ~ (i < j) /\ ~ (j < i)
    BY <1>1, <1>3, <1>4, ListFacts DEF Rising
  <1>6. i \in Nat /\ j \in Nat
    <2>1. queue[s] \in Seq(Element)
      BY ListFacts
    <2> QED
      BY <2>1, SeqFacts
  <1> QED
    BY <1>3, <1>4, <1>5, <1>6

(* A move takes the element to its new list with the highest stamp of all. *)
LEMMA MoveKeepsPool ==
    ASSUME PoolTyped, PoolSound, NEW e \in Element, NEW new \in State, MoveElement(e, new)
    PROVE  /\ PoolTyped' /\ PoolSound'
           /\ \A f \in Element : /\ stateOf'[f] = IF f = e THEN new ELSE stateOf[f]
                                 /\ last'[f] = IF f = e THEN nextCount + 1 ELSE last[f]
           /\ nextCount' = nextCount + 1
  <1>1. PICK s \in State : s = stateOf[e]
    BY DEF PoolTyped
  <1>2. e \in On(queue[s]) /\ queue[s] \in Seq(Element) /\ Rising(queue[s], last)
    BY <1>1, ListFacts DEF PoolSound
  <1>3. last \in [Element -> Nat] /\ nextCount \in Nat /\ stateOf \in [Element -> State]
    BY DEF PoolTyped
  <1>4. PICK w \in Seq(Element) : /\ w = Without(queue[s], e) /\ On(w) = On(queue[s]) \ {e}
                                  /\ Rising(w, last)
    BY <1>2, <1>3, WithoutFacts
  <1>5. PICK r \in [State -> Seq(Element)] : r = [queue EXCEPT ![s] = w]
    BY DEF PoolTyped
  <1>6. \A t \in State : r[t] = IF t = s THEN w ELSE queue[t]
    BY <1>5 DEF PoolTyped
  <1>7. queue' = [r EXCEPT ![new] = Append(@, e)]
    BY <1>1, <1>4, <1>5 DEF MoveElement, Moved
  <1>8. \A f \in Element : /\ stateOf'[f] = IF f = e THEN new ELSE stateOf[f]
                           /\ last'[f] = IF f = e THEN nextCount + 1 ELSE last[f]
    BY <1>3 DEF MoveElement
  <1>9. stateOf' \in [Element -> State] /\ last' \in [Element -> Nat] /\ nextCount' = nextCount + 1
    BY <1>3 DEF MoveElement
  <1>10. \A t \in State : On(r[t]) = {f \in Element : f # e /\ stateOf[f] = t}
    <2> TAKE t \in State
    <2>1. On(queue[t]) = {f \in Element : stateOf[f] = t}
      BY ListFacts DEF On
    <2>2. CASE t = s
      BY <2>1, <2>2, <1>4, <1>6
    <2>3. CASE t # s
      BY <2>1, <2>3, <1>1, <1>6
    <2> QED
      BY <2>2, <2>3
  <1>11. \A t \in State : Rising(r[t], last)
    BY <1>4, <1>6, ListFacts
  <1>12. \A t \in State : Append(r[t], e) \in Seq(Element)
    BY AppendFacts
  <1>13. queue' \in [State -> Seq(Element)]
         /\ \A t \in State : queue'[t] = IF t = new THEN Append(r[t], e) ELSE r[t]
    BY <1>7, <1>12
  <1>14. PoolTyped'
    <2>1. nextCount' \in Nat
      BY <1>3, <1>9
    <2> QED
      BY <2>1, <1>9, <1>13 DEF PoolTyped
  <1>15. \A f \in Element : 1 <= last'[f] /\ last'[f] <= nextCount'
    <2> TAKE f \in Element
    <2>1. last[f] \in Nat /\ 1 <= last[f] /\ last[f] <= nextCount
      BY <1>3 DEF PoolSound
    <2>2. last'[f] = nextCount + 1 \/ last'[f] = last[f]
      BY <1>8
    <2>3. 1 <= nextCount + 1 /\ nextCount + 1 <= nextCount + 1 /\ last[f] <= nextCount + 1
      BY <2>1, <1>3
    <2> QED
      BY <2>1, <2>2, <2>3, <1>9
  <1>16. ASSUME NEW t \in State
         PROVE  /\ Rising(queue'[t], last')
                /\ On(queue'[t]) = {f \in Element : stateOf'[f] = t}
    <2>1. r[t] \in Seq(Element)
      OBVIOUS
    <2>2. /\ Len(r[t]) \in Nat /\ DOMAIN r[t] = 1 .. Len(r[t])
          /\ \A i \in DOMAIN r[t] : r[t][i] \in Element
      BY <2>1, SeqFacts
    <2>3. \A i \in DOMAIN r[t] : r[t][i] # e /\ stateOf[r[t][i]] = t
      BY <1>10 DEF On
    <2>4. \A i \in DOMAIN r[t] : last'[r[t][i]] = last[r[t][i]] /\ last[r[t][i]] < nextCount + 1
      BY <2>2, <2>3, <1>3, <1>8 DEF PoolSound
    <2>5. Rising(r[t], last')
      BY <2>4, <1>11 DEF Rising
    <2>6. CASE t # new
      <3>1. queue'[t] = r[t]
        BY <2>6, <1>13
      <3>2. {f \in Element : f # e /\ stateOf[f] = t} = {f \in Element : stateOf'[f] = t}
        BY <2>6, <1>8
      <3> QED
        BY <3>1, <3>2, <2>5, <1>10
    <2>7. CASE t = new
      <3> DEFINE a == Append(r[t], e)
      <3>1. queue'[t] = a
        BY <2>7, <1>13
      <3>2. /\ DOMAIN a = 1 .. Len(r[t]) + 1
            /\ \A i \in 1 .. Len(r[t]) : a[i] = r[t][i]
            /\ a[Len(r[t]) + 1] = e
        BY <2>1, AppendFacts
      <3> HIDE DEF a
      <3>3. ASSUME NEW i \in DOMAIN a, NEW j \in DOMAIN a, i < j PROVE last'[a[i]] < last'[a[j]]
        <4>1. i \in 1 .. Len(r[t]) /\ (j \in 1 .. Len(r[t]) \/ j = Len(r[t]) + 1)
          BY <3>2, <3>3, <2>2
        <4>2. CASE j \in 1 .. Len(r[t])
          BY <4>1, <4>2, <3>2, <3>3, <2>2, <2>5 DEF Rising
        <4>3. CASE j = Len(r[t]) + 1
          <5>1. last'[a[j]] = nextCount + 1
            BY <4>3, <3>2, <1>8
          <5>2. last'[a[i]] < nextCount + 1
            BY <4>1, <3>2, <2>2, <2>4
          <5> QED
            BY <5>1, <5>2
        <4> QED
          BY <4>1, <4>2, <4>3
      <3>4. On(a) = On(r[t]) \union {e}
        <4>1. DOMAIN a = DOMAIN r[t] \union {Len(r[t]) + 1}
          BY <3>2, <2>2
        <4> QED
          BY <4>1, <3>2, <2>2 DEF On
      <3>5. {f \in Element : f # e /\ stateOf[f] = t} \union {e} = {f \in Element : stateOf'[f] = t}
        BY <2>7, <1>8
      <3> QED
        BY <3>1, <3>3, <3>4, <3>5, <1>10 DEF Rising
    <2> QED
      BY <2>6, <2>7
  <1>17. Sorted'
    BY <1>16 DEF Sorted, Rising
  <1>18. QueueMatchesId'
    BY <1>16 DEF QueueMatchesId, On
  <1>19. \A f \in Element : f \in On(queue[stateOf[f]])'
    BY <1>9, <1>16
  <1>20. PoolSound'
    BY <1>15, <1>17, <1>18, <1>19 DEF PoolSound
  <1> QED
    BY <1>8, <1>9, <1>14, <1>20

(* A pool just constructed. *)
LEMMA NewPool == Construct => PoolTyped /\ PoolSound
  <1> SUFFICES ASSUME Construct PROVE PoolTyped /\ PoolSound
    OBVIOUS
  <1> DEFINE all == [i \in 1 .. Number |-> Number - i]
  <1>0. Number \in Nat \ {0} /\ States \in Nat \ {0} /\ 0 \in State
    BY PoolAssumption DEF State
  <1>1. /\ \A s \in State : queue[s] = IF s = 0 THEN all ELSE <<>>
        /\ \A e \in Element : stateOf[e] = 0 /\ last[e] = Number - e
        /\ nextCount = Number
    BY DEF Construct
  <1>2. \A i \in 1 .. Number : all[i] \in Element /\ all[i] = Number - i
    BY <1>0 DEF Element
  <1>3. all \in Seq(Element) /\ DOMAIN all = 1 .. Number
    BY <1>0, <1>2
  <1>4. \A e \in Element : e \in On(all)
    <2> TAKE e \in Element
    <2>1. Number - e \in 1 .. Number /\ Number - (Number - e) = e
      BY <1>0 DEF Element
    <2>2. all[Number - e] = e
      BY <2>1, <1>2
    <2> QED
      BY <2>1, <2>2, <1>3 DEF On
  <1>5. \A i \in 1 .. Number : last[all[i]] = i
    <2> TAKE i \in 1 .. Number
    <2>1. all[i] \in Element /\ all[i] = Number - i
      BY <1>2
    <2>2. last[all[i]] = Number - all[i]
      BY <2>1, <1>1
    <2>3. Number - (Number - i) = i
      BY <1>0
    <2> QED
      BY <2>1, <2>2, <2>3
  <1> HIDE DEF all
  <1>6. queue \in [State -> Seq(Element)]
    <2>1. queue = [s \in State |-> IF s = 0 THEN all ELSE <<>>]
      BY DEF Construct, all
    <2>2. <<>> \in Seq(Element)
      OBVIOUS
    <2> QED
      BY <2>1, <2>2, <1>3
  <1>7. PoolTyped
    <2>1. \A e \in Element : Number - e \in Nat
      BY <1>0 DEF Element
    <2> QED
      BY <2>1, <1>0, <1>6 DEF PoolTyped, Construct
  <1>8. \A e \in Element : 1 <= last[e] /\ last[e] <= nextCount
    BY <1>0, <1>1 DEF Element
  <1>9. Sorted /\ QueueMatchesId
    <2>1. \A s \in State : DOMAIN queue[s] = IF s = 0 THEN 1 .. Number ELSE {}
      BY <1>1, <1>3
    <2> QED
      BY <2>1, <1>0, <1>1, <1>2, <1>5 DEF Sorted, QueueMatchesId
  <1>10. \A e \in Element : e \in On(queue[stateOf[e]])
    BY <1>0, <1>1, <1>4
  <1> QED
    BY <1>7, <1>8, <1>9, <1>10 DEF PoolSound
-----------------------------------------------------------------------------
(* A step of the walker. *)

(* Of the elements in state s, n comes directly after b: b may be the sentinel before
   the first, and n the one after the last. *)
Directly(s, b, n) ==
    /\ b # Sentinel => b \in Element /\ stateOf[b] = s
    /\ n # Sentinel => n \in Element /\ stateOf[n] = s /\ (b # Sentinel => last[b] < last[n])
    /\ \A f \in Element : stateOf[f] = s /\ (n # Sentinel => last[f] < last[n])
                             => b # Sentinel /\ last[f] <= last[b]

LEMMA NotSentinel == Sentinel \notin Element
  BY PoolAssumption DEF Sentinel, NoIndex, Element

(* Neighbours on a list are neighbours in age; i is the place of the first of them. *)
LEMMA Neighbours ==
    ASSUME PoolTyped, PoolSound, NEW s \in State, NEW i \in 0 .. Len(queue[s])
    PROVE  Directly(s, IF i = 0 THEN Sentinel ELSE queue[s][i],
                       IF i = Len(queue[s]) THEN Sentinel ELSE queue[s][i + 1])
  <1> DEFINE q == queue[s]
             b == IF i = 0 THEN Sentinel ELSE q[i]
             n == IF i = Len(q) THEN Sentinel ELSE q[i + 1]
  <1>1. q \in Seq(Element) /\ Rising(q, last) /\ last \in [Element -> Nat]
    BY ListFacts DEF PoolTyped
  <1>2. Len(q) \in Nat /\ DOMAIN q = 1 .. Len(q)
    BY <1>1, SeqFacts
  <1>3. \A j \in 1 .. Len(q) : q[j] \in Element /\ stateOf[q[j]] = s /\ q[j] # Sentinel
    BY <1>2, ListFacts, NotSentinel
  <1>4. \A f \in Element : stateOf[f] = s => \E j \in 1 .. Len(q) : q[j] = f
    BY <1>2, ListFacts
  <1>5. \A j, k \in 1 .. Len(q) : j < k => last[q[j]] < last[q[k]]
    BY <1>1, <1>2 DEF Rising
  <1>6. \A j \in 1 .. Len(q) : last[q[j]] \in Nat
    BY <1>1, <1>3
  <1> HIDE DEF q
  <1>7. b # Sentinel => i \in 1 .. Len(q) /\ b = q[i]
    BY <1>2 DEF q
  <1>8. n # Sentinel => i + 1 \in 1 .. Len(q) /\ n = q[i + 1]
    BY <1>2 DEF q
  <1>9. i = 0 \/ (i \in 1 .. Len(q) /\ b = q[i] /\ b # Sentinel)
    BY <1>2, <1>3 DEF q
  <1>10. i = Len(q) \/ (i + 1 \in 1 .. Len(q) /\ n = q[i + 1] /\ n # Sentinel)
    BY <1>2, <1>3 DEF q
  <1>11. i \in Nat /\ i <= Len(q)
    BY <1>2 DEF q
  <1> HIDE DEF b, n
  <1>12. b # Sentinel => b \in Element /\ stateOf[b] = s
    BY <1>3, <1>7
  <1>13. n # Sentinel => n \in Element /\ stateOf[n] = s /\ (b # Sentinel => last[b] < last[n])
    BY <1>3, <1>5, <1>7, <1>8, <1>11
  <1>14. ASSUME NEW f \in Element, stateOf[f] = s, n # Sentinel => last[f] < last[n]
         PROVE  b # Sentinel /\ last[f] <= last[b]
    <2>1. PICK j \in 1 .. Len(q) : q[j] = f
      BY <1>4, <1>14
    <2>2. j <= i
      <3>1. CASE i = Len(q)
        BY <3>1, <1>2
      <3>2. CASE i + 1 \in 1 .. Len(q) /\ n = q[i + 1] /\ n # Sentinel
        <4>1. last[q[j]] < last[q[i + 1]]
          BY <3>2, <2>1, <1>14
        <4>2. ~ (i + 1 < j) /\ j # i + 1
          BY <4>1, <3>2, <1>5, <1>6
        <4> QED
          BY <4>2, <1>11, <1>2
      <3> QED
        BY <3>1, <3>2, <1>10
    <2>3. i \in 1 .. Len(q) /\ b = q[i] /\ b # Sentinel
      BY <2>2, <1>2, <1>9
    <2>4. j = i \/ j < i
      BY <2>2, <1>2, <1>11
    <2>5. last[q[j]] <= last[q[i]]
      BY <2>3, <2>4, <1>5, <1>6
    <2> QED
      BY <2>1, <2>3, <2>5
  <1>15. Directly(s, b, n)
    BY <1>12, <1>13, <1>14 DEF Directly
  <1> QED
    BY <1>15 DEF b, n, q

LEMMA NextFrom ==
    ASSUME PoolTyped, PoolSound, NEW s \in State, NEW n,
           n = Sentinel \/ (n \in Element /\ stateOf[n] = s)
    PROVE  Directly(s, n, NextOf(queue[s], n))
  <1> DEFINE i == IF n = Sentinel THEN 0 ELSE CHOOSE k \in DOMAIN queue[s] : queue[s][k] = n
  <1>1. Len(queue[s]) \in Nat /\ DOMAIN queue[s] = 1 .. Len(queue[s])
    BY ListFacts, SeqFacts
  <1>2. n # Sentinel => \E k \in DOMAIN queue[s] : queue[s][k] = n
    BY ListFacts
  <1>3. i \in 0 .. Len(queue[s]) /\ n = IF i = 0 THEN Sentinel ELSE queue[s][i]
    BY <1>1, <1>2
  <1>4. NextOf(queue[s], n) = IF i = Len(queue[s]) THEN Sentinel ELSE queue[s][i + 1]
    BY DEF NextOf
  <1> HIDE DEF i
  <1> QED
    BY <1>3, <1>4, Neighbours

(* A nonempty set of places has a first one. *)
LEMMA FirstPlace ==
    ASSUME NEW places \in SUBSET Nat, places # {}
    PROVE  \E k \in places : \A m \in places : k <= m
  <1> DEFINE R == OpToRel(<, Nat)
  <1>1. IsWellFoundedOn(R, Nat)
    BY NatLessThanWellFounded
  <1>2. \A x, y \in Nat : y < x => <<y, x>> \in R
    BY DEF OpToRel
  <1> HIDE DEF R
  <1>3. PICK k \in places : \A m \in places : ~ (<<m, k>> \in R)
    BY <1>1, WFMin
  <1>4. ASSUME NEW m \in places PROVE k <= m
    <2>1. ~ (m < k)
      BY <1>2, <1>3
    <2> QED
      BY <2>1
  <1> QED
    BY <1>4

(* Walking again from the head stops between what is older than the last stamp and
   what is not. *)
LEMMA RewalkFinds ==
    ASSUME PoolTyped, PoolSound, wstate \in State, wlast \in Nat
    PROVE  /\ Directly(wstate, Rewalk.back, Rewalk.node)
           /\ Rewalk.node # Sentinel => last[Rewalk.node] >= wlast
           /\ Rewalk.back # Sentinel => last[Rewalk.back] < wlast
  <1> DEFINE q    == queue[wstate]
             stop == {i \in DOMAIN q : last[q[i]] >= wlast}
             i    == IF stop = {} THEN Len(q) + 1 ELSE CHOOSE k \in stop : \A m \in stop : k <= m
  <1>1. Len(q) \in Nat /\ DOMAIN q = 1 .. Len(q) /\ \A j \in 1 .. Len(q) : last[q[j]] \in Nat
    <2>1. q \in Seq(Element) /\ last \in [Element -> Nat]
      BY DEF PoolTyped
    <2>2. Len(q) \in Nat /\ DOMAIN q = 1 .. Len(q) /\ \A j \in DOMAIN q : q[j] \in Element
      BY <2>1, SeqFacts
    <2> QED
      BY <2>1, <2>2
  <1>2. /\ Rewalk.back = IF i = 1 THEN Sentinel ELSE q[i - 1]
        /\ Rewalk.node = IF stop = {} THEN Sentinel ELSE q[i]
    BY DEF Rewalk
  <1> HIDE DEF q
  <1>3. stop # {} => i \in stop /\ \A m \in stop : i <= m
    <2>1. stop \in SUBSET Nat
      BY <1>1
    <2>2. stop # {} => \E k \in stop : \A m \in stop : k <= m
      BY <2>1, FirstPlace
    <2> HIDE DEF stop
    <2> QED
      BY <2>2
  <1>4. stop = {} => i = Len(q) + 1
    OBVIOUS
  <1> HIDE DEF i
  <1>5. i \in 1 .. Len(q) + 1
    BY <1>1, <1>3, <1>4
  <1>6. stop = {} <=> i = Len(q) + 1
    BY <1>1, <1>3, <1>4
  <1>7. i # 1 => i - 1 \in 1 .. Len(q) /\ i - 1 \notin stop
    BY <1>1, <1>3, <1>4, <1>5
  <1>8. i # 1 => last[q[i - 1]] < wlast
    BY <1>1, <1>7
  <1>9. stop # {} => last[q[i]] >= wlast
    BY <1>3
  <1> HIDE DEF stop
  <1>10. PICK k \in 0 .. Len(q) : k = i - 1
    BY <1>1, <1>5
  <1>11. Directly(wstate, IF k = 0 THEN Sentinel ELSE q[k], IF k = Len(q) THEN Sentinel ELSE q[k + 1])
    BY <1>10, Neighbours DEF q
  <1>12. (k = 0 <=> i = 1) /\ (k = Len(q) <=> i = Len(q) + 1) /\ k + 1 = i
    BY <1>1, <1>5, <1>10
  <1>13. Rewalk.back = IF k = 0 THEN Sentinel ELSE q[k]
    BY <1>2, <1>10, <1>12
  <1>14. Rewalk.node = IF k = Len(q) THEN Sentinel ELSE q[k + 1]
    BY <1>2, <1>6, <1>12
  <1>15. Directly(wstate, Rewalk.back, Rewalk.node)
    BY <1>11, <1>13, <1>14
  <1> QED
    BY <1>2, <1>8, <1>9, <1>15

(* Wherever the walker's node and the one before it have gone, the step leads to the
   first element that is younger than all visited before. *)
LEMMA DestinationAhead ==
    ASSUME PoolTyped, PoolSound, WalkSound
    PROVE  /\ Directly(wstate, Destination.back, Destination.node)
           /\ Destination.node # Sentinel => last[Destination.node] > wlast
           /\ ~ returned /\ Destination.back # Sentinel => last[Destination.back] <= wlast
  <1>1. wstate \in State /\ wlast \in Nat
    BY DEF WalkSound, WalkTyped
  <1>2. \A e \in Element : last[e] \in Nat /\ last[e] >= 1
    BY DEF PoolTyped, PoolSound
  <1>3. node \in Element \union {Sentinel} /\ back \in Element \union {Sentinel}
    BY DEF WalkSound, WalkTyped
  <1>4. \A n : StepFrom(n).back = n /\ StepFrom(n).node = NextOf(queue[wstate], n)
    BY DEF StepFrom
  <1>5. CASE node = Sentinel
    <2>1. Destination.back = Sentinel /\ Destination.node = NextOf(queue[wstate], Sentinel)
      BY <1>4, <1>5 DEF Destination
    <2>2. Directly(wstate, Destination.back, Destination.node)
      BY <2>1, <1>1, NextFrom
    <2>3. wlast = 0
      BY <1>5 DEF WalkSound, WalkPlace
    <2> QED
      BY <2>1, <2>2, <2>3, <1>2 DEF Directly
  <1>6. CASE node # Sentinel /\ stateOf[node] = wstate
    <2>1. Destination.back = node /\ Destination.node = NextOf(queue[wstate], node)
      BY <1>4, <1>6 DEF Destination
    <2>2. Directly(wstate, Destination.back, Destination.node)
      BY <2>1, <1>1, <1>3, <1>6, NextFrom
    <2>3. wlast <= last[node] /\ (~ returned => last[node] = wlast)
      BY <1>6 DEF WalkSound, WalkPlace, WalkMemory
    <2>4. Destination.node # Sentinel => Destination.node \in Element /\ last[node] < last[Destination.node]
      BY <2>1, <2>2, <1>6 DEF Directly
    <2>5. node \in Element
      BY <1>3, <1>6
    <2> QED
      BY <2>1, <2>2, <2>3, <2>4, <2>5, <1>1, <1>2
  <1>7. CASE node # Sentinel /\ stateOf[node] # wstate /\ back # Sentinel /\ stateOf[back] = wstate
    <2>1. Destination.back = back /\ Destination.node = NextOf(queue[wstate], back)
      BY <1>4, <1>7 DEF Destination
    <2>2. Directly(wstate, Destination.back, Destination.node)
      BY <2>1, <1>1, <1>3, <1>7, NextFrom
    <2>3. ~ returned => last[back] <= wlast
      BY <1>7 DEF WalkSound, WalkMemory
    <2>4. ASSUME Destination.node # Sentinel PROVE last[Destination.node] > wlast
      <3>1. PICK d \in Element : d = Destination.node /\ stateOf[d] = wstate /\ last[d] > last[back]
        BY <2>1, <2>2, <2>4, <1>2, <1>3, <1>7 DEF Directly
      <3>2. last[d] >= wlast
        BY <3>1, <1>7 DEF WalkSound, WalkPlace
      <3>3. last[d] # wlast
        BY <3>1, <1>7 DEF WalkSound, WalkPlace
      <3> QED
        BY <3>1, <3>2, <3>3, <1>1, <1>2
    <2> QED
      BY <2>1, <2>2, <2>3, <2>4
  <1>8. CASE node # Sentinel /\ stateOf[node] # wstate /\ ~ (back # Sentinel /\ stateOf[back] = wstate)
    <2>1. Destination = Rewalk
      BY <1>8 DEF Destination
    <2>2. /\ Directly(wstate, Rewalk.back, Rewalk.node)
          /\ Rewalk.node # Sentinel => last[Rewalk.node] >= wlast
          /\ Rewalk.back # Sentinel => last[Rewalk.back] < wlast
      BY <1>1, RewalkFinds
    <2>3. ASSUME Rewalk.node # Sentinel PROVE last[Rewalk.node] > wlast
      <3>1. PICK d \in Element : d = Rewalk.node /\ stateOf[d] = wstate /\ last[d] >= wlast
        BY <2>2, <2>3 DEF Directly
      <3>2. last[d] # wlast
        BY <3>1, <1>8 DEF WalkSound, WalkPlace
      <3> QED
        BY <3>1, <3>2, <1>1, <1>2
    <2>4. Rewalk.back # Sentinel => Rewalk.back \in Element
      BY <2>2 DEF Directly
    <2>5. Rewalk.back # Sentinel => last[Rewalk.back] <= wlast
      BY <2>2, <2>4, <1>1, <1>2
    <2> QED
      BY <2>1, <2>2, <2>3, <2>5
  <1> QED
    BY <1>5, <1>6, <1>7, <1>8

LEMMA StepKeepsWalk ==
    ASSUME PoolTyped, PoolSound, WalkSound, WalkerStep
    PROVE  /\ walking' => WalkSound'
           /\ result' # Sentinel => /\ stateOf[result'] = wstate /\ last[result'] > wlast
                                    /\ result' \in Element /\ visited' = visited \union {result'}
           /\ result' = Sentinel /\ ~ returned => \A f \in Element : stateOf[f] = wstate => f \in visited
  <1> DEFINE b == Destination.back
             n == Destination.node
  <1>1. /\ Directly(wstate, b, n)
        /\ n # Sentinel => last[n] > wlast
        /\ ~ returned /\ b # Sentinel => last[b] <= wlast
    BY DestinationAhead
  <1>2. /\ node' = n /\ back' = b /\ result' = n
        /\ wlast' = IF n = Sentinel THEN wlast ELSE last[n]
        /\ walking' = (n # Sentinel)
        /\ visited' = visited \union ({n} \ {Sentinel})
        /\ UNCHANGED <<queue, stateOf, last, nextCount, wstate, stayed, returned>>
    BY DEF WalkerStep, poolVars
  <1> HIDE DEF b, n
  <1>3. \A e \in Element : last[e] \in Nat /\ last[e] <= nextCount
    BY DEF PoolTyped, PoolSound
  <1>4. wstate \in State /\ wlast \in Nat /\ visited \subseteq Element
    BY DEF WalkSound, WalkTyped
  <1>5. ~ returned => \A f \in Element : stateOf[f] = wstate /\ last[f] <= wlast => f \in visited
    BY DEF WalkSound, WalkMemory
  <1>6. ~ returned /\ b # Sentinel =>
            \A f \in Element : stateOf[f] = wstate /\ last[f] <= last[b] => f \in visited
    <2> SUFFICES ASSUME ~ returned, b # Sentinel,
                        NEW f \in Element, stateOf[f] = wstate, last[f] <= last[b]
                 PROVE  f \in visited
      OBVIOUS
    <2>1. b \in Element /\ last[b] <= wlast
      BY <1>1 DEF Directly
    <2>2. last[f] <= wlast
      BY <2>1, <1>3, <1>4
    <2> QED
      BY <2>2, <1>5
  <1>7. ASSUME n = Sentinel, ~ returned, NEW f \in Element, stateOf[f] = wstate PROVE f \in visited
    BY <1>1, <1>6, <1>7 DEF Directly
  <1>8. ASSUME n # Sentinel PROVE WalkSound'
    <2>1. n \in Element /\ stateOf[n] = wstate /\ wlast' = last[n]
      BY <1>1, <1>2, <1>8 DEF Directly
    <2>2. b \in Element \union {Sentinel} /\ (b # Sentinel => stateOf[b] = wstate /\ last[b] < last[n])
      BY <1>1, <1>8 DEF Directly
    <2>3. WalkTyped'
      BY <2>1, <2>2, <1>2, <1>3, <1>4 DEF WalkTyped
    <2>4. \A f \in Element : stateOf[f] = wstate /\ last[f] = last[n] => f = n
      BY <2>1, StampsDiffer
    <2>5. \A f \in Element : stateOf[f] = wstate /\ last[f] < last[n] => b # Sentinel /\ last[f] <= last[b]
      BY <1>1, <1>8 DEF Directly
    <2>6. WalkPlace'
      <3>1. ASSUME b # Sentinel, NEW f \in Element, stateOf[f] = wstate, last[f] > last[b]
            PROVE  last[f] >= last[n]
        <4>1. last[f] \in Nat /\ last[b] \in Nat /\ last[n] \in Nat
          BY <3>1, <2>1, <2>2, <1>3
        <4>2. ~ (last[f] < last[n])
          BY <4>1, <3>1, <2>5
        <4> QED
          BY <4>1, <4>2
      <3>2. last[n] <= last[n]
        BY <2>1, <1>3
      <3> QED
        BY <3>1, <3>2, <2>1, <2>4, <1>2, <1>8 DEF WalkPlace
    <2>7. ASSUME ~ returned PROVE WalkMemory'
      <3>1. ASSUME NEW f \in Element, stateOf[f] = wstate, last[f] <= last[n]
            PROVE  f \in visited'
        <4>1. last[f] < last[n] \/ last[f] = last[n]
          BY <3>1, <2>1, <1>3
        <4>2. CASE last[f] = last[n]
          BY <4>2, <3>1, <2>4, <1>2, <1>8
        <4>3. CASE last[f] < last[n]
          BY <4>3, <3>1, <2>5, <2>7, <1>2, <1>6
        <4> QED
          BY <4>1, <4>2, <4>3
      <3>2. n \in visited'
        BY <1>2, <1>8
      <3>3. b # Sentinel => last[b] <= last[n]
        BY <2>1, <2>2, <1>3
      <3>4. b # Sentinel => b \in visited'
        BY <3>1, <3>3, <2>2
      <3> QED
        BY <3>1, <3>2, <3>3, <3>4, <2>1, <1>2 DEF WalkMemory
    <2> QED
      BY <2>3, <2>6, <2>7, <1>2 DEF WalkSound
  <1>9. n # Sentinel => n \in Element /\ stateOf[n] = wstate /\ last[n] > wlast
    BY <1>1 DEF Directly
  <1> QED
    BY <1>2, <1>7, <1>8, <1>9

(* A move by another thread: the new stamp is ahead of the walker. *)
LEMMA MoveKeepsWalk ==
    ASSUME PoolTyped, PoolSound, WalkSound, NEW e \in Element, NEW new \in State, MoveElement(e, new)
    PROVE  WalkSound'
  <1>1. /\ \A f \in Element : /\ stateOf'[f] = IF f = e THEN new ELSE stateOf[f]
                              /\ last'[f] = IF f = e THEN nextCount + 1 ELSE last[f]
        /\ nextCount' = nextCount + 1
    BY MoveKeepsPool
  <1>2. /\ UNCHANGED <<walking, wstate, node, back, wlast, visited>>
        /\ returned' = (returned \/ (e \in visited /\ new = wstate))
    BY DEF MoveElement
  <1>3. nextCount \in Nat /\ \A f \in Element : last[f] \in Nat /\ last[f] <= nextCount
    BY DEF PoolTyped, PoolSound
  <1>4. /\ wlast \in Nat /\ wlast <= nextCount
        /\ node \in Element \union {Sentinel} /\ back \in Element \union {Sentinel}
    BY DEF WalkSound, WalkTyped
  <1>5. WalkTyped'
    BY <1>1, <1>2, <1>3, <1>4 DEF WalkSound, WalkTyped
  <1>6. \A f \in Element : last'[f] \in Nat /\ last[f] <= last'[f]
    BY <1>1, <1>3
  <1>7. wlast < last'[e]
    BY <1>1, <1>3, <1>4
  <1>8. WalkPlace'
    <2>1. node # Sentinel => wlast <= last'[node]
      BY <1>3, <1>4, <1>6 DEF WalkSound, WalkPlace
    <2>2. ASSUME NEW f \in Element, stateOf'[f] = wstate, last'[f] = wlast PROVE f = node
      <3>1. f # e
        BY <2>2, <1>4, <1>6, <1>7
      <3> QED
        BY <3>1, <2>2, <1>1 DEF WalkSound, WalkPlace
    <2>3. ASSUME back # Sentinel, stateOf'[back] = wstate, NEW f \in Element, stateOf'[f] = wstate,
                 last'[f] > last'[back]
          PROVE  last'[f] >= wlast
      <3>1. CASE f = e
        BY <3>1, <1>4, <1>6, <1>7
      <3>2. CASE f # e /\ back = e
        <4>1. last'[f] > last'[e]
          BY <3>2, <2>3
        <4> QED
          BY <4>1, <1>4, <1>6, <1>7
      <3>3. CASE f # e /\ back # e
        BY <3>3, <2>3, <1>1, <1>4 DEF WalkSound, WalkPlace
      <3> QED
        BY <3>1, <3>2, <3>3
    <2> QED
      BY <2>1, <2>2, <2>3, <1>2 DEF WalkSound, WalkPlace
  <1>9. ASSUME ~ returned' PROVE WalkMemory'
    <2>1. ~ returned /\ (e \in visited => new # wstate) /\ WalkMemory
      BY <1>2, <1>9 DEF WalkSound
    <2>2. ASSUME NEW f \in Element, stateOf'[f] = wstate, last'[f] <= wlast PROVE f \in visited
      <3>1. f # e
        BY <2>2, <1>4, <1>6, <1>7
      <3> QED
        BY <3>1, <2>1, <2>2, <1>1 DEF WalkMemory
    <2>3. node # Sentinel => node \in visited /\ (stateOf'[node] = wstate => last'[node] = wlast)
      BY <2>1, <1>1, <1>4 DEF WalkMemory
    <2>4. back # Sentinel => back \in visited /\ (stateOf'[back] = wstate => last'[back] <= wlast)
      BY <2>1, <1>1, <1>4 DEF WalkMemory
    <2> QED
      BY <2>2, <2>3, <2>4, <1>2 DEF WalkMemory
  <1> QED
    BY <1>5, <1>8, <1>9 DEF WalkSound

(* A walk that begins. *)
LEMMA ConstructKeepsWalk ==
    ASSUME PoolTyped, PoolSound, NEW s \in State, WalkerConstruct(s)
    PROVE  WalkSound' /\ UNCHANGED poolVars
  <1>1. /\ wstate' = s /\ node' = Sentinel /\ back' = Sentinel /\ wlast' = 0 /\ visited' = {}
        /\ UNCHANGED poolVars
    BY DEF WalkerConstruct
  <1>2. UNCHANGED <<stateOf, last, nextCount>>
    BY <1>1 DEF poolVars
  <1>3. nextCount \in Nat /\ \A f \in Element : last[f] \in Nat /\ last[f] >= 1
    BY DEF PoolTyped, PoolSound
  <1>4. WalkTyped'
    BY <1>1, <1>2, <1>3 DEF WalkTyped
  <1>5. WalkPlace' /\ WalkMemory'
    BY <1>1, <1>2, <1>3 DEF WalkPlace, WalkMemory
  <1> QED
    BY <1>1, <1>4, <1>5 DEF WalkSound
-----------------------------------------------------------------------------
(* Walks. *)

LEMMA InitWalk == Init => WalkInv
  <1> SUFFICES ASSUME Init PROVE WalkInv
    OBVIOUS
  <1>1. PoolTyped /\ PoolSound
    BY NewPool DEF Init
  <1>2. 0 \in State
    BY PoolAssumption DEF State
  <1> QED
    BY <1>1, <1>2 DEF Init, WalkInv

LEMMA StillPool ==
    ASSUME PoolTyped, PoolSound, UNCHANGED poolVars
    PROVE  PoolTyped' /\ PoolSound'
  BY DEF PoolTyped, PoolSound, Sorted, QueueMatchesId, poolVars

LEMMA StillWalk ==
    ASSUME WalkSound, UNCHANGED <<poolVars, walkVars>>
    PROVE  WalkSound'
  BY DEF WalkSound, WalkTyped, WalkPlace, WalkMemory, poolVars, walkVars

LEMMA NextWalk == WalkInv /\ [Next]_vars => WalkInv'
  <1> SUFFICES ASSUME WalkInv, [Next]_vars PROVE WalkInv'
    OBVIOUS
  <1>1. PoolTyped /\ PoolSound /\ wstate \in State /\ (walking => WalkSound)
    BY DEF WalkInv
  <1>2. ASSUME NEW s \in State, WalkerConstruct(s) PROVE WalkInv'
    <2>1. WalkSound' /\ UNCHANGED poolVars
      BY <1>1, <1>2, ConstructKeepsWalk
    <2>2. PoolTyped' /\ PoolSound'
      BY <2>1, <1>1, StillPool
    <2>3. stayed' = On(queue[s]) /\ wstate' = s
      BY <1>2 DEF WalkerConstruct
    <2>4. \A f \in On(queue[s]) : f \in Element /\ stateOf[f] = s
      BY <1>1, ListFacts DEF On
    <2> QED
      BY <2>1, <2>2, <2>3, <2>4 DEF WalkInv, poolVars
  <1>3. ASSUME WalkerStep PROVE WalkInv'
    <2>1. walking /\ UNCHANGED <<poolVars, wstate, stayed>>
      BY <1>3 DEF WalkerStep
    <2>2. PoolTyped' /\ PoolSound'
      BY <2>1, <1>1, StillPool
    <2>3. walking' => WalkSound'
      BY <2>1, <1>1, <1>3, StepKeepsWalk
    <2> QED
      BY <2>1, <2>2, <2>3, <1>1 DEF WalkInv, poolVars
  <1>4. ASSUME NEW e \in Element, NEW new \in State, MoveElement(e, new) PROVE WalkInv'
    <2>1. /\ PoolTyped' /\ PoolSound'
          /\ \A f \in Element : stateOf'[f] = IF f = e THEN new ELSE stateOf[f]
      BY <1>1, <1>4, MoveKeepsPool
    <2>2. walking => WalkSound'
      BY <1>1, <1>4, MoveKeepsWalk
    <2>3. UNCHANGED <<walking, wstate>> /\ stayed' = IF new = wstate THEN stayed ELSE stayed \ {e}
      BY <1>4 DEF MoveElement
    <2>4. \A f \in stayed' : f \in Element /\ stateOf'[f] = wstate'
      BY <2>1, <2>3 DEF WalkInv
    <2> QED
      BY <2>1, <2>2, <2>3, <2>4, <1>1 DEF WalkInv
  <1>5. ASSUME UNCHANGED vars PROVE WalkInv'
    <2>1. UNCHANGED poolVars /\ UNCHANGED <<poolVars, walkVars>>
      BY <1>5 DEF vars
    <2>2. PoolTyped' /\ PoolSound' /\ (walking => WalkSound')
      BY <2>1, <1>1, StillPool, StillWalk
    <2> QED
      BY <2>1, <2>2, <1>1 DEF WalkInv, poolVars, walkVars
  <1> QED
    BY <1>2, <1>3, <1>4, <1>5 DEF Next

LEMMA WalkAlways == Spec => []WalkInv
  BY InitWalk, NextWalk, PTL DEF Spec

(* What sxe_pool_walker_step returns is in the walked state and younger than what it
   returned before, for any number of elements and states and any moves by other
   threads between its steps. *)
THEOREM WalkersGoForward == Spec => WalksForward
  <1>1. WalkInv /\ [Next]_vars =>
           [WalkerStep /\ result' # NoIndex => stateOf[result'] = wstate /\ last[result'] > wlast]_vars
    <2> SUFFICES ASSUME WalkInv, WalkerStep, result' # NoIndex
                 PROVE  stateOf[result'] = wstate /\ last[result'] > wlast
      OBVIOUS
    <2>1. PoolTyped /\ PoolSound /\ WalkSound
      BY DEF WalkInv, WalkerStep
    <2> QED
      BY <2>1, StepKeepsWalk DEF Sentinel
  <1> QED
    BY <1>1, WalkAlways, PTL DEF Spec, WalksForward

(* A walk that ends has visited what was in the state all the time, unless something
   that was visited came back to the state. *)
THEOREM WalkersSkipNothing == Spec => NothingSkipped
  <1>1. WalkInv /\ [Next]_vars =>
           [WalkerStep /\ result' = NoIndex /\ ~ returned => stayed \subseteq visited']_vars
    <2> SUFFICES ASSUME WalkInv, WalkerStep, result' = NoIndex, ~ returned
                 PROVE  stayed \subseteq visited'
      OBVIOUS
    <2>1. PoolTyped /\ PoolSound /\ WalkSound
      BY DEF WalkInv, WalkerStep
    <2>2. \A f \in Element : stateOf[f] = wstate => f \in visited
      BY <2>1, StepKeepsWalk DEF Sentinel
    <2>3. visited \subseteq visited'
      BY DEF WalkerStep
    <2> QED
      BY <2>2, <2>3 DEF WalkInv
  <1> QED
    BY <1>1, WalkAlways, PTL DEF Spec, NothingSkipped
-----------------------------------------------------------------------------
(* The hash table. *)

LEMMA Signs ==
    /\ Element \subseteq Nat /\ State \subseteq Nat
    /\ NoIndex \notin Element /\ LockNotTaken \notin Element /\ LockNotTaken # NoIndex
  BY PoolAssumption DEF Element, State, NoIndex, LockNotTaken

LEMMA BucketTyped ==
    ASSUME HashAssumption, NEW k \in Key
    PROVE  Bucket(k) \in State /\ Bucket(k) >= Reserved /\ Unused \in State /\ New \in State
  <1>1. HashOf[k] \in Nat /\ Number \in Nat \ {0} /\ States = Number + 2
    BY PoolAssumption DEF HashAssumption, Reserved
  <1>2. HashOf[k] % Number \in 0 .. Number - 1
    BY <1>1
  <1> QED
    BY <1>1, <1>2 DEF Bucket, State, Reserved, Unused, New

LEMMA InitHash == HashInit => HashInv
  <1> SUFFICES ASSUME HashInit PROVE HashInv
    OBVIOUS
  <1>1. HashAssumption /\ PoolTyped /\ PoolSound
    BY NewPool DEF HashInit, Init
  <1>2. HashTyped
    <2>1. (CHOOSE k \in Key : TRUE) \in Key
      BY <1>1 DEF HashAssumption
    <2> QED
      BY <2>1 DEF HashInit, HashTyped
  <1>3. \A e \in Element : stateOf[e] = 0
    BY DEF HashInit, Init, Construct
  <1>4. HashSound
    BY <1>3, Signs DEF HashInit, HashSound, Reserved
  <1> QED
    BY <1>1, <1>2, <1>4 DEF HashInv, HashInit, LookSound

(* Only pool and walker matter to a lookup that is not itself at work. *)
LEMMA MoveKeepsLook ==
    ASSUME HashInv, NEW e \in Element, NEW new \in State, Move(e, new), UNCHANGED <<key, lookVars>>
    PROVE  /\ PoolTyped' /\ PoolSound' /\ LookSound'
           /\ \A f \in Element : stateOf'[f] = IF f = e THEN new ELSE stateOf[f]
  <1>1. PoolTyped /\ PoolSound /\ LookSound /\ MoveElement(e, new) /\ present' = present \ {e}
    BY DEF HashInv, Move
  <1>2. /\ PoolTyped' /\ PoolSound'
        /\ \A f \in Element : stateOf'[f] = IF f = e THEN new ELSE stateOf[f]
    BY <1>1, MoveKeepsPool
  <1>3. UNCHANGED <<walking, wstate, visited, key, looking, cand>>
    BY <1>1 DEF MoveElement, lookVars
  <1>4. looking # NoIndex => WalkSound'
    BY <1>1, MoveKeepsWalk DEF LookSound
  <1>5. LookSound'
    BY <1>1, <1>2, <1>3, <1>4 DEF LookSound
  <1> QED
    BY <1>2, <1>5

LEMMA StillLook ==
    ASSUME HashInv, UNCHANGED <<vars, lookVars, present>>,
           \A f \in Element : stateOf[f] >= Reserved => key'[f] = key[f]
    PROVE  PoolTyped' /\ PoolSound' /\ LookSound'
  <1>1. PoolTyped /\ PoolSound /\ LookSound /\ HashAssumption
    BY DEF HashInv
  <1>2. UNCHANGED poolVars /\ UNCHANGED <<poolVars, walkVars>>
    BY DEF vars
  <1>3. PoolTyped' /\ PoolSound'
    BY <1>1, <1>2, StillPool
  <1>4. looking # NoIndex => WalkSound'
    BY <1>1, <1>2, StillWalk DEF LookSound
  <1>5. UNCHANGED <<stateOf, walking, wstate, visited, looking, cand, present>>
    BY <1>2 DEF poolVars, walkVars, lookVars
  <1>6. looking # NoIndex => wstate >= Reserved
    BY <1>1, BucketTyped DEF LookSound
  <1>7. LookSound'
    BY <1>1, <1>4, <1>5, <1>6 DEF LookSound
  <1> QED
    BY <1>3, <1>7

LEMMA TakeKeeps == \A w \in Writer : HashInv /\ sxe_hash_take(w) => HashInv'
  <1> SUFFICES ASSUME NEW w \in Writer, HashInv, sxe_hash_take(w) PROVE HashInv'
    OBVIOUS
  <1>1. PoolTyped /\ PoolSound /\ HashAssumption /\ HashTyped /\ HashSound /\ HashAssumption'
    BY DEF HashInv, HashAssumption
  <1>2. UNCHANGED <<key, giving, lookVars>> /\ held[w] \notin Element
    BY DEF sxe_hash_take
  <1>3. CASE /\ PeekHead(Unused) # NoIndex /\ Move(PeekHead(Unused), New)
             /\ held' = [held EXCEPT ![w] = PeekHead(Unused)]
    <2>1. Unused \in State /\ New \in State
      BY <1>1, BucketTyped DEF HashAssumption
    <2>2. PICK e \in Element : e = PeekHead(Unused) /\ stateOf[e] = Unused
      <3>1. queue[Unused] \in Seq(Element) /\ queue[Unused] # <<>> /\ PeekHead(Unused) = queue[Unused][1]
        BY <2>1, <1>3, <1>1, ListFacts DEF PeekHead
      <3>2. 1 \in DOMAIN queue[Unused]
        BY <3>1
      <3> QED
        BY <3>1, <3>2, <2>1, <1>1, ListFacts
    <2>3. /\ PoolTyped' /\ PoolSound' /\ LookSound'
          /\ \A f \in Element : stateOf'[f] = IF f = e THEN New ELSE stateOf[f]
      BY <2>1, <2>2, <1>2, <1>3, MoveKeepsLook
    <2>4. \A v \in Writer : held'[v] = IF v = w THEN e ELSE held[v]
      BY <2>2, <1>1, <1>3 DEF HashTyped
    <2>5. HashTyped'
      BY <2>2, <1>1, <1>2, <1>3 DEF HashTyped
    <2>6. \A v \in Writer : held[v] # e
      BY <2>2, <1>1 DEF HashSound, Unused, New
    <2>7. HashSound'
      BY <2>3, <2>4, <2>6, <1>1, <1>2 DEF HashSound, Bucket, New, Reserved
    <2> QED
      BY <2>3, <2>5, <2>7, <1>1 DEF HashInv
  <1>4. CASE held' = [held EXCEPT ![w] = LockNotTaken] /\ UNCHANGED <<vars, present>>
    <2>1. PoolTyped' /\ PoolSound' /\ LookSound'
      BY <1>2, <1>4, StillLook
    <2>2. \A v \in Writer : held'[v] = IF v = w THEN LockNotTaken ELSE held[v]
      BY <1>1, <1>4 DEF HashTyped
    <2>3. UNCHANGED stateOf
      BY <1>4 DEF vars, poolVars
    <2>4. HashTyped'
      BY <1>1, <1>2, <1>4 DEF HashTyped
    <2>5. HashSound'
      BY <2>2, <2>3, <1>1, <1>2, Signs DEF HashSound, Bucket
    <2> QED
      BY <2>1, <2>4, <2>5, <1>1 DEF HashInv
  <1> QED
    BY <1>3, <1>4 DEF sxe_hash_take

LEMMA FillKeeps == \A w \in Writer, k \in Key : HashInv /\ Fill(w, k) => HashInv'
  <1> SUFFICES ASSUME NEW w \in Writer, NEW k \in Key, HashInv, Fill(w, k) PROVE HashInv'
    OBVIOUS
  <1>1. HashTyped /\ HashSound /\ HashAssumption /\ HashAssumption'
    BY DEF HashInv, HashAssumption
  <1>2. /\ held[w] \in Element /\ key' = [key EXCEPT ![held[w]] = k]
        /\ UNCHANGED <<vars, held, giving, lookVars, present>>
    BY DEF Fill
  <1>3. stateOf[held[w]] = New /\ UNCHANGED stateOf
    BY <1>1, <1>2 DEF HashSound, vars, poolVars
  <1>4. \A f \in Element : stateOf[f] >= Reserved => f # held[w]
    BY <1>3 DEF New, Reserved
  <1>5. \A f \in Element : stateOf[f] >= Reserved => key'[f] = key[f]
    BY <1>1, <1>2, <1>4 DEF HashTyped
  <1>6. PoolTyped' /\ PoolSound' /\ LookSound'
    BY <1>2, <1>5, StillLook
  <1>7. HashTyped'
    BY <1>1, <1>2 DEF HashTyped
  <1>8. HashSound'
    BY <1>1, <1>2, <1>3, <1>5 DEF HashSound, Bucket
  <1> QED
    BY <1>1, <1>6, <1>7, <1>8 DEF HashInv

LEMMA AddKeeps == \A w \in Writer : HashInv /\ sxe_hash_add(w) => HashInv'
  <1> SUFFICES ASSUME NEW w \in Writer, HashInv, sxe_hash_add(w) PROVE HashInv'
    OBVIOUS
  <1>1. HashTyped /\ HashSound /\ HashAssumption /\ HashAssumption'
    BY DEF HashInv, HashAssumption
  <1>2. /\ held[w] \in Element /\ held' = [held EXCEPT ![w] = NoIndex]
        /\ UNCHANGED <<key, giving, lookVars>>
    BY DEF sxe_hash_add
  <1>3. \A v \in Writer : held'[v] = IF v = w THEN NoIndex ELSE held[v]
    BY <1>1, <1>2 DEF HashTyped
  <1>4. HashTyped'
    BY <1>1, <1>2 DEF HashTyped
  <1>5. CASE Move(held[w], Bucket(key[held[w]]))
    <2>1. PICK e \in Element : e = held[w]
      BY <1>2
    <2>2. Bucket(key[e]) \in State
      BY <1>1, BucketTyped DEF HashTyped
    <2>3. /\ PoolTyped' /\ PoolSound' /\ LookSound'
          /\ \A f \in Element : stateOf'[f] = IF f = e THEN Bucket(key[e]) ELSE stateOf[f]
      BY <2>1, <2>2, <1>2, <1>5, MoveKeepsLook
    <2>4. \A v \in Writer : v # w => held[v] # e
      BY <2>1, <1>1, <1>2 DEF HashSound
    <2>5. \A f \in Element : stateOf'[f] >= Reserved => stateOf'[f] = Bucket(key'[f])
      BY <2>3, <1>1, <1>2 DEF HashSound, Bucket
    <2>6. \A v \in Writer : held'[v] \in Element => stateOf'[held'[v]] = New
      BY <2>3, <2>4, <1>1, <1>3, Signs DEF HashSound
    <2>7. \A v, u \in Writer : held'[v] \in Element /\ held'[v] = held'[u] => v = u
      BY <1>1, <1>3, Signs DEF HashSound
    <2>8. HashSound'
      BY <2>5, <2>6, <2>7, <1>1, <1>2 DEF HashSound
    <2> QED
      BY <2>3, <2>8, <1>1, <1>4 DEF HashInv
  <1>6. CASE UNCHANGED <<vars, present>>
    <2>1. PoolTyped' /\ PoolSound' /\ LookSound'
      BY <1>2, <1>6, StillLook
    <2>2. UNCHANGED stateOf
      BY <1>6 DEF vars, poolVars
    <2>3. HashSound'
      BY <2>2, <1>1, <1>2, <1>3, Signs DEF HashSound, Bucket
    <2> QED
      BY <2>1, <2>3, <1>1, <1>4 DEF HashInv
  <1> QED
    BY <1>5, <1>6 DEF sxe_hash_add

LEMMA GiveReadKeeps == \A w \in Writer, e \in Element : HashInv /\ GiveRead(w, e) => HashInv'
  <1> SUFFICES ASSUME NEW w \in Writer, NEW e \in Element, HashInv, GiveRead(w, e) PROVE HashInv'
    OBVIOUS
  <1>1. HashTyped /\ HashSound /\ HashAssumption /\ HashAssumption' /\ PoolTyped
    BY DEF HashInv, HashAssumption
  <1>2. /\ stateOf[e] >= Reserved /\ giving' = [giving EXCEPT ![w] = <<e, stateOf[e]>>]
        /\ UNCHANGED <<vars, key, held, lookVars, present>>
    BY DEF GiveRead
  <1>3. PoolTyped' /\ PoolSound' /\ LookSound'
    BY <1>2, StillLook
  <1>4. stateOf[e] \in Nat /\ UNCHANGED stateOf
    BY <1>1, <1>2, Signs DEF PoolTyped, vars, poolVars
  <1>5. HashTyped'
    BY <1>1, <1>2, <1>4 DEF HashTyped
  <1>6. \A v \in Writer : giving'[v] = IF v = w THEN <<e, stateOf[e]>> ELSE giving[v]
    BY <1>1, <1>2 DEF HashTyped
  <1>7. HashSound'
    BY <1>1, <1>2, <1>4, <1>6 DEF HashSound, Bucket
  <1> QED
    BY <1>1, <1>3, <1>5, <1>7 DEF HashInv

LEMMA GiveKeeps == \A w \in Writer : HashInv /\ sxe_hash_give(w) => HashInv'
  <1> SUFFICES ASSUME NEW w \in Writer, HashInv, sxe_hash_give(w) PROVE HashInv'
    OBVIOUS
  <1>1. HashTyped /\ HashSound /\ HashAssumption /\ HashAssumption'
    BY DEF HashInv, HashAssumption
  <1>2. /\ giving[w][1] # NoIndex /\ giving' = [giving EXCEPT ![w] = <<NoIndex, 0>>]
        /\ UNCHANGED <<key, held, lookVars>>
    BY DEF sxe_hash_give
  <1>3. \A v \in Writer : giving'[v] = IF v = w THEN <<NoIndex, 0>> ELSE giving[v]
    BY <1>1, <1>2 DEF HashTyped
  <1>4. HashTyped'
    BY <1>1, <1>2 DEF HashTyped
  <1>5. \A v \in Writer : giving'[v][1] # NoIndex => giving'[v][2] >= Reserved
    BY <1>1, <1>3 DEF HashSound
  <1>6. CASE stateOf[giving[w][1]] = giving[w][2] /\ Move(giving[w][1], Unused)
    <2>1. PICK e \in Element : e = giving[w][1] /\ stateOf[e] >= Reserved
      BY <1>1, <1>2, <1>6 DEF HashTyped, HashSound
    <2>2. Unused \in State
      BY <1>1, BucketTyped DEF HashAssumption
    <2>3. /\ PoolTyped' /\ PoolSound' /\ LookSound'
          /\ \A f \in Element : stateOf'[f] = IF f = e THEN Unused ELSE stateOf[f]
      BY <2>1, <2>2, <1>2, <1>6, MoveKeepsLook
    <2>4. \A v \in Writer : held[v] \in Element => held[v] # e
      BY <2>1, <1>1 DEF HashSound, New, Reserved
    <2>5. HashSound'
      BY <2>3, <2>4, <1>1, <1>2, <1>5 DEF HashSound, Bucket, Unused, Reserved
    <2> QED
      BY <2>3, <2>5, <1>1, <1>4 DEF HashInv
  <1>7. CASE UNCHANGED <<vars, present>>
    <2>1. PoolTyped' /\ PoolSound' /\ LookSound'
      BY <1>2, <1>7, StillLook
    <2>2. UNCHANGED stateOf
      BY <1>7 DEF vars, poolVars
    <2>3. HashSound'
      BY <2>2, <1>1, <1>2, <1>5 DEF HashSound, Bucket
    <2> QED
      BY <2>1, <2>3, <1>1, <1>4 DEF HashInv
  <1> QED
    BY <1>6, <1>7 DEF sxe_hash_give

(* What a lookup leaves alone. *)
LEMMA StillTable ==
    ASSUME HashTyped, HashSound, UNCHANGED <<stateOf, key, held, giving>>
    PROVE  HashTyped' /\ HashSound'
  BY DEF HashTyped, HashSound, Bucket

LEMMA LookStartKeeps == \A k \in Key : HashInv /\ LookStart(k) => HashInv'
  <1> SUFFICES ASSUME NEW k \in Key, HashInv, LookStart(k) PROVE HashInv'
    OBVIOUS
  <1>1. PoolTyped /\ PoolSound /\ HashTyped /\ HashSound /\ HashAssumption /\ HashAssumption'
    BY DEF HashInv, HashAssumption
  <1>2. /\ WalkerConstruct(Bucket(k)) /\ looking' = k /\ cand' = NoIndex
        /\ present' = {e \in Element : stateOf[e] >= Reserved /\ key[e] = k}
        /\ UNCHANGED <<key, held, giving>>
    BY DEF LookStart
  <1>3. Bucket(k) \in State
    BY <1>1, BucketTyped
  <1>4. WalkSound' /\ UNCHANGED poolVars
    BY <1>1, <1>2, <1>3, ConstructKeepsWalk
  <1>5. PoolTyped' /\ PoolSound' /\ UNCHANGED stateOf
    BY <1>1, <1>4, StillPool DEF poolVars
  <1>6. HashTyped' /\ HashSound'
    BY <1>1, <1>2, <1>5, StillTable
  <1>7. walking' /\ wstate' = Bucket(k) /\ visited' = {}
    BY <1>2 DEF WalkerConstruct
  <1>8. \A e \in present' : stateOf[e] = Bucket(k)
    BY <1>1, <1>2 DEF HashSound
  <1>9. LookSound'
    BY <1>2, <1>4, <1>5, <1>7, <1>8 DEF LookSound, Bucket
  <1> QED
    BY <1>1, <1>5, <1>6, <1>9 DEF HashInv

LEMMA LookStepKeeps == HashInv /\ LookStep => HashInv'
  <1> SUFFICES ASSUME HashInv, LookStep PROVE HashInv'
    OBVIOUS
  <1>1. PoolTyped /\ PoolSound /\ HashTyped /\ HashSound /\ HashAssumption /\ HashAssumption'
    BY DEF HashInv, HashAssumption
  <1>2. looking # NoIndex /\ cand = NoIndex /\ UNCHANGED <<key, held, giving, present>>
    BY DEF LookStep
  <1>3. /\ looking \in Key /\ wstate = Bucket(looking) /\ walking /\ WalkSound
        /\ \A e \in present : /\ e \in Element /\ stateOf[e] = wstate /\ key[e] = looking
                              /\ e \notin visited
    BY <1>2, Signs DEF HashInv, LookSound
  <1>4. CASE WalkerStep /\ cand' = result' /\ looking' = IF result' = NoIndex THEN NoIndex ELSE looking
    <2>1. UNCHANGED <<poolVars, wstate>> /\ walking' = (result' # Sentinel)
      BY <1>4 DEF WalkerStep
    <2>2. PoolTyped' /\ PoolSound' /\ UNCHANGED stateOf
      BY <2>1, <1>1, StillPool DEF poolVars
    <2>3. HashTyped' /\ HashSound'
      BY <2>2, <1>1, <1>2, StillTable
    <2>4. /\ walking' => WalkSound'
          /\ result' # NoIndex => result' \in Element /\ visited' = visited \union {result'}
      BY <1>1, <1>3, <1>4, StepKeepsWalk DEF Sentinel
    <2>5. LookSound'
      <3>1. CASE result' = NoIndex
        BY <3>1, <1>4 DEF LookSound
      <3>2. CASE result' # NoIndex
        <4>1. looking' = looking /\ cand' = result' /\ walking' /\ WalkSound'
          BY <3>2, <2>1, <2>4, <1>4 DEF Sentinel
        <4>2. \A e \in present' : e \in visited' => e = cand'
          BY <4>1, <3>2, <2>4, <1>2, <1>3
        <4>3. \A e \in present' : e \in Element /\ stateOf'[e] = wstate' /\ key'[e] = looking'
          BY <4>1, <2>1, <2>2, <1>2, <1>3
        <4> QED
          BY <4>1, <4>2, <4>3, <3>2, <2>1, <2>4, <1>3 DEF LookSound, Bucket
      <3> QED
        BY <3>1, <3>2
    <2> QED
      BY <2>2, <2>3, <2>5, <1>1 DEF HashInv
  <1>5. CASE cand' = LockNotTaken /\ UNCHANGED <<vars, looking>>
    <2>1. UNCHANGED poolVars /\ UNCHANGED <<poolVars, walkVars>>
      BY <1>5 DEF vars
    <2>2. PoolTyped' /\ PoolSound' /\ UNCHANGED stateOf
      BY <2>1, <1>1, StillPool DEF poolVars
    <2>3. HashTyped' /\ HashSound'
      BY <2>2, <1>1, <1>2, StillTable
    <2>4. WalkSound' /\ UNCHANGED <<walking, wstate, visited>>
      BY <2>1, <1>3, StillWalk DEF walkVars
    <2>5. LookSound'
      BY <2>2, <2>4, <1>2, <1>3, <1>5 DEF LookSound, Bucket
    <2> QED
      BY <2>2, <2>3, <2>5, <1>1 DEF HashInv
  <1> QED
    BY <1>4, <1>5 DEF LookStep

LEMMA LookCompareKeeps == HashInv /\ LookCompare => HashInv'
  <1> SUFFICES ASSUME HashInv, LookCompare PROVE HashInv'
    OBVIOUS
  <1>1. PoolTyped /\ PoolSound /\ HashTyped /\ HashSound /\ LookSound /\ HashAssumption /\ HashAssumption'
    BY DEF HashInv, HashAssumption
  <1>2. looking # NoIndex /\ cand # NoIndex /\ UNCHANGED <<vars, key, held, giving, present>>
    BY DEF LookCompare
  <1>3. PICK equal \in BOOLEAN :
          /\ cand \in Element => (equal <=> key[cand] = looking)
          /\ looking' = IF equal THEN NoIndex ELSE looking
          /\ cand'    = IF equal THEN cand ELSE NoIndex
    BY DEF LookCompare
  <1>4. UNCHANGED poolVars /\ UNCHANGED <<poolVars, walkVars>>
    BY <1>2 DEF vars
  <1>5. PoolTyped' /\ PoolSound' /\ UNCHANGED stateOf
    BY <1>1, <1>4, StillPool DEF poolVars
  <1>6. HashTyped' /\ HashSound'
    BY <1>1, <1>2, <1>5, StillTable
  <1>7. WalkSound' /\ UNCHANGED <<walking, wstate, visited>>
    BY <1>1, <1>2, <1>4, StillWalk DEF LookSound, walkVars
  <1>8. LookSound'
    <2>1. CASE equal
      BY <2>1, <1>3 DEF LookSound
    <2>2. CASE ~ equal
      <3>1. looking' = looking /\ cand' = NoIndex
        BY <2>2, <1>3
      <3>2. \A e \in present : e \notin visited
        BY <2>2, <1>1, <1>2, <1>3 DEF LookSound
      <3> QED
        BY <3>1, <3>2, <1>1, <1>2, <1>5, <1>7 DEF LookSound, Bucket
    <2> QED
      BY <2>1, <2>2
  <1> QED
    BY <1>1, <1>5, <1>6, <1>8 DEF HashInv

LEMMA ReconstructKeeps == HashInv /\ sxe_hash_reconstruct => HashInv'
  <1> SUFFICES ASSUME HashInv, sxe_hash_reconstruct PROVE HashInv'
    OBVIOUS
  <1>1. HashTyped /\ HashSound /\ HashAssumption /\ HashAssumption'
    BY DEF HashInv, HashAssumption
  <1>2. Construct' /\ looking' = NoIndex /\ UNCHANGED <<key, held, giving>>
        /\ \A w \in Writer : held[w] \notin Element /\ giving[w][1] = NoIndex
    BY DEF sxe_hash_reconstruct, Construct, lookVars
  <1>3. Construct' => PoolTyped' /\ PoolSound'
    BY NewPool, PTL
  <1>4. \A e \in Element : stateOf'[e] = 0
    BY <1>2 DEF Construct
  <1>5. HashTyped' /\ HashSound'
    BY <1>1, <1>2, <1>4 DEF HashTyped, HashSound, Reserved
  <1>6. LookSound'
    BY <1>2 DEF LookSound
  <1> QED
    BY <1>1, <1>2, <1>3, <1>5, <1>6 DEF HashInv

LEMMA NextHash == HashInv /\ [HashNext]_<<vars, hashVars>> => HashInv'
  <1> SUFFICES ASSUME HashInv, [HashNext]_<<vars, hashVars>> PROVE HashInv'
    OBVIOUS
  <1>1. CASE HashNext
    BY <1>1, TakeKeeps, AddKeeps, GiveKeeps, FillKeeps, GiveReadKeeps, LookStartKeeps,
       LookStepKeeps, LookCompareKeeps, ReconstructKeeps DEF HashNext
  <1>2. CASE UNCHANGED <<vars, hashVars>>
    <2>1. UNCHANGED <<vars, lookVars, present>> /\ UNCHANGED <<key, held, giving>>
      BY <1>2 DEF hashVars
    <2>2. PoolTyped' /\ PoolSound' /\ LookSound'
      BY <2>1, StillLook
    <2>3. UNCHANGED stateOf
      BY <2>1 DEF vars, poolVars
    <2>4. HashTyped' /\ HashSound' /\ HashAssumption'
      BY <2>1, <2>3, StillTable DEF HashInv, HashAssumption
    <2> QED
      BY <2>2, <2>4 DEF HashInv
  <1> QED
    BY <1>1, <1>2

LEMMA HashAlways == HashSpec => []HashInv
  BY InitHash, NextHash, PTL DEF HashSpec

(* sxe_hash_look finds a key that is in the table from its beginning to its end, for
   any number of elements, keys and writers and any hash function, unless an element
   it has passed comes back to the bucket. *)
THEOREM LookupsFind == HashSpec => KeyFound
  <1>1. HashInv /\ [HashNext]_<<vars, hashVars>> =>
           [LookStep /\ looking' = NoIndex /\ ~ returned => present = {}]_<<vars, hashVars>>
    <2> SUFFICES ASSUME HashInv, LookStep, looking' = NoIndex, ~ returned
                 PROVE  present = {}
      OBVIOUS
    <2>1. looking # NoIndex /\ cand = NoIndex
      BY DEF LookStep
    <2>2. /\ PoolTyped /\ PoolSound /\ WalkSound
          /\ \A e \in present : e \in Element /\ stateOf[e] = wstate /\ e \notin visited
      BY <2>1, Signs DEF HashInv, LookSound
    <2>3. WalkerStep /\ result' = NoIndex
      BY <2>1 DEF LookStep
    <2>4. \A f \in Element : stateOf[f] = wstate => f \in visited
      BY <2>2, <2>3, StepKeepsWalk DEF Sentinel
    <2> QED
      BY <2>2, <2>4
  <1> QED
    BY <1>1, HashAlways, PTL DEF HashSpec, KeyFound
=============================================================================
