------------------------ MODULE SxeThreadMemoryProofs ------------------------
(***************************************************************************)
(* sxe_thread_memory_free frees nothing that it keeps and forgets nothing, *)
(* for any number of threads and trackers, in a call that passes over the  *)
(* list once.                                                              *)
(*                                                                         *)
(* The pointers make up to three lists: the shared one, that of the        *)
(* trackers still to be looked at, and the keepers.  The invariant says    *)
(* which trackers are on each (Lists); what Chain computes follows.        *)
(***************************************************************************)
EXTENDS SxeThreadMemory, FiniteSetTheorems, WellFoundedInduction, TLAPS

(* Only a call that frees ALL passes over the list again, and what it keeps of a pass
   is not reset for the next (SxeThreadMemory_keepers shows what comes of it). *)
OnePass == "ALL" \notin Modes \/ MaxTries = 1

(* p numbers the n cells of the list that starts at a and is linked by f, from its
   end: p[0] is the NULL there, and p[n] is a. *)
Numbers(p, n, f, a, S) ==
    /\ p \in [0 .. n -> Addr \union {NULL}]
    /\ p[0] = NULL /\ p[n] = a
    /\ \A i \in 1 .. n : p[i] \in S /\ f[p[i]] = p[i - 1]
    /\ \A i, j \in 1 .. n : p[i] = p[j] => i = j
    /\ \A x \in S : \E i \in 1 .. n : p[i] = x

(* S is the set of cells of that list. *)
ListOf(f, a, S) ==
    \E p \in [0 .. Cardinality(S) -> Addr \union {NULL}] : Numbers(p, Cardinality(S), f, a, S)

Cut(f, b) == [f EXCEPT ![b] = NULL]

(* The keepers end at mlast, whatever its next is. *)
Kept(K) ==
    \/ K = {} /\ keepers = NULL /\ mlast = NULL
    \/ mlast \in K /\ keepers \in K /\ ListOf(Cut(next, mlast), keepers, K)

(* T is the shared list, C what is to be looked at, K what is kept. *)
Lists(T, C, K) ==
    /\ ListOf(next, trackers, T)
    /\ Tracked = T \union C \union K
    /\ T \intersect C = {}
    /\ mpc[Main] # "each" => C = {}
    /\ mpc[Main] \notin {"each", "link", "swap", "again"} => K = {}
    /\ mpc[Main] = "grab" => keepers = NULL /\ mlast = NULL /\ old \subseteq T
    /\ mpc[Main] = "each" => ListOf(next, cur, C) /\ (K # {} => next[mlast] = NULL)
    /\ mpc[Main] \in {"each", "link", "swap"} => (T \union C) \intersect K = {} /\ Kept(K)
    /\ mpc[Main] \in {"link", "swap"} => K # {} /\ next[mlast] \in T \union {NULL}
    /\ mpc[Main] = "swap" => next[mlast] = cur
    /\ mpc[Main] = "again" => K \subseteq T /\ keepers \in T \union {NULL}
    /\ mpc[Main] \in {"each", "link", "swap", "again"} => old \subseteq C \union K /\ unfreed = Cardinality(K)

(* What a thread is pushing is its own, and on no list. *)
Pushing ==
    /\ \A t \in Thread : mpc[t] = "push" => hold[t] \in Addr /\ cell[hold[t]] = "held"
    /\ \A t, u \in Thread : mpc[t] = "push" /\ mpc[u] = "push" /\ hold[t] = hold[u] => t = u

(* No second pass. *)
Passes ==
    /\ mpc[Main] = "grab" => tries < MaxTries
    /\ what \in Modes \union {"UNUSED"}
    /\ mpc[Main] \in {"each", "link", "swap", "again"} => tries >= 1

MemoryInv == MemoryTyped /\ Pushing /\ Passes /\ \E T, C, K \in SUBSET Addr : Lists(T, C, K)
-----------------------------------------------------------------------------
(* Lists. *)

LEMMA AddrFinite == \A S \in SUBSET Addr : IsFiniteSet(S) /\ Cardinality(S) \in Nat
  <1> SUFFICES ASSUME NEW S \in SUBSET Addr PROVE IsFiniteSet(S) /\ Cardinality(S) \in Nat
    OBVIOUS
  <1>1. IsFiniteSet(S)
    BY FS_Subset, ThreadMemoryAssumption
  <1> QED
    BY <1>1, FS_CardinalityType

(* A list has as many cells as it has numbers. *)
LEMMA ListIs ==
    ASSUME NEW f, NEW a, NEW S, NEW n \in Nat, NEW p, Numbers(p, n, f, a, S)
    PROVE  ListOf(f, a, S)
  <1> DEFINE b == [i \in 1 .. n |-> p[i]]
  <1>1. b \in [1 .. n -> S]
    BY DEF Numbers
  <1>2. b \in Bijection(1 .. n, S)
    BY <1>1 DEF Numbers, Bijection, Injection, IsInjective, Surjection
  <1>3. Cardinality(S) = n
    BY <1>2, FS_CountingElements DEF ExistsBijection
  <1> QED
    BY <1>3 DEF ListOf, Numbers

LEMMA ListHas ==
    ASSUME NEW f, NEW a, NEW S \in SUBSET Addr, ListOf(f, a, S)
    PROVE  \E n \in Nat : \E p \in [0 .. n -> Addr \union {NULL}] : Numbers(p, n, f, a, S)
  BY AddrFinite DEF ListOf

LEMMA ListEmpty ==
    ASSUME NEW f
    PROVE  ListOf(f, NULL, {})
  <1>1. Numbers([i \in 0 .. 0 |-> NULL], 0, f, NULL, {})
    BY DEF Numbers
  <1> QED
    BY <1>1, ListIs

(* A list begins with one of its cells, and ends. *)
LEMMA ListHead ==
    ASSUME NEW f, NEW a, NEW S \in SUBSET Addr, ListOf(f, a, S)
    PROVE  /\ a = NULL <=> S = {}
           /\ a \in S \union {NULL}
           /\ \A x \in S : f[x] \in S \union {NULL}
  <1>1. PICK n \in Nat : \E p \in [0 .. n -> Addr \union {NULL}] : Numbers(p, n, f, a, S)
    BY ListHas
  <1>2. PICK p \in [0 .. n -> Addr \union {NULL}] : Numbers(p, n, f, a, S)
    BY <1>1
  <1>3. CASE n = 0
    BY <1>2, <1>3 DEF Numbers
  <1>4. CASE n # 0
    <2>1. n \in 1 .. n
      BY <1>4
    <2>2. a \in S
      BY <1>2, <2>1 DEF Numbers
    <2>3. ASSUME NEW x \in S PROVE f[x] \in S \union {NULL}
      <3>1. PICK i \in 1 .. n : p[i] = x
        BY <1>2 DEF Numbers
      <3>2. f[x] = p[i - 1]
        BY <1>2, <3>1 DEF Numbers
      <3>3. i = 1 \/ i - 1 \in 1 .. n
        OBVIOUS
      <3> QED
        BY <1>2, <3>2, <3>3 DEF Numbers
    <2> QED
      BY <2>2, <2>3, ThreadMemoryAssumption
  <1> QED
    BY <1>3, <1>4

(* What is linked otherwise elsewhere is the same list. *)
LEMMA ListFrame ==
    ASSUME NEW f, NEW g, NEW a, NEW S \in SUBSET Addr, ListOf(f, a, S), \A x \in S : g[x] = f[x]
    PROVE  ListOf(g, a, S)
  <1>1. PICK n \in Nat : \E p \in [0 .. n -> Addr \union {NULL}] : Numbers(p, n, f, a, S)
    BY ListHas
  <1>2. PICK p \in [0 .. n -> Addr \union {NULL}] : Numbers(p, n, f, a, S)
    BY <1>1
  <1>3. Numbers(p, n, g, a, S)
    BY <1>2 DEF Numbers
  <1> QED
    BY <1>3, ListIs

LEMMA ListCons ==
    ASSUME NEW f, NEW S \in SUBSET Addr, NEW a \in Addr \ S, ListOf(f, f[a], S)
    PROVE  ListOf(f, a, S \union {a})
  <1>1. PICK n \in Nat : \E p \in [0 .. n -> Addr \union {NULL}] : Numbers(p, n, f, f[a], S)
    BY ListHas
  <1>2. PICK p \in [0 .. n -> Addr \union {NULL}] : Numbers(p, n, f, f[a], S)
    BY <1>1
  <1> DEFINE q == [i \in 0 .. n + 1 |-> IF i = n + 1 THEN a ELSE p[i]]
  <1>3. /\ q \in [0 .. n + 1 -> Addr \union {NULL}] /\ q[0] = NULL /\ q[n + 1] = a
        /\ \A i \in 0 .. n : q[i] = p[i]
    BY <1>2 DEF Numbers
  <1> HIDE DEF q
  <1>4. ASSUME NEW i \in 1 .. n + 1 PROVE q[i] \in S \union {a} /\ f[q[i]] = q[i - 1]
    <2>1. CASE i = n + 1
      BY <1>2, <1>3, <2>1 DEF Numbers
    <2>2. CASE i # n + 1
      <3>1. i \in 1 .. n /\ i - 1 \in 0 .. n
        BY <2>2
      <3> QED
        BY <1>2, <1>3, <3>1 DEF Numbers
    <2> QED
      BY <2>1, <2>2
  <1>5. ASSUME NEW i \in 1 .. n + 1, NEW j \in 1 .. n + 1, q[i] = q[j] PROVE i = j
    <2>1. \A k \in 1 .. n : k \in 0 .. n /\ q[k] = p[k] /\ p[k] \in S
      BY <1>2, <1>3 DEF Numbers
    <2>2. CASE i = n + 1 \/ j = n + 1
      <3>1. i # n + 1 => i \in 1 .. n
        OBVIOUS
      <3>2. j # n + 1 => j \in 1 .. n
        OBVIOUS
      <3> QED
        BY <1>3, <1>5, <2>1, <2>2, <3>1, <3>2
    <2>3. CASE i # n + 1 /\ j # n + 1
      <3>1. i \in 1 .. n /\ j \in 1 .. n
        BY <2>3
      <3> QED
        BY <1>2, <1>5, <2>1, <3>1 DEF Numbers
    <2> QED
      BY <2>2, <2>3
  <1>6. ASSUME NEW x \in S \union {a} PROVE \E i \in 1 .. n + 1 : q[i] = x
    <2>1. CASE x = a
      BY <1>3, <2>1
    <2>2. CASE x \in S
      <3>1. PICK i \in 1 .. n : p[i] = x
        BY <1>2, <2>2 DEF Numbers
      <3>2. i \in 1 .. n + 1 /\ q[i] = x
        BY <1>3, <3>1
      <3> QED
        BY <3>2
    <2> QED
      BY <2>1, <2>2
  <1>7. Numbers(q, n + 1, f, a, S \union {a})
    BY <1>3, <1>4, <1>5, <1>6 DEF Numbers
  <1> QED
    BY <1>7, ListIs

LEMMA ListTail ==
    ASSUME NEW f, NEW S \in SUBSET Addr, NEW a, a # NULL, ListOf(f, a, S)
    PROVE  a \in S /\ ListOf(f, f[a], S \ {a})
  <1>1. PICK n \in Nat : \E p \in [0 .. n -> Addr \union {NULL}] : Numbers(p, n, f, a, S)
    BY ListHas
  <1>2. PICK p \in [0 .. n -> Addr \union {NULL}] : Numbers(p, n, f, a, S)
    BY <1>1
  <1>3. n # 0
    BY <1>2 DEF Numbers
  <1>4. n \in 1 .. n /\ n - 1 \in Nat /\ n - 1 \in 0 .. n
    BY <1>3
  <1>5. a \in S /\ f[a] = p[n - 1]
    BY <1>2, <1>4 DEF Numbers
  <1> DEFINE q == [i \in 0 .. n - 1 |-> p[i]]
  <1>6. q \in [0 .. n - 1 -> Addr \union {NULL}] /\ q[0] = NULL /\ q[n - 1] = f[a]
    BY <1>2, <1>4, <1>5 DEF Numbers
  <1>7. \A i \in 0 .. n - 1 : q[i] = p[i]
    OBVIOUS
  <1> HIDE DEF q
  <1>8. ASSUME NEW i \in 1 .. n - 1 PROVE q[i] \in S \ {a} /\ f[q[i]] = q[i - 1]
    <2>1. i \in 1 .. n /\ i # n /\ i \in 0 .. n - 1 /\ i - 1 \in 0 .. n - 1
      BY <1>4
    <2>2. p[i] \in S /\ p[i] # p[n] /\ f[p[i]] = p[i - 1]
      BY <1>2, <1>4, <2>1 DEF Numbers
    <2> QED
      BY <1>2, <1>7, <2>1, <2>2 DEF Numbers
  <1>9. ASSUME NEW i \in 1 .. n - 1, NEW j \in 1 .. n - 1, q[i] = q[j] PROVE i = j
    <2>1. i \in 1 .. n /\ j \in 1 .. n /\ i \in 0 .. n - 1 /\ j \in 0 .. n - 1
      BY <1>4
    <2> QED
      BY <1>2, <1>7, <1>9, <2>1 DEF Numbers
  <1>10. ASSUME NEW x \in S \ {a} PROVE \E i \in 1 .. n - 1 : q[i] = x
    <2>1. PICK i \in 1 .. n : p[i] = x
      BY <1>2 DEF Numbers
    <2>2. i # n
      BY <1>2, <2>1 DEF Numbers
    <2>3. i \in 1 .. n - 1 /\ i \in 0 .. n - 1
      BY <1>4, <2>2
    <2> QED
      BY <1>7, <2>1, <2>3
  <1>11. Numbers(q, n - 1, f, f[a], S \ {a})
    BY <1>6, <1>8, <1>9, <1>10 DEF Numbers
  <1> QED
    BY <1>4, <1>5, <1>11, ListIs

(* From any cell of a list there is a list. *)
LEMMA ListSuffix ==
    ASSUME NEW f, NEW S \in SUBSET Addr, NEW a, ListOf(f, a, S), NEW x \in S
    PROVE  \E R \in SUBSET S : ListOf(f, x, R)
  <1>1. PICK n \in Nat : \E p \in [0 .. n -> Addr \union {NULL}] : Numbers(p, n, f, a, S)
    BY ListHas
  <1>2. PICK p \in [0 .. n -> Addr \union {NULL}] : Numbers(p, n, f, a, S)
    BY <1>1
  <1>3. PICK k \in 1 .. n : p[k] = x
    BY <1>2 DEF Numbers
  <1> DEFINE q == [i \in 0 .. k |-> p[i]]
             R == {p[i] : i \in 1 .. k}
  <1>4. q \in [0 .. k -> Addr \union {NULL}] /\ q[0] = NULL /\ q[k] = x
    BY <1>2, <1>3 DEF Numbers
  <1>5. \A i \in 1 .. k : /\ i \in 1 .. n /\ q[i] = p[i] /\ q[i - 1] = p[i - 1]
                          /\ p[i] \in R
    OBVIOUS
  <1>6. \A y \in R : y \in S /\ \E i \in 1 .. k : q[i] = y
    BY <1>2, <1>5 DEF Numbers
  <1> HIDE DEF q, R
  <1>7. Numbers(q, k, f, x, R)
    BY <1>2, <1>4, <1>5, <1>6 DEF Numbers
  <1> QED
    BY <1>6, <1>7, ListIs

(* The list S, cut off at b, and the list R that is linked behind b. *)
LEMMA ListJoin ==
    ASSUME NEW f \in [Addr -> Addr \union {NULL}], NEW S \in SUBSET Addr, NEW R \in SUBSET Addr, S \intersect R = {},
           NEW a, NEW b \in S, ListOf(Cut(f, b), a, S), ListOf(f, f[b], R)
    PROVE  ListOf(f, a, S \union R)
  <1>1. PICK n \in Nat : \E p \in [0 .. n -> Addr \union {NULL}] : Numbers(p, n, Cut(f, b), a, S)
    BY ListHas
  <1>2. PICK p \in [0 .. n -> Addr \union {NULL}] : Numbers(p, n, Cut(f, b), a, S)
    BY <1>1
  <1>3. PICK m \in Nat : \E q \in [0 .. m -> Addr \union {NULL}] : Numbers(q, m, f, f[b], R)
    BY ListHas
  <1>4. PICK q \in [0 .. m -> Addr \union {NULL}] : Numbers(q, m, f, f[b], R)
    BY <1>3
  <1>5. /\ p[0] = NULL /\ p[n] = a
        /\ \A i \in 1 .. n : p[i] \in S /\ Cut(f, b)[p[i]] = p[i - 1]
        /\ \A i, j \in 1 .. n : p[i] = p[j] => i = j
        /\ \A x \in S : \E i \in 1 .. n : p[i] = x
    BY <1>2 DEF Numbers
  <1>6. /\ q[0] = NULL /\ q[m] = f[b]
        /\ \A i \in 1 .. m : q[i] \in R /\ f[q[i]] = q[i - 1]
        /\ \A i, j \in 1 .. m : q[i] = q[j] => i = j
        /\ \A x \in R : \E i \in 1 .. m : q[i] = x
    BY <1>4 DEF Numbers
  <1>7. n >= 1 /\ p[1] = b
    <2>1. PICK k \in 1 .. n : p[k] = b
      BY <1>5
    <2>2. p[k - 1] = NULL
      BY <1>5, <2>1 DEF Cut
    <2>3. k - 1 \notin 1 .. n
      BY <1>5, <2>2, ThreadMemoryAssumption
    <2> QED
      BY <2>1, <2>3
  <1>8. \A i \in 2 .. n : f[p[i]] = p[i - 1]
    <2> SUFFICES ASSUME NEW i \in 2 .. n PROVE f[p[i]] = p[i - 1]
      OBVIOUS
    <2>1. i \in 1 .. n /\ 1 \in 1 .. n /\ i # 1
      BY <1>7
    <2>2. p[i] # b /\ p[i] \in Addr
      BY <1>5, <1>7, <2>1
    <2> QED
      BY <1>5, <2>1, <2>2 DEF Cut
  <1> DEFINE r == [i \in 0 .. m + n |-> IF i <= m THEN q[i] ELSE p[i - m]]
  <1>9. /\ r \in [0 .. m + n -> Addr \union {NULL}] /\ r[0] = NULL /\ r[m + n] = a
        /\ \A i \in 0 .. m : r[i] = q[i]
        /\ \A i \in 1 .. n : r[m + i] = p[i]
    <2>1. ASSUME NEW i \in 0 .. m + n PROVE r[i] \in Addr \union {NULL}
      <3>1. CASE i <= m
        BY <3>1
      <3>2. CASE ~ (i <= m)
        <4>1. i - m \in 0 .. n
          BY <3>2
        <4> QED
          BY <3>2, <4>1
      <3> QED
        BY <3>1, <3>2
    <2>2. ASSUME NEW i \in 1 .. n PROVE r[m + i] = p[i]
      <3>1. m + i \in 0 .. m + n /\ ~ (m + i <= m) /\ (m + i) - m = i
        OBVIOUS
      <3> QED
        BY <3>1
    <2>3. \A i \in 0 .. m : i \in 0 .. m + n /\ r[i] = q[i]
      OBVIOUS
    <2>4. r[m + n] = a
      BY <1>5, <1>7, <2>2
    <2>5. r[0] = NULL
      BY <1>6, <2>3
    <2> QED
      BY <2>1, <2>2, <2>3, <2>4, <2>5
  <1> HIDE DEF r
  <1>10. \A i \in 1 .. m + n : i \in 1 .. m \/ \E k \in 1 .. n : i = m + k
    <2> SUFFICES ASSUME NEW i \in 1 .. m + n, i \notin 1 .. m PROVE \E k \in 1 .. n : i = m + k
      OBVIOUS
    <2>1. i - m \in 1 .. n /\ i = m + (i - m)
      OBVIOUS
    <2> QED
      BY <2>1
  <1>11. ASSUME NEW i \in 1 .. m + n PROVE r[i] \in S \union R /\ f[r[i]] = r[i - 1]
    <2>1. CASE i \in 1 .. m
      <3>1. i \in 0 .. m /\ i - 1 \in 0 .. m
        BY <2>1
      <3> QED
        BY <1>6, <1>9, <2>1, <3>1
    <2>2. ASSUME NEW k \in 1 .. n, i = m + k PROVE r[i] \in S \union R /\ f[r[i]] = r[i - 1]
      <3>1. r[i] = p[k] /\ p[k] \in S
        BY <1>5, <1>9, <2>2
      <3>2. CASE k = 1
        <4>1. i - 1 = m /\ m \in 0 .. m
          BY <2>2, <3>2
        <4> QED
          BY <1>6, <1>7, <1>9, <3>1, <3>2, <4>1
      <3>3. CASE k # 1
        <4>1. k \in 2 .. n /\ k - 1 \in 1 .. n /\ i - 1 = m + (k - 1)
          BY <2>2, <3>3
        <4> QED
          BY <1>8, <1>9, <3>1, <4>1
      <3> QED
        BY <3>2, <3>3
    <2> QED
      BY <1>10, <2>1, <2>2
  <1>12. ASSUME NEW i \in 1 .. m + n, NEW j \in 1 .. m + n, r[i] = r[j] PROVE i = j
    <2>1. \A k \in 1 .. m : k \in 0 .. m /\ r[k] = q[k] /\ q[k] \in R
      BY <1>6, <1>9
    <2>2. \A k \in 1 .. n : r[m + k] = p[k] /\ p[k] \in S
      BY <1>5, <1>9
    <2>3. CASE i \in 1 .. m /\ j \in 1 .. m
      BY <1>6, <1>12, <2>1, <2>3
    <2>4. CASE i \in 1 .. m /\ \E k \in 1 .. n : j = m + k
      BY <1>12, <2>1, <2>2, <2>4
    <2>5. CASE j \in 1 .. m /\ \E k \in 1 .. n : i = m + k
      BY <1>12, <2>1, <2>2, <2>5
    <2>6. ASSUME NEW k \in 1 .. n, i = m + k, NEW l \in 1 .. n, j = m + l PROVE i = j
      <3>1. p[k] = p[l]
        BY <1>12, <2>2, <2>6
      <3> QED
        BY <1>5, <2>6, <3>1
    <2> QED
      BY <1>10, <2>3, <2>4, <2>5, <2>6
  <1>13. ASSUME NEW x \in S \union R PROVE \E i \in 1 .. m + n : r[i] = x
    <2>1. CASE x \in R
      <3>1. PICK i \in 1 .. m : q[i] = x
        BY <1>6, <2>1
      <3>2. i \in 0 .. m /\ i \in 1 .. m + n
        OBVIOUS
      <3> QED
        BY <1>9, <3>1, <3>2
    <2>2. CASE x \in S
      <3>1. PICK i \in 1 .. n : p[i] = x
        BY <1>5, <2>2
      <3>2. m + i \in 1 .. m + n
        OBVIOUS
      <3> QED
        BY <1>9, <3>1, <3>2
    <2> QED
      BY <2>1, <2>2
  <1>14. Numbers(r, m + n, f, a, S \union R)
    BY <1>9, <1>11, <1>12, <1>13 DEF Numbers
  <1> QED
    BY <1>14, ListIs
-----------------------------------------------------------------------------
(* What Chain finds. *)

(* A nonempty set of numbers has a least one. *)
LEMMA LeastNumber ==
    ASSUME NEW N \in SUBSET Nat, N # {}
    PROVE  \E k \in N : \A m \in N : k <= m
  <1> DEFINE R == OpToRel(<, Nat)
  <1>1. IsWellFoundedOn(R, Nat)
    BY NatLessThanWellFounded
  <1>2. \A x, y \in Nat : y < x => <<y, x>> \in R
    BY DEF OpToRel
  <1> HIDE DEF R
  <1>3. PICK k \in N : \A m \in N : ~ (<<m, k>> \in R)
    BY <1>1, WFMin
  <1>4. ASSUME NEW m \in N PROVE k <= m
    <2>1. ~ (m < k)
      BY <1>2, <1>3
    <2> QED
      BY <2>1
  <1> QED
    BY <1>4

(* Following next from a, step by step, and staying at NULL. *)
Follows(h, a) ==
    h = [n \in 0 .. Cardinality(Addr) |->
           IF n = 0 THEN a ELSE IF h[n - 1] = NULL THEN NULL ELSE next[h[n - 1]]]

LEMMA FollowsUnique ==
    ASSUME NEW a, NEW g, NEW h, Follows(g, a), Follows(h, a)
    PROVE  g = h
  <1> DEFINE N == Cardinality(Addr)
             Bad == {i \in 0 .. N : g[i] # h[i]}
  <1>0. N \in Nat
    BY AddrFinite
  <1>1. CASE Bad # {}
    <2>0. Bad \in SUBSET Nat
      OBVIOUS
    <2>1. PICK k \in Bad : \A i \in Bad : k <= i
      BY <1>1, <2>0, LeastNumber
    <2>2. k # 0
      BY <1>0 DEF Follows
    <2>3. k \in 0 .. N /\ k - 1 \in 0 .. N /\ k - 1 \notin Bad
      BY <1>0, <2>1, <2>2
    <2>4. g[k - 1] = h[k - 1]
      BY <2>3
    <2>5. g[k] = IF g[k - 1] = NULL THEN NULL ELSE next[g[k - 1]]
      BY <2>2, <2>3 DEF Follows
    <2>6. h[k] = IF h[k - 1] = NULL THEN NULL ELSE next[h[k - 1]]
      BY <2>2, <2>3 DEF Follows
    <2> QED
      BY <2>4, <2>5, <2>6
  <1>2. CASE Bad = {}
    <2>1. \A i \in 0 .. N : g[i] = h[i]
      BY <1>2
    <2>2. g = [i \in 0 .. N |-> g[i]] /\ h = [i \in 0 .. N |-> h[i]]
      BY DEF Follows
    <2> QED
      BY <2>1, <2>2
  <1> QED
    BY <1>1, <1>2

(* Chain finds the cells of a list. *)
LEMMA ChainOfList ==
    ASSUME NEW a, NEW S \in SUBSET Addr, ListOf(next, a, S)
    PROVE  Chain(a) = S
  <1> DEFINE n == Cardinality(S)
             N == Cardinality(Addr)
  <1>1. n \in Nat /\ N \in Nat /\ n <= N
    BY AddrFinite, FS_Subset, ThreadMemoryAssumption
  <1>2. PICK p \in [0 .. n -> Addr \union {NULL}] : Numbers(p, n, next, a, S)
    BY DEF ListOf
  <1> HIDE DEF n, N
  <1> DEFINE h == [j \in 0 .. N |-> IF j <= n THEN p[n - j] ELSE NULL]
  <1>3. ASSUME NEW j \in 0 .. N
        PROVE  h[j] = IF j = 0 THEN a ELSE IF h[j - 1] = NULL THEN NULL ELSE next[h[j - 1]]
    <2>1. CASE j = 0
      BY <1>1, <1>2, <2>1 DEF Numbers
    <2>2. CASE j # 0
      <3>1. j - 1 \in 0 .. N
        BY <1>1, <2>2
      <3>2. CASE j <= n
        <4>1. n - (j - 1) \in 1 .. n /\ j - 1 <= n /\ (n - (j - 1)) - 1 = n - j
          BY <1>1, <2>2, <3>2
        <4>2. h[j - 1] = p[n - (j - 1)] /\ h[j] = p[n - j]
          BY <3>1, <3>2, <4>1
        <4>3. p[n - (j - 1)] \in S /\ next[p[n - (j - 1)]] = p[n - j]
          BY <1>2, <4>1 DEF Numbers
        <4>4. p[n - (j - 1)] # NULL
          BY <4>3, ThreadMemoryAssumption
        <4> QED
          BY <2>2, <4>2, <4>3, <4>4
      <3>3. CASE ~ (j <= n)
        <4>1. h[j] = NULL
          BY <3>3
        <4>2. h[j - 1] = NULL
          <5>1. CASE j - 1 <= n
            <6>1. j - 1 = n /\ n - n = 0
              BY <1>1, <3>1, <3>3, <5>1
            <6> QED
              BY <1>1, <1>2, <3>1, <6>1 DEF Numbers
          <5>2. CASE ~ (j - 1 <= n)
            BY <3>1, <5>2
          <5> QED
            BY <5>1, <5>2
        <4> QED
          BY <2>2, <4>1, <4>2
      <3> QED
        BY <3>2, <3>3
    <2> QED
      BY <2>1, <2>2
  <1>4. DOMAIN h = 0 .. N /\ h = [j \in 0 .. N |-> h[j]]
    OBVIOUS
  <1>5. \A j \in 0 .. N : j <= n => n - j \in 0 .. n /\ h[j] = p[n - j]
    BY <1>1
  <1>6. \A j \in 0 .. N : ~ (j <= n) => h[j] = NULL
    OBVIOUS
  <1> HIDE DEF h
  <1>7. Follows(h, a)
    BY <1>3, <1>4 DEF Follows, N
  <1>8. (CHOOSE g : Follows(g, a)) = h
    BY <1>7, FollowsUnique
  <1>9. Chain(a) = {h[j] : j \in DOMAIN h} \ {NULL}
    <2>1. Chain(a) = {(CHOOSE g : Follows(g, a))[j] : j \in DOMAIN (CHOOSE g : Follows(g, a))} \ {NULL}
      BY DEF Chain, Follows
    <2> QED
      BY <1>8, <2>1
  <1>10. ASSUME NEW x \in Chain(a) PROVE x \in S
    <2>1. PICK j \in 0 .. N : h[j] = x
      BY <1>4, <1>9
    <2>2. x # NULL /\ j <= n
      BY <1>6, <1>9, <2>1
    <2>3. n - j \in 1 .. n
      BY <1>1, <1>2, <1>5, <2>1, <2>2 DEF Numbers
    <2> QED
      BY <1>2, <1>5, <2>1, <2>2, <2>3 DEF Numbers
  <1>11. ASSUME NEW x \in S PROVE x \in Chain(a)
    <2>1. PICK i \in 1 .. n : p[i] = x
      BY <1>2 DEF Numbers
    <2>2. n - i \in 0 .. N /\ n - i <= n /\ n - (n - i) = i
      BY <1>1
    <2>3. h[n - i] = x
      BY <1>5, <2>1, <2>2
    <2> QED
      BY <1>4, <1>9, <2>2, <2>3, ThreadMemoryAssumption
  <1> QED
    BY <1>10, <1>11

(* What a list in hand leads to when its end is linked to another list. *)
LEMMA ChainBehind ==
    ASSUME MemoryTyped, NEW T \in SUBSET Addr, NEW K \in SUBSET Addr, T \intersect K = {},
           ListOf(next, trackers, T), NEW b \in K, NEW a, ListOf(Cut(next, b), a, K),
           next[b] \in T \union {NULL}
    PROVE  Chain(a) \subseteq K \union T /\ K \subseteq Chain(a)
  <1>1. PICK R \in SUBSET T : ListOf(next, next[b], R)
    <2>1. CASE next[b] = NULL
      BY <2>1, ListEmpty
    <2>2. CASE next[b] \in T
      BY <2>2, ListSuffix
    <2> QED
      BY <2>1, <2>2
  <1>2. next \in [Addr -> Addr \union {NULL}] /\ R \in SUBSET Addr /\ K \intersect R = {}
    BY DEF MemoryTyped
  <1>3. ListOf(next, a, K \union R)
    BY <1>1, <1>2, ListJoin
  <1>4. Chain(a) = K \union R
    BY <1>1, <1>3, ChainOfList
  <1> QED
    BY <1>4

(* The invariant says what the properties say. *)
LEMMA MemoryInvAccounts ==
    ASSUME MemoryInv
    PROVE  Accounted /\ KeepersNotFreed /\ MemoryTyped
  <1>1. PICK T, C, K \in SUBSET Addr : Lists(T, C, K)
    BY DEF MemoryInv
  <1>2. Chain(trackers) = T /\ Tracked = T \union C \union K /\ MemoryTyped
    BY <1>1, ChainOfList DEF Lists, MemoryInv
  <1>3. Chain(NULL) = {}
    BY ListEmpty, ChainOfList
  <1>4. CASE ~ Freeing
    BY <1>1, <1>2, <1>4 DEF Lists, Freeing, Accounted, KeepersNotFreed
  <1>5. CASE mpc[Main] = "grab"
    BY <1>1, <1>2, <1>3, <1>5 DEF Lists, Freeing, Accounted, KeepersNotFreed
  <1>6. CASE mpc[Main] = "each"
    <2>1. Chain(cur) = C
      BY <1>1, <1>6, ChainOfList DEF Lists
    <2>2. Chain(keepers) = K
      <3>1. CASE K = {}
        <4>1. keepers = NULL
          BY <1>1, <1>6, <3>1 DEF Lists, Kept
        <4> QED
          BY <1>3, <3>1, <4>1
      <3>2. CASE K # {}
        <4>1. mlast \in K /\ ListOf(Cut(next, mlast), keepers, K) /\ next[mlast] = NULL
          BY <1>1, <1>6, <3>2 DEF Lists, Kept
        <4>2. \A x \in K : next[x] = Cut(next, mlast)[x]
          BY <1>2, <4>1 DEF Cut, MemoryTyped
        <4>3. ListOf(next, keepers, K)
          BY <4>1, <4>2, ListFrame
        <4> QED
          BY <4>3, ChainOfList
      <3> QED
        BY <3>1, <3>2
    <2> QED
      BY <1>2, <1>6, <2>1, <2>2 DEF Freeing, Accounted, KeepersNotFreed
  <1>7. CASE mpc[Main] \in {"link", "swap"}
    <2>1. /\ mlast \in K /\ ListOf(Cut(next, mlast), keepers, K) /\ next[mlast] \in T \union {NULL}
          /\ T \intersect K = {} /\ C = {} /\ ListOf(next, trackers, T)
      BY <1>1, <1>7 DEF Lists, Kept
    <2>2. Chain(keepers) \subseteq K \union T /\ K \subseteq Chain(keepers)
      BY <1>2, <2>1, ChainBehind
    <2> QED
      BY <1>2, <1>7, <2>1, <2>2 DEF Freeing, Accounted, KeepersNotFreed
  <1>8. CASE mpc[Main] = "again"
    <2>1. ListOf(next, trackers, T) /\ keepers \in T \union {NULL} /\ K \subseteq T /\ C = {}
      BY <1>1, <1>8 DEF Lists
    <2>2. Chain(keepers) \subseteq T
      <3>1. CASE keepers = NULL
        BY <1>3, <3>1
      <3>2. CASE keepers \in T
        <4>1. PICK R \in SUBSET T : ListOf(next, keepers, R)
          BY <2>1, <3>2, ListSuffix
        <4> QED
          BY <4>1, ChainOfList
      <3> QED
        BY <2>1, <3>1, <3>2
    <2> QED
      BY <1>2, <1>8, <2>1, <2>2 DEF Freeing, Accounted, KeepersNotFreed
  <1> QED
    BY <1>2, <1>4, <1>5, <1>6, <1>7, <1>8 DEF Freeing
-----------------------------------------------------------------------------
(* One lemma for each action. *)

LEMMA MemoryInitKeeps ==
    ASSUME MemoryInit
    PROVE  MemoryInv
  <1>1. MemoryTyped /\ Pushing /\ Passes
    BY ThreadMemoryAssumption DEF MemoryInit, MemoryTyped, Pushing, Passes
  <1>2. Tracked = {}
    BY DEF MemoryInit, Tracked
  <1>3. mpc[Main] = "run" /\ trackers = NULL
    BY ThreadMemoryAssumption DEF MemoryInit
  <1>4. ListOf(next, trackers, {})
    BY <1>3, ListEmpty
  <1>5. Lists({}, {}, {})
    BY <1>2, <1>3, <1>4 DEF Lists
  <1> QED
    BY <1>1, <1>5 DEF MemoryInv

(* Another thread's step that changes no tracker on a list. *)
LEMMA ListsKept ==
    ASSUME MemoryTyped, MemoryTyped',
           NEW T \in SUBSET Addr, NEW C \in SUBSET Addr, NEW K \in SUBSET Addr, Lists(T, C, K),
           UNCHANGED <<trackers, cur, keepers, mlast, unfreed, old>>,
           Tracked' = Tracked, \A x \in Tracked : next'[x] = next[x],
           mpc'[Main] = mpc[Main] \/ {mpc[Main], mpc'[Main]} \subseteq {"run", "push", "dead"}
    PROVE  Lists(T, C, K)'
  <1>1. Tracked = T \union C \union K /\ ListOf(next, trackers, T)
    BY DEF Lists
  <1>2. ListOf(next', trackers', T)
    BY <1>1, ListFrame
  <1>3. CASE {mpc[Main], mpc'[Main]} \subseteq {"run", "push", "dead"}
    BY <1>1, <1>2, <1>3 DEF Lists
  <1>4. CASE mpc'[Main] = mpc[Main]
    <2>1. mpc[Main] = "each" => ListOf(next', cur', C) /\ (K # {} => next'[mlast'] = NULL)
      <3> SUFFICES ASSUME mpc[Main] = "each" PROVE ListOf(next', cur', C) /\ (K # {} => next'[mlast'] = NULL)
        OBVIOUS
      <3>1. ListOf(next, cur, C) /\ (K # {} => next[mlast] = NULL) /\ (K # {} => mlast \in K)
        BY DEF Lists, Kept
      <3>2. ListOf(next', cur', C)
        BY <1>1, <3>1, ListFrame
      <3> QED
        BY <1>1, <3>1, <3>2
    <2>2. mpc[Main] \in {"each", "link", "swap"} => Kept(K)'
      <3> SUFFICES ASSUME Kept(K) PROVE Kept(K)'
        BY DEF Lists
      <3>1. CASE K = {} /\ keepers = NULL /\ mlast = NULL
        BY <3>1 DEF Kept
      <3>2. CASE mlast \in K /\ keepers \in K /\ ListOf(Cut(next, mlast), keepers, K)
        <4>1. \A x \in K : Cut(next', mlast')[x] = Cut(next, mlast)[x]
          BY <1>1 DEF Cut, MemoryTyped
        <4>2. ListOf(Cut(next', mlast'), keepers', K)
          BY <3>2, <4>1, ListFrame
        <4> QED
          BY <3>2, <4>2 DEF Kept
      <3> QED
        BY <3>1, <3>2 DEF Kept
    <2>3. mpc[Main] \in {"link", "swap"} => next'[mlast'] = next[mlast]
      <3> SUFFICES ASSUME mpc[Main] \in {"link", "swap"} PROVE next'[mlast'] = next[mlast]
        OBVIOUS
      <3>1. mlast \in K
        BY DEF Lists, Kept
      <3> QED
        BY <1>1, <3>1
    <2> QED
      BY <1>1, <1>2, <1>4, <2>1, <2>2, <2>3 DEF Lists
  <1> QED
    BY <1>3, <1>4

LEMMA MallocKeeps ==
    ASSUME MemoryInv, NEW t \in Thread, NEW a \in Addr, Malloc(t, a)
    PROVE  MemoryInv'
  <1>1. MemoryTyped'
    BY DEF Malloc, MemoryInv, MemoryTyped, freeVars
  <1>2. Pushing'
    <2>1. ASSUME NEW u \in Thread, mpc'[u] = "push"
          PROVE  /\ hold'[u] \in Addr /\ cell'[hold'[u]] = "held"
                 /\ u = t => hold'[u] = a
                 /\ u # t => mpc[u] = "push" /\ hold'[u] = hold[u] /\ hold[u] # a
      BY <2>1 DEF Malloc, MemoryInv, MemoryTyped, Pushing
    <2> QED
      BY <2>1 DEF Pushing, MemoryInv
  <1>3. mpc[t] = "run" /\ mpc'[t] = "push" /\ \A u \in Thread : u # t => mpc'[u] = mpc[u]
    BY DEF Malloc, MemoryInv, MemoryTyped
  <1>4. mpc'[Main] = mpc[Main] \/ {mpc[Main], mpc'[Main]} \subseteq {"run", "push", "dead"}
    BY <1>3, ThreadMemoryAssumption
  <1>5. Passes'
    BY <1>4 DEF Malloc, MemoryInv, Passes, freeVars
  <1>6. Tracked' = Tracked /\ a \notin Tracked
    BY DEF Malloc, MemoryInv, MemoryTyped, Tracked
  <1>7. \A x \in Tracked : next'[x] = next[x]
    BY <1>6 DEF Malloc, MemoryInv, MemoryTyped, Tracked
  <1>8. UNCHANGED <<trackers, cur, keepers, mlast, unfreed, old>>
    BY DEF Malloc, freeVars
  <1>9. PICK T, C, K \in SUBSET Addr : Lists(T, C, K)
    BY DEF MemoryInv
  <1>10. Lists(T, C, K)'
    BY <1>1, <1>4, <1>6, <1>7, <1>8, <1>9, ListsKept DEF MemoryInv
  <1> QED
    BY <1>1, <1>2, <1>5, <1>10 DEF MemoryInv

LEMMA MallocFailsKeeps ==
    ASSUME MemoryInv, NEW t \in Thread, NEW a \in Addr, MallocFails(t, a)
    PROVE  MemoryInv'
  <1>1. MemoryTyped'
    BY DEF MallocFails, MemoryInv, MemoryTyped, freeVars
  <1>2. Pushing' /\ Passes'
    BY DEF MallocFails, MemoryInv, MemoryTyped, Pushing, Passes, freeVars
  <1>3. Tracked' = Tracked
    BY DEF MallocFails, MemoryInv, MemoryTyped, Tracked
  <1>4. UNCHANGED <<trackers, next, mpc, cur, keepers, mlast, unfreed, old>>
    BY DEF MallocFails, freeVars
  <1>5. PICK T, C, K \in SUBSET Addr : Lists(T, C, K)
    BY DEF MemoryInv
  <1>6. Lists(T, C, K)'
    BY <1>1, <1>3, <1>4, <1>5, ListsKept DEF MemoryInv
  <1> QED
    BY <1>1, <1>2, <1>6 DEF MemoryInv

LEMMA ComesAndGoesKeeps ==
    ASSUME MemoryInv, NEW t \in Thread, Exit(t) \/ Spawn(t)
    PROVE  MemoryInv'
  <1>1. MemoryTyped' /\ UNCHANGED <<trackers, next, cell, hold, freeVars>>
    BY DEF Exit, Spawn, MemoryInv, MemoryTyped, freeVars
  <1>2. \A u \in Thread : mpc'[u] = mpc[u] \/ (u = t /\ {mpc'[u], mpc[u]} \subseteq {"run", "dead"})
    <2>1. mpc[t] \in {"run", "dead"} /\ (mpc' = [mpc EXCEPT ![t] = "dead"] \/ mpc' = [mpc EXCEPT ![t] = "run"])
      BY DEF Exit, Spawn
    <2>2. mpc'[t] \in {"run", "dead"} /\ \A u \in Thread : u # t => mpc'[u] = mpc[u]
      BY <2>1 DEF MemoryInv, MemoryTyped
    <2> QED
      BY <2>1, <2>2
  <1>3. Pushing'
    BY <1>1, <1>2 DEF MemoryInv, Pushing
  <1>4. mpc'[Main] = mpc[Main] \/ {mpc[Main], mpc'[Main]} \subseteq {"run", "dead"}
    BY <1>2, ThreadMemoryAssumption
  <1>5. Passes'
    BY <1>1, <1>4 DEF MemoryInv, Passes, freeVars
  <1>6. Tracked' = Tracked
    BY <1>1 DEF Tracked
  <1>7. PICK T, C, K \in SUBSET Addr : Lists(T, C, K)
    BY DEF MemoryInv
  <1>8. Lists(T, C, K)'
    BY <1>1, <1>4, <1>6, <1>7, ListsKept DEF MemoryInv, freeVars
  <1> QED
    BY <1>1, <1>3, <1>5, <1>8 DEF MemoryInv

LEMMA PushKeeps ==
    ASSUME MemoryInv, NEW t \in Thread, Push(t)
    PROVE  MemoryInv'
  <1> DEFINE a == hold[t]
  <1>1. a \in Addr /\ cell[a] = "held" /\ mpc[t] = "push" /\ a \notin Tracked
    BY DEF Push, MemoryInv, Pushing, Tracked
  <1>2. PICK T, C, K \in SUBSET Addr : Lists(T, C, K)
    BY DEF MemoryInv
  <1>3. UNCHANGED <<tid, freeVars>> /\ UNCHANGED <<cur, keepers, mlast, unfreed, old>>
    BY DEF Push, freeVars
  <1>4. CASE trackers # next[a]
    <2>1. next' = [next EXCEPT ![a] = trackers] /\ UNCHANGED <<trackers, cell, hold, mpc>>
      BY <1>4 DEF Push
    <2>2. MemoryTyped'
      BY <1>1, <1>3, <2>1 DEF MemoryInv, MemoryTyped, freeVars
    <2>3. Pushing' /\ Passes'
      BY <1>3, <2>1 DEF MemoryInv, Pushing, Passes, freeVars
    <2>4. Tracked' = Tracked /\ \A x \in Tracked : next'[x] = next[x]
      BY <1>1, <2>1 DEF Tracked, MemoryInv, MemoryTyped
    <2>5. Lists(T, C, K)'
      BY <1>2, <1>3, <2>1, <2>2, <2>4, ListsKept DEF MemoryInv
    <2> QED
      BY <2>2, <2>3, <2>5 DEF MemoryInv
  <1>5. CASE trackers = next[a]
    <2>1. /\ trackers' = a /\ cell' = [cell EXCEPT ![a] = "tracked"] /\ hold' = [hold EXCEPT ![t] = NULL]
          /\ mpc' = [mpc EXCEPT ![t] = "run"] /\ next' = next
      BY <1>5 DEF Push
    <2>2. MemoryTyped'
      BY <1>1, <1>3, <2>1 DEF MemoryInv, MemoryTyped, freeVars
    <2>3. mpc'[t] = "run" /\ \A u \in Thread : u # t => mpc'[u] = mpc[u] /\ hold'[u] = hold[u]
      BY <2>1 DEF MemoryInv, MemoryTyped
    <2>4. Pushing'
      <3>1. ASSUME NEW u \in Thread, mpc'[u] = "push"
            PROVE  mpc[u] = "push" /\ hold'[u] = hold[u] /\ hold[u] \in Addr /\ cell'[hold[u]] = "held"
        BY <1>1, <2>1, <2>3, <3>1 DEF MemoryInv, MemoryTyped, Pushing
      <3> QED
        BY <3>1 DEF MemoryInv, Pushing
    <2>5. mpc'[Main] = mpc[Main] \/ (mpc[Main] = "push" /\ mpc'[Main] = "run")
      <3>1. CASE t = Main
        BY <1>1, <2>3, <3>1
      <3>2. CASE t # Main
        BY <2>3, <3>2, ThreadMemoryAssumption
      <3> QED
        BY <3>1, <3>2
    <2>6. Passes'
      BY <1>3, <2>5 DEF MemoryInv, Passes, freeVars
    <2>7. Tracked' = Tracked \union {a}
      BY <1>1, <2>1 DEF Tracked, MemoryInv, MemoryTyped
    <2>8. PICK b \in Addr : b = a
      BY <1>1
    <2>9. Tracked' = Tracked \union {b} /\ trackers' = b /\ trackers = next[b] /\ b \notin Tracked
      BY <1>1, <1>5, <2>1, <2>7, <2>8
    <2>10. ListOf(next', trackers', T \union {b})
      <3>1. ListOf(next, next[b], T) /\ b \notin T
        BY <1>2, <2>9 DEF Lists
      <3> QED
        BY <2>1, <2>9, <3>1, ListCons
    <2>11. Lists(T \union {b}, C, K)'
      <3>1. Kept(K) => Kept(K)'
        BY <1>3, <2>1 DEF Kept
      <3>2. b \notin C /\ b \notin K
        BY <1>2, <2>9 DEF Lists
      <3>3. CASE mpc'[Main] = mpc[Main]
        BY <1>2, <1>3, <2>1, <2>9, <2>10, <3>1, <3>2, <3>3 DEF Lists
      <3>4. CASE mpc[Main] = "push" /\ mpc'[Main] = "run"
        BY <1>2, <1>3, <2>1, <2>9, <2>10, <3>2, <3>4 DEF Lists
      <3> QED
        BY <2>5, <3>3, <3>4
    <2> QED
      BY <2>2, <2>4, <2>6, <2>11 DEF MemoryInv
  <1> QED
    BY <1>4, <1>5

(* What the steps of sxe_thread_memory_free have in common. *)
LEMMA MainSteps ==
    ASSUME MemoryInv, mpc[Main] # "push", NEW l \in {"run", "grab", "each", "link", "swap", "again"},
           mpc' = [mpc EXCEPT ![Main] = l], UNCHANGED hold,
           \A a \in Addr : cell[a] = "held" => cell'[a] = "held"
    PROVE  Pushing' /\ mpc'[Main] = l /\ \A t \in Thread : t # Main => mpc'[t] = mpc[t]
  <1>1. mpc'[Main] = l /\ \A t \in Thread : t # Main => mpc'[t] = mpc[t]
    BY ThreadMemoryAssumption DEF MemoryInv, MemoryTyped
  <1>2. \A t \in Thread : mpc'[t] = "push" => mpc[t] = "push"
    BY <1>1
  <1> QED
    BY <1>1, <1>2 DEF MemoryInv, Pushing

LEMMA MemoryFreeKeeps ==
    ASSUME MemoryInv, NEW mode \in Modes, MemoryFree(mode)
    PROVE  MemoryInv'
  <1>1. MemoryTyped'
    BY ThreadMemoryAssumption DEF MemoryFree, Goto, MemoryInv, MemoryTyped, Tracked
  <1>2. /\ mpc[Main] = "run" /\ mpc' = [mpc EXCEPT ![Main] = "grab"] /\ UNCHANGED <<trackers, next, cell, hold>>
        /\ keepers' = NULL /\ mlast' = NULL /\ old' = Tracked /\ tries' = 0 /\ what' = mode
    BY DEF MemoryFree, Goto
  <1>3. Pushing' /\ mpc'[Main] = "grab"
    BY <1>2, MainSteps
  <1>4. Passes'
    BY <1>2, <1>3, ThreadMemoryAssumption DEF Passes
  <1>5. PICK T, C, K \in SUBSET Addr : Lists(T, C, K)
    BY DEF MemoryInv
  <1>6. Tracked' = Tracked
    BY <1>2 DEF Tracked
  <1>7. Lists(T, {}, {})'
    BY <1>2, <1>3, <1>5, <1>6 DEF Lists
  <1> QED
    BY <1>1, <1>3, <1>4, <1>7 DEF MemoryInv

LEMMA GrabKeeps ==
    ASSUME MemoryInv, Grab
    PROVE  MemoryInv'
  <1>1. MemoryTyped'
    <2>1. tries \in 0 .. MaxTries /\ tries < MaxTries /\ MaxTries \in Nat
      BY ThreadMemoryAssumption DEF Grab, MemoryInv, MemoryTyped, Passes
    <2>2. tries' \in 0 .. MaxTries
      BY <2>1 DEF Grab
    <2> QED
      BY <2>2 DEF Grab, Goto, MemoryInv, MemoryTyped
  <1>2. /\ mpc[Main] = "grab" /\ mpc' = [mpc EXCEPT ![Main] = "each"] /\ UNCHANGED <<next, cell, hold, keepers, mlast, old, what>>
        /\ cur' = trackers /\ trackers' = NULL /\ unfreed' = 0 /\ tries' = tries + 1
    BY DEF Grab, Goto
  <1>3. Pushing' /\ mpc'[Main] = "each"
    BY <1>2, MainSteps
  <1>4. Passes'
    <2>1. tries' >= 1
      BY <1>2 DEF MemoryInv, MemoryTyped
    <2> QED
      BY <1>2, <1>3, <2>1 DEF Passes, MemoryInv
  <1>5. PICK T, C, K \in SUBSET Addr : Lists(T, C, K)
    BY DEF MemoryInv
  <1>6. Tracked' = Tracked
    BY <1>2 DEF Tracked
  <1>7. ListOf(next', trackers', {}) /\ ListOf(next', cur', T) /\ Cardinality({}) = 0
    BY <1>2, <1>5, ListEmpty, FS_EmptySet DEF Lists
  <1>8. Kept({})'
    BY <1>2, <1>5 DEF Lists, Kept
  <1>9. Lists({}, T, {})'
    BY <1>2, <1>3, <1>5, <1>6, <1>7, <1>8 DEF Lists
  <1> QED
    BY <1>1, <1>3, <1>4, <1>9 DEF MemoryInv

LEMMA KeepKeeps ==
    ASSUME MemoryInv, Keep
    PROVE  MemoryInv'
  <1>1. PICK c \in Addr : c = cur
    BY DEF Keep, MemoryInv, MemoryTyped
  <1>2. /\ mpc[Main] = "each" /\ UNCHANGED <<trackers, tid, cell, mpc, hold, what, tries, old>>
        /\ mlast' = IF mlast = NULL THEN c ELSE mlast
        /\ next' = [next EXCEPT ![c] = keepers] /\ keepers' = c /\ unfreed' = unfreed + 1 /\ cur' = next[c]
    BY <1>1 DEF Keep
  <1>3. MemoryTyped'
    BY <1>2 DEF MemoryInv, MemoryTyped
  <1>4. Pushing' /\ Passes'
    BY <1>2 DEF MemoryInv, Pushing, Passes
  <1>5. PICK T, C, K \in SUBSET Addr : Lists(T, C, K)
    BY DEF MemoryInv
  <1>6. /\ ListOf(next, cur, C) /\ (K # {} => next[mlast] = NULL) /\ T \intersect C = {}
        /\ (T \union C) \intersect K = {} /\ Kept(K) /\ Tracked = T \union C \union K
        /\ old \subseteq C \union K /\ unfreed = Cardinality(K) /\ ListOf(next, trackers, T)
    BY <1>2, <1>5 DEF Lists
  <1>7. c \in C /\ ListOf(next, next[c], C \ {c})
    BY <1>1, <1>6, ListTail, ThreadMemoryAssumption
  <1>8. next'[c] = keepers /\ \A x \in Addr : x # c => next'[x] = next[x]
    BY <1>2 DEF MemoryInv, MemoryTyped
  <1>9. ListOf(next', cur', C \ {c}) /\ ListOf(next', trackers', T)
    <2>1. ListOf(next', next[c], C \ {c})
      BY <1>7, <1>8, ListFrame
    <2>2. \A x \in T : next'[x] = next[x]
      BY <1>6, <1>7, <1>8
    <2>3. ListOf(next', trackers, T)
      BY <1>6, <2>2, ListFrame
    <2> QED
      BY <1>2, <2>1, <2>3
  <1>10. unfreed' = Cardinality(K \union {c})
    BY <1>2, <1>6, <1>7, AddrFinite, FS_AddElement
  <1>11. Kept(K \union {c})' /\ next'[mlast'] = NULL
    <2>1. CASE K = {}
      <3>1. keepers = NULL /\ mlast' = c /\ next'[c] = NULL
        BY <1>2, <1>6, <1>8, <2>1 DEF Kept
      <3>2. Cut(next', c)[c] = NULL
        BY <1>3 DEF Cut, MemoryTyped
      <3>3. ListOf(Cut(next', c), c, {} \union {c})
        BY <3>2, ListEmpty, ListCons
      <3> QED
        BY <1>2, <2>1, <3>1, <3>3 DEF Kept
    <2>2. CASE K # {}
      <3>1. mlast \in K /\ keepers \in K /\ ListOf(Cut(next, mlast), keepers, K) /\ mlast # NULL /\ mlast' = mlast
        BY <1>2, <1>6, <2>2, ThreadMemoryAssumption DEF Kept
      <3>2. \A x \in K : Cut(next', mlast)[x] = Cut(next, mlast)[x]
        BY <1>3, <1>6, <1>7, <1>8 DEF Cut, MemoryInv, MemoryTyped
      <3>3. ListOf(Cut(next', mlast), keepers, K)
        BY <3>1, <3>2, ListFrame
      <3>4. Cut(next', mlast)[c] = keepers /\ c \notin K
        BY <1>3, <1>6, <1>7, <1>8, <3>1 DEF Cut, MemoryTyped
      <3>5. ListOf(Cut(next', mlast), c, K \union {c})
        BY <3>3, <3>4, ListCons
      <3>6. next'[mlast] = NULL
        BY <1>6, <1>7, <1>8, <2>2, <3>1
      <3> QED
        BY <1>2, <3>1, <3>5, <3>6 DEF Kept
    <2> QED
      BY <2>1, <2>2
  <1>12. Tracked' = Tracked
    BY <1>2 DEF Tracked
  <1>13. Lists(T, C \ {c}, K \union {c})'
    BY <1>2, <1>6, <1>7, <1>9, <1>10, <1>11, <1>12 DEF Lists
  <1> QED
    BY <1>3, <1>4, <1>13 DEF MemoryInv

LEMMA FreeKeeps ==
    ASSUME MemoryInv, Free
    PROVE  MemoryInv'
  <1>1. PICK c \in Addr : c = cur
    BY DEF Free, MemoryInv, MemoryTyped
  <1>2. /\ mpc[Main] = "each" /\ UNCHANGED <<trackers, next, tid, mpc, hold, what, tries, keepers, mlast, unfreed>>
        /\ cell' = [cell EXCEPT ![c] = "free"] /\ cur' = next[c] /\ old' = old \ {c}
    BY <1>1 DEF Free
  <1>3. MemoryTyped'
    BY <1>2 DEF MemoryInv, MemoryTyped
  <1>4. PICK T, C, K \in SUBSET Addr : Lists(T, C, K)
    BY DEF MemoryInv
  <1>5. /\ ListOf(next, cur, C) /\ T \intersect C = {} /\ (T \union C) \intersect K = {}
        /\ Tracked = T \union C \union K /\ old \subseteq C \union K
    BY <1>2, <1>4 DEF Lists
  <1>6. c \in C /\ ListOf(next, next[c], C \ {c})
    BY <1>1, <1>5, ListTail, ThreadMemoryAssumption
  <1>7. Tracked' = Tracked \ {c} /\ cell[c] = "tracked"
    BY <1>2, <1>5, <1>6 DEF Tracked, MemoryInv, MemoryTyped
  <1>8. Pushing' /\ Passes'
    BY <1>2, <1>7 DEF MemoryInv, Pushing, Passes, MemoryTyped
  <1>9. Kept(K) => Kept(K)'
    BY <1>2 DEF Kept
  <1>10. Lists(T, C \ {c}, K)'
    BY <1>2, <1>4, <1>5, <1>6, <1>7, <1>9 DEF Lists
  <1> QED
    BY <1>3, <1>8, <1>10 DEF MemoryInv

LEMMA AllSeenKeeps ==
    ASSUME MemoryInv, AllSeen
    PROVE  MemoryInv'
  <1>1. MemoryTyped'
    BY DEF AllSeen, Goto, MemoryInv, MemoryTyped, freeVars
  <1>2. PICK l \in {"again", "link"} : l = IF keepers = NULL THEN "again" ELSE "link"
    OBVIOUS
  <1>3. /\ mpc[Main] = "each" /\ cur = NULL /\ mpc' = [mpc EXCEPT ![Main] = l]
        /\ UNCHANGED <<trackers, next, cell, hold, what, tries, cur, keepers, mlast, unfreed, old>>
    BY <1>2 DEF AllSeen, Goto, freeVars
  <1>4. Pushing' /\ mpc'[Main] = l
    BY <1>3, MainSteps
  <1>5. PICK T, C, K \in SUBSET Addr : Lists(T, C, K)
    BY DEF MemoryInv
  <1>6. /\ ListOf(next, cur, C) /\ (K # {} => next[mlast] = NULL) /\ Kept(K)
        /\ (T \union C) \intersect K = {} /\ Tracked = T \union C \union K
        /\ old \subseteq C \union K /\ unfreed = Cardinality(K) /\ ListOf(next, trackers, T)
    BY <1>3, <1>5 DEF Lists
  <1>7. C = {}
    BY <1>3, <1>6, ListHead
  <1>8. Tracked' = Tracked
    BY <1>3 DEF Tracked
  <1>9. keepers = NULL <=> K = {}
    BY <1>6, ThreadMemoryAssumption DEF Kept
  <1>10. Kept(K)'
    BY <1>3, <1>6 DEF Kept
  <1>11. Lists(T, {}, K)'
    <2>1. CASE K = {}
      BY <1>2, <1>3, <1>4, <1>6, <1>7, <1>8, <1>9, <2>1 DEF Lists
    <2>2. CASE K # {}
      BY <1>2, <1>3, <1>4, <1>6, <1>7, <1>8, <1>9, <1>10, <2>2 DEF Lists
    <2> QED
      BY <2>1, <2>2
  <1>12. Passes'
    BY <1>2, <1>3, <1>4 DEF MemoryInv, Passes
  <1> QED
    BY <1>1, <1>4, <1>11, <1>12 DEF MemoryInv

LEMMA LinkKeeps ==
    ASSUME MemoryInv, Link
    PROVE  MemoryInv'
  <1>1. /\ mpc[Main] = "link" /\ mpc' = [mpc EXCEPT ![Main] = "swap"] /\ cur' = trackers
        /\ next' = [next EXCEPT ![mlast] = trackers]
        /\ UNCHANGED <<trackers, tid, cell, hold, what, tries, keepers, mlast, unfreed, old>>
    BY DEF Link, Goto
  <1>2. PICK T, C, K \in SUBSET Addr : Lists(T, C, K)
    BY DEF MemoryInv
  <1>3. /\ mlast \in K /\ keepers \in K /\ ListOf(Cut(next, mlast), keepers, K) /\ C = {}
        /\ T \intersect K = {} /\ Tracked = T \union K /\ ListOf(next, trackers, T)
        /\ old \subseteq K /\ unfreed = Cardinality(K)
    BY <1>1, <1>2 DEF Lists, Kept
  <1>4. MemoryTyped'
    BY <1>1, <1>3 DEF MemoryInv, MemoryTyped
  <1>5. Pushing' /\ mpc'[Main] = "swap"
    BY <1>1, MainSteps
  <1>6. Passes'
    BY <1>1, <1>5 DEF MemoryInv, Passes
  <1>7. next'[mlast] = trackers /\ \A x \in Addr : x # mlast => next'[x] = next[x]
    BY <1>1, <1>3 DEF MemoryInv, MemoryTyped
  <1>8. ListOf(next', trackers', T) /\ trackers \in T \union {NULL}
    <2>1. ListOf(next', trackers, T)
      BY <1>3, <1>7, ListFrame
    <2> QED
      BY <1>1, <1>3, <2>1, ListHead
  <1>9. Kept(K)'
    <2>1. \A x \in K : Cut(next', mlast)[x] = Cut(next, mlast)[x]
      BY <1>4, <1>7 DEF Cut, MemoryInv, MemoryTyped
    <2>2. ListOf(Cut(next', mlast), keepers, K)
      BY <1>3, <2>1, ListFrame
    <2> QED
      BY <1>1, <1>3, <2>2 DEF Kept
  <1>10. Tracked' = Tracked
    BY <1>1 DEF Tracked
  <1>11. Lists(T, {}, K)'
    BY <1>1, <1>3, <1>5, <1>7, <1>8, <1>9, <1>10 DEF Lists
  <1> QED
    BY <1>4, <1>5, <1>6, <1>11 DEF MemoryInv

LEMMA SwapKeeps ==
    ASSUME MemoryInv, Swap
    PROVE  MemoryInv'
  <1>1. mpc[Main] = "swap" /\ UNCHANGED <<next, tid, cell, hold, what, tries, cur, keepers, mlast, unfreed, old>>
    BY DEF Swap, freeVars
  <1>2. PICK T, C, K \in SUBSET Addr : Lists(T, C, K)
    BY DEF MemoryInv
  <1>3. /\ mlast \in K /\ keepers \in K /\ ListOf(Cut(next, mlast), keepers, K) /\ C = {} /\ Kept(K)
        /\ T \intersect K = {} /\ Tracked = T \union K /\ ListOf(next, trackers, T) /\ next[mlast] = cur
        /\ next[mlast] \in T \union {NULL} /\ old \subseteq K /\ unfreed = Cardinality(K)
    BY <1>1, <1>2 DEF Lists, Kept
  <1>4. Tracked' = Tracked
    BY <1>1 DEF Tracked
  <1>5. CASE trackers # cur
    <2>1. mpc' = [mpc EXCEPT ![Main] = "link"] /\ trackers' = trackers
      BY <1>5 DEF Swap, Goto
    <2>2. Pushing' /\ mpc'[Main] = "link"
      BY <1>1, <2>1, MainSteps
    <2>3. MemoryTyped' /\ Passes'
      BY <1>1, <2>1, <2>2 DEF MemoryInv, MemoryTyped, Passes
    <2>4. Kept(K)'
      BY <1>1, <1>3 DEF Kept
    <2>5. Lists(T, {}, K)'
      BY <1>1, <1>3, <1>4, <2>1, <2>2, <2>4 DEF Lists
    <2> QED
      BY <2>2, <2>3, <2>5 DEF MemoryInv
  <1>6. CASE trackers = cur
    <2>1. mpc' = [mpc EXCEPT ![Main] = "again"] /\ trackers' = keepers
      BY <1>6 DEF Swap, Goto
    <2>2. Pushing' /\ mpc'[Main] = "again"
      BY <1>1, <2>1, MainSteps
    <2>3. MemoryTyped'
      BY <1>1, <2>1 DEF MemoryInv, MemoryTyped
    <2>4. Passes'
      BY <1>1, <2>2 DEF MemoryInv, Passes
    <2>5. ListOf(next', trackers', K \union T)
      <3>1. next \in [Addr -> Addr \union {NULL}] /\ K \intersect T = {} /\ ListOf(next, next[mlast], T)
        BY <1>3, <1>6 DEF MemoryInv, MemoryTyped
      <3>2. ListOf(next, keepers, K \union T)
        BY <1>3, <3>1, ListJoin
      <3> QED
        BY <1>1, <2>1, <3>2
    <2>6. Lists(K \union T, {}, K)'
      BY <1>1, <1>3, <1>4, <2>1, <2>2, <2>5 DEF Lists
    <2> QED
      BY <2>2, <2>3, <2>4, <2>6 DEF MemoryInv
  <1> QED
    BY <1>5, <1>6

LEMMA AgainKeeps ==
    ASSUME MemoryInv, OnePass, Again
    PROVE  MemoryInv'
  <1>1. ~ Retry
    <2>1. MaxTries = 1 => tries >= MaxTries
      BY DEF Again, MemoryInv, Passes
    <2>2. tries \in Nat /\ MaxTries \in Nat
      BY ThreadMemoryAssumption DEF MemoryInv, MemoryTyped
    <2> QED
      BY <2>1, <2>2 DEF Retry, OnePass, MemoryInv, Passes
  <1>2. /\ mpc[Main] = "again" /\ mpc' = [mpc EXCEPT ![Main] = "run"]
        /\ UNCHANGED <<trackers, next, tid, cell, hold, what, tries, cur, keepers, mlast, unfreed, old>>
    BY <1>1 DEF Again, Goto, freeVars
  <1>3. Pushing' /\ mpc'[Main] = "run"
    BY <1>2, MainSteps
  <1>4. MemoryTyped' /\ Passes'
    BY <1>2, <1>3 DEF MemoryInv, MemoryTyped, Passes
  <1>5. PICK T, C, K \in SUBSET Addr : Lists(T, C, K)
    BY DEF MemoryInv
  <1>6. Tracked' = Tracked
    BY <1>2 DEF Tracked
  <1>7. Lists(T, {}, {})'
    BY <1>2, <1>3, <1>5, <1>6 DEF Lists
  <1> QED
    BY <1>3, <1>4, <1>7 DEF MemoryInv
-----------------------------------------------------------------------------
(* The theorems. *)

LEMMA MemoryStep ==
    ASSUME MemoryInv, OnePass, [MemoryNext]_memVars
    PROVE  MemoryInv'
  <1>1. ASSUME NEW t \in Thread, NEW a \in Addr, Malloc(t, a) \/ MallocFails(t, a) PROVE MemoryInv'
    BY <1>1, MallocKeeps, MallocFailsKeeps
  <1>2. ASSUME NEW t \in Thread, Push(t) \/ Exit(t) \/ Spawn(t) PROVE MemoryInv'
    BY <1>2, PushKeeps, ComesAndGoesKeeps
  <1>3. ASSUME NEW mode \in Modes, MemoryFree(mode) PROVE MemoryInv'
    BY <1>3, MemoryFreeKeeps
  <1>4. CASE MainStep
    BY <1>4, GrabKeeps, KeepKeeps, FreeKeeps, AllSeenKeeps, LinkKeeps, SwapKeeps, AgainKeeps DEF MainStep
  <1>5. CASE UNCHANGED memVars
    <2>1. MemoryTyped'
      BY <1>5 DEF memVars, freeVars, MemoryInv, MemoryTyped
    <2>2. Pushing' /\ Passes'
      BY <1>5 DEF memVars, freeVars, MemoryInv, Pushing, Passes
    <2>3. Tracked' = Tracked
      BY <1>5 DEF memVars, Tracked
    <2>4. PICK T, C, K \in SUBSET Addr : Lists(T, C, K)
      BY DEF MemoryInv
    <2>5. Lists(T, C, K)'
      BY <1>5, <2>1, <2>3, <2>4, ListsKept DEF memVars, freeVars, MemoryInv
    <2> QED
      BY <2>1, <2>2, <2>5 DEF MemoryInv
  <1> QED
    BY <1>1, <1>2, <1>3, <1>4, <1>5 DEF MemoryNext

LEMMA MemoryInvariant == OnePass /\ MemorySpec => []MemoryInv
  <1> SUFFICES ASSUME OnePass PROVE MemorySpec => []MemoryInv
    OBVIOUS
  <1>1. MemoryInit => MemoryInv
    BY MemoryInitKeeps
  <1>2. MemoryInv /\ [MemoryNext]_memVars => MemoryInv'
    BY MemoryStep
  <1> QED
    BY <1>1, <1>2, PTL DEF MemorySpec

(* sxe_thread_memory_free, called by one thread while any number of others push trackers,
   exit and are born again, keeps and follows no tracker that was freed, in a call
   that passes over the list once. *)
THEOREM KeepersAreNotFreed == OnePass /\ MemorySpec => []KeepersNotFreed
  <1>1. MemoryInv => KeepersNotFreed
    BY MemoryInvAccounts
  <1> QED
    BY <1>1, MemoryInvariant, PTL

(* What it returns counts no less than the trackers that were there at its call. *)
LEMMA ReturnCounts ==
    ASSUME MemoryInv, mpc[Main] = "again"
    PROVE  unfreed \in Cardinality(old) .. Cardinality(Tracked)
  <1>1. PICK T, C, K \in SUBSET Addr : Lists(T, C, K)
    BY DEF MemoryInv
  <1>2. old \in SUBSET K /\ K \in SUBSET Tracked /\ unfreed = Cardinality(K) /\ Tracked \in SUBSET Addr
    BY <1>1 DEF Lists
  <1>3. IsFiniteSet(K) /\ IsFiniteSet(Tracked)
    BY <1>2, AddrFinite
  <1>4. Cardinality(old) <= Cardinality(K)
    BY <1>2, <1>3, FS_Subset
  <1>5. Cardinality(K) <= Cardinality(Tracked)
    BY <1>2, <1>3, FS_Subset
  <1>6. Cardinality(old) \in Nat /\ Cardinality(K) \in Nat /\ Cardinality(Tracked) \in Nat
    BY <1>2, AddrFinite
  <1> QED
    BY <1>2, <1>4, <1>5, <1>6

(* Under the same condition no tracker is forgotten: every one that was pushed and not
   freed is on the shared list or on one in the hands of sxe_thread_memory_free, and
   the number that function returns lies between those that were there at the call
   and all. *)
THEOREM TrackersNotForgotten == OnePass /\ MemorySpec => NoneForgotten
  <1>1. MemoryInv => Accounted /\ MemoryTyped
    BY MemoryInvAccounts
  <1>2. MemoryInv /\ Accounted' /\ MemoryTyped' /\ [MemoryNext]_memVars =>
          [/\ MemoryTyped' /\ Accounted'
           /\ mpc[Main] = "again" /\ mpc'[Main] = "run" =>
                 unfreed \in Cardinality(old) .. Cardinality(Tracked)]_memVars
    BY ReturnCounts
  <1> QED
    BY <1>1, <1>2, MemoryInvariant, PTL DEF MemorySpec, NoneForgotten
=============================================================================
