------------------------ MODULE SxePoolTimeoutsProofs ------------------------
(***************************************************************************)
(* A scan of sxe_pool_check_timeouts is sound for any pools, timeouts and  *)
(* elements: callbacks are called when their time has come and not before, *)
(* and when the scan returns nobody has been missed.                       *)
(*                                                                         *)
(* Both rest on the queues being ordered by the time of the last move (the *)
(* scan looks at heads only) and on where the scan is: behind it nothing   *)
(* is overdue.  Nothing is assumed of the timeouts or of what callbacks do *)
(* to elements and pools.                                                  *)
(***************************************************************************)
EXTENDS SxePoolTimeouts, TLAPS

Once(q) == \A i, j \in DOMAIN q : q[i] = q[j] => i = j

(* The queues q of a pool: no element is on two or twice on one, and those that were
   moved earlier, according to l, come first. *)
Tidy(q, l) ==
    /\ \A s \in State : Once(q[s])
    /\ \A r, s \in State : r # s => On(q[r]) \intersect On(q[s]) = {}
    /\ \A s \in State : \A i, j \in DOMAIN q[s] : i <= j => l[q[s][i]] <= l[q[s][j]]

Lists ==
    /\ pools \in Seq(Pool) /\ Once(pools)
    /\ \A p \in Pool : Tidy(queue[p], last[p])
    /\ \A p \in Pool, e \in Element : last[p][e] <= clock

(* Where the scan is, and the element whose callback is running or was the last to. *)
Place ==
    /\ pc = "idle" => pool = NoPool
    /\ InScan => pool \in Listed
    /\ pc = "scan" /\ state \in State /\ prev.index \in On(queue[pool][state]) =>
          Wrapped \/ last[pool][prev.index] # prev.time
    /\ pc = "callback" => /\ state \in State /\ Timeout[state] # 0
                          /\ prev.index \in On(queue[pool][state])

(* At time n nothing on q[s] is overdue. *)
InTime(q, l, n, s) == Timeout[s] # 0 => \A e \in On(q[s]) : n - l[e] < Timeout[s]

ScanSound ==
    InScan => \A k, i \in DOMAIN pools, s \in State : pools[k] = pool =>
        (i < k \/ (i = k /\ s < state) => InTime(queue[pools[i]], last[pools[i]], now, s))

Inv == TypeOK /\ FiresOnlyWhenDue /\ AbortsOnlyWrapped /\ Lists /\ Place /\ ScanSound
-----------------------------------------------------------------------------
(* Sequences without repetitions. *)

LEMMA SeqFacts ==
    ASSUME NEW S, NEW q \in Seq(S)
    PROVE  /\ Len(q) \in Nat /\ DOMAIN q = 1 .. Len(q) /\ DOMAIN q \subseteq Nat
           /\ \A i \in DOMAIN q : q[i] \in S
  OBVIOUS

LEMMA AppendFacts ==
    ASSUME NEW S, NEW q \in Seq(S), NEW e \in S
    PROVE  /\ Append(q, e) \in Seq(S)
           /\ DOMAIN Append(q, e) = 1 .. Len(q) + 1
           /\ \A i \in 1 .. Len(q) : Append(q, e)[i] = q[i]
           /\ Append(q, e)[Len(q) + 1] = e
  OBVIOUS

(* The positions of what is left when e is removed. *)
LEMMA WithoutShifts ==
    ASSUME NEW S, NEW q \in Seq(S), NEW e, e \in On(q), Once(q)
    PROVE  \E k \in DOMAIN q :
              /\ q[k] = e
              /\ Without(q, e) \in Seq(S) /\ Len(Without(q, e)) = Len(q) - 1
              /\ DOMAIN Without(q, e) = 1 .. Len(q) - 1
              /\ \A i \in 1 .. Len(q) - 1 : Without(q, e)[i] = IF i < k THEN q[i] ELSE q[i + 1]
  <1> DEFINE k == CHOOSE i \in DOMAIN q : q[i] = e
             w == [i \in 1 .. Len(q) - 1 |-> IF i < k THEN q[i] ELSE q[i + 1]]
  <1>1. Len(q) \in Nat /\ DOMAIN q = 1 .. Len(q) /\ \A i \in 1 .. Len(q) : q[i] \in S
    OBVIOUS
  <1>2. k \in DOMAIN q /\ q[k] = e
    BY DEF On
  <1>3. Len(q) - 1 \in Nat
    BY <1>1, <1>2
  <1>4. \A i \in 1 .. Len(q) - 1 : (IF i < k THEN q[i] ELSE q[i + 1]) \in S
    BY <1>1, <1>2
  <1>5. w \in Seq(S) /\ Len(w) = Len(q) - 1
    BY <1>3, <1>4
  <1>6. Without(q, e) = w
    BY DEF Without
  <1> HIDE DEF k
  <1>7. \A i \in 1 .. Len(q) - 1 : w[i] = IF i < k THEN q[i] ELSE q[i + 1]
    OBVIOUS
  <1>8. DOMAIN w = 1 .. Len(q) - 1
    OBVIOUS
  <1> QED
    BY <1>2, <1>5, <1>6, <1>7, <1>8

(* What is left is in the same order. *)
LEMMA WithoutOrder ==
    ASSUME NEW S, NEW q \in Seq(S), NEW e, e \in On(q), Once(q)
    PROVE  \A i, j \in DOMAIN Without(q, e) : \E a, b \in DOMAIN q :
              /\ Without(q, e)[i] = q[a] /\ Without(q, e)[j] = q[b]
              /\ q[a] # e /\ q[b] # e
              /\ (i < j => a < b) /\ (i > j => a > b) /\ (i = j => a = b)
  <1>1. PICK k \in DOMAIN q :
              /\ q[k] = e
              /\ Without(q, e) \in Seq(S) /\ Len(Without(q, e)) = Len(q) - 1
              /\ DOMAIN Without(q, e) = 1 .. Len(q) - 1
              /\ \A i \in 1 .. Len(q) - 1 : Without(q, e)[i] = IF i < k THEN q[i] ELSE q[i + 1]
    BY WithoutShifts
  <1>2. Len(q) \in Nat /\ DOMAIN q = 1 .. Len(q)
    OBVIOUS
  <1> TAKE i, j \in DOMAIN Without(q, e)
  <1>3. i \in 1 .. Len(q) - 1 /\ j \in 1 .. Len(q) - 1
    BY <1>1
  <1> DEFINE to(n) == IF n < k THEN n ELSE n + 1
  <1>4. to(i) \in DOMAIN q /\ to(j) \in DOMAIN q /\ to(i) # k /\ to(j) # k
    BY <1>2, <1>3
  <1>5. (i < j => to(i) < to(j)) /\ (i > j => to(i) > to(j)) /\ (i = j => to(i) = to(j))
    BY <1>2, <1>3
  <1>6. Without(q, e)[i] = q[to(i)] /\ Without(q, e)[j] = q[to(j)]
    BY <1>1, <1>3
  <1>7. q[to(i)] # e /\ q[to(j)] # e
    BY <1>1, <1>4 DEF Once
  <1>8. PICK a, b \in DOMAIN q : a = to(i) /\ b = to(j)
    BY <1>4
  <1>9. /\ Without(q, e)[i] = q[a] /\ Without(q, e)[j] = q[b]
        /\ q[a] # e /\ q[b] # e
        /\ (i < j => a < b) /\ (i > j => a > b) /\ (i = j => a = b)
    BY <1>5, <1>6, <1>7, <1>8
  <1> HIDE DEF to
  <1> QED
    BY <1>9

(* What is left is everything but e, each once. *)
LEMMA WithoutOn ==
    ASSUME NEW S, NEW q \in Seq(S), NEW e, e \in On(q), Once(q)
    PROVE  On(Without(q, e)) = On(q) \ {e} /\ Once(Without(q, e))
  <1> DEFINE w == Without(q, e)
  <1>1. PICK k \in DOMAIN q :
              /\ q[k] = e
              /\ w \in Seq(S) /\ Len(w) = Len(q) - 1
              /\ DOMAIN w = 1 .. Len(q) - 1
              /\ \A i \in 1 .. Len(q) - 1 : w[i] = IF i < k THEN q[i] ELSE q[i + 1]
    BY WithoutShifts
  <1>2. \A i, j \in DOMAIN w : \E a, b \in DOMAIN q :
              /\ w[i] = q[a] /\ w[j] = q[b]
              /\ q[a] # e /\ q[b] # e
              /\ (i < j => a < b) /\ (i > j => a > b) /\ (i = j => a = b)
    BY WithoutOrder
  <1>3. Len(q) \in Nat /\ DOMAIN q = 1 .. Len(q)
    OBVIOUS
  <1> HIDE DEF w
  <1>4. On(w) \subseteq On(q) \ {e}
    BY <1>2 DEF On
  <1>5. ASSUME NEW x \in On(q) \ {e} PROVE x \in On(w)
    <2>1. PICK i \in DOMAIN q : q[i] = x
      BY DEF On
    <2>2. i # k
      BY <2>1, <1>1
    <2>3. CASE i < k
      <3>1. i \in 1 .. Len(q) - 1 /\ w[i] = q[i]
        BY <2>3, <1>1, <1>3
      <3> QED
        BY <3>1, <2>1, <1>1 DEF On
    <2>4. CASE i > k
      <3>1. i - 1 \in 1 .. Len(q) - 1 /\ ~ (i - 1 < k) /\ (i - 1) + 1 = i
        BY <2>4, <1>3
      <3>2. w[i - 1] = q[(i - 1) + 1]
        BY <3>1, <1>1
      <3>3. w[i - 1] = x
        BY <3>1, <3>2, <2>1
      <3> QED
        BY <3>1, <3>3, <1>1 DEF On
    <2> QED
      BY <2>2, <2>3, <2>4, <1>3
  <1>6. ASSUME NEW i \in DOMAIN w, NEW j \in DOMAIN w, w[i] = w[j] PROVE i = j
    <2>1. PICK a, b \in DOMAIN q :
              /\ w[i] = q[a] /\ w[j] = q[b]
              /\ (i < j => a < b) /\ (i > j => a > b)
      BY <1>2
    <2>2. a = b
      BY <2>1, <1>6 DEF Once
    <2>3. ~ (i < j) /\ ~ (i > j)
      BY <2>1, <2>2, <1>3
    <2> QED
      BY <2>3, <1>1
  <1>7. On(w) = On(q) \ {e} /\ Once(w)
    BY <1>4, <1>5, <1>6 DEF Once
  <1> QED
    BY <1>7 DEF w

(* What was not on a list is put behind it. *)
LEMMA AppendOn ==
    ASSUME NEW S, NEW q \in Seq(S), NEW e \in S, e \notin On(q), Once(q)
    PROVE  On(Append(q, e)) = On(q) \union {e} /\ Once(Append(q, e))
  <1>1. /\ Len(q) \in Nat /\ DOMAIN q = 1 .. Len(q)
        /\ DOMAIN Append(q, e) = 1 .. Len(q) + 1
        /\ \A i \in 1 .. Len(q) : Append(q, e)[i] = q[i]
        /\ Append(q, e)[Len(q) + 1] = e
    OBVIOUS
  <1>2. \A i \in 1 .. Len(q) : q[i] # e
    BY <1>1 DEF On
  <1>3. Once(Append(q, e))
    BY <1>1, <1>2 DEF Once
  <1>4. On(Append(q, e)) = On(q) \union {e}
    BY <1>1 DEF On
  <1> QED
    BY <1>3, <1>4
-----------------------------------------------------------------------------
(* The queues of one pool. *)

Moved(q, e, from, to) == [[q EXCEPT ![from] = Without(@, e)] EXCEPT ![to] = Append(@, e)]
Stamped(l, e, c)      == [l EXCEPT ![e] = c]

(* From the queues q and the times l the move of e to the queue to has made n and m. *)
MoveDone(q, l, e, to, c, n, m) ==
    /\ n \in [State -> Seq(Element)] /\ m \in [Element -> 0 .. MaxClock]
    /\ \A f \in Element : m[f] = IF f = e THEN c ELSE l[f]
    /\ Tidy(n, m)
    /\ On(n[to]) = (On(q[to]) \ {e}) \union {e}
    /\ \A s \in State \ {to} : On(n[s]) = On(q[s]) \ {e}

(* An element that is moved and stamped leaves the queues tidy; it is on the one it
   was moved to and on no other. *)
LEMMA MovedTidy ==
    ASSUME NEW q \in [State -> Seq(Element)], NEW l \in [Element -> 0 .. MaxClock], Tidy(q, l),
           NEW c \in 0 .. MaxClock, \A f \in Element : l[f] <= c,
           NEW from \in State, NEW to \in State, NEW e \in Element, e \in On(q[from]),
           NEW n, n = Moved(q, e, from, to), NEW m, m = Stamped(l, e, c)
    PROVE  MoveDone(q, l, e, to, c, n, m)
  <1>0. MaxClock \in Nat
    BY TimeoutsAssumption
  <1>1. m \in [Element -> 0 .. MaxClock] /\ \A f \in Element : m[f] = IF f = e THEN c ELSE l[f]
    BY DEF Stamped
  <1>2. PICK w \in Seq(Element) :
           /\ w = Without(q[from], e)
           /\ On(w) = On(q[from]) \ {e} /\ Once(w)
           /\ \A i, j \in DOMAIN w : \E a, b \in DOMAIN q[from] :
                 /\ w[i] = q[from][a] /\ w[j] = q[from][b]
                 /\ (i < j => a < b) /\ (i = j => a = b)
    <2>1. q[from] \in Seq(Element) /\ Once(q[from])
      BY DEF Tidy
    <2>2. Without(q[from], e) \in Seq(Element)
      BY <2>1, WithoutShifts
    <2>3. On(Without(q[from], e)) = On(q[from]) \ {e} /\ Once(Without(q[from], e))
      BY <2>1, WithoutOn
    <2>4. \A i, j \in DOMAIN Without(q[from], e) : \E a, b \in DOMAIN q[from] :
             /\ Without(q[from], e)[i] = q[from][a] /\ Without(q[from], e)[j] = q[from][b]
             /\ (i < j => a < b) /\ (i = j => a = b)
      BY <2>1, WithoutOrder
    <2> QED
      BY <2>2, <2>3, <2>4
  <1>3. PICK r \in [State -> Seq(Element)] : r = [q EXCEPT ![from] = w]
    OBVIOUS
  <1>4. n = [r EXCEPT ![to] = Append(@, e)]
    BY <1>2, <1>3 DEF Moved
  <1>5. \A s \in State : r[s] = IF s = from THEN w ELSE q[s]
    BY <1>3
  <1>6. \A s \in State : On(r[s]) = On(q[s]) \ {e} /\ Once(r[s])
    <2>1. \A s \in State \ {from} : e \notin On(q[s])
      BY DEF Tidy
    <2>2. \A s \in State \ {from} : On(q[s]) \ {e} = On(q[s])
      BY <2>1
    <2> QED
      BY <2>2, <1>2, <1>5 DEF Tidy
  <1>7. \A s \in State : \A i, j \in DOMAIN r[s] : i <= j => l[r[s][i]] <= l[r[s][j]]
    <2> TAKE s \in State
    <2> TAKE i, j \in DOMAIN r[s]
    <2> HAVE i <= j
    <2>1. CASE s # from
      <3>1. r[s] = q[s]
        BY <2>1, <1>5
      <3> QED
        BY <3>1 DEF Tidy
    <2>2. CASE s = from
      <3>1. r[s] = w
        BY <2>2, <1>5
      <3>2. PICK a, b \in DOMAIN q[from] :
                 /\ w[i] = q[from][a] /\ w[j] = q[from][b]
                 /\ (i < j => a < b) /\ (i = j => a = b)
        BY <3>1, <1>2
      <3>3. q[from] \in Seq(Element) /\ i \in DOMAIN w /\ j \in DOMAIN w
        BY <3>1
      <3>4. i \in Nat /\ j \in Nat /\ a \in Nat /\ b \in Nat
        <4>1. DOMAIN w \subseteq Nat
          BY SeqFacts
        <4>2. DOMAIN q[from] \subseteq Nat
          BY <3>3, SeqFacts
        <4> QED
          BY <4>1, <4>2, <3>3, Zenon
      <3>5. a <= b
        BY <3>2, <3>4
      <3>6. l[q[from][a]] <= l[q[from][b]]
        BY <3>5 DEF Tidy
      <3> QED
        BY <3>1, <3>2, <3>6
    <2> QED
      BY <2>1, <2>2
  <1>8. /\ Append(r[to], e) \in Seq(Element)
        /\ On(Append(r[to], e)) = On(r[to]) \union {e} /\ Once(Append(r[to], e))
    <2>1. r[to] \in Seq(Element) /\ e \notin On(r[to]) /\ Once(r[to])
      BY <1>6
    <2> QED
      BY <2>1, AppendOn
  <1>9. n \in [State -> Seq(Element)] /\ \A s \in State : n[s] = IF s = to THEN Append(r[to], e) ELSE r[s]
    BY <1>4, <1>8
  <1>10. \A s \in State \ {to} : On(n[s]) = On(q[s]) \ {e}
    BY <1>6, <1>9
  <1>11. On(n[to]) = (On(q[to]) \ {e}) \union {e}
    BY <1>6, <1>8, <1>9
  <1>12. \A s \in State : Once(n[s])
    BY <1>6, <1>8, <1>9
  <1>13. \A s, t \in State : s # t => On(n[s]) \intersect On(n[t]) = {}
    <2>1. \A s, t \in State : s # t => On(q[s]) \intersect On(q[t]) = {}
      BY DEF Tidy
    <2>2. \A s \in State : On(n[s]) = IF s = to THEN (On(q[s]) \ {e}) \union {e} ELSE On(q[s]) \ {e}
      BY <1>10, <1>11
    <2> QED
      BY <2>1, <2>2
  <1>14. \A s \in State : \A i, j \in DOMAIN n[s] : i <= j => m[n[s][i]] <= m[n[s][j]]
    <2> TAKE s \in State
    <2> TAKE i, j \in DOMAIN n[s]
    <2> HAVE i <= j
    <2>1. /\ r[s] \in Seq(Element) /\ Len(r[s]) \in Nat /\ DOMAIN r[s] = 1 .. Len(r[s])
          /\ \A k \in DOMAIN r[s] : r[s][k] \in Element
      <3>1. r[s] \in Seq(Element)
        OBVIOUS
      <3> QED
        BY <3>1, SeqFacts
    <2>2. \A k \in DOMAIN r[s] : r[s][k] # e /\ m[r[s][k]] = l[r[s][k]]
      <3>1. \A k \in DOMAIN r[s] : r[s][k] \in On(r[s])
        BY DEF On
      <3>2. \A k \in DOMAIN r[s] : r[s][k] # e
        BY <3>1, <1>6
      <3> QED
        BY <3>2, <2>1, <1>1
    <2>3. CASE s # to
      <3>1. n[s] = r[s]
        BY <2>3, <1>9
      <3> QED
        BY <3>1, <2>2, <1>7
    <2>4. CASE s = to
      <3>1. n[s] = Append(r[s], e)
        BY <2>4, <1>9
      <3>2. /\ DOMAIN n[s] = 1 .. Len(r[s]) + 1
            /\ \A k \in 1 .. Len(r[s]) : n[s][k] = r[s][k]
            /\ n[s][Len(r[s]) + 1] = e
        <4>1. PICK v \in Seq(Element) : v = r[s]
          BY <2>1
        <4>2. /\ DOMAIN Append(v, e) = 1 .. Len(v) + 1
              /\ \A k \in 1 .. Len(v) : Append(v, e)[k] = v[k]
              /\ Append(v, e)[Len(v) + 1] = e
          BY AppendFacts
        <4> QED
          BY <4>1, <4>2, <3>1
      <3>3. CASE j \in 1 .. Len(r[s])
        <4>0. i \in 1 .. Len(r[s]) + 1 /\ Len(r[s]) \in Nat
          BY <3>2, <2>1
        <4>1. i \in 1 .. Len(r[s])
          BY <4>0, <3>3
        <4>2. l[r[s][i]] <= l[r[s][j]]
          BY <4>1, <3>3, <2>1, <1>7
        <4> QED
          BY <4>1, <4>2, <3>2, <3>3, <2>1, <2>2
      <3>4. CASE j = Len(r[s]) + 1
        <4>1. n[s] \in Seq(Element)
          BY <1>9
        <4>3. n[s][i] \in Element
          BY <4>1, SeqFacts
        <4>2. m[n[s][i]] \in 0 .. MaxClock /\ m[n[s][i]] <= c
          <5>1. PICK v \in Element : v = n[s][i]
            BY <4>3
          <5>2. m[v] \in 0 .. MaxClock /\ m[v] = IF v = e THEN c ELSE l[v]
            BY <1>1
          <5>3. l[v] <= c /\ c <= c
            BY <1>0
          <5> QED
            BY <5>1, <5>2, <5>3
        <4> QED
          BY <4>2, <3>2, <3>4, <1>1
      <3>5. j \in 1 .. Len(r[s]) + 1 /\ Len(r[s]) \in Nat
        BY <3>2, <2>1
      <3>6. j \in 1 .. Len(r[s]) \/ j = Len(r[s]) + 1
        BY <3>5
      <3> QED
        BY <3>3, <3>4, <3>6
    <2> QED
      BY <2>3, <2>4
  <1>15. Tidy(n, m)
    BY <1>12, <1>13, <1>14 DEF Tidy
  <1> QED
    BY <1>1, <1>9, <1>10, <1>11, <1>15 DEF MoveDone

(* Queues with nothing on them are tidy. *)
LEMMA EmptyTidy ==
    ASSUME NEW l
    PROVE  /\ [s \in State |-> <<>>] \in [State -> Seq(Element)]
           /\ Tidy([s \in State |-> <<>>], l)
  BY DEF Tidy, Once, On

(* So are those of a new pool. *)
LEMMA FreshTidy ==
    ASSUME NEW c \in 0 .. MaxClock,
           NEW n, n = [s \in State |-> IF s = 0 THEN [i \in 1 .. Number |-> Number - i] ELSE <<>>],
           NEW m, m = [e \in Element |-> c]
    PROVE  /\ n \in [State -> Seq(Element)] /\ m \in [Element -> 0 .. MaxClock]
           /\ \A s \in State \ {0} : On(n[s]) = {}
           /\ \A e \in Element : m[e] = c
           /\ Tidy(n, m)
  <1>0. Number \in Nat \ {0} /\ MaxClock \in Nat
    BY TimeoutsAssumption
  <1>1. PICK h : h = [i \in 1 .. Number |-> Number - i]
    OBVIOUS
  <1>2. \A i \in 1 .. Number : h[i] = Number - i /\ h[i] \in Element
    BY <1>0, <1>1 DEF Element
  <1>3. h \in Seq(Element) /\ DOMAIN h = 1 .. Number
    BY <1>0, <1>1, <1>2
  <1>4. \A s \in State : n[s] = IF s = 0 THEN h ELSE <<>>
    BY <1>1
  <1>5. n \in [State -> Seq(Element)]
    <2>1. <<>> \in Seq(Element)
      OBVIOUS
    <2>2. n = [s \in State |-> IF s = 0 THEN h ELSE <<>>]
      BY <1>1
    <2> QED
      BY <2>1, <2>2, <1>3
  <1>6. m \in [Element -> 0 .. MaxClock] /\ \A e \in Element : m[e] = c
    OBVIOUS
  <1>7. \A s \in State \ {0} : On(n[s]) = {}
    BY <1>4 DEF On
  <1>8. Once(h)
    BY <1>0, <1>2, <1>3 DEF Once
  <1>9. \A s \in State : Once(n[s])
    <2>1. Once(<<>>)
      BY DEF Once
    <2> QED
      BY <2>1, <1>4, <1>8
  <1>10. \A s \in State : \A i \in DOMAIN n[s] : n[s][i] \in Element
    BY <1>5, SeqFacts
  <1>11. \A s \in State : \A i, j \in DOMAIN n[s] : i <= j => m[n[s][i]] <= m[n[s][j]]
    <2>1. \A s \in State : \A i \in DOMAIN n[s] : m[n[s][i]] = c
      BY <1>6, <1>10
    <2>2. c <= c
      BY <1>0
    <2> QED
      BY <2>1, <2>2
  <1>12. \A r, s \in State : r # s => On(n[r]) \intersect On(n[s]) = {}
    BY <1>7
  <1>13. Tidy(n, m)
    BY <1>9, <1>11, <1>12 DEF Tidy
  <1> QED
    BY <1>5, <1>6, <1>7, <1>13
-----------------------------------------------------------------------------
(* The invariant. *)

LEMMA InitInv == Init => Inv
  <1> SUFFICES ASSUME Init PROVE Inv
    OBVIOUS
  <1>0. /\ Number \in Nat \ {0} /\ States \in Nat \ {0} /\ MaxClock \in Nat
    BY TimeoutsAssumption
  <1>1. pools = <<>> /\ clock = 0 /\ pc = "idle" /\ now = 0 /\ pool = NoPool /\ state = 0
    BY DEF Init
  <1>2. prev.index = NoIndex /\ prev.time = 0
    BY DEF Init, NoneYet
  <1>3. \A p \in Pool : queue[p] = [s \in State |-> <<>>] /\ last[p] = [e \in Element |-> 0]
    BY DEF Init
  <1>4. queue \in [Pool -> [State -> Seq(Element)]]
    BY EmptyTidy DEF Init
  <1>5. last \in [Pool -> [Element -> 0 .. MaxClock]]
    BY <1>0 DEF Init
  <1>6. TypeOK
    BY <1>0, <1>1, <1>2, <1>4, <1>5 DEF TypeOK, Listed
  <1>7. \A p \in Pool : Tidy(queue[p], last[p])
    BY <1>3, EmptyTidy
  <1>8. Lists
    BY <1>0, <1>1, <1>3, <1>7 DEF Lists, Once
  <1> QED
    BY <1>1, <1>6, <1>8 DEF Inv, FiresOnlyWhenDue, AbortsOnlyWrapped, Place, ScanSound, InScan

(* The pools of the list, and the one the scan is at. *)
LEMMA PoolsListed ==
    ASSUME Inv
    PROVE  /\ DOMAIN pools = 1 .. Len(pools) /\ Len(pools) \in Nat
           /\ \A i \in DOMAIN pools : pools[i] \in Pool /\ pools[i] \in Listed /\ pools[i] # NoPool
           /\ InScan => \E k \in DOMAIN pools : pools[k] = pool
  <1>1. pools \in Seq(Pool)
    BY DEF Inv, Lists
  <1>2. DOMAIN pools = 1 .. Len(pools) /\ Len(pools) \in Nat /\ \A i \in DOMAIN pools : pools[i] \in Pool
    BY <1>1, SeqFacts
  <1>3. \A i \in DOMAIN pools : pools[i] \in Listed
    BY DEF Listed
  <1>4. InScan => \E k \in DOMAIN pools : pools[k] = pool
    BY DEF Inv, Place, Listed
  <1> QED
    BY <1>2, <1>3, <1>4, TimeoutsAssumption

(* The elements on a queue are elements. *)
LEMMA OnElements ==
    ASSUME TypeOK, NEW p \in Pool, NEW s \in State
    PROVE  On(queue[p][s]) \subseteq Element
  <1>1. queue[p][s] \in Seq(Element)
    BY DEF TypeOK
  <1> QED
    BY <1>1, SeqFacts DEF On

LEMMA TickInv == Inv /\ Tick => Inv'
  <1> SUFFICES ASSUME Inv, Tick PROVE Inv'
    OBVIOUS
  <1>0. MaxClock \in Nat /\ clock \in 0 .. MaxClock /\ now \in 0 .. clock
    BY TimeoutsAssumption DEF Inv, TypeOK
  <1>1. /\ clock' = clock + 1 /\ clock < MaxClock
        /\ UNCHANGED <<pools, queue, last, pc, now, pool, state, prev>>
    BY DEF Tick, scanVars
  <1>2. clock' \in 0 .. MaxClock /\ now' \in 0 .. clock'
    BY <1>0, <1>1
  <1>3. TypeOK'
    BY <1>1, <1>2 DEF Inv, TypeOK, Listed
  <1>4. FiresOnlyWhenDue' /\ AbortsOnlyWrapped'
    BY <1>1 DEF Inv, FiresOnlyWhenDue, AbortsOnlyWrapped, Wrapped
  <1>5. Lists'
    <2>1. \A p \in Pool, e \in Element : last[p][e] <= clock /\ last[p][e] \in 0 .. MaxClock
      BY DEF Inv, Lists, TypeOK
    <2>2. \A p \in Pool, e \in Element : last'[p][e] <= clock'
      BY <2>1, <1>0, <1>1
    <2> QED
      BY <2>2, <1>1 DEF Inv, Lists
  <1>6. Place'
    BY <1>1 DEF Inv, Place, InScan, Listed, Wrapped
  <1>7. ScanSound'
    BY <1>1 DEF Inv, ScanSound, InScan
  <1> QED
    BY <1>3, <1>4, <1>5, <1>6, <1>7 DEF Inv

(* sxe_pool_new_with_timeouts: in a callback, the scan comes to the pool in the end. *)
LEMMA NewInv == \A p \in Pool : Inv /\ NewWithTimeouts(p) => Inv'
  <1> SUFFICES ASSUME NEW p \in Pool, Inv, NewWithTimeouts(p) PROVE Inv'
    OBVIOUS
  <1>0. MaxClock \in Nat /\ clock \in 0 .. MaxClock /\ now \in 0 .. clock
    BY TimeoutsAssumption DEF Inv, TypeOK
  <1>1. /\ UNCHANGED <<clock, pc, now, pool, state, prev>>
        /\ pc \in {"idle", "callback"} /\ p \notin Listed
        /\ pools' = Append(pools, p)
    BY DEF NewWithTimeouts, scanVars
  <1>2. /\ queue'[p] = [s \in State |-> IF s = 0 THEN [i \in 1 .. Number |-> Number - i] ELSE <<>>]
        /\ last'[p] = [e \in Element |-> clock]
        /\ \A r \in Pool \ {p} : queue'[r] = queue[r] /\ last'[r] = last[r]
        /\ DOMAIN queue' = Pool /\ DOMAIN last' = Pool
        /\ queue' = [r \in Pool |-> queue'[r]] /\ last' = [r \in Pool |-> last'[r]]
    BY DEF NewWithTimeouts, Inv, TypeOK
  <1>3. /\ queue'[p] \in [State -> Seq(Element)] /\ last'[p] \in [Element -> 0 .. MaxClock]
        /\ \A s \in State \ {0} : On(queue'[p][s]) = {}
        /\ \A e \in Element : last'[p][e] = clock
        /\ Tidy(queue'[p], last'[p])
    BY <1>0, <1>2, FreshTidy
  <1>4. pools \in Seq(Pool) /\ Once(pools) /\ p \notin On(pools)
    BY <1>1 DEF Inv, Lists, Listed, On
  <1>5. /\ Append(pools, p) \in Seq(Pool)
        /\ DOMAIN Append(pools, p) = 1 .. Len(pools) + 1
        /\ \A i \in 1 .. Len(pools) : Append(pools, p)[i] = pools[i]
        /\ Append(pools, p)[Len(pools) + 1] = p
        /\ Once(Append(pools, p)) /\ On(Append(pools, p)) = On(pools) \union {p}
    BY <1>4, AppendFacts, AppendOn
  <1>6. Listed' = Listed \union {p}
    BY <1>1, <1>5 DEF Listed, On
  <1>7. TypeOK'
    <2>1. queue' \in [Pool -> [State -> Seq(Element)]]
      BY <1>2, <1>3 DEF Inv, TypeOK
    <2>2. last' \in [Pool -> [Element -> 0 .. MaxClock]]
      BY <1>2, <1>3 DEF Inv, TypeOK
    <2> QED
      BY <2>1, <2>2, <1>1, <1>6 DEF Inv, TypeOK
  <1>8. FiresOnlyWhenDue' /\ AbortsOnlyWrapped'
    BY <1>1 DEF Inv, FiresOnlyWhenDue, AbortsOnlyWrapped, Wrapped
  <1>9. Lists'
    <2>1. \A r \in Pool : Tidy(queue'[r], last'[r])
      BY <1>2, <1>3 DEF Inv, Lists
    <2>2. \A r \in Pool, e \in Element : last'[r][e] <= clock'
      BY <1>0, <1>1, <1>2, <1>3 DEF Inv, Lists
    <2> QED
      BY <2>1, <2>2, <1>1, <1>5 DEF Lists
  <1>10. InScan => pool \in Pool /\ pool # p
    BY <1>1 DEF Inv, Place, TypeOK
  <1>11. Place'
    BY <1>1, <1>2, <1>6, <1>10 DEF Inv, Place, InScan
  <1>12. ScanSound'
    <2>1. SUFFICES ASSUME InScan, NEW k \in DOMAIN pools', NEW i \in DOMAIN pools', NEW s \in State,
                          pools'[k] = pool
                   PROVE  i < k \/ (i = k /\ s < state) => InTime(queue'[pools'[i]], last'[pools'[i]], now, s)
      BY <1>1 DEF ScanSound, InScan
    <2>2. DOMAIN pools = 1 .. Len(pools) /\ Len(pools) \in Nat
      BY PoolsListed
    <2>3. k \in DOMAIN pools /\ pools[k] = pool
      BY <2>1, <2>2, <1>1, <1>5, <1>10
    <2>4. CASE i \in DOMAIN pools
      <3>1. pools'[i] = pools[i] /\ pools[i] \in Pool /\ pools[i] # p
        BY <2>2, <2>4, <1>1, <1>5, PoolsListed
      <3>2. queue'[pools'[i]] = queue[pools[i]] /\ last'[pools'[i]] = last[pools[i]]
        BY <3>1, <1>2
      <3> QED
        BY <3>2, <2>1, <2>3, <2>4 DEF Inv, ScanSound
    <2>5. CASE i = Len(pools) + 1
      <3>1. pools'[i] = p /\ i > k
        BY <2>2, <2>3, <2>5, <1>1, <1>5
      <3> QED
        BY <3>1, <2>2, <2>3, <2>5
    <2>6. i \in 1 .. Len(pools) + 1
      BY <1>1, <1>5
    <2> QED
      BY <2>2, <2>4, <2>5, <2>6
  <1> QED
    BY <1>7, <1>8, <1>9, <1>11, <1>12 DEF Inv

(* sxe_pool_delete: in a callback, the pools before and behind the scan stay there. *)
LEMMA DeleteInv == \A p \in Pool : Inv /\ Delete(p) => Inv'
  <1> SUFFICES ASSUME NEW p \in Pool, Inv, Delete(p) PROVE Inv'
    OBVIOUS
  <1>0. MaxClock \in Nat /\ clock \in 0 .. MaxClock /\ now \in 0 .. clock
    BY TimeoutsAssumption DEF Inv, TypeOK
  <1>1. /\ UNCHANGED <<clock, pc, now, pool, state, prev>>
        /\ pc \in {"idle", "callback"} /\ p \in Listed /\ (pc = "callback" => p # pool)
        /\ pools' = Without(pools, p)
    BY DEF Delete, scanVars
  <1>2. /\ queue'[p] = [s \in State |-> <<>>] /\ last'[p] = [e \in Element |-> 0]
        /\ \A r \in Pool \ {p} : queue'[r] = queue[r] /\ last'[r] = last[r]
        /\ queue' = [r \in Pool |-> queue'[r]] /\ last' = [r \in Pool |-> last'[r]]
    BY DEF Delete, Inv, TypeOK
  <1>3. /\ queue'[p] \in [State -> Seq(Element)] /\ last'[p] \in [Element -> 0 .. MaxClock]
        /\ \A e \in Element : last'[p][e] = 0
        /\ Tidy(queue'[p], last'[p])
    BY <1>0, <1>2, EmptyTidy
  <1>4. pools \in Seq(Pool) /\ Once(pools) /\ p \in On(pools)
    BY <1>1 DEF Inv, Lists, Listed, On
  <1>5. Without(pools, p) \in Seq(Pool)
    BY <1>4, WithoutShifts
  <1>6. Once(Without(pools, p)) /\ On(Without(pools, p)) = On(pools) \ {p}
    BY <1>4, WithoutOn
  <1>7. Listed' = Listed \ {p}
    BY <1>1, <1>6 DEF Listed, On
  <1>8. InScan => pool \in Listed' /\ pool \in Pool /\ pool # p
    BY <1>1, <1>7 DEF Inv, Place, TypeOK, InScan
  <1>9. pc = "idle" => pool = NoPool
    BY DEF Inv, Place
  <1>10. TypeOK'
    <2>1. queue' \in [Pool -> [State -> Seq(Element)]]
      BY <1>2, <1>3 DEF Inv, TypeOK
    <2>2. last' \in [Pool -> [Element -> 0 .. MaxClock]]
      BY <1>2, <1>3 DEF Inv, TypeOK
    <2>3. pool' \in Listed' \union {NoPool}
      BY <1>1, <1>8, <1>9 DEF InScan
    <2> QED
      BY <2>1, <2>2, <2>3, <1>1, <1>7 DEF Inv, TypeOK
  <1>11. FiresOnlyWhenDue' /\ AbortsOnlyWrapped'
    BY <1>1 DEF Inv, FiresOnlyWhenDue, AbortsOnlyWrapped, Wrapped
  <1>12. Lists'
    <2>1. \A r \in Pool : Tidy(queue'[r], last'[r])
      BY <1>2, <1>3 DEF Inv, Lists
    <2>2. \A r \in Pool, e \in Element : last'[r][e] <= clock'
      BY <1>0, <1>1, <1>2, <1>3 DEF Inv, Lists
    <2> QED
      BY <2>1, <2>2, <1>1, <1>5, <1>6 DEF Lists
  <1>13. Place'
    BY <1>1, <1>2, <1>8 DEF Inv, Place, InScan
  <1>14. ScanSound'
    <2>1. SUFFICES ASSUME InScan, NEW k \in DOMAIN pools', NEW i \in DOMAIN pools', NEW s \in State,
                          pools'[k] = pool
                   PROVE  i < k \/ (i = k /\ s < state) => InTime(queue'[pools'[i]], last'[pools'[i]], now, s)
      BY <1>1 DEF ScanSound, InScan
    <2>2. PICK a, b \in DOMAIN pools :
              /\ pools'[i] = pools[a] /\ pools'[k] = pools[b] /\ pools[a] # p
              /\ (i < k => a < b) /\ (i > k => a > b) /\ (i = k => a = b)
      BY <1>1, <1>4, WithoutOrder
    <2>3. pools[a] \in Pool
      BY PoolsListed
    <2>4. queue'[pools'[i]] = queue[pools[a]] /\ last'[pools'[i]] = last[pools[a]]
      BY <2>2, <2>3, <1>2
    <2>5. a < b \/ (a = b /\ s < state) => InTime(queue[pools[a]], last[pools[a]], now, s)
      BY <2>1, <2>2 DEF Inv, ScanSound
    <2> QED
      BY <2>2, <2>4, <2>5
  <1> QED
    BY <1>10, <1>11, <1>12, <1>13, <1>14 DEF Inv

(* From the queues q to the queues n, e has left all but the one it was moved to. *)
OthersStay(q, n, e)  == \A s \in State : On(q[s]) \ {e} \subseteq On(n[s])
HasLeft(q, n, e, to) == \A s \in State : s # to => On(n[s]) \subseteq On(q[s]) \ {e}

(* What moving an element does to the pools. *)
LEMMA MoveKeeps ==
    ASSUME Inv, NEW p \in Pool, NEW from \in State, NEW to \in State, NEW e \in On(queue[p][from]),
           Move(p, e, from, to)
    PROVE  /\ queue' \in [Pool -> [State -> Seq(Element)]]
           /\ last' \in [Pool -> [Element -> 0 .. MaxClock]]
           /\ \A r \in Pool : Tidy(queue'[r], last'[r])
           /\ \A r \in Pool, f \in Element : last'[r][f] <= clock
           /\ \A r \in Pool \ {p} : queue'[r] = queue[r] /\ last'[r] = last[r]
           /\ e \in Element
           /\ \A f \in Element : last'[p][f] = IF f = e THEN clock ELSE last[p][f]
           /\ On(queue'[p][to]) \subseteq On(queue[p][to]) \union {e}
           /\ HasLeft(queue[p], queue'[p], e, to)
           /\ OthersStay(queue[p], queue'[p], e)
  <1>0. MaxClock \in Nat /\ clock \in 0 .. MaxClock
    BY TimeoutsAssumption DEF Inv, TypeOK
  <1>1. e \in Element
    BY OnElements DEF Inv
  <1>2. PICK q \in [State -> Seq(Element)] : q = queue[p]
    BY DEF Inv, TypeOK
  <1>3. PICK l \in [Element -> 0 .. MaxClock] : l = last[p]
    BY DEF Inv, TypeOK
  <1>4. PICK n : n = Moved(q, e, from, to)
    OBVIOUS
  <1>5. PICK m : m = Stamped(l, e, clock)
    OBVIOUS
  <1>6. queue' = [queue EXCEPT ![p] = n] /\ last' = [last EXCEPT ![p] = m]
    BY <1>2, <1>3, <1>4, <1>5 DEF Move, Moved, Stamped
  <1>7. Tidy(q, l) /\ (\A f \in Element : l[f] <= clock) /\ e \in On(q[from])
    BY <1>2, <1>3 DEF Inv, Lists
  <1>8. /\ n \in [State -> Seq(Element)] /\ m \in [Element -> 0 .. MaxClock]
        /\ \A f \in Element : m[f] = IF f = e THEN clock ELSE l[f]
        /\ Tidy(n, m)
        /\ On(n[to]) = (On(q[to]) \ {e}) \union {e}
        /\ \A s \in State \ {to} : On(n[s]) = On(q[s]) \ {e}
    <2>1. PICK c \in 0 .. MaxClock : c = clock
      BY <1>0
    <2>2. \A f \in Element : l[f] <= c
      BY <2>1, <1>7
    <2>4. m = Stamped(l, e, c)
      BY <2>1, <1>5
    <2>5. Tidy(q, l)
      BY <1>7
    <2>6. e \in On(q[from])
      BY <1>7
    <2>3. MoveDone(q, l, e, to, c, n, m)
      BY <2>2, <2>4, <2>5, <2>6, <1>1, <1>4, MovedTidy
    <2> QED
      BY <2>1, <2>3 DEF MoveDone
  <1>9. /\ queue'[p] = n /\ last'[p] = m
        /\ \A r \in Pool \ {p} : queue'[r] = queue[r] /\ last'[r] = last[r]
    BY <1>6 DEF Inv, TypeOK
  <1>10. queue' \in [Pool -> [State -> Seq(Element)]] /\ last' \in [Pool -> [Element -> 0 .. MaxClock]]
    BY <1>6, <1>8 DEF Inv, TypeOK
  <1>11. \A r \in Pool : Tidy(queue'[r], last'[r])
    BY <1>8, <1>9 DEF Inv, Lists
  <1>12. \A r \in Pool, f \in Element : last'[r][f] <= clock
    <2>0. clock <= clock
      BY <1>0
    <2>1. \A f \in Element : m[f] <= clock
      BY <2>0, <1>7, <1>8, Zenon
    <2>2. \A r \in Pool \ {p}, f \in Element : last[r][f] <= clock
      BY DEF Inv, Lists
    <2> QED
      BY <2>1, <2>2, <1>9
  <1> QED
    BY <1>1, <1>2, <1>3, <1>8, <1>9, <1>10, <1>11, <1>12 DEF HasLeft, OthersStay

(* What is stamped now is not overdue, wherever it is put. *)
LEMMA MoveScanSound ==
    ASSUME Inv, InScan, NEW p \in Pool, NEW from \in State, NEW to \in State,
           NEW e \in On(queue[p][from]), Move(p, e, from, to), UNCHANGED <<pools, now, pool, state>>
    PROVE  ScanSound'
  <1>0. /\ now \in 0 .. clock /\ clock \in 0 .. MaxClock /\ MaxClock \in Nat
    BY TimeoutsAssumption DEF Inv, TypeOK
  <1>1. /\ e \in Element
        /\ \A r \in Pool \ {p} : queue'[r] = queue[r] /\ last'[r] = last[r]
    BY MoveKeeps
  <1>2. \A f \in Element : last'[p][f] = IF f = e THEN clock ELSE last[p][f]
    BY MoveKeeps
  <1>3. On(queue'[p][to]) \subseteq On(queue[p][to]) \union {e} /\ HasLeft(queue[p], queue'[p], e, to)
    BY MoveKeeps
  <1>4. \A s \in State : On(queue'[p][s]) \subseteq On(queue[p][s]) \union {e}
    BY <1>3 DEF HasLeft
  <1>5. ASSUME NEW r \in Pool, NEW s \in State, InTime(queue[r], last[r], now, s)
        PROVE  InTime(queue'[r], last'[r], now, s)
    <2>1. CASE r # p
      BY <2>1, <1>1, <1>5
    <2>2. CASE r = p
      <3>1. SUFFICES ASSUME Timeout[s] # 0, NEW f \in On(queue'[p][s])
                     PROVE  now - last'[p][f] < Timeout[s]
        BY <2>2 DEF InTime
      <3>2. f \in On(queue[p][s]) \union {e}
        BY <1>4
      <3>3. f \in Element
        BY <3>2, <1>1, OnElements DEF Inv
      <3>4. Timeout[s] \in Nat
        BY TimeoutsAssumption
      <3>5. CASE f = e
        <4>1. last'[p][f] = clock
          BY <3>3, <3>5, <1>2
        <4>2. now - clock < Timeout[s]
          BY <3>1, <3>4, <1>0
        <4> QED
          BY <4>1, <4>2
      <3>6. CASE f # e
        <4>1. last'[p][f] = last[p][f] /\ f \in On(queue[p][s])
          BY <3>2, <3>3, <3>6, <1>2
        <4> QED
          BY <4>1, <3>1, <2>2, <1>5 DEF InTime
      <3> QED
        BY <3>5, <3>6
    <2> QED
      BY <2>1, <2>2
  <1>6. SUFFICES ASSUME NEW k \in DOMAIN pools, NEW i \in DOMAIN pools, NEW s \in State,
                        pools[k] = pool, i < k \/ (i = k /\ s < state)
                 PROVE  InTime(queue'[pools[i]], last'[pools[i]], now, s)
    BY DEF ScanSound
  <1>7. pools[i] \in Pool
    BY PoolsListed
  <1>8. InTime(queue[pools[i]], last[pools[i]], now, s)
    BY <1>6 DEF Inv, ScanSound
  <1> QED
    BY <1>5, <1>7, <1>8

(* An element is moved by the program, or by a callback that was called for another. *)
LEMMA UseInv == \A p \in Pool, e \in Element, to \in State : Inv /\ Use(p, e, to) => Inv'
  <1> SUFFICES ASSUME NEW p \in Pool, NEW e \in Element, NEW to \in State, Inv, Use(p, e, to) PROVE Inv'
    OBVIOUS
  <1>1. /\ UNCHANGED <<pools, clock, pc, now, pool, state, prev>> /\ pc \in {"idle", "callback"}
        /\ pc = "callback" => p # pool \/ e # prev.index
    BY DEF Use, scanVars
  <1>2. PICK from \in State : e \in On(queue[p][from]) /\ Move(p, e, from, to)
    BY DEF Use
  <1>3. /\ queue' \in [Pool -> [State -> Seq(Element)]]
        /\ last' \in [Pool -> [Element -> 0 .. MaxClock]]
        /\ \A r \in Pool : Tidy(queue'[r], last'[r])
        /\ \A r \in Pool, f \in Element : last'[r][f] <= clock
    BY <1>2, MoveKeeps
  <1>4. TypeOK'
    BY <1>1, <1>3 DEF Inv, TypeOK, Listed
  <1>5. Lists'
    BY <1>1, <1>3 DEF Inv, Lists
  <1>6. ScanSound'
    <2>1. CASE InScan
      <3>1. UNCHANGED <<pools, now, pool, state>>
        BY <1>1
      <3> QED
        BY <2>1, <3>1, <1>2, MoveScanSound
    <2>2. CASE ~ InScan
      BY <2>2, <1>1 DEF ScanSound, InScan
    <2> QED
      BY <2>1, <2>2
  <1>7. Place'
    <2>1. \A r \in Pool \ {p} : queue'[r] = queue[r]
      BY <1>2, MoveKeeps
    <2>2. OthersStay(queue[p], queue'[p], e)
      BY <1>2, MoveKeeps
    <2>3. ASSUME pc = "callback" PROVE prev.index \in On(queue'[pool][state])
      <3>1. pool \in Pool /\ state \in State /\ prev.index \in On(queue[pool][state])
        BY <2>3 DEF Inv, Place, InScan, TypeOK
      <3>2. CASE pool # p
        BY <3>1, <3>2, <2>1
      <3>3. CASE pool = p
        <4>1. e # prev.index
          BY <3>3, <2>3, <1>1
        <4>2. On(queue[p][state]) \ {e} \subseteq On(queue'[p][state])
          BY <2>2, <3>1 DEF OthersStay
        <4> QED
          BY <4>1, <4>2, <3>1, <3>3
      <3> QED
        BY <3>2, <3>3
    <2>4. Listed' = Listed
      BY <1>1 DEF Listed
    <2> QED
      BY <2>3, <2>4, <1>1 DEF Inv, Place, InScan
  <1>8. FiresOnlyWhenDue' /\ AbortsOnlyWrapped'
    BY <1>1 DEF Inv, FiresOnlyWhenDue, AbortsOnlyWrapped, Wrapped
  <1> QED
    BY <1>4, <1>5, <1>6, <1>7, <1>8 DEF Inv
-----------------------------------------------------------------------------
(* The scan. *)

(* The walker of the list steps to the pool at the next place. *)
LEMMA FollowingAt ==
    ASSUME Inv
    PROVE  /\ Following(NoPool) = IF Len(pools) = 0 THEN NoPool ELSE pools[1]
           /\ \A k \in DOMAIN pools :
                 Following(pools[k]) = IF k = Len(pools) THEN NoPool ELSE pools[k + 1]
  <1>1. DOMAIN pools = 1 .. Len(pools) /\ Len(pools) \in Nat
    BY PoolsListed
  <1>2. Following(NoPool) = IF Len(pools) = 0 THEN NoPool ELSE pools[1]
    BY <1>1 DEF Following
  <1>3. ASSUME NEW k \in DOMAIN pools
        PROVE  Following(pools[k]) = IF k = Len(pools) THEN NoPool ELSE pools[k + 1]
    <2>1. pools[k] # NoPool
      BY PoolsListed
    <2>2. (CHOOSE j \in DOMAIN pools : pools[j] = pools[k]) = k
      BY DEF Inv, Lists, Once
    <2> QED
      BY <2>1, <2>2 DEF Following
  <1> QED
    BY <1>2, <1>3

(* A step of the scan that touches no pool keeps most of the invariant. *)
LEMMA ScanStep ==
    ASSUME Inv, UNCHANGED <<pools, queue, last, clock>>, AbortsOnlyWrapped', FiresOnlyWhenDue',
           now' \in 0 .. clock, pc' \in {"idle", "scan", "callback", "aborted"},
           pool' \in Listed \union {NoPool}, state' \in 0 .. States,
           prev'.index \in Element \union {NoIndex}, prev'.time \in 0 .. MaxClock,
           Place', ScanSound'
    PROVE  Inv'
  <1>1. TypeOK'
    BY DEF Inv, TypeOK, Listed
  <1>2. Lists'
    BY DEF Inv, Lists
  <1> QED
    BY <1>1, <1>2 DEF Inv

LEMMA NoneYetType ==
    /\ NoneYet.index = NoIndex /\ NoneYet.time = 0 /\ NoIndex \notin Element
    /\ NoneYet.time \in 0 .. MaxClock
  BY TimeoutsAssumption DEF NoneYet, NoIndex, Element

LEMMA CheckTimeoutsInv == Inv /\ CheckTimeouts => Inv'
  <1> SUFFICES ASSUME Inv, CheckTimeouts PROVE Inv'
    OBVIOUS
  <1>0. MaxClock \in Nat /\ clock \in 0 .. MaxClock /\ States \in Nat \ {0}
    BY TimeoutsAssumption DEF Inv, TypeOK
  <1>1. /\ UNCHANGED <<pools, queue, last, clock>> /\ now' = clock
        /\ pool' = Following(NoPool) /\ state' = 0 /\ prev' = NoneYet
        /\ pc' = IF Following(NoPool) = NoPool THEN "idle" ELSE "scan"
    BY DEF CheckTimeouts, NextPool
  <1>2. DOMAIN pools = 1 .. Len(pools) /\ Len(pools) \in Nat
    BY PoolsListed
  <1>3. pool' = IF Len(pools) = 0 THEN NoPool ELSE pools[1]
    BY <1>1, FollowingAt
  <1>4. pool' \in Listed \union {NoPool} /\ (pool' = NoPool <=> pc' = "idle") /\ pc' \in {"idle", "scan"}
    BY <1>1, <1>2, <1>3, PoolsListed
  <1>5. Place'
    <2>1. \A s \in State, r \in Pool : NoIndex \notin On(queue[r][s])
      BY OnElements, NoneYetType DEF Inv
    <2>2. Listed \subseteq Pool /\ Listed' = Listed
      BY <1>1 DEF Inv, TypeOK, Listed
    <2> QED
      BY <2>1, <2>2, <1>1, <1>4, NoneYetType DEF Place, InScan
  <1>6. ScanSound'
    <2>1. SUFFICES ASSUME pc' = "scan", NEW k \in DOMAIN pools, NEW i \in DOMAIN pools, NEW s \in State,
                          pools[k] = pool'
                   PROVE  ~ (i < k \/ (i = k /\ s < 0))
      BY <1>1, <1>4 DEF ScanSound, InScan
    <2>2. Len(pools) # 0 /\ pools[k] = pools[1]
      BY <2>1, <1>3, <1>4, PoolsListed
    <2>3. k = 1
      BY <2>2, <1>2 DEF Inv, Lists, Once
    <2> QED
      BY <2>3, <1>2, <1>0 DEF State
  <1>7. AbortsOnlyWrapped' /\ FiresOnlyWhenDue'
    BY <1>4 DEF AbortsOnlyWrapped, FiresOnlyWhenDue
  <1>8. now' \in 0 .. clock /\ state' \in 0 .. States
    BY <1>0, <1>1
  <1>9. prev'.index \in Element \union {NoIndex} /\ prev'.time \in 0 .. MaxClock
    BY <1>1, NoneYetType
  <1>10. pc' \in {"idle", "scan", "callback"} /\ pool' \in Listed \union {NoPool}
    BY <1>4
  <1> QED
    BY <1>1, <1>5, <1>6, <1>7, <1>8, <1>9, <1>10, ScanStep

(* The difference of the code is the one it means unless the time is after time_now. *)
LEMMA ReachedMeans ==
    ASSUME Inv, state \in State, NEW t \in 0 .. MaxClock
    PROVE  /\ t <= now /\ Reached(t) => now - t >= Timeout[state]
           /\ ~ Reached(t) /\ Timeout[state] # 0 => now - t < Timeout[state]
  <1>0. /\ MaxClock \in Nat /\ TimeMod \in Nat /\ TimeMod > MaxClock /\ Timeout[state] \in Nat
        /\ clock \in 0 .. MaxClock /\ now \in 0 .. clock
    BY TimeoutsAssumption DEF Inv, TypeOK
  <1>1. t <= now => now - t \in 0 .. TimeMod - 1
    BY <1>0
  <1>2. \A d \in 0 .. TimeMod - 1 : d % TimeMod = d
    BY <1>0
  <1>3. t <= now => (now - t) % TimeMod = now - t
    BY <1>1, <1>2
  <1>4. t > now => now - t < 0
    BY <1>0
  <1> QED
    BY <1>0, <1>3, <1>4 DEF Reached

(* The head of a queue is the oldest on it. *)
LEMMA HeadOldest ==
    ASSUME Inv, NEW p \in Pool, NEW s \in State, queue[p][s] # <<>>
    PROVE  /\ queue[p][s][1] \in On(queue[p][s]) /\ queue[p][s][1] \in Element
           /\ \A e \in On(queue[p][s]) : last[p][queue[p][s][1]] <= last[p][e]
  <1>1. PICK q \in Seq(Element) : q = queue[p][s]
    BY DEF Inv, TypeOK
  <1>2. DOMAIN q = 1 .. Len(q) /\ Len(q) \in Nat /\ \A i \in DOMAIN q : q[i] \in Element
    BY SeqFacts
  <1>3. 1 \in DOMAIN q /\ \A i \in DOMAIN q : 1 <= i
    BY <1>1, <1>2
  <1>4. \A i, j \in DOMAIN q : i <= j => last[p][q[i]] <= last[p][q[j]]
    BY <1>1 DEF Inv, Lists, Tidy
  <1>5. \A j \in DOMAIN q : last[p][q[1]] <= last[p][q[j]]
    BY <1>3, <1>4
  <1> QED
    BY <1>1, <1>2, <1>3, <1>5 DEF On

(* The state the scan leaves has nothing overdue: its head was looked at. *)
LEMMA NextStateInv == Inv /\ NextState => Inv'
  <1> SUFFICES ASSUME Inv, NextState PROVE Inv'
    OBVIOUS
  <1>0. States \in Nat \ {0} /\ state \in State /\ pc = "scan" /\ now \in 0 .. clock
    BY TimeoutsAssumption DEF Inv, TypeOK, NextState
  <1>1. /\ UNCHANGED <<pools, queue, last, clock, pc, now, pool>>
        /\ state' = state + 1 /\ prev' = NoneYet
        /\ ~ (Watched /\ (Oldest = prev \/ Reached(Oldest.time)))
    BY DEF NextState
  <1>2. state \in Nat /\ state' \in 0 .. States
    BY <1>0, <1>1 DEF State
  <1>3. pool \in Listed /\ pool \in Pool
    BY <1>0 DEF Inv, Place, InScan, TypeOK
  <1>4. Place'
    <2>1. \A s \in State, r \in Pool : NoIndex \notin On(queue[r][s])
      BY OnElements, NoneYetType DEF Inv
    <2>2. Listed' = Listed
      BY <1>1 DEF Listed
    <2> QED
      BY <2>1, <2>2, <1>0, <1>1, <1>3, NoneYetType DEF Place, InScan
  <1>5. InTime(queue[pool], last[pool], now, state)
    <2>1. SUFFICES ASSUME Timeout[state] # 0, NEW e \in On(queue[pool][state])
                   PROVE  now - last[pool][e] < Timeout[state]
      BY DEF InTime
    <2>2. queue[pool][state] # <<>>
      BY <2>1 DEF On
    <2>3. /\ queue[pool][state][1] \in Element
          /\ last[pool][queue[pool][state][1]] <= last[pool][e]
      BY <2>2, <1>0, <1>3, HeadOldest
    <2>4. PICK t \in 0 .. MaxClock : t = last[pool][queue[pool][state][1]]
      BY <2>3, <1>3 DEF Inv, TypeOK
    <2>5. e \in Element
      BY <1>0, <1>3, OnElements DEF Inv
    <2>6. PICK u \in 0 .. MaxClock : u = last[pool][e]
      BY <2>5, <1>3 DEF Inv, TypeOK
    <2>7. ~ Reached(t)
      BY <2>1, <2>2, <2>4, <1>1 DEF Watched, Oldest, Head1
    <2>8. now - t < Timeout[state]
      BY <2>1, <2>7, <1>0, ReachedMeans
    <2>9. Timeout[state] \in Nat /\ MaxClock \in Nat /\ clock \in 0 .. MaxClock
      BY <1>0, TimeoutsAssumption DEF Inv, TypeOK
    <2>10. now - u < Timeout[state]
      BY <2>3, <2>4, <2>6, <2>8, <2>9, <1>0
    <2> QED
      BY <2>6, <2>10
  <1>6. ScanSound'
    <2>1. SUFFICES ASSUME NEW k \in DOMAIN pools, NEW i \in DOMAIN pools, NEW s \in State,
                          pools[k] = pool
                   PROVE  i < k \/ (i = k /\ s < state + 1) => InTime(queue[pools[i]], last[pools[i]], now, s)
      BY <1>1 DEF ScanSound, InScan
    <2>2. i < k \/ (i = k /\ s < state) => InTime(queue[pools[i]], last[pools[i]], now, s)
      BY <2>1, <1>0 DEF Inv, ScanSound, InScan
    <2>3. s \in Nat
      BY <1>0 DEF State
    <2>4. (s < state + 1 => s < state \/ s = state) /\ (s >= state + 1 => s >= state)
      BY <2>3, <1>2
    <2>5. i = k /\ s = state => InTime(queue[pools[i]], last[pools[i]], now, s)
      BY <2>1, <1>5
    <2> QED
      BY <2>2, <2>4, <2>5
  <1>7. AbortsOnlyWrapped' /\ FiresOnlyWhenDue'
    BY <1>0, <1>1 DEF AbortsOnlyWrapped, FiresOnlyWhenDue
  <1>8. now' \in 0 .. clock /\ pc' \in {"idle", "scan", "callback"} /\ pool' \in Listed \union {NoPool}
    BY <1>0, <1>1, <1>3
  <1>9. prev'.index \in Element \union {NoIndex} /\ prev'.time \in 0 .. MaxClock
    BY <1>1, NoneYetType
  <1> QED
    BY <1>1, <1>2, <1>4, <1>6, <1>7, <1>8, <1>9, ScanStep

(* A pool all of whose states were looked at is behind the scan. *)
LEMMA PoolDoneInv == Inv /\ PoolDone => Inv'
  <1> SUFFICES ASSUME Inv, PoolDone PROVE Inv'
    OBVIOUS
  <1>0. States \in Nat \ {0} /\ state = States /\ pc = "scan" /\ now \in 0 .. clock
    BY TimeoutsAssumption DEF Inv, TypeOK, PoolDone, State
  <1>1. /\ UNCHANGED <<pools, queue, last, clock, now>>
        /\ pool' = Following(pool) /\ state' = 0 /\ prev' = NoneYet
        /\ pc' = IF Following(pool) = NoPool THEN "idle" ELSE "scan"
    BY DEF PoolDone, NextPool
  <1>2. PICK k \in DOMAIN pools : pools[k] = pool
    BY <1>0, PoolsListed DEF InScan
  <1>3. DOMAIN pools = 1 .. Len(pools) /\ Len(pools) \in Nat
    BY PoolsListed
  <1>4. pool' = IF k = Len(pools) THEN NoPool ELSE pools[k + 1]
    BY <1>1, <1>2, FollowingAt
  <1>5. k # Len(pools) => k + 1 \in DOMAIN pools
    BY <1>3
  <1>6. /\ pool' \in Listed \union {NoPool} /\ (pool' = NoPool <=> pc' = "idle") /\ pc' \in {"idle", "scan"}
        /\ (pc' = "scan" => k # Len(pools) /\ pool' = pools[k + 1])
    BY <1>1, <1>4, <1>5, PoolsListed
  <1>7. Place'
    <2>1. \A s \in State, r \in Pool : NoIndex \notin On(queue[r][s])
      BY OnElements, NoneYetType DEF Inv
    <2>2. Listed \subseteq Pool /\ Listed' = Listed
      BY <1>1 DEF Inv, TypeOK, Listed
    <2> QED
      BY <2>1, <2>2, <1>1, <1>6, NoneYetType DEF Place, InScan
  <1>8. ScanSound'
    <2>1. SUFFICES ASSUME pc' = "scan", NEW j \in DOMAIN pools, NEW i \in DOMAIN pools, NEW s \in State,
                          pools[j] = pool'
                   PROVE  i < j \/ (i = j /\ s < 0) => InTime(queue[pools[i]], last[pools[i]], now, s)
      BY <1>1, <1>6 DEF ScanSound, InScan
    <2>2. j = k + 1
      BY <2>1, <1>5, <1>6 DEF Inv, Lists, Once
    <2>3. i < k \/ (i = k /\ s < state) => InTime(queue[pools[i]], last[pools[i]], now, s)
      BY <1>0, <1>2 DEF Inv, ScanSound, InScan
    <2>4. s < state /\ s >= 0
      BY <1>0 DEF State
    <2>5. (i < j => i < k \/ i = k) /\ (i > j => i > k) /\ (i = j => i > k) /\ ~ (s < 0)
      BY <2>2, <2>4, <1>0, <1>3 DEF State
    <2> QED
      BY <2>3, <2>4, <2>5
  <1>9. AbortsOnlyWrapped' /\ FiresOnlyWhenDue'
    BY <1>6 DEF AbortsOnlyWrapped, FiresOnlyWhenDue
  <1>10. now' \in 0 .. clock /\ state' \in 0 .. States
    BY <1>0, <1>1
  <1>11. prev'.index \in Element \union {NoIndex} /\ prev'.time \in 0 .. MaxClock
    BY <1>1, NoneYetType
  <1>12. pc' \in {"idle", "scan", "callback"} /\ pool' \in Listed \union {NoPool}
    BY <1>6
  <1> QED
    BY <1>1, <1>7, <1>8, <1>9, <1>10, <1>11, <1>12, ScanStep

(* The head that is fired has reached its timeout or was stamped after the scan began;
   only in that case can it be the one fired last. *)
LEMMA FireInv == Inv /\ Fire => Inv'
  <1> SUFFICES ASSUME Inv, Fire PROVE Inv'
    OBVIOUS
  <1>0. /\ state \in State /\ pc = "scan" /\ now \in 0 .. clock /\ clock \in 0 .. MaxClock
        /\ MaxClock \in Nat /\ state \in 0 .. States
    BY TimeoutsAssumption DEF Inv, TypeOK, Fire
  <1>1. /\ UNCHANGED <<pools, queue, last, clock, now, pool, state>>
        /\ Watched /\ (Oldest = prev \/ Reached(Oldest.time))
        /\ pc' = IF Oldest = prev THEN "aborted" ELSE "callback"
        /\ prev' = Oldest
    BY DEF Fire
  <1>2. PICK k \in DOMAIN pools : pools[k] = pool
    BY <1>0, PoolsListed DEF InScan
  <1>3. pool \in Listed /\ pool \in Pool
    BY <1>2, PoolsListed
  <1>4. Timeout[state] # 0 /\ queue[pool][state] # <<>>
    BY <1>1 DEF Watched
  <1>5. Head1 \in On(queue[pool][state]) /\ Head1 \in Element
    BY <1>0, <1>3, <1>4, HeadOldest DEF Head1
  <1>6. Oldest.index = Head1 /\ Oldest.time = last[pool][Head1]
    BY DEF Oldest
  <1>7. Oldest = prev => prev.time > now
    BY <1>0, <1>5, <1>6 DEF Inv, Place, Wrapped
  <1>8. PICK t \in 0 .. MaxClock : t = last[pool][Head1]
    BY <1>3, <1>5 DEF Inv, TypeOK
  <1>9. prev'.index = Head1 /\ prev'.time = t
    BY <1>1, <1>6, <1>8
  <1>10. pc' = "callback" => t > now \/ now - t >= Timeout[state]
    <2>1. SUFFICES ASSUME pc' = "callback" PROVE t > now \/ now - t >= Timeout[state]
      OBVIOUS
    <2>2. Reached(t)
      BY <2>1, <1>1, <1>6, <1>8
    <2>3. t > now \/ t <= now
      BY <1>0
    <2> QED
      BY <2>2, <2>3, <1>0, ReachedMeans
  <1>11. AbortsOnlyWrapped' /\ FiresOnlyWhenDue'
    <2>1. pc' = "aborted" => prev'.time > now
      BY <1>1, <1>7
    <2> QED
      BY <2>1, <1>1, <1>9, <1>10 DEF AbortsOnlyWrapped, FiresOnlyWhenDue, Wrapped
  <1>12. Place'
    <2>1. Listed' = Listed
      BY <1>1 DEF Listed
    <2>2. pc' \in {"callback", "aborted"}
      BY <1>1
    <2> QED
      BY <2>1, <2>2, <1>0, <1>1, <1>3, <1>4, <1>5, <1>9 DEF Place, InScan
  <1>13. ScanSound'
    BY <1>0, <1>1 DEF Inv, ScanSound, InScan
  <1>14. /\ now' \in 0 .. clock /\ pc' \in {"idle", "scan", "callback", "aborted"}
         /\ pool' \in Listed \union {NoPool} /\ state' \in 0 .. States
    BY <1>0, <1>1, <1>3
  <1>15. prev'.index \in Element \union {NoIndex} /\ prev'.time \in 0 .. MaxClock
    BY <1>5, <1>9
  <1> QED
    BY <1>1, <1>11, <1>12, <1>13, <1>14, <1>15, ScanStep

(* The element a callback moves gets a new stamp, unless it was fired too early. *)
LEMMA CallbackReturnsInv == Inv /\ CallbackReturns => Inv'
  <1> SUFFICES ASSUME Inv, CallbackReturns PROVE Inv'
    OBVIOUS
  <1>0. /\ state \in State /\ pc = "callback" /\ now \in 0 .. clock /\ clock \in 0 .. MaxClock
        /\ MaxClock \in Nat /\ States \in Nat \ {0} /\ Timeout[state] # 0 /\ Timeout[state] \in Nat
        /\ prev.time \in 0 .. MaxClock
    BY TimeoutsAssumption DEF Inv, TypeOK, Place, CallbackReturns
  <1>1. UNCHANGED <<pools, clock, now, pool, state, prev>> /\ pc' = "scan"
    BY DEF CallbackReturns, scanVars
  <1>2. PICK to \in State : Move(pool, prev.index, state, to)
    BY DEF CallbackReturns
  <1>3. PICK e \in On(queue[pool][state]) : e = prev.index
    BY <1>0 DEF Inv, Place
  <1>4. pool \in Listed /\ pool \in Pool
    BY <1>0 DEF Inv, Place, InScan, TypeOK
  <1>5. PICK p \in Pool, from \in State : p = pool /\ from = state
    BY <1>0, <1>4
  <1>6. Move(p, e, from, to) /\ e \in On(queue[p][from])
    BY <1>2, <1>3, <1>5
  <1>7. /\ queue' \in [Pool -> [State -> Seq(Element)]]
        /\ last' \in [Pool -> [Element -> 0 .. MaxClock]]
        /\ \A r \in Pool : Tidy(queue'[r], last'[r])
        /\ \A r \in Pool, f \in Element : last'[r][f] <= clock
    BY <1>6, MoveKeeps
  <1>8. e \in Element /\ \A f \in Element : last'[p][f] = IF f = e THEN clock ELSE last[p][f]
    BY <1>6, MoveKeeps
  <1>9. TypeOK'
    BY <1>1, <1>7 DEF Inv, TypeOK, Listed
  <1>10. Lists'
    BY <1>1, <1>7 DEF Inv, Lists
  <1>11. Place'
    <2>1. last'[pool][prev.index] = clock
      BY <1>3, <1>5, <1>8
    <2>2. prev.time > now \/ now - prev.time >= Timeout[state]
      BY <1>0 DEF Inv, FiresOnlyWhenDue, Wrapped
    <2>3. prev.time > now \/ clock # prev.time
      BY <2>2, <1>0
    <2>4. Listed' = Listed
      BY <1>1 DEF Listed
    <2> QED
      BY <2>1, <2>3, <2>4, <1>1, <1>4 DEF Place, InScan, Wrapped
  <1>12. ScanSound'
    <2>1. InScan /\ UNCHANGED <<pools, now, pool, state>>
      BY <1>0, <1>1 DEF InScan
    <2> QED
      BY <2>1, <1>6, MoveScanSound
  <1>13. AbortsOnlyWrapped' /\ FiresOnlyWhenDue'
    BY <1>1 DEF AbortsOnlyWrapped, FiresOnlyWhenDue
  <1> QED
    BY <1>9, <1>10, <1>11, <1>12, <1>13 DEF Inv

LEMMA NextInv == Inv /\ [Next]_vars => Inv'
  <1> SUFFICES ASSUME Inv, [Next]_vars PROVE Inv'
    OBVIOUS
  <1>1. CASE UNCHANGED vars
    BY <1>1 DEF vars, Inv, TypeOK, FiresOnlyWhenDue, AbortsOnlyWrapped, Wrapped, Lists, Place, ScanSound, InScan, Listed
  <1>2. CASE Tick
    BY <1>2, TickInv
  <1>3. CASE CheckTimeouts
    BY <1>3, CheckTimeoutsInv
  <1>4. CASE Scanning
    BY <1>4, NextStateInv, PoolDoneInv, FireInv, CallbackReturnsInv DEF Scanning
  <1>5. ASSUME NEW p \in Pool, NewWithTimeouts(p) \/ Delete(p) PROVE Inv'
    BY <1>5, NewInv, DeleteInv
  <1>6. ASSUME NEW p \in Pool, NEW e \in Element, NEW to \in State, Use(p, e, to) PROVE Inv'
    BY <1>6, UseInv
  <1> QED
    BY <1>1, <1>2, <1>3, <1>4, <1>5, <1>6 DEF Next
-----------------------------------------------------------------------------
(* sxe_pool_check_timeouts calls a callback only for an element that has been in its
   state for the state's timeout, and its assertion "callback failed to update state"
   holds of callbacks that do, with any timeouts, any moves by callbacks and any number
   of pools that they create and delete; the one exception is an element stamped after
   the scan took its time_now, whose age the unsigned subtraction gets wrong. *)
THEOREM ScansSound == Spec => []TimeoutsSound
  <1>1. Init => Inv
    BY InitInv
  <1>2. Inv /\ [Next]_vars => Inv'
    BY NextInv
  <1>3. Inv => TimeoutsSound
    BY DEF Inv, TimeoutsSound
  <1> QED
    BY <1>1, <1>2, <1>3, PTL DEF Spec

(* When sxe_pool_check_timeouts returns, every element whose timeout had passed when it
   was called has had its callback, in all the pools that are on the list by then. *)
LEMMA ReturnMissesNone ==
    ASSUME Inv, [Next]_vars
    PROVE  pc = "scan" /\ pc' = "idle" =>
             \A p \in Listed, s \in State : Timeout[s] # 0 =>
                \A e \in On(queue[p][s]) : now - last[p][e] < Timeout[s]
  <1> SUFFICES ASSUME pc = "scan", pc' = "idle", NEW p \in Listed, NEW s \in State, Timeout[s] # 0,
                      NEW e \in On(queue[p][s])
               PROVE  now - last[p][e] < Timeout[s]
    OBVIOUS
  <1>1. PoolDone
    BY DEF Next, vars, Tick, CheckTimeouts, Scanning, NextState, Fire, CallbackReturns, NewWithTimeouts,
           Delete, Use
  <1>2. state = States /\ States \in Nat
    BY <1>1, TimeoutsAssumption DEF Inv, TypeOK, PoolDone, State
  <1>3. PICK k \in DOMAIN pools : pools[k] = pool
    BY PoolsListed DEF InScan
  <1>4. DOMAIN pools = 1 .. Len(pools) /\ Len(pools) \in Nat
    BY PoolsListed
  <1>5. Following(pool) = NoPool
    BY <1>1 DEF PoolDone, NextPool
  <1>6. Following(pools[k]) = IF k = Len(pools) THEN NoPool ELSE pools[k + 1]
    BY FollowingAt
  <1>7. k = Len(pools)
    <2>1. SUFFICES ASSUME k # Len(pools) PROVE FALSE
      OBVIOUS
    <2>2. k + 1 \in DOMAIN pools
      BY <2>1, <1>4
    <2> QED
      BY <2>1, <2>2, <1>3, <1>5, <1>6, PoolsListed
  <1>8. PICK i \in DOMAIN pools : pools[i] = p
    BY DEF Listed
  <1>9. i < k \/ (i = k /\ s < state)
    BY <1>2, <1>4, <1>7 DEF State
  <1>10. InTime(queue[pools[i]], last[pools[i]], now, s)
    BY <1>3, <1>9 DEF Inv, ScanSound, InScan
  <1> QED
    BY <1>8, <1>10 DEF InTime

(* The same of the specification: no scan returns with an element overdue. *)
THEOREM ScansComplete == Spec => NoneOverdue
  <1>1. Init => Inv
    BY InitInv
  <1>2. Inv /\ [Next]_vars => Inv'
    BY NextInv
  <1>3. Inv /\ [Next]_vars =>
           [pc = "scan" /\ pc' = "idle" =>
              \A p \in Listed, s \in State : Timeout[s] # 0 =>
                 \A e \in On(queue[p][s]) : now - last[p][e] < Timeout[s]]_vars
    BY ReturnMissesNone
  <1> QED
    BY <1>1, <1>2, <1>3, PTL DEF Spec, NoneOverdue
=============================================================================
