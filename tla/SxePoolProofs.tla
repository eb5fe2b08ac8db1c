---------------------------- MODULE SxePoolProofs ----------------------------
(***************************************************************************)
(* The pool's spinlock excludes for any number of threads and elements,    *)
(* although owners die, tids are used again and the lock is forced.        *)
(*                                                                         *)
(* MutualExclusion is not inductive alone: a lock that is about to be      *)
(* forced must still be held by the thread that was found in it, and that  *)
(* thread must not have come back to work (ForceSound).                    *)
(***************************************************************************)
EXTENDS SxePool, TLAPS

(* What sxe_pool_override_locked found in the lock word is still there, and its
   thread is not working on the queues. *)
ForceSound == force # NoThread => lock = force /\ pc[force] \notin Inside

Inv == TypeOK /\ MutualExclusion /\ ForceSound

(* Removing an element from a list leaves a list. *)
LEMMA WithoutIsSeq ==
    ASSUME NEW S, NEW q \in Seq(S), NEW e, e \in On(q)
    PROVE  Without(q, e) \in Seq(S)
  <1> DEFINE k == CHOOSE i \in DOMAIN q : q[i] = e
             w == [i \in 1 .. Len(q) - 1 |-> IF i < k THEN q[i] ELSE q[i + 1]]
  <1>1. Len(q) \in Nat /\ DOMAIN q = 1 .. Len(q) /\ \A i \in 1 .. Len(q) : q[i] \in S
    OBVIOUS
  <1>2. k \in DOMAIN q
    BY DEF On
  <1>3. Len(q) - 1 \in Nat
    BY <1>1, <1>2
  <1>4. \A i \in 1 .. Len(q) - 1 : (IF i < k THEN q[i] ELSE q[i + 1]) \in S
    BY <1>1, <1>2
  <1>5. w \in Seq(S)
    BY <1>3, <1>4
  <1> QED
    BY <1>5 DEF Without

(* What peeking at a list finds is an element or NoIndex, and is not both. *)
LEMMA PeekHeadType ==
    ASSUME TypeOK, NEW s \in State
    PROVE  PeekHead(s) # NoIndex => PeekHead(s) \in Element
  BY DEF PeekHead, TypeOK

LEMMA LeaveKeepsInv ==
    ASSUME Inv, NEW t \in Thread, NEW l \in {"idle", "dead"}, Leave(t, l),
           UNCHANGED <<poolVars, lock, force>>, lost' \in SUBSET Element
    PROVE  Inv'
  <1>1. NoCall \in Calls
    BY PoolAssumption DEF NoCall, Calls, Op, Element, State
  <1>2. TypeOK'
    BY <1>1 DEF Inv, TypeOK, Leave, Goto, poolVars
  <1>3. \A u \in Thread : pc'[u] = IF u = t THEN l ELSE pc[u]
    BY DEF Inv, TypeOK, Leave, Goto
  <1>4. MutualExclusion' /\ ForceSound'
    BY <1>3 DEF Inv, TypeOK, MutualExclusion, ForceSound, Inside
  <1> QED
    BY <1>2, <1>4 DEF Inv

(* A thread that has the lock and goes on working with it. *)
LEMMA WorkKeepsExclusion ==
    ASSUME Inv, NEW t \in Thread, pc[t] \in Inside, NEW l \in Inside, Goto(t, l),
           UNCHANGED <<lock, force>>
    PROVE  MutualExclusion' /\ ForceSound'
  <1>1. \A u \in Thread : pc'[u] = IF u = t THEN l ELSE pc[u]
    BY DEF Inv, TypeOK, Goto
  <1>2. lock = t
    BY DEF Inv, MutualExclusion
  <1>3. force = NoThread
    BY <1>2 DEF Inv, ForceSound, TypeOK
  <1> QED
    BY <1>1, <1>2, <1>3 DEF Inv, MutualExclusion, ForceSound

LEMMA StartMoveKeepsInv ==
    ASSUME Inv, NEW t \in Thread, pc[t] = "body", NEW e \in Element, NEW new \in State,
           StartMove(t, e, new)
    PROVE  Inv'
  <1>1. MutualExclusion' /\ ForceSound'
    BY WorkKeepsExclusion DEF StartMove, Inside
  <1>2. queue' \in [State -> Seq(Element)]
    <2>1. stateOf[e] \in State /\ queue[stateOf[e]] \in Seq(Element)
      BY DEF Inv, TypeOK
    <2>2. Without(queue[stateOf[e]], e) \in Seq(Element)
      BY <2>1, WithoutIsSeq DEF StartMove
    <2> QED
      BY <2>1, <2>2 DEF StartMove, Remove, Inv, TypeOK
  <1>3. call' \in [Thread -> Calls]
    BY DEF StartMove, Inv, TypeOK, Calls
  <1>4. pc' \in [Thread -> {"idle", "take", "return", "dead"} \union Inside]
    BY DEF StartMove, Goto, Inv, TypeOK, Inside
  <1> QED
    BY <1>1, <1>2, <1>3, <1>4 DEF StartMove, Remove, Inv, TypeOK

LEMMA AnswerKeepsInv ==
    ASSUME Inv, NEW t \in Thread, pc[t] = "body", NEW r, Answer(t, r), call' \in [Thread -> Calls]
    PROVE  Inv'
  <1>1. MutualExclusion' /\ ForceSound'
    BY WorkKeepsExclusion DEF Answer, Inside
  <1>2. pc' \in [Thread -> {"idle", "take", "return", "dead"} \union Inside]
    BY DEF Answer, Goto, Inv, TypeOK, Inside
  <1> QED
    BY <1>1, <1>2 DEF Answer, poolVars, Inv, TypeOK

LEMMA AbortKeepsInv ==
    ASSUME Inv, NEW t \in Thread, Abort(t)
    PROVE  Inv'
  BY LeaveKeepsInv DEF Abort, Inv, TypeOK

LEMMA CallType ==
    ASSUME TypeOK, NEW t \in Thread
    PROVE  call[t] \in Calls /\ call[t].id \in Element /\ call[t].old \in State /\ call[t].new \in State
  BY DEF TypeOK, Calls

LEMMA SetIndexedKeepsInv ==
    ASSUME Inv, NEW t \in Thread, SetIndexed(t)
    PROVE  Inv'
  <1> DEFINE c == call[t]
  <1>1. c.id \in Element /\ c.new \in State /\ pc[t] = "body" /\ stateOf[c.id] \in State
    BY CallType DEF Inv, TypeOK, SetIndexed
  <1>2. CASE StartMove(t, c.id, c.new)
    BY <1>1, <1>2, StartMoveKeepsInv
  <1>3. CASE Abort(t)
    BY <1>3, AbortKeepsInv
  <1>4. CASE Answer(t, IncorrectState) /\ call' = [call EXCEPT ![t].new = stateOf[c.id]]
    <2>1. call' \in [Thread -> Calls]
      BY <1>1, <1>4 DEF Inv, TypeOK, Calls
    <2> QED
      BY <1>1, <1>4, <2>1, AnswerKeepsInv
  <1> QED
    BY <1>2, <1>3, <1>4 DEF SetIndexed

LEMMA SetOldestKeepsInv ==
    ASSUME Inv, NEW t \in Thread, SetOldest(t)
    PROVE  Inv'
  <1> DEFINE c == call[t]
  <1>1. c.old \in State /\ c.new \in State /\ pc[t] = "body" /\ call \in [Thread -> Calls]
    BY CallType DEF Inv, TypeOK, SetOldest
  <1>2. CASE Answer(t, NoIndex) /\ UNCHANGED call
    BY <1>1, <1>2, AnswerKeepsInv
  <1>3. CASE PeekHead(c.old) # NoIndex /\ StartMove(t, PeekHead(c.old), c.new)
    BY <1>1, <1>3, PeekHeadType, StartMoveKeepsInv DEF Inv
  <1> QED
    BY <1>2, <1>3 DEF SetOldest

LEMMA TouchKeepsInv ==
    ASSUME Inv, NEW t \in Thread, Touch(t)
    PROVE  Inv'
  <1> DEFINE c == call[t]
  <1>1. c.id \in Element /\ pc[t] = "body" /\ stateOf[c.id] \in State
    BY CallType DEF Inv, TypeOK, Touch
  <1>2. CASE StartMove(t, c.id, stateOf[c.id])
    BY <1>1, <1>2, StartMoveKeepsInv
  <1>3. CASE Abort(t)
    BY <1>3, AbortKeepsInv
  <1> QED
    BY <1>2, <1>3 DEF Touch

LEMMA GetOldestKeepsInv ==
    ASSUME Inv, NEW t \in Thread, GetOldest(t)
    PROVE  Inv'
  <1>1. pc[t] = "body" /\ call' \in [Thread -> Calls]
    BY DEF Inv, TypeOK, GetOldest
  <1> QED
    BY <1>1, AnswerKeepsInv DEF GetOldest

LEMMA PushKeepsInv ==
    ASSUME Inv, NEW t \in Thread, Push(t)
    PROVE  Inv'
  <1> DEFINE c == call[t]
  <1>1. c.id \in Element /\ c.new \in State
    BY CallType DEF Inv
  <1>2. MutualExclusion' /\ ForceSound'
    BY WorkKeepsExclusion DEF Push, Inside
  <1>3. queue' \in [State -> Seq(Element)]
    BY <1>1 DEF Push, StampAndPush, Stamp, Inv, TypeOK
  <1>4. pc' \in [Thread -> {"idle", "take", "return", "dead"} \union Inside]
    BY DEF Push, Goto, Inv, TypeOK, Inside
  <1>5. last' \in [Element -> Nat] /\ nextCount' \in Nat /\ stateOf' \in [Element -> State]
    BY <1>1 DEF Push, StampAndPush, Stamp, Inv, TypeOK
  <1> QED
    BY <1>2, <1>3, <1>4, <1>5 DEF Push, Inv, TypeOK

LEMMA GiveKeepsInv ==
    ASSUME Inv, NEW t \in Thread, Give(t)
    PROVE  Inv'
  <1>1. pc[t] = "give" /\ lock = t /\ t # NoThread
    BY ThreadAssumption DEF Give, Inv, MutualExclusion, Inside
  <1>2. /\ lock' = NoThread /\ Goto(t, "return")
        /\ UNCHANGED <<poolVars, call, spin, res, lost, force>>
    BY <1>1 DEF Give
  <1>3. \A u \in Thread : pc'[u] = IF u = t THEN "return" ELSE pc[u]
    BY <1>2 DEF Inv, TypeOK, Goto
  <1>4. force = NoThread
    BY <1>1 DEF Inv, ForceSound, TypeOK, Inside
  <1>5. MutualExclusion' /\ ForceSound'
    BY <1>1, <1>2, <1>3, <1>4 DEF Inv, MutualExclusion, ForceSound, Inside
  <1>6. TypeOK'
    BY <1>2 DEF Inv, TypeOK, Goto, poolVars
  <1> QED
    BY <1>5, <1>6 DEF Inv

(* The steps of a thread outside of the lock. *)
LEMMA OutsideKeepsInv ==
    ASSUME Inv, NEW t \in Thread,
           Call(t) \/ SpinAndYield(t) \/ FailToLock(t) \/ Return(t) \/ Crash(t) \/ Reuse(t)
    PROVE  Inv'
  <1>1. CASE Call(t)
    <2>1. TypeOK'
      BY <1>1 DEF Call, Goto, Inv, TypeOK, poolVars
    <2>2. \A u \in Thread : pc'[u] = IF u = t THEN "take" ELSE pc[u]
      BY <1>1 DEF Call, Goto, Inv, TypeOK
    <2> QED
      BY <1>1, <2>1, <2>2 DEF Call, Inv, TypeOK, MutualExclusion, ForceSound, Inside
  <1>2. CASE SpinAndYield(t)
    <2>1. TypeOK'
      BY <1>2 DEF SpinAndYield, Inv, TypeOK, poolVars
    <2> QED
      BY <1>2, <2>1 DEF SpinAndYield, Inv, MutualExclusion, ForceSound
  <1>3. CASE FailToLock(t)
    <2>1. TypeOK'
      BY <1>3 DEF FailToLock, Goto, Inv, TypeOK, poolVars
    <2>2. \A u \in Thread : pc'[u] = IF u = t THEN "return" ELSE pc[u]
      BY <1>3 DEF FailToLock, Goto, Inv, TypeOK
    <2> QED
      BY <1>3, <2>1, <2>2 DEF FailToLock, Inv, TypeOK, MutualExclusion, ForceSound, Inside
  <1>4. CASE Return(t)
    BY <1>4, LeaveKeepsInv DEF Return, Inv, TypeOK
  <1>5. CASE Crash(t)
    <2>1. lost' \in SUBSET Element
      BY <1>5, CallType DEF Crash, Inv, TypeOK
    <2> QED
      BY <1>5, <2>1, LeaveKeepsInv DEF Crash
  <1>6. CASE Reuse(t)
    <2>1. TypeOK'
      BY <1>6 DEF Reuse, Goto, Inv, TypeOK, poolVars
    <2>2. \A u \in Thread : pc'[u] = IF u = t THEN "idle" ELSE pc[u]
      BY <1>6 DEF Reuse, Goto, Inv, TypeOK
    <2> QED
      BY <1>6, <2>1, <2>2 DEF Reuse, Inv, TypeOK, MutualExclusion, ForceSound, Inside
  <1> QED
    BY <1>1, <1>2, <1>3, <1>4, <1>5, <1>6

LEMMA CrashStampedKeepsInv ==
    ASSUME Inv, NEW t \in Thread, CrashStamped(t)
    PROVE  Inv'
  <1>1. NoCall \in Calls /\ call[t].id \in Element
    BY PoolAssumption, CallType DEF Inv, NoCall, Calls, Op, Element, State
  <1>2. last' \in [Element -> Nat] /\ nextCount' \in Nat /\ lost' \in SUBSET Element
    BY <1>1 DEF CrashStamped, Stamp, Inv, TypeOK
  <1>3. TypeOK'
    BY <1>1, <1>2 DEF CrashStamped, Inv, TypeOK, Leave, Goto
  <1>4. \A u \in Thread : pc'[u] = IF u = t THEN "dead" ELSE pc[u]
    BY DEF CrashStamped, Inv, TypeOK, Leave, Goto
  <1>5. MutualExclusion' /\ ForceSound'
    BY <1>4 DEF CrashStamped, Inv, TypeOK, MutualExclusion, ForceSound, Inside
  <1> QED
    BY <1>3, <1>5 DEF Inv

(* A thread that takes the lock finds nobody inside. *)
LEMMA TakeLockKeepsInv ==
    ASSUME Inv, NEW t \in Thread, TakeLock(t)
    PROVE  Inv'
  <1>1. TypeOK'
    BY DEF TakeLock, Goto, Inv, TypeOK, poolVars, Inside
  <1>2. \A u \in Thread : pc[u] \notin Inside
    BY ThreadAssumption DEF TakeLock, Inv, MutualExclusion
  <1>3. \A u \in Thread : pc'[u] = IF u = t THEN "body" ELSE pc[u]
    BY DEF TakeLock, Goto, Inv, TypeOK
  <1>4. force = NoThread
    BY DEF TakeLock, Inv, ForceSound
  <1> QED
    BY <1>1, <1>2, <1>3, <1>4 DEF TakeLock, Inv, MutualExclusion, ForceSound

LEMMA ForceKeepsInv ==
    ASSUME Inv, ForceRead \/ ForceSwap
    PROVE  Inv'
  <1>1. CASE ForceRead
    <2>1. TypeOK'
      BY <1>1 DEF ForceRead, Inv, TypeOK, poolVars
    <2> QED
      BY <1>1, <2>1 DEF ForceRead, Inv, MutualExclusion, ForceSound
  <1>2. CASE ForceSwap
    <2>1. TypeOK'
      BY <1>2 DEF ForceSwap, Inv, TypeOK, poolVars
    <2>2. \A u \in Thread : pc[u] \notin Inside
      BY <1>2 DEF ForceSwap, Inv, MutualExclusion, ForceSound
    <2> QED
      BY <1>2, <2>1, <2>2 DEF ForceSwap, Inv, MutualExclusion, ForceSound
  <1> QED
    BY <1>1, <1>2

LEMMA InitInv == Init => Inv
  <1> SUFFICES ASSUME Init PROVE Inv
    OBVIOUS
  <1>1. NoCall \in Calls
    BY PoolAssumption DEF NoCall, Calls, Op, Element, State
  <1>2. queue \in [State -> Seq(Element)]
    <2> DEFINE all == [i \in 1 .. Number |-> Number - i]
    <2>1. all \in Seq(Element)
      BY PoolAssumption DEF Element
    <2>2. queue = [s \in State |-> IF s = 0 THEN all ELSE <<>>]
      BY DEF Init, Construct
    <2> HIDE DEF all
    <2>3. \A s \in State : (IF s = 0 THEN all ELSE <<>>) \in Seq(Element)
      BY <2>1
    <2> QED
      BY <2>2, <2>3
  <1>3. stateOf \in [Element -> State] /\ last \in [Element -> Nat] /\ nextCount \in Nat
    BY PoolAssumption DEF Init, Construct, Element, State
  <1> QED
    BY <1>1, <1>2, <1>3 DEF Init, Inv, TypeOK, MutualExclusion, ForceSound, Inside

LEMMA NextKeepsInv == Inv /\ [Next]_vars => Inv'
  <1> SUFFICES ASSUME Inv, [Next]_vars PROVE Inv'
    OBVIOUS
  <1>1. ASSUME NEW t \in Thread, Step(t) PROVE Inv'
    BY <1>1, TakeLockKeepsInv, OutsideKeepsInv, SetIndexedKeepsInv, SetOldestKeepsInv,
       TouchKeepsInv, GetOldestKeepsInv, PushKeepsInv, GiveKeepsInv DEF Step
  <1>2. ASSUME NEW t \in Thread, Call(t) \/ Crash(t) \/ CrashStamped(t) \/ Reuse(t) PROVE Inv'
    BY <1>2, OutsideKeepsInv, CrashStampedKeepsInv
  <1>3. CASE ForceRead \/ ForceSwap
    BY <1>3, ForceKeepsInv
  <1>4. CASE UNCHANGED vars
    BY <1>4 DEF vars, poolVars, Inv, TypeOK, MutualExclusion, ForceSound
  <1> QED
    BY <1>1, <1>2, <1>3, <1>4 DEF Next
-----------------------------------------------------------------------------
(* The queues hold elements, the lock word a tid, in every state of a pool that
   any number of threads use. *)
THEOREM PoolTyped == Spec => []TypeOK
  <1>1. Inv => TypeOK
    BY DEF Inv
  <1> QED
    BY <1>1, InitInv, NextKeepsInv, PTL DEF Spec

(* Whoever works on the queues owns the lock word: no thread ever finds another
   tid in it in sxe_spinlock_give, whatever died and was forced before. *)
THEOREM PoolMutualExclusion == Spec => []MutualExclusion
  <1>1. Inv => MutualExclusion
    BY DEF Inv
  <1> QED
    BY <1>1, InitInv, NextKeepsInv, PTL DEF Spec
-----------------------------------------------------------------------------
(***************************************************************************)
(* No element is lost, and the oldest comes first.  The two need each      *)
(* other: an element is taken off a list by its first occurrence, which is *)
(* its only one because the stamps on a list rise strictly; and a new      *)
(* stamp goes above all others because the element that gets it is on no   *)
(* list.                                                                   *)
(***************************************************************************)

(* An element in the hands of a thread was not lost before. *)
FlightSound == InFlight \intersect lost = {}

Content == Conserved /\ OldestFirst /\ FlightSound

(* The list without its element e: the positions before e's, then those after. *)
LEMMA WithoutShifts ==
    ASSUME NEW S, NEW q \in Seq(S), NEW e \in On(q)
    PROVE  \E k \in 1 .. Len(q) :
              /\ q[k] = e
              /\ DOMAIN Without(q, e) = 1 .. Len(q) - 1
              /\ \A i \in 1 .. Len(q) - 1 : Without(q, e)[i] = IF i < k THEN q[i] ELSE q[i + 1]
  <1> DEFINE k == CHOOSE i \in DOMAIN q : q[i] = e
  <1>1. DOMAIN q = 1 .. Len(q)
    OBVIOUS
  <1>2. k \in DOMAIN q /\ q[k] = e
    BY DEF On
  <1> QED
    BY <1>1, <1>2 DEF Without

(* If e is on the list once, it is not on the list without it, and the others are. *)
LEMMA OnWithout ==
    ASSUME NEW S, NEW q \in Seq(S), NEW e \in On(q),
           \A i, j \in DOMAIN q : q[i] = q[j] => i = j
    PROVE  On(Without(q, e)) = On(q) \ {e}
  <1> DEFINE w == Without(q, e)
  <1>1. PICK k \in 1 .. Len(q) :
           /\ q[k] = e
           /\ DOMAIN w = 1 .. Len(q) - 1
           /\ \A i \in 1 .. Len(q) - 1 : w[i] = IF i < k THEN q[i] ELSE q[i + 1]
    BY WithoutShifts
  <1>2. Len(q) \in Nat /\ DOMAIN q = 1 .. Len(q)
    OBVIOUS
  <1> HIDE DEF w
  <1>3. ASSUME NEW i \in DOMAIN w PROVE w[i] \in On(q) \ {e}
    <2>1. CASE i < k
      BY <1>1, <1>2, <2>1 DEF On
    <2>2. CASE ~ (i < k)
      BY <1>1, <1>2, <2>2 DEF On
    <2> QED
      BY <2>1, <2>2
  <1>4. ASSUME NEW i \in DOMAIN q, q[i] # e PROVE q[i] \in On(w)
    <2>1. i # k
      BY <1>1, <1>4
    <2>2. CASE i < k
      BY <1>1, <1>2, <2>2 DEF On
    <2>3. CASE i > k
      <3>1. i - 1 \in DOMAIN w /\ w[i - 1] = q[i]
        BY <1>1, <1>2, <2>3
      <3> QED
        BY <3>1 DEF On
    <2> QED
      BY <1>2, <2>1, <2>2, <2>3
  <1> QED
    BY <1>3, <1>4 DEF On, w

(* A list in strict age order is still so without e. *)
LEMMA WithoutSorted ==
    ASSUME NEW S, NEW q \in Seq(S), NEW e \in On(q), NEW age \in [S -> Nat],
           \A i, j \in DOMAIN q : i < j => age[q[i]] < age[q[j]]
    PROVE  \A i, j \in DOMAIN Without(q, e) :
              i < j => age[Without(q, e)[i]] < age[Without(q, e)[j]]
  <1> DEFINE w == Without(q, e)
  <1>1. PICK k \in 1 .. Len(q) :
           /\ q[k] = e
           /\ DOMAIN w = 1 .. Len(q) - 1
           /\ \A i \in 1 .. Len(q) - 1 : w[i] = IF i < k THEN q[i] ELSE q[i + 1]
    BY WithoutShifts
  <1>2. Len(q) \in Nat /\ DOMAIN q = 1 .. Len(q)
    OBVIOUS
  <1> HIDE DEF w
  <1>3. ASSUME NEW i \in DOMAIN w, NEW j \in DOMAIN w, i < j PROVE age[w[i]] < age[w[j]]
    <2>1. PICK m \in DOMAIN q : w[i] = q[m] /\ m = IF i < k THEN i ELSE i + 1
      BY <1>1, <1>2
    <2>2. PICK n \in DOMAIN q : w[j] = q[n] /\ n = IF j < k THEN j ELSE j + 1
      BY <1>1, <1>2
    <2>3. m < n
      BY <1>1, <1>2, <1>3, <2>1, <2>2
    <2> QED
      BY <2>1, <2>2, <2>3
  <1> QED
    BY <1>3 DEF w

(* In a sorted pool a list holds an element once. *)
LEMMA SortedOnce ==
    ASSUME TypeOK, Sorted, NEW s \in State
    PROVE  \A i, j \in DOMAIN queue[s] : queue[s][i] = queue[s][j] => i = j
  <1>1. queue[s] \in Seq(Element) /\ DOMAIN queue[s] \subseteq Int
    BY DEF TypeOK
  <1>2. \A e \in Element : last[e] \in Nat
    BY DEF TypeOK
  <1>3. \A i \in DOMAIN queue[s] : queue[s][i] \in Element
    BY <1>1
  <1>4. ASSUME NEW i \in DOMAIN queue[s], NEW j \in DOMAIN queue[s], queue[s][i] = queue[s][j]
        PROVE  i = j
    <2>1. ~ (i < j) /\ ~ (j < i)
      BY <1>2, <1>3, <1>4 DEF Sorted
    <2> QED
      BY <2>1, <1>1
  <1> QED
    BY <1>4

(* Whatever leaves the pool, the lost elements and the elements in the hands of
   threads alone. *)
LEMMA QuietKeepsContent ==
    ASSUME Content, UNCHANGED poolVars, UNCHANGED lost,
           \A u \in Thread : /\ pc'[u] = "push" <=> pc[u] = "push"
                             /\ pc[u] = "push" => call'[u] = call[u]
    PROVE  Content'
  <1>1. InFlight' = InFlight
    BY DEF InFlight
  <1> QED
    BY <1>1 DEF Content, Conserved, OldestFirst, FlightSound, Sorted, QueueMatchesId, poolVars

(* The thread inside is the only one with an element in its hands. *)
LEMMA AloneInside ==
    ASSUME Inv, NEW t \in Thread, pc[t] \in Inside
    PROVE  InFlight = IF pc[t] = "push" THEN {call[t].id} ELSE {}
  <1>1. \A u \in Thread : pc[u] \in Inside => u = t
    BY DEF Inv, MutualExclusion
  <1>2. \A u \in Thread : pc[u] = "push" => u = t
    BY <1>1 DEF Inside
  <1> QED
    BY <1>2 DEF InFlight

LEMMA StartMoveKeepsContent ==
    ASSUME Inv, Content, NEW t \in Thread, pc[t] = "body", NEW e \in Element, NEW new \in State,
           StartMove(t, e, new)
    PROVE  Content'
  <1> DEFINE s == stateOf[e]
  <1>1. s \in State /\ queue[s] \in Seq(Element) /\ e \in On(queue[s])
    BY DEF Inv, TypeOK, StartMove
  <1>2. /\ queue'[s] = Without(queue[s], e)
        /\ \A r \in State : r # s => queue'[r] = queue[r]
    BY <1>1 DEF StartMove, Remove, Inv, TypeOK
  <1>3. UNCHANGED <<stateOf, last, nextCount, lost>>
    BY DEF StartMove, Remove
  <1>4. InFlight = {}
    BY AloneInside DEF Inside
  <1>5. InFlight' = {e}
    <2>1. \A u \in Thread : pc'[u] = "push" <=> u = t
      BY <1>4 DEF InFlight, StartMove, Goto, Inv, TypeOK
    <2>2. call'[t].id = e
      BY DEF StartMove, Inv, TypeOK, Calls
    <2> QED
      BY <2>1, <2>2 DEF InFlight
  <1>6. On(queue'[s]) = On(queue[s]) \ {e}
    BY <1>1, <1>2, OnWithout, SortedOnce DEF Inv, Content, OldestFirst
  <1>7. e \notin lost
    BY <1>1 DEF Content, Conserved
  <1>8. QueueMatchesId'
    <2>1. ASSUME NEW r \in State, NEW i \in DOMAIN queue'[r] PROVE stateOf'[queue'[r][i]] = r
      <3>1. queue'[r][i] \in On(queue'[r])
        BY DEF On
      <3>2. queue'[r][i] \in On(queue[r])
        BY <3>1, <1>2, <1>6
      <3> QED
        BY <3>2, <1>3 DEF Content, Conserved, QueueMatchesId, On
    <2> QED
      BY <2>1 DEF QueueMatchesId
  <1>9. ASSUME NEW f \in Element
        PROVE  f \in On(queue'[stateOf'[f]]) <=> f \notin lost' \union InFlight'
    <2>1. stateOf'[f] = stateOf[f] /\ stateOf[f] \in State
      BY <1>3 DEF Inv, TypeOK
    <2>2. f \in On(queue[stateOf[f]]) <=> f \notin lost
      BY <1>4 DEF Content, Conserved
    <2>3. f \in On(queue'[stateOf[f]]) <=> (f \in On(queue[stateOf[f]]) /\ f # e)
      BY <2>1, <1>2, <1>6
    <2> QED
      BY <2>1, <2>2, <2>3, <1>3, <1>5
  <1>10. Sorted'
    <2>1. ASSUME NEW r \in State
          PROVE  \A i, j \in DOMAIN queue'[r] : i < j => last'[queue'[r][i]] < last'[queue'[r][j]]
      <3>1. \A i, j \in DOMAIN queue[r] : i < j => last[queue[r][i]] < last[queue[r][j]]
        BY DEF Content, OldestFirst, Sorted
      <3>2. CASE r # s
        BY <3>1, <3>2, <1>2, <1>3
      <3>3. CASE r = s
        <4>1. last \in [Element -> Nat]
          BY DEF Inv, TypeOK
        <4>2. \A i, j \in DOMAIN Without(queue[s], e) :
                 i < j => last[Without(queue[s], e)[i]] < last[Without(queue[s], e)[j]]
          <5>1. \A i, j \in DOMAIN queue[s] : i < j => last[queue[s][i]] < last[queue[s][j]]
            BY <3>1, <3>3
          <5> HIDE DEF s
          <5> QED
            BY <5>1, <4>1, <1>1, WithoutSorted
        <4> QED
          BY <3>3, <4>2, <1>2, <1>3
      <3> QED
        BY <3>2, <3>3
    <2> QED
      BY <2>1 DEF Sorted
  <1> QED
    BY <1>3, <1>5, <1>7, <1>8, <1>9, <1>10 DEF Content, Conserved, OldestFirst, FlightSound

(* The element in a thread's hands is on no list. *)
LEMMA InHandsOnNoList ==
    ASSUME Inv, Content, NEW t \in Thread, pc[t] = "push", NEW s \in State
    PROVE  call[t].id \notin On(queue[s])
  <1> DEFINE e == call[t].id
  <1>1. e \in Element
    BY CallType DEF Inv
  <1>2. e \notin On(queue[stateOf[e]])
    BY <1>1 DEF Content, Conserved, InFlight
  <1>3. ASSUME e \in On(queue[s]) PROVE FALSE
    <2>1. PICK i \in DOMAIN queue[s] : queue[s][i] = e
      BY <1>3 DEF On
    <2>2. stateOf[e] = s
      BY <2>1 DEF Content, Conserved, QueueMatchesId
    <2> QED
      BY <1>2, <1>3, <2>2
  <1> QED
    BY <1>3

LEMMA PushKeepsContent ==
    ASSUME Inv, Content, NEW t \in Thread, Push(t)
    PROVE  Content'
  <1> DEFINE e == call[t].id
             new == call[t].new
  <1>1. e \in Element /\ new \in State /\ queue[new] \in Seq(Element) /\ stateOf[e] \in State
    BY CallType DEF Inv, TypeOK
  <1>2. InFlight = {e} /\ e \notin lost
    BY AloneInside DEF Push, Inside, Content, FlightSound
  <1>3. \A s \in State : e \notin On(queue[s])
    BY InHandsOnNoList DEF Push
  <1>4. InFlight' = {}
    <2>1. \A u \in Thread : pc[u] = "push" => u = t
      BY DEF Push, Inv, MutualExclusion, Inside
    <2>2. \A u \in Thread : pc'[u] # "push"
      BY <2>1 DEF Push, Goto, Inv, TypeOK
    <2> QED
      BY <2>2 DEF InFlight
  <1>5. /\ queue'[new] = Append(queue[new], e)
        /\ \A r \in State : r # new => queue'[r] = queue[r]
        /\ stateOf'[e] = new /\ \A f \in Element : f # e => stateOf'[f] = stateOf[f]
        /\ last'[e] = nextCount + 1 /\ \A f \in Element : f # e => last'[f] = last[f]
        /\ nextCount' = nextCount + 1 /\ lost' = lost
    BY <1>1 DEF Push, StampAndPush, Stamp, Inv, TypeOK
  <1>6. /\ DOMAIN queue'[new] = 1 .. Len(queue[new]) + 1
        /\ queue'[new][Len(queue[new]) + 1] = e
        /\ \A i \in 1 .. Len(queue[new]) : queue'[new][i] = queue[new][i]
        /\ DOMAIN queue[new] = 1 .. Len(queue[new]) /\ Len(queue[new]) \in Nat
    BY <1>1, <1>5
  <1>7. On(queue'[new]) = On(queue[new]) \union {e}
    <2> DEFINE q == queue[new]
               p == queue'[new]
               n == Len(q)
    <2>1. /\ n \in Nat /\ DOMAIN q = 1 .. n /\ DOMAIN p = 1 .. n + 1
          /\ p[n + 1] = e /\ \A i \in 1 .. n : p[i] = q[i]
      BY <1>6
    <2> HIDE DEF q, p, n, e
    <2>2. \A i \in DOMAIN p : p[i] \in On(q) \union {e}
      BY <2>1 DEF On
    <2>3. \A i \in DOMAIN q : q[i] \in On(p)
      BY <2>1 DEF On
    <2>4. e \in On(p)
      BY <2>1 DEF On
    <2> QED
      BY <2>2, <2>3, <2>4 DEF On, q, p
  <1>8. \A r \in State : \A i \in DOMAIN queue[r] : queue[r][i] \in Element /\ queue[r][i] # e
    BY <1>3 DEF On, Inv, TypeOK
  <1>9. QueueMatchesId'
    <2>1. ASSUME NEW r \in State, NEW i \in DOMAIN queue'[r] PROVE stateOf'[queue'[r][i]] = r
      <3>1. \A k \in DOMAIN queue[r] : stateOf'[queue[r][k]] = r
        BY <1>5, <1>8 DEF Content, Conserved, QueueMatchesId
      <3>2. CASE r # new
        BY <3>1, <3>2, <1>5
      <3>3. CASE r = new
        <4>1. CASE i = Len(queue[new]) + 1
          BY <3>3, <4>1, <1>5, <1>6
        <4>2. CASE i # Len(queue[new]) + 1
          <5>1. i \in 1 .. Len(queue[new])
            BY <3>3, <4>2, <1>6
          <5> QED
            BY <5>1, <3>1, <3>3, <1>6
        <4> QED
          BY <4>1, <4>2
      <3> QED
        BY <3>2, <3>3
    <2> QED
      BY <2>1 DEF QueueMatchesId
  <1>10. ASSUME NEW f \in Element
         PROVE  f \in On(queue'[stateOf'[f]]) <=> f \notin lost' \union InFlight'
    <2>1. CASE f = e
      BY <2>1, <1>2, <1>4, <1>5, <1>7
    <2>2. CASE f # e
      <3>1. stateOf'[f] = stateOf[f] /\ stateOf[f] \in State
        BY <2>2, <1>5 DEF Inv, TypeOK
      <3>2. f \in On(queue[stateOf[f]]) <=> f \notin lost
        BY <2>2, <1>2 DEF Content, Conserved
      <3>3. f \in On(queue'[stateOf[f]]) <=> f \in On(queue[stateOf[f]])
        BY <2>2, <3>1, <1>5, <1>7
      <3> QED
        BY <3>1, <3>2, <3>3, <1>4, <1>5
    <2> QED
      BY <2>1, <2>2
  <1>11. \A f \in Element : last'[f] <= nextCount'
    <2>1. \A f \in Element : last[f] \in Nat /\ last[f] <= nextCount
      BY DEF Content, OldestFirst, Inv, TypeOK
    <2>2. nextCount \in Nat
      BY DEF Inv, TypeOK
    <2> HIDE DEF e
    <2> QED
      BY <1>5, <2>1, <2>2
  <1>12. Sorted'
    <2>1. ASSUME NEW r \in State
          PROVE  \A i, j \in DOMAIN queue[r] : i < j => last'[queue[r][i]] < last'[queue[r][j]]
      BY <1>5, <1>8 DEF Content, OldestFirst, Sorted
    <2>2. ASSUME NEW r \in State, NEW i \in DOMAIN queue'[r], NEW j \in DOMAIN queue'[r], i < j
          PROVE  last'[queue'[r][i]] < last'[queue'[r][j]]
      <3>1. CASE r # new
        BY <3>1, <2>1, <2>2, <1>5
      <3>2. CASE r = new /\ j # Len(queue[new]) + 1
        <4>1. i \in 1 .. Len(queue[new]) /\ j \in 1 .. Len(queue[new])
          BY <3>2, <2>2, <1>6
        <4> QED
          BY <4>1, <3>2, <2>1, <2>2, <1>6
      <3>3. CASE r = new /\ j = Len(queue[new]) + 1
        <4>1. i \in 1 .. Len(queue[new])
          BY <3>3, <2>2, <1>6
        <4>2. queue'[r][i] = queue[new][i] /\ queue'[r][j] = e
          BY <4>1, <3>3, <1>6
        <4>3. queue[new][i] \in Element /\ queue[new][i] # e
          BY <4>1, <1>6, <1>8, <1>1
        <4>4. last'[queue[new][i]] = last[queue[new][i]] /\ last[queue[new][i]] <= nextCount
          BY <4>3, <1>5 DEF Content, OldestFirst
        <4>5. last[queue[new][i]] \in Nat /\ nextCount \in Nat
          BY <4>3 DEF Inv, TypeOK
        <4> QED
          BY <4>2, <4>4, <4>5, <1>5
      <3> QED
        BY <3>1, <3>2, <3>3
    <2> QED
      BY <2>2 DEF Sorted
  <1> QED
    BY <1>4, <1>9, <1>10, <1>11, <1>12 DEF Content, Conserved, OldestFirst, FlightSound

(* A thread that dies with an element in its hands takes that one with it. *)
LEMMA CrashKeepsContent ==
    ASSUME Inv, Content, NEW t \in Thread, Crash(t)
    PROVE  Content'
  <1>1. \A u \in Thread : pc'[u] = IF u = t THEN "dead" ELSE pc[u]
    BY DEF Crash, Leave, Goto, Inv, TypeOK
  <1>2. CASE pc[t] # "push"
    <2>1. \A u \in Thread : u # t => call'[u] = call[u]
      BY DEF Crash, Leave, Inv, TypeOK
    <2> QED
      BY <1>1, <1>2, <2>1, QuietKeepsContent DEF Crash
  <1>3. CASE pc[t] = "push"
    <2>1. InFlight = {call[t].id}
      BY <1>3, AloneInside DEF Inside
    <2>2. InFlight' = {}
      <3>1. \A u \in Thread : pc[u] = "push" => u = t
        BY <1>3 DEF Inv, MutualExclusion, Inside
      <3> QED
        BY <3>1, <1>1 DEF InFlight
    <2>3. lost' = lost \union InFlight /\ UNCHANGED poolVars
      BY <1>3, <2>1 DEF Crash
    <2> QED
      BY <2>2, <2>3 DEF Content, Conserved, OldestFirst, FlightSound, Sorted, QueueMatchesId, poolVars
  <1> QED
    BY <1>2, <1>3

(* So does one that dies after the stamp, which no list shows. *)
LEMMA CrashStampedKeepsContent ==
    ASSUME Inv, Content, NEW t \in Thread, CrashStamped(t)
    PROVE  Content'
  <1> DEFINE e == call[t].id
  <1>1. pc[t] = "push" /\ e \in Element
    BY CallType DEF CrashStamped, Inv
  <1>2. InFlight = {e} /\ InFlight' = {}
    <2>1. \A u \in Thread : pc[u] = "push" => u = t
      BY <1>1 DEF Inv, MutualExclusion, Inside
    <2>2. \A u \in Thread : pc'[u] # "push"
      BY <2>1 DEF CrashStamped, Leave, Goto, Inv, TypeOK
    <2> QED
      BY <1>1, <2>2, AloneInside DEF InFlight, Inside
  <1>3. lost' = lost \union InFlight /\ UNCHANGED <<queue, stateOf>>
    BY <1>2 DEF CrashStamped
  <1>4. /\ nextCount' = nextCount + 1 /\ nextCount \in Nat
        /\ last'[e] = nextCount + 1 /\ \A f \in Element : f # e => last'[f] = last[f]
    BY <1>1 DEF CrashStamped, Stamp, Inv, TypeOK
  <1>5. Conserved' /\ FlightSound'
    BY <1>2, <1>3 DEF Content, Conserved, FlightSound, QueueMatchesId
  <1>6. \A f \in Element : last'[f] <= nextCount'
    <2>1. \A f \in Element : last[f] \in Nat /\ last[f] <= nextCount
      BY DEF Content, OldestFirst, Inv, TypeOK
    <2> HIDE DEF e
    <2> QED
      BY <1>4, <2>1
  <1>7. \A s \in State : \A i \in DOMAIN queue[s] : queue[s][i] \in Element /\ queue[s][i] # e
    BY <1>1, InHandsOnNoList DEF On, Inv, TypeOK
  <1>8. Sorted'
    BY <1>3, <1>4, <1>7 DEF Content, OldestFirst, Sorted
  <1> QED
    BY <1>5, <1>6, <1>8 DEF Content, OldestFirst

LEMMA AbortKeepsContent ==
    ASSUME Inv, Content, NEW t \in Thread, pc[t] # "push", Abort(t)
    PROVE  Content'
  <1>1. \A u \in Thread : /\ pc'[u] = IF u = t THEN "dead" ELSE pc[u]
                          /\ u # t => call'[u] = call[u]
    BY DEF Abort, Leave, Goto, Inv, TypeOK
  <1> QED
    BY <1>1, QuietKeepsContent DEF Abort

LEMMA AnswerKeepsContent ==
    ASSUME Inv, Content, NEW t \in Thread, pc[t] = "body", NEW r, Answer(t, r),
           \A u \in Thread : u # t => call'[u] = call[u]
    PROVE  Content'
  <1>1. \A u \in Thread : pc'[u] = IF u = t THEN "give" ELSE pc[u]
    BY DEF Answer, Goto, Inv, TypeOK
  <1> QED
    BY <1>1, QuietKeepsContent DEF Answer

(* The bodies of the operations. *)
LEMMA BodyKeepsContent ==
    ASSUME Inv, Content, NEW t \in Thread,
           SetIndexed(t) \/ SetOldest(t) \/ Touch(t) \/ GetOldest(t)
    PROVE  Content'
  <1> DEFINE c == call[t]
  <1>1. /\ pc[t] = "body" /\ c.id \in Element /\ c.old \in State /\ c.new \in State
        /\ stateOf[c.id] \in State
    BY CallType DEF Inv, TypeOK, SetIndexed, SetOldest, Touch, GetOldest
  <1>2. ASSUME NEW e \in Element, NEW new \in State, StartMove(t, e, new) PROVE Content'
    BY <1>1, <1>2, StartMoveKeepsContent
  <1>3. CASE Abort(t)
    BY <1>1, <1>3, AbortKeepsContent
  <1>4. ASSUME NEW r, Answer(t, r), call' = call PROVE Content'
    BY <1>1, <1>4, AnswerKeepsContent
  <1>5. CASE Answer(t, IncorrectState) /\ call' = [call EXCEPT ![t].new = stateOf[c.id]]
    <2>1. \A u \in Thread : u # t => call'[u] = call[u]
      BY <1>5 DEF Inv, TypeOK
    <2> QED
      BY <1>1, <1>5, <2>1, AnswerKeepsContent
  <1>6. CASE SetIndexed(t)
    BY <1>1, <1>2, <1>3, <1>5, <1>6 DEF SetIndexed
  <1>7. CASE SetOldest(t)
    BY <1>1, <1>2, <1>4, <1>7, PeekHeadType DEF SetOldest, Inv
  <1>8. CASE Touch(t)
    BY <1>1, <1>2, <1>3, <1>8 DEF Touch
  <1>9. CASE GetOldest(t)
    BY <1>4, <1>9 DEF GetOldest
  <1> QED
    BY <1>6, <1>7, <1>8, <1>9

LEMMA OutsideKeepsContent ==
    ASSUME Inv, Content, NEW t \in Thread,
           Call(t) \/ TakeLock(t) \/ SpinAndYield(t) \/ FailToLock(t) \/ Give(t) \/ Return(t) \/ Reuse(t)
    PROVE  Content'
  <1>1. pc[t] # "push" /\ UNCHANGED poolVars /\ UNCHANGED lost
    BY DEF Call, TakeLock, SpinAndYield, FailToLock, Give, Abort, Return, Reuse
  <1>2. pc' = pc \/ \E l \in {"take", "body", "return", "dead", "idle"} : pc' = [pc EXCEPT ![t] = l]
    BY DEF Call, TakeLock, SpinAndYield, FailToLock, Give, Abort, Return, Reuse, Leave, Goto
  <1>3. call' = call \/ \E c : call' = [call EXCEPT ![t] = c]
    BY DEF Call, TakeLock, SpinAndYield, FailToLock, Give, Abort, Return, Reuse, Leave
  <1>4. \A u \in Thread : pc'[u] = "push" <=> pc[u] = "push"
    BY <1>1, <1>2 DEF Inv, TypeOK
  <1>5. \A u \in Thread : pc[u] = "push" => call'[u] = call[u]
    BY <1>1, <1>3 DEF Inv, TypeOK
  <1> QED
    BY <1>1, <1>4, <1>5, QuietKeepsContent

LEMMA InitContent == Init => Content
  <1> SUFFICES ASSUME Init PROVE Content
    OBVIOUS
  <1> DEFINE all == [i \in 1 .. Number |-> Number - i]
  <1>1. /\ 0 \in State /\ queue[0] = all /\ \A s \in State : s # 0 => queue[s] = <<>>
        /\ InFlight = {} /\ lost = {}
    BY PoolAssumption DEF Init, Construct, State, InFlight
  <1>2. \A e \in Element : e \in On(all)
    <2>1. ASSUME NEW e \in Element PROVE e \in On(all)
      <3>1. Number - e \in 1 .. Number /\ all[Number - e] = e
        BY PoolAssumption DEF Element
      <3> QED
        BY <3>1 DEF On
    <2> QED
      BY <2>1
  <1>3. \A i \in DOMAIN all : all[i] \in Element /\ last[all[i]] = i
    BY PoolAssumption DEF Init, Construct, Element
  <1>4. Conserved
    <2>1. QueueMatchesId
      <3>1. \A e \in Element : stateOf[e] = 0
        BY DEF Init, Construct
      <3>2. ASSUME NEW s \in State, NEW i \in DOMAIN queue[s] PROVE stateOf[queue[s][i]] = s
        <4>1. s = 0
          BY <1>1
        <4> QED
          BY <4>1, <3>1, <1>1, <1>3
      <3> QED
        BY <3>2 DEF QueueMatchesId
    <2>2. \A e \in Element : e \in On(queue[stateOf[e]])
      BY <1>1, <1>2 DEF Init, Construct
    <2> QED
      BY <1>1, <2>1, <2>2 DEF Conserved
  <1>5. OldestFirst
    <2>1. \A e \in Element : last[e] <= nextCount
      BY PoolAssumption DEF Init, Construct, Element
    <2>2. Sorted
      <3> HIDE DEF all
      <3>1. ASSUME NEW s \in State, NEW i \in DOMAIN queue[s], NEW j \in DOMAIN queue[s], i < j
            PROVE  last[queue[s][i]] < last[queue[s][j]]
        <4>1. s = 0
          BY <1>1
        <4> QED
          BY <4>1, <3>1, <1>1, <1>3
      <3> QED
        BY <3>1 DEF Sorted
    <2> QED
      BY <2>1, <2>2 DEF OldestFirst
  <1> QED
    BY <1>1, <1>4, <1>5 DEF Content, FlightSound

LEMMA NextKeepsContent == Inv /\ Content /\ [Next]_vars => Content'
  <1> SUFFICES ASSUME Inv, Content, [Next]_vars PROVE Content'
    OBVIOUS
  <1>1. ASSUME NEW t \in Thread, Call(t) \/ Step(t) \/ Crash(t) \/ CrashStamped(t) \/ Reuse(t)
        PROVE  Content'
    BY <1>1, OutsideKeepsContent, BodyKeepsContent, PushKeepsContent, CrashKeepsContent,
       CrashStampedKeepsContent DEF Step
  <1>2. CASE ForceRead \/ ForceSwap
    BY <1>2, QuietKeepsContent DEF ForceRead, ForceSwap
  <1>3. CASE UNCHANGED vars
    BY <1>3, QuietKeepsContent DEF vars
  <1> QED
    BY <1>1, <1>2, <1>3 DEF Next

(* No element of a pool is lost or on two lists, for any number of elements,
   states and threads, except those that died with the thread that moved them. *)
THEOREM PoolConserved == Spec => []Conserved
  <1>1. Content => Conserved
    BY DEF Content
  <1> QED
    BY <1>1, InitInv, NextKeepsInv, InitContent, NextKeepsContent, PTL DEF Spec

(* Every queue of a pool runs from its oldest element to its newest. *)
THEOREM PoolOldestFirst == Spec => []OldestFirst
  <1>1. Content => OldestFirst
    BY DEF Content
  <1> QED
    BY <1>1, InitInv, NextKeepsInv, InitContent, NextKeepsContent, PTL DEF Spec
-----------------------------------------------------------------------------
(***************************************************************************)
(* The refinement: each operation is one atomic step of SxePoolSpec, taken *)
(* when the element is pushed or the answer is fixed.  What a move does    *)
(* between its two list operations must not invalidate what it read before *)
(* them, which PushSound says of the thread that is there.                 *)
(***************************************************************************)

(* The element in the hands of a thread moves as its operation was told to: a
   touched one back to its own state, the oldest one past those left behind. *)
PushSound == \A t \in Thread : pc[t] = "push" =>
    LET c == call[t] IN
    /\ Moves(c)
    /\ c.op = "touch" => c.new = stateOf[c.id]
    /\ c.op = "set_oldest" => \A f \in On(queue[stateOf[c.id]]) : last[c.id] <= last[f]

Known == Inv /\ Content /\ PushSound

LEMMA QuietKeepsPushSound ==
    ASSUME PushSound, UNCHANGED poolVars,
           \A u \in Thread : pc'[u] = "push" => pc[u] = "push" /\ call'[u] = call[u]
    PROVE  PushSound'
  BY DEF PushSound, poolVars, Moves, On

(* Nobody has an element in its hands but the thread that just took one. *)
LEMMA StartMoveKeepsPushSound ==
    ASSUME Inv, Content, NEW t \in Thread, pc[t] = "body", NEW e \in Element, NEW new \in State,
           StartMove(t, e, new), Moves(call[t]),
           call[t].op = "touch" => new = stateOf[e],
           call[t].op = "set_oldest" => \A f \in On(queue[stateOf[e]]) : last[e] <= last[f]
    PROVE  PushSound'
  <1> DEFINE s == stateOf[e]
  <1>1. /\ call'[t].op = call[t].op /\ call'[t].id = e /\ call'[t].new = new
    BY DEF StartMove, Inv, TypeOK, Calls
  <1>2. \A u \in Thread : pc'[u] = "push" => u = t
    <2>1. \A u \in Thread : pc[u] = "push" => u = t
      BY DEF Inv, MutualExclusion, Inside
    <2> QED
      BY <2>1 DEF StartMove, Goto, Inv, TypeOK
  <1>3. UNCHANGED <<stateOf, last>>
    BY DEF StartMove, Remove
  <1>4. s \in State /\ queue[s] \in Seq(Element) /\ e \in On(queue[s])
    BY DEF Inv, TypeOK, StartMove
  <1>5. On(queue'[s]) \subseteq On(queue[s])
    <2>1. queue'[s] = Without(queue[s], e)
      BY <1>4 DEF StartMove, Remove, Inv, TypeOK
    <2> QED
      BY <2>1, <1>4, OnWithout, SortedOnce DEF Inv, Content, OldestFirst
  <1>6. Moves(call'[t])
    BY <1>1 DEF Moves
  <1>7. call'[t].op = "set_oldest" => \A f \in On(queue'[s]) : last'[e] <= last'[f]
    BY <1>1, <1>3, <1>5
  <1> QED
    BY <1>1, <1>2, <1>3, <1>6, <1>7 DEF PushSound

(* The first element of a list is the oldest on it. *)
LEMMA HeadFirst ==
    ASSUME Inv, Content, NEW s \in State, PeekHead(s) # NoIndex
    PROVE  /\ PeekHead(s) \in On(queue[s]) /\ PeekHead(s) \in Element
           /\ stateOf[PeekHead(s)] = s
           /\ \A f \in On(queue[s]) : last[PeekHead(s)] <= last[f]
  <1>1. queue[s] \in Seq(Element) /\ queue[s] # <<>> /\ PeekHead(s) = queue[s][1]
    BY DEF PeekHead, Inv, TypeOK
  <1>2. 1 \in DOMAIN queue[s] /\ \A i \in DOMAIN queue[s] : i \in Nat /\ queue[s][i] \in Element /\ i >= 1
    BY <1>1
  <1>3. ASSUME NEW i \in DOMAIN queue[s] PROVE last[queue[s][1]] <= last[queue[s][i]]
    <2>1. last[queue[s][1]] \in Nat /\ last[queue[s][i]] \in Nat
      BY <1>2 DEF Inv, TypeOK
    <2>2. CASE i = 1
      BY <2>1, <2>2
    <2>3. CASE i # 1
      <3>1. 1 < i
        BY <1>2, <2>3
      <3>2. last[queue[s][1]] < last[queue[s][i]]
        BY <1>2, <3>1 DEF Content, OldestFirst, Sorted
      <3> QED
        BY <2>1, <3>2
    <2> QED
      BY <2>2, <2>3
  <1> QED
    BY <1>1, <1>2, <1>3 DEF On, Content, Conserved, QueueMatchesId

LEMMA InitPushSound == Init => PushSound
  BY DEF Init, PushSound

LEMMA NextKeepsPushSound == Known /\ [Next]_vars => PushSound'
  <1> SUFFICES ASSUME Known, [Next]_vars PROVE PushSound'
    OBVIOUS
  <1> USE DEF Known
  <1>1. ASSUME NEW t \in Thread, pc[t] # "push",
               \/ Call(t) \/ TakeLock(t) \/ SpinAndYield(t) \/ FailToLock(t)
               \/ Give(t) \/ Return(t) \/ Crash(t) \/ Reuse(t)
        PROVE  PushSound'
    <2>1. UNCHANGED poolVars
      BY <1>1 DEF Call, TakeLock, SpinAndYield, FailToLock, Give, Abort, Return, Crash, Reuse
    <2>2. pc' = pc \/ \E l \in {"take", "body", "return", "dead", "idle"} : pc' = [pc EXCEPT ![t] = l]
      BY <1>1 DEF Call, TakeLock, SpinAndYield, FailToLock, Give, Abort, Return, Crash, Reuse, Leave, Goto
    <2>3. call' = call \/ \E c : call' = [call EXCEPT ![t] = c]
      BY <1>1 DEF Call, TakeLock, SpinAndYield, FailToLock, Give, Abort, Return, Crash, Reuse, Leave
    <2>4. \A u \in Thread : pc'[u] = "push" => u # t /\ pc[u] = "push"
      BY <1>1, <2>2 DEF Inv, TypeOK
    <2>5. \A u \in Thread : u # t => call'[u] = call[u]
      BY <2>3 DEF Inv, TypeOK
    <2> QED
      BY <2>1, <2>4, <2>5, QuietKeepsPushSound
  <1>2. ASSUME NEW t \in Thread, pc[t] \in Inside,
               \/ \E r : Answer(t, r)
               \/ Abort(t)
               \/ Push(t)
               \/ Crash(t) \/ CrashStamped(t)
        PROVE  PushSound'
    <2>1. \A u \in Thread : pc[u] = "push" => u = t
      BY <1>2 DEF Inv, MutualExclusion, Inside
    <2>2. \E l \in {"give", "dead"} : pc' = [pc EXCEPT ![t] = l]
      BY <1>2 DEF Answer, Abort, Push, Crash, CrashStamped, Leave, Goto
    <2>3. \A u \in Thread : pc'[u] # "push"
      BY <2>1, <2>2 DEF Inv, TypeOK
    <2> QED
      BY <2>3 DEF PushSound
  <1>3. ASSUME NEW t \in Thread, SetIndexed(t) \/ SetOldest(t) \/ Touch(t) \/ GetOldest(t)
        PROVE  PushSound'
    <2> DEFINE c == call[t]
    <2>1. /\ pc[t] = "body" /\ pc[t] \in Inside /\ c.id \in Element /\ c.old \in State
          /\ c.new \in State /\ stateOf[c.id] \in State
      BY <1>3, CallType DEF Inv, TypeOK, SetIndexed, SetOldest, Touch, GetOldest, Inside
    <2>2. CASE SetIndexed(t) /\ StartMove(t, c.id, c.new)
      BY <2>1, <2>2, StartMoveKeepsPushSound DEF SetIndexed, Moves
    <2>3. CASE SetOldest(t) /\ PeekHead(c.old) # NoIndex /\ StartMove(t, PeekHead(c.old), c.new)
      BY <2>1, <2>3, StartMoveKeepsPushSound, HeadFirst DEF SetOldest, Moves
    <2>4. CASE Touch(t) /\ StartMove(t, c.id, stateOf[c.id])
      BY <2>1, <2>4, StartMoveKeepsPushSound DEF Touch, Moves
    <2>5. CASE (\E r : Answer(t, r)) \/ Abort(t)
      BY <2>1, <2>5, <1>2
    <2> QED
      BY <1>3, <2>2, <2>3, <2>4, <2>5 DEF SetIndexed, SetOldest, Touch, GetOldest
  <1>4. CASE ForceRead \/ ForceSwap \/ UNCHANGED vars
    BY <1>4, QuietKeepsPushSound DEF ForceRead, ForceSwap, vars
  <1>5. ASSUME NEW t \in Thread, Crash(t) \/ CrashStamped(t) PROVE PushSound'
    BY <1>1, <1>2, <1>5 DEF Inside, CrashStamped
  <1>6. ASSUME NEW t \in Thread, Push(t) PROVE PushSound'
    BY <1>2, <1>6 DEF Inside, Push
  <1>7. ASSUME NEW t \in Thread,
               \/ Call(t) \/ TakeLock(t) \/ SpinAndYield(t) \/ FailToLock(t)
               \/ Give(t) \/ Return(t) \/ Reuse(t)
        PROVE  PushSound'
    <2>1. pc[t] # "push"
      BY <1>7 DEF Call, TakeLock, SpinAndYield, FailToLock, Give, Return, Reuse
    <2> QED
      BY <1>1, <1>7, <2>1
  <1> QED
    BY <1>3, <1>4, <1>5, <1>6, <1>7 DEF Next, Step

(* What the callers see as a state's elements: those on its list and the one that
   is being moved out of it. *)
LEMMA InQueue ==
    ASSUME Inv, Content, NEW s \in State, NEW f \in Abstract!In(s)
    PROVE  f \in Element /\ (f \in On(queue[s]) \/ f \in InFlight)
  BY DEF Abstract!In, Abstract!Element, Element, Content, Conserved

LEMMA HeadIsOldest ==
    ASSUME Inv, Content, InFlight = {}, NEW s \in State, PeekHead(s) # NoIndex
    PROVE  PeekHead(s) \in Element /\ Abstract!IsOldest(PeekHead(s), s)
  <1>1. /\ PeekHead(s) \in On(queue[s]) /\ PeekHead(s) \in Element /\ stateOf[PeekHead(s)] = s
        /\ \A f \in On(queue[s]) : last[PeekHead(s)] <= last[f]
    BY HeadFirst
  <1>2. PeekHead(s) \notin lost
    BY <1>1 DEF Content, Conserved
  <1>3. PeekHead(s) \in Abstract!In(s)
    BY <1>1, <1>2 DEF Abstract!In, Abstract!Element, Element
  <1>4. \A f \in Abstract!In(s) : last[PeekHead(s)] <= last[f]
    BY <1>1, InQueue
  <1> QED
    BY <1>1, <1>3, <1>4 DEF Abstract!IsOldest

LEMMA NoHeadNone ==
    ASSUME Inv, Content, InFlight = {}, NEW s \in State, PeekHead(s) = NoIndex
    PROVE  Abstract!In(s) = {}
  <1>1. queue[s] = <<>>
    <2>1. queue[s] \in Seq(Element)
      BY DEF Inv, TypeOK
    <2>2. queue[s] # <<>> => queue[s][1] \in Element
      BY <2>1
    <2> QED
      BY <2>2, PoolAssumption DEF PeekHead, NoIndex, Element
  <1>2. On(queue[s]) = {}
    BY <1>1 DEF On
  <1> QED
    BY <1>2, InQueue

(* A step that changes nothing its callers see. *)
LEMMA Unseen ==
    ASSUME UNCHANGED <<stateOf, last, nextCount, lost, res>>
    PROVE  UNCHANGED Abstract!specVars
  BY DEF Abstract!specVars

LEMMA LeaveIsForget ==
    ASSUME NEW t \in Thread, NEW l, Leave(t, l), UNCHANGED <<poolVars, lost>>
    PROVE  Abstract!Next
  <1>1. Abstract!Forget(t)
    BY DEF Leave, poolVars, NoResult, Abstract!Forget, Abstract!Keep, Abstract!Return
  <1> QED
    BY <1>1 DEF Abstract!Next

LEMMA PushIsMove ==
    ASSUME Known, NEW t \in Thread, Push(t)
    PROVE  Abstract!Next
  <1> DEFINE c == call[t]
             e == c.id
  <1>1. e \in Abstract!Element /\ c.new \in Abstract!State /\ stateOf[e] \in Abstract!State
    BY CallType DEF Known, Inv, TypeOK, Abstract!Element, Element, Abstract!State, State
  <1>2. InFlight = {e} /\ e \notin lost
    BY AloneInside DEF Push, Inside, Known, Content, FlightSound
  <1>3. Abstract!Move(e, c.new)
    BY <1>2 DEF Push, StampAndPush, Stamp, Abstract!Move
  <1>4. c.op \in Op /\ Moves(c) /\ PushSound
    BY DEF Known, PushSound, Push, Inv, TypeOK, Calls
  <1>5. CASE c.op = "set_indexed"
    <2>1. Abstract!Return(t, "set_indexed", 0)
      BY <1>5 DEF Push, Abstract!Return, LockTaken
    <2>2. Abstract!SetIndexed(t)
      BY <1>1, <1>3, <2>1 DEF Abstract!SetIndexed
    <2> QED
      BY <2>2 DEF Abstract!Next
  <1>6. CASE c.op = "try_to_set"
    <2>1. Abstract!Return(t, "try_to_set", e)
      BY <1>6 DEF Push, Abstract!Return
    <2>2. Abstract!TryToSet(t)
      BY <1>1, <1>3, <2>1 DEF Abstract!TryToSet
    <2> QED
      BY <2>2 DEF Abstract!Next
  <1>7. CASE c.op = "touch"
    <2>1. Abstract!Return(t, "touch", 0)
      BY <1>7 DEF Push, Abstract!Return, LockTaken
    <2>2. c.new = stateOf[e]
      BY <1>4, <1>7 DEF PushSound, Push
    <2>3. Abstract!Touch(t)
      BY <1>1, <1>3, <2>1, <2>2 DEF Abstract!Touch
    <2> QED
      BY <2>3 DEF Abstract!Next
  <1>8. CASE c.op = "set_oldest"
    <2>1. Abstract!Return(t, "set_oldest", e)
      BY <1>8 DEF Push, Abstract!Return
    <2>2. \A f \in On(queue[stateOf[e]]) : last[e] <= last[f]
      BY <1>4, <1>8 DEF PushSound, Push
    <2>3. stateOf[e] \in State /\ e \in Element
      BY <1>1 DEF Abstract!State, State, Abstract!Element, Element
    <2>4. \A f \in Abstract!In(stateOf[e]) : f \in Element /\ (f \in On(queue[stateOf[e]]) \/ f = e)
      BY <1>2, <2>3, InQueue DEF Known
    <2>5. last[e] <= last[e]
      BY <2>3 DEF Known, Inv, TypeOK
    <2>6. e \in Abstract!In(stateOf[e])
      BY <1>1, <1>2 DEF Abstract!In
    <2>7. Abstract!IsOldest(e, stateOf[e])
      BY <2>2, <2>4, <2>5, <2>6 DEF Abstract!IsOldest
    <2>8. Abstract!SetOldest(t)
      BY <1>1, <1>3, <2>1, <2>7 DEF Abstract!SetOldest
    <2> QED
      BY <2>8 DEF Abstract!Next
  <1> QED
    BY <1>4, <1>5, <1>6, <1>7, <1>8 DEF Op, Moves

(* The bodies of the operations: an answer is fixed, or nothing is seen yet. *)
LEMMA BodyRefines ==
    ASSUME Known, NEW t \in Thread, SetIndexed(t) \/ SetOldest(t) \/ Touch(t) \/ GetOldest(t)
    PROVE  [Abstract!Next]_Abstract!specVars
  <1> DEFINE c == call[t]
  <1>1. pc[t] = "body"
    BY DEF SetIndexed, SetOldest, Touch, GetOldest
  <1>2. /\ c.id \in Element /\ c.old \in State /\ stateOf[c.id] \in State
        /\ c.id \in Abstract!Element /\ c.old \in Abstract!State
    BY CallType DEF Known, Inv, TypeOK, Abstract!Element, Element, Abstract!State, State
  <1>3. InFlight = {}
    BY <1>1, AloneInside DEF Known, Inside
  <1>4. ASSUME NEW e, NEW new, StartMove(t, e, new) PROVE [Abstract!Next]_Abstract!specVars
    BY <1>4, Unseen DEF StartMove, Remove
  <1>5. CASE Abort(t)
    BY <1>5, LeaveIsForget DEF Abort
  <1>6. ASSUME NEW r, Answer(t, r)
        PROVE  Abstract!Keep /\ Abstract!Return(t, c.op, r)
    BY <1>6 DEF Answer, poolVars, Abstract!Keep, Abstract!Return
  <1>7. CASE c.op = "try_to_set" /\ stateOf[c.id] # c.old /\ Answer(t, IncorrectState)
    <2>1. Abstract!TryToSet(t)
      BY <1>2, <1>6, <1>7 DEF Abstract!TryToSet, IncorrectState
    <2> QED
      BY <2>1 DEF Abstract!Next
  <1>8. CASE c.op = "set_oldest" /\ PeekHead(c.old) = NoIndex /\ Answer(t, NoIndex)
    <2>1. Abstract!In(c.old) = {}
      BY <1>2, <1>3, <1>8, NoHeadNone DEF Known
    <2>2. Abstract!SetOldest(t)
      BY <1>2, <1>6, <1>8, <2>1 DEF Abstract!SetOldest, NoIndex
    <2> QED
      BY <2>2 DEF Abstract!Next
  <1>9. CASE GetOldest(t)
    <2> DEFINE head == PeekHead(c.old)
    <2>1. head # NoIndex => head \in Abstract!Element /\ Abstract!IsOldest(head, c.old)
      BY <1>2, <1>3, HeadIsOldest DEF Known, Abstract!Element, Element
    <2>2. CASE c.op = "oldest_index" /\ Answer(t, head)
      <3>1. Abstract!OldestIndex(t)
        BY <1>2, <1>6, <2>1, <2>2 DEF Abstract!OldestIndex, NoIndex
      <3> QED
        BY <3>1 DEF Abstract!Next
    <2>3. CASE c.op = "oldest_count" /\ Answer(t, IF head = NoIndex THEN 0 ELSE last[head])
      <3>1. Abstract!OldestCount(t)
        BY <1>2, <1>6, <2>1, <2>3 DEF Abstract!OldestCount
      <3> QED
        BY <3>1 DEF Abstract!Next
    <2> QED
      BY <1>9, <2>2, <2>3 DEF GetOldest
  <1>10. CASE SetIndexed(t)
    BY <1>10, <1>4, <1>5, <1>7 DEF SetIndexed
  <1>11. CASE SetOldest(t)
    BY <1>11, <1>4, <1>8 DEF SetOldest
  <1>12. CASE Touch(t)
    BY <1>12, <1>4, <1>5 DEF Touch
  <1> QED
    BY <1>9, <1>10, <1>11, <1>12

LEMMA FailToLockRefines ==
    ASSUME Known, NEW t \in Thread, FailToLock(t)
    PROVE  Abstract!Next
  <1> DEFINE op == call[t].op
  <1>1. op \in Op
    BY DEF Known, Inv, TypeOK, Calls
  <1>2. Abstract!Keep /\ Abstract!Return(t, op, NotTaken(op))
    BY DEF FailToLock, poolVars, Abstract!Keep, Abstract!Return
  <1>3. CASE op = "oldest_index"
    <2>1. Abstract!OldestIndex(t)
      BY <1>2, <1>3 DEF Abstract!OldestIndex, NotTaken, NoIndex
    <2> QED
      BY <2>1 DEF Abstract!Next
  <1>4. CASE op = "oldest_count"
    <2>1. Abstract!OldestCount(t)
      BY <1>2, <1>4 DEF Abstract!OldestCount, NotTaken
    <2> QED
      BY <2>1 DEF Abstract!Next
  <1>5. CASE op \in {"set_indexed", "try_to_set", "set_oldest", "touch"}
    <2>1. NotTaken(op) = -3
      BY <1>5 DEF NotTaken, LockNotTaken
    <2>2. Abstract!CannotLock(t)
      BY <1>2, <1>5, <2>1 DEF Abstract!CannotLock
    <2> QED
      BY <2>2 DEF Abstract!Next
  <1> QED
    BY <1>1, <1>3, <1>4, <1>5 DEF Op

LEMMA CrashRefines ==
    ASSUME Known, NEW t \in Thread, Crash(t)
    PROVE  Abstract!Next
  <1>1. CASE pc[t] # "push"
    BY <1>1, LeaveIsForget DEF Crash
  <1>2. CASE pc[t] = "push"
    <2>1. call[t].id \in Abstract!Element
      BY CallType DEF Known, Inv, Abstract!Element, Element
    <2>2. Abstract!Lose(call[t].id, t)
      BY <1>2 DEF Crash, Leave, NoResult, poolVars, Abstract!Lose, Abstract!Return
    <2> QED
      BY <2>1, <2>2 DEF Abstract!Next
  <1> QED
    BY <1>1, <1>2

LEMMA CrashStampedRefines ==
    ASSUME Known, NEW t \in Thread, CrashStamped(t)
    PROVE  Abstract!Next
  <1>1. call[t].id \in Abstract!Element
    BY CallType DEF Known, Inv, Abstract!Element, Element
  <1>2. Abstract!Lose(call[t].id, t)
    BY DEF CrashStamped, Stamp, Leave, NoResult, Abstract!Lose, Abstract!Return
  <1> QED
    BY <1>1, <1>2 DEF Abstract!Next

LEMMA NextRefines == Known /\ [Next]_vars => [Abstract!Next]_Abstract!specVars
  <1> SUFFICES ASSUME Known, [Next]_vars PROVE [Abstract!Next]_Abstract!specVars
    OBVIOUS
  <1>1. ASSUME NEW t \in Thread, Call(t) \/ TakeLock(t) \/ SpinAndYield(t) \/ Reuse(t)
        PROVE  UNCHANGED Abstract!specVars
    BY <1>1, Unseen DEF Call, TakeLock, SpinAndYield, Reuse, poolVars
  <1>2. ASSUME NEW t \in Thread, Give(t) \/ Return(t)
        PROVE  [Abstract!Next]_Abstract!specVars
    BY <1>2, Unseen, LeaveIsForget DEF Give, Return, Abort, poolVars
  <1>3. CASE ForceRead \/ ForceSwap \/ UNCHANGED vars
    BY <1>3, Unseen DEF ForceRead, ForceSwap, vars, poolVars
  <1> QED
    BY <1>1, <1>2, <1>3, BodyRefines, PushIsMove, FailToLockRefines, CrashRefines,
       CrashStampedRefines DEF Next, Step

LEMMA InitRefines == Init => Abstract!Init
  BY DEF Init, Construct, Abstract!Init, Abstract!Element, Element, NoResult

(* Every operation of sxe-pool.c, for any number of threads, elements and states,
   has the effect and the result of one atomic step of SxePoolSpec, although it is
   two list operations under a lock whose owner may die in between. *)
THEOREM PoolImplementsSpec == Spec => ImplementsSpec
  <1>1. Init => Known
    BY InitInv, InitContent, InitPushSound DEF Known
  <1>2. Known /\ [Next]_vars => Known'
    BY NextKeepsInv, NextKeepsContent, NextKeepsPushSound DEF Known
  <1> QED
    BY <1>1, <1>2, InitRefines, NextRefines, PTL DEF Spec, ImplementsSpec, Abstract!Spec
=============================================================================
