--------------------------- MODULE SxePoolTimeouts ---------------------------
(***************************************************************************)
(* Timed pools with timeouts (sxe_pool_new_with_timeouts) and the scan     *)
(* that fires their callbacks, sxe_pool_check_timeouts.  One thread uses   *)
(* them ("not currently relocatable or thread safe"); what happens between *)
(* the steps of a scan is what its own callbacks do, and time passing.     *)
(***************************************************************************)
EXTENDS Integers, Sequences

CONSTANTS
    Pool,           \* pools that may be created
    Number,         \* elements per pool
    States,         \* states per pool
    Timeout,        \* Timeout[s]: the timeout of state s, 0 for none
    TimeMod,        \* kit_timestamp_t is unsigned: arithmetic modulo TimeMod
    MaxClock        \* bound on the clock

Element == 0 .. Number - 1
State   == 0 .. States - 1
NoPool  == <<>>     \* the NULL that ends the walk of the list of pools
NoIndex == -1

ASSUME TimeoutsAssumption ==
    /\ Number \in Nat \ {0} /\ States \in Nat \ {0}
    /\ Timeout \in [State -> Nat]
    /\ MaxClock \in Nat
    /\ TimeMod \in Nat /\ TimeMod > MaxClock /\ \A s \in State : Timeout[s] < TimeMod
    /\ NoPool \notin Pool

VARIABLES
    pools,      \* sxe_pool_timeout_list, head first
    queue,      \* queue[p][s]: the elements of pool p in state s, head first
    last,       \* last[p][e]: the time of e's last move
    clock,      \* the time kit_timestamp_get returns
    pc,         \* "idle", "scan", "callback" or "aborted"
    now,        \* time_now, taken when the scan starts
    pool,       \* the pool the list walker is at
    state,      \* the state being looked at
    prev        \* [index, time] of the last element fired in this state

vars == <<pools, queue, last, clock, pc, now, pool, state, prev>>

scanVars == <<now, pool, state, prev>>

Listed   == {pools[i] : i \in DOMAIN pools}
On(q)    == {q[i] : i \in DOMAIN q}

(* The list without e, which is on it. *)
Without(q, e) ==
    LET k == CHOOSE i \in DOMAIN q : q[i] = e
    IN  [i \in 1 .. Len(q) - 1 |-> IF i < k THEN q[i] ELSE q[i + 1]]

(* Mutant of NoneYet: the index of the last element fired starts as 0. *)
ZeroedYet == [index |-> 0, time |-> 0]

(* The last element fired, before any was. *)
NoneYet == [index |-> NoIndex, time |-> 0]

Init ==
    /\ pools = <<>>
    /\ queue = [p \in Pool |-> [s \in State |-> <<>>]]
    /\ last  = [p \in Pool |-> [e \in Element |-> 0]]
    /\ clock = 0
    /\ pc = "idle" /\ now = 0 /\ pool = NoPool /\ state = 0 /\ prev = NoneYet

(* gettimeofday moves on. *)
Tick ==
    /\ clock < MaxClock /\ pc # "aborted"
    /\ clock' = clock + 1
    /\ UNCHANGED <<pools, queue, last, pc, scanVars>>

(* sxe_pool_new_with_timeouts, by the program or by a callback: all elements
   are stamped with the time and put in state 0, highest index first. *)
NewWithTimeouts(p) ==
    /\ pc \in {"idle", "callback"} /\ p \notin Listed
    /\ pools' = Append(pools, p)
    /\ queue' = [queue EXCEPT ![p] =
                   [s \in State |-> IF s = 0 THEN [i \in 1 .. Number |-> Number - i] ELSE <<>>]]
    /\ last'  = [last EXCEPT ![p] = [e \in Element |-> clock]]
    /\ UNCHANGED <<clock, pc, scanVars>>

(* sxe_pool_delete, by the program or by a callback for another pool. *)
Delete(p) ==
    /\ pc \in {"idle", "callback"} /\ p \in Listed /\ (pc = "callback" => p # pool)
    /\ pools' = Without(pools, p)
    /\ queue' = [queue EXCEPT ![p] = [s \in State |-> <<>>]]
    /\ last'  = [last EXCEPT ![p] = [e \in Element |-> 0]]
    /\ UNCHANGED <<clock, pc, scanVars>>

(* sxe_pool_set_indexed_element_state on a timed pool. *)
Move(p, e, from, to) ==
    LET q == [queue[p] EXCEPT ![from] = Without(@, e)] IN
    /\ queue' = [queue EXCEPT ![p] = [q EXCEPT ![to] = Append(@, e)]]
    /\ last'  = [last EXCEPT ![p][e] = clock]

(* An element is moved or touched by the program between two scans, or by a callback
   that was called for another one. *)
Use(p, e, to) ==
    /\ pc \in {"idle", "callback"} /\ p \in Listed
    /\ pc = "callback" => <<p, e>> # <<pool, prev.index>>
    /\ \E from \in State : e \in On(queue[p][from]) /\ Move(p, e, from, to)
    /\ UNCHANGED <<pools, clock, pc, scanVars>>
-----------------------------------------------------------------------------
(* Mutant of Following: the list is a ring and its end is not noticed. *)
FollowingRing(p) ==
    LET i == IF p = NoPool THEN 0 ELSE CHOOSE k \in DOMAIN pools : pools[k] = p
    IN  IF pools = <<>> THEN NoPool ELSE IF i = Len(pools) THEN pools[1] ELSE pools[i + 1]

(* The pool after p on the list, as its node's next pointer has it now. *)
Following(p) ==
    LET i == IF p = NoPool THEN 0 ELSE CHOOSE k \in DOMAIN pools : pools[k] = p
    IN  IF i = Len(pools) THEN NoPool ELSE pools[i + 1]

(* The list walker steps to the next pool; when there is none, the scan of all
   the pools is over. *)
NextPool(p) ==
    /\ pool' = Following(p)
    /\ state' = 0 /\ prev' = NoneYet
    /\ pc' = IF Following(p) = NoPool THEN "idle" ELSE "scan"

CheckTimeouts ==
    /\ pc = "idle"
    /\ now' = clock
    /\ NextPool(NoPool)
    /\ UNCHANGED <<pools, queue, last, clock>>

Head1  == queue[pool][state][1]
Oldest == [index |-> Head1, time |-> last[pool][Head1]]

(* Mutant of Reached: one tick too late. *)
ReachedLate(t) == (now - t) % TimeMod > Timeout[state]

(* The comparison of the code: an unsigned difference against the timeout. *)
Reached(t) == (now - t) % TimeMod >= Timeout[state]

(* There is a timeout to look for, and an element that may have reached it. *)
Watched == Timeout[state] # 0 /\ queue[pool][state] # <<>>

(* Nothing (more) to fire in this state: go on to the next one. *)
NextState ==
    /\ pc = "scan" /\ state \in State
    /\ ~ (Watched /\ (Oldest = prev \/ Reached(Oldest.time)))
    /\ state' = state + 1 /\ prev' = NoneYet
    /\ UNCHANGED <<pools, queue, last, clock, pc, now, pool>>

PoolDone ==
    /\ pc = "scan" /\ state \notin State
    /\ NextPool(pool)
    /\ UNCHANGED <<pools, queue, last, clock, now>>

(* The callback is called for the oldest element, unless that is the element
   it was called for last: the assertion that it has updated it fails. *)
Fire ==
    /\ pc = "scan" /\ state \in State /\ Watched
    /\ Oldest = prev \/ Reached(Oldest.time)
    /\ pc' = IF Oldest = prev THEN "aborted" ELSE "callback"
    /\ prev' = Oldest
    /\ UNCHANGED <<pools, queue, last, clock, now, pool, state>>

(* The callback moves its element, to any state or to the tail of the one it is in,
   and returns. *)
CallbackReturns ==
    /\ pc = "callback"
    /\ \E to \in State : Move(pool, prev.index, state, to)
    /\ pc' = "scan"
    /\ UNCHANGED <<pools, clock, scanVars>>

Scanning == NextState \/ PoolDone \/ Fire \/ CallbackReturns

Next ==
    \/ Tick \/ CheckTimeouts \/ Scanning
    \/ \E p \in Pool : NewWithTimeouts(p) \/ Delete(p)
    \/ \E p \in Pool, e \in Element, to \in State : Use(p, e, to)

Spec == Init /\ [][Next]_vars

(* The scan is a loop of its own thread: it runs on until it returns. *)
FairSpec == Spec /\ WF_vars(Scanning)
-----------------------------------------------------------------------------
TypeOK ==
    /\ Listed \subseteq Pool
    /\ queue \in [Pool -> [State -> Seq(Element)]]
    /\ last \in [Pool -> [Element -> 0 .. MaxClock]]
    /\ clock \in 0 .. MaxClock /\ now \in 0 .. clock
    /\ pc \in {"idle", "scan", "callback", "aborted"}
    /\ pool \in Listed \union {NoPool}
    /\ state \in 0 .. States
    /\ prev.index \in Element \union {NoIndex} /\ prev.time \in 0 .. MaxClock

(* The element last fired had been stamped after the scan took its time_now: the
   difference of the two is the huge one of an unsigned subtraction that wrapped. *)
Wrapped == prev.time > now

(* A callback is called only for an element that had been in its state for the
   state's timeout when the scan began ("state %s timeout ... has been reached for
   oldest index"), or for one that a callback of this scan has just stamped. *)
FiresOnlyWhenDue ==
    pc = "callback" => Wrapped \/ now - prev.time >= Timeout[state]

(* The release assertion of sxe_pool_check_timeouts, "callback failed to update
   state", does not fail for callbacks that do update it, until one is called for an
   element that another has just stamped. *)
AbortsOnlyWrapped == pc = "aborted" => Wrapped

(* The same without the exception, as the assertion's own words have it. *)
NeverAborts == pc # "aborted"

(* What holds at every step of a scan, and of what callbacks do during it. *)
TimeoutsSound == TypeOK /\ FiresOnlyWhenDue /\ AbortsOnlyWrapped

(* When sxe_pool_check_timeouts returns, no element of any listed pool is still
   waiting for a timeout that had passed when it was called, although every
   callback changed the queues, or the list of pools, that it was walking. *)
NoneOverdue ==
    [][pc = "scan" /\ pc' = "idle" =>
         \A p \in Listed, s \in State : Timeout[s] # 0 =>
            \A e \in On(queue[p][s]) : now - last[p][e] < Timeout[s]]_vars

InScan == pc \in {"scan", "callback"}

(* A scan is going on and has not called a callback too early.  It comes to its end:
   it returns, or does call one. *)
InOrderlyScan == InScan /\ ~ Wrapped
=============================================================================
