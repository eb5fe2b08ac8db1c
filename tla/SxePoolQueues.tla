---------------------------- MODULE SxePoolQueues ----------------------------
(***************************************************************************)
(* The state of one SXE pool (lib-sxe-pool/sxe-pool.c): Number elements,   *)
(* each on the queue of exactly one of States states, every queue ordered  *)
(* by the count stamped on an element when it was last moved.  The queues  *)
(* are the circular lists of lib-sxe-list; here a list is the sequence of  *)
(* its objects from head to tail, and one list operation is one step       *)
(* (module SxeList models the same list down to its pointers).             *)
(***************************************************************************)
EXTENDS Integers, Sequences

CONSTANTS
    Number,     \* number of elements in the pool
    States      \* number of states, hence of queues

ASSUME PoolAssumption == Number \in Nat \ {0} /\ States \in Nat \ {0}

VARIABLES
    queue,      \* queue[s]: the elements on the list of state s, head first
    stateOf,    \* stateOf[e]: the id kept in e's list node
    last,       \* last[e]: last.count, the stamp of e's last insertion
    nextCount   \* the pool's insertion counter

poolVars == <<queue, stateOf, last, nextCount>>

Element == 0 .. Number - 1
State   == 0 .. States - 1

(* The unsigned values that share a return value with element indices. *)
LockTaken      == 0
NoIndex        == -1
IncorrectState == -2
LockNotTaken   == -3

(* The elements on a list. *)
On(q) == {q[i] : i \in DOMAIN q}

(* The list without the object e, which is on it. *)
Without(q, e) ==
    LET k == CHOOSE i \in DOMAIN q : q[i] = e
    IN  [i \in 1 .. Len(q) - 1 |-> IF i < k THEN q[i] ELSE q[i + 1]]

(* What peeking at the head of the list of state s finds. *)
PeekHead(s) == IF queue[s] = <<>> THEN NoIndex ELSE queue[s][1]

(* sxe_pool_construct: the elements are stamped and pushed from the highest
   index down onto the list of state 0. *)
Construct ==
    /\ queue     = [s \in State |-> IF s = 0 THEN [i \in 1 .. Number |-> Number - i]
                                             ELSE <<>>]
    /\ stateOf   = [e \in Element |-> 0]
    /\ last      = [e \in Element |-> Number - e]
    /\ nextCount = Number

(* sxe_list_remove leaves the id in the node: until the element is pushed
   again, sxe_pool_index_to_state still answers the old state. *)
Remove(e) ==
    /\ queue' = [queue EXCEPT ![stateOf[e]] = Without(@, e)]
    /\ UNCHANGED <<stateOf, last, nextCount>>

(* The element gets the newest stamp of all. *)
Stamp(e) ==
    /\ nextCount' = nextCount + 1
    /\ last'      = [last EXCEPT ![e] = nextCount + 1]

(* Mutant of StampAndPush: the element goes to the head of its new list. *)
StampAndUnshift(e, new) ==
    /\ Stamp(e)
    /\ queue'     = [queue EXCEPT ![new] = <<e>> \o @]
    /\ stateOf'   = [stateOf EXCEPT ![e] = new]

(* Mutant of StampAndPush: the id in the element's node is not updated. *)
StampAndPushOldId(e, new) ==
    /\ Stamp(e)
    /\ queue'     = [queue EXCEPT ![new] = Append(@, e)]
    /\ UNCHANGED stateOf

(* Stamp the element and push it on the tail of its new list. *)
StampAndPush(e, new) ==
    /\ Stamp(e)
    /\ queue'     = [queue EXCEPT ![new] = Append(@, e)]
    /\ stateOf'   = [stateOf EXCEPT ![e] = new]

(* The same two list operations made with nobody in between: the pool as it
   is once the move is over. *)
Moved(q, e, new) ==
    LET r == [q EXCEPT ![stateOf[e]] = Without(@, e)]
    IN  [r EXCEPT ![new] = Append(@, e)]

(* A queue runs from its oldest element to its newest: the head is the element
   that sxe_pool_get_oldest_element_index promises. *)
Sorted == \A s \in State : \A i, j \in DOMAIN queue[s] :
              i < j => last[queue[s][i]] < last[queue[s][j]]

(* The list an element is on is the one its node's id names. *)
QueueMatchesId == \A s \in State : \A i \in DOMAIN queue[s] : stateOf[queue[s][i]] = s
=============================================================================
