---------------------------- MODULE SxePoolWalker ----------------------------
(***************************************************************************)
(* A walker over one state of a locked pool (sxe-pool-walker.c on top of   *)
(* sxe-list-walker.c) while other threads move elements.  A step of the    *)
(* walker holds the lock and so does a move, hence each is one action; the *)
(* lock is free between two steps, so the queue changes under the walker.  *)
(***************************************************************************)
EXTENDS SxePoolQueues

CONSTANT MaxCount       \* bound on nextCount

Sentinel == NoIndex    \* the walked list's sentinel, as a node

VARIABLES
    walking,    \* a walker has been constructed and has not reached the end
    wstate,     \* walker->state
    node,       \* walker->list_walker.node
    back,       \* walker->list_walker.back
    wlast,      \* walker->last.count
    result,     \* what the last step returned
    visited,    \* elements returned since the walker was constructed
    stayed,     \* elements that have been in wstate ever since then
    returned    \* an element that was visited came back to wstate's tail

walkVars == <<walking, wstate, node, back, wlast, result, visited, stayed, returned>>
vars     == <<poolVars, walkVars>>

Init ==
    /\ Construct
    /\ walking = FALSE /\ wstate = 0
    /\ node = Sentinel /\ back = Sentinel /\ wlast = 0
    /\ result = NoIndex /\ visited = {} /\ stayed = {} /\ returned = FALSE

(* sxe_pool_walker_construct. *)
WalkerConstruct(s) ==
    /\ walking' = TRUE
    /\ wstate' = s
    /\ node' = Sentinel /\ back' = Sentinel /\ wlast' = 0
    /\ result' = NoIndex
    /\ visited' = {} /\ stayed' = On(queue[s]) /\ returned' = FALSE
    /\ UNCHANGED poolVars

(* n->next, for a node n on queue q or for its sentinel. *)
NextOf(q, n) ==
    LET i == IF n = Sentinel THEN 0 ELSE CHOOSE k \in DOMAIN q : q[k] = n
    IN  IF i = Len(q) THEN Sentinel ELSE q[i + 1]

(* sxe_list_walker_step taken from node n: the walker's back and node. *)
StepFrom(n) == [back |-> n, node |-> NextOf(queue[wstate], n)]

(* Mutants of Rewalk: the walk stops, or starts again at the head. *)
GiveUp  == [back |-> Sentinel, node |-> Sentinel]
Restart == StepFrom(Sentinel)

(* Walk again from the head, to the first node that is not older than the last
   one visited; at the end, the node is the sentinel once more. *)
Rewalk ==
    LET q    == queue[wstate]
        stop == {i \in DOMAIN q : last[q[i]] >= wlast}
        i    == IF stop = {} THEN Len(q) + 1 ELSE CHOOSE k \in stop : \A m \in stop : k <= m
    IN  [back |-> IF i = 1 THEN Sentinel ELSE q[i - 1],
         node |-> IF stop = {} THEN Sentinel ELSE q[i]]

(* Where the walker goes: on from its node if that is still in the state walked,
   else on from the node before it, else back to the head. *)
Destination ==
    IF node = Sentinel \/ stateOf[node] = wstate THEN StepFrom(node)
    ELSE IF back # Sentinel /\ stateOf[back] = wstate THEN StepFrom(back)
    ELSE Rewalk

(* sxe_pool_walker_step. *)
WalkerStep ==
    LET to == Destination IN
    /\ walking
    /\ node' = to.node /\ back' = to.back
    /\ result' = to.node
    /\ wlast' = IF to.node = Sentinel THEN wlast ELSE last[to.node]
    /\ walking' = (to.node # Sentinel)
    /\ visited' = visited \union ({to.node} \ {Sentinel})
    /\ UNCHANGED <<poolVars, wstate, stayed, returned>>

(* Another thread moves e (or touches it, when new is its state already). *)
MoveElement(e, new) ==
    /\ nextCount < MaxCount
    /\ queue'     = Moved(queue, e, new)
    /\ stateOf'   = [stateOf EXCEPT ![e] = new]
    /\ nextCount' = nextCount + 1
    /\ last'      = [last EXCEPT ![e] = nextCount + 1]
    /\ stayed'    = IF new = wstate THEN stayed ELSE stayed \ {e}
    /\ returned'  = (returned \/ (e \in visited /\ new = wstate))
    /\ UNCHANGED <<walking, wstate, node, back, wlast, result, visited>>

Next ==
    \/ \E s \in State : WalkerConstruct(s)
    \/ WalkerStep
    \/ \E e \in Element, new \in State : MoveElement(e, new)

Spec == Init /\ [][Next]_vars
-----------------------------------------------------------------------------
(* The element a step returns is in the walked state, and younger than
   everything returned before it: the walk never goes round in circles and
   never repeats an element that nobody moved, however the queue changes under
   it (sxe_pool_walker_step compares last.count only when it walks again). *)
WalksForward ==
    [][WalkerStep /\ result' # NoIndex
          => stateOf[result'] = wstate /\ last[result'] > wlast]_vars

(* A walk that has ended has visited every element that was in the state from
   its beginning to its end, whatever left the state or joined it meanwhile:
   sxe_hash_look relies on it to report that a key is not there.  Only elements
   that were visited and then touched, or moved away and back ("TODO: Check for
   touching"), can make it skip others: the walk goes on from the tail, where
   they are now. *)
NothingSkipped ==
    [][WalkerStep /\ result' = NoIndex /\ ~ returned => stayed \subseteq visited']_vars
=============================================================================
