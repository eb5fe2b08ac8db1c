----------------------------- MODULE SxePoolSpec -----------------------------
(***************************************************************************)
(* What a locked SXE pool promises the threads that share it: elements     *)
(* have a state and an age, an operation happens at once and either has    *)
(* its full effect or, when the lock cannot be had, none.                  *)
(***************************************************************************)
EXTENDS Integers

CONSTANTS Number, States, Thread

VARIABLES
    stateOf,    \* the state of every element
    last,       \* its stamp: the smaller, the older
    nextCount,  \* the newest stamp given
    lost,       \* elements that died with the thread that was moving them
    res         \* the operation a thread is returning from, and its result

specVars == <<stateOf, last, nextCount, lost, res>>

Element == 0 .. Number - 1
State   == 0 .. States - 1

In(s) == {e \in Element \ lost : stateOf[e] = s}

IsOldest(e, s) == e \in In(s) /\ \A f \in In(s) : last[e] <= last[f]

Init ==
    /\ stateOf   = [e \in Element |-> 0]
    /\ last      = [e \in Element |-> Number - e]
    /\ nextCount = Number
    /\ lost      = {}
    /\ res       = [t \in Thread |-> <<"none", 0>>]

Return(t, op, r) == res' = [res EXCEPT ![t] = <<op, r>>]

(* e enters state new as its youngest element. *)
Move(e, new) ==
    /\ e \notin lost
    /\ nextCount' = nextCount + 1
    /\ last'      = [last EXCEPT ![e] = nextCount + 1]
    /\ stateOf'   = [stateOf EXCEPT ![e] = new]
    /\ UNCHANGED lost

Keep == UNCHANGED <<stateOf, last, nextCount, lost>>

SetIndexed(t) == \E e \in Element, new \in State :
    Move(e, new) /\ Return(t, "set_indexed", 0)

TryToSet(t) == \E e \in Element :
    \/ \E new \in State : Move(e, new) /\ Return(t, "try_to_set", e)
    \/ (\E old \in State : stateOf[e] # old) /\ Keep /\ Return(t, "try_to_set", -2)

SetOldest(t) == \E s \in State :
    \/ \E e \in Element, new \in State :
          IsOldest(e, s) /\ Move(e, new) /\ Return(t, "set_oldest", e)
    \/ In(s) = {} /\ Keep /\ Return(t, "set_oldest", -1)

Touch(t) == \E e \in Element :
    Move(e, stateOf[e]) /\ Return(t, "touch", 0)

OldestIndex(t) ==
    /\ Keep
    /\ \/ \E s \in State, e \in Element : IsOldest(e, s) /\ Return(t, "oldest_index", e)
       \/ Return(t, "oldest_index", -1)

OldestCount(t) ==
    /\ Keep
    /\ \/ \E s \in State, e \in Element : IsOldest(e, s) /\ Return(t, "oldest_count", last[e])
       \/ Return(t, "oldest_count", 0)

CannotLock(t) ==
    /\ Keep
    /\ \E op \in {"set_indexed", "try_to_set", "set_oldest", "touch"} : Return(t, op, -3)

(* The thread has used its result, or has died. *)
Forget(t) == Keep /\ Return(t, "none", 0)

(* The thread that moves e dies, before or after it stamps e. *)
Lose(e, t) ==
    /\ lost' = lost \union {e}
    /\ Return(t, "none", 0)
    /\ UNCHANGED stateOf
    /\ \/ UNCHANGED <<last, nextCount>>
       \/ nextCount' = nextCount + 1 /\ last' = [last EXCEPT ![e] = nextCount + 1]

Next ==
    \/ \E t \in Thread : \/ SetIndexed(t) \/ TryToSet(t) \/ SetOldest(t) \/ Touch(t)
                         \/ OldestIndex(t) \/ OldestCount(t) \/ CannotLock(t)
                         \/ Forget(t)
    \/ \E e \in Element, t \in Thread : Lose(e, t)

Spec == Init /\ [][Next]_specVars
=============================================================================
