------------------------------- MODULE SxePool -------------------------------
(***************************************************************************)
(* A pool constructed with SXE_POOL_OPTION_LOCKED, used by several threads *)
(* (or by several processes, when the pool is in a memory mapped file).    *)
(* Every operation takes the pool's spinlock, works on the queues, and     *)
(* gives the lock back; a thread may die between any two of these steps,   *)
(* its tid may be used again, and an operator may force the lock with      *)
(* sxe_pool_override_locked.  A list operation is one step: deaths between *)
(* two of its stores (sxe-list.c, 66-71 and 113-117) are not modelled.     *)
(***************************************************************************)
EXTENDS SxePoolQueues, FiniteSets

CONSTANTS
    Thread,     \* the tids of the threads that use the pool
    NoThread,   \* the value 0 of the lock word
    SpinMax,    \* sxe_spinlock_count_max
    MaxCount    \* bound on nextCount, for model checking

ASSUME ThreadAssumption == NoThread \notin Thread
ASSUME BoundAssumption  == SpinMax \in Nat /\ MaxCount \in Nat

VARIABLES
    lock,       \* the lock word: the owner's tid or NoThread
    pc,         \* where each thread is
    call,       \* the operation each thread is in, with its arguments
    spin,       \* the count of failed attempts in sxe_spinlock_take
    res,        \* the operation a thread is returning from, and its result
    lost,       \* elements removed from a list by a thread that died then
    force       \* what sxe_spinlock_force saw in the lock word, or NoThread

vars == <<poolVars, lock, pc, call, spin, res, lost, force>>

(* The operations and their arguments.  In a call record, old and new mean
   nothing to touch, id nothing to the operations on the oldest element. *)
Op == {"set_indexed", "try_to_set", "set_oldest", "touch", "oldest_index", "oldest_count"}

Calls == [op : Op, id : Element, old : State, new : State]

Moves(c) == c.op \notin {"oldest_index", "oldest_count"}

(* Calls that differ only in arguments their operation ignores are one call. *)
Canonical(c) ==
    /\ c.op \in {"set_oldest", "oldest_index", "oldest_count"} => c.id = 0
    /\ c.op \in {"touch", "oldest_index", "oldest_count"} => c.new = 0
    /\ c.op = "touch" => c.old = 0

NoCall   == [op |-> "touch", id |-> 0, old |-> 0, new |-> 0]
NoResult == <<"none", 0>>

Init ==
    /\ Construct
    /\ lock  = NoThread
    /\ pc    = [t \in Thread |-> "idle"]
    /\ call  = [t \in Thread |-> NoCall]
    /\ spin  = [t \in Thread |-> 0]
    /\ res   = [t \in Thread |-> NoResult]
    /\ lost  = {}
    /\ force = NoThread

Goto(t, l) == pc' = [pc EXCEPT ![t] = l]

(* Thread t is at l, outside of any call. *)
Leave(t, l) ==
    /\ Goto(t, l)
    /\ call' = [call EXCEPT ![t] = NoCall]
    /\ spin' = [spin EXCEPT ![t] = 0]
    /\ res'  = [res EXCEPT ![t] = NoResult]

Call(t) ==
    /\ pc[t] = "idle"
    /\ \E c \in Calls :
          /\ Canonical(c)
          /\ Moves(c) => nextCount < MaxCount
          /\ call' = [call EXCEPT ![t] = c]
    /\ Goto(t, "take")
    /\ UNCHANGED <<poolVars, lock, spin, res, lost, force>>
-----------------------------------------------------------------------------
(* sxe_spinlock_take, one compare and swap at a time. *)

(* Mutant of TakeLock: whoever owns the lock, it is overwritten. *)
TakeAnyLock(t) ==
    /\ pc[t] = "take" /\ spin[t] < SpinMax
    /\ lock' = t
    /\ Goto(t, "body")
    /\ UNCHANGED <<poolVars, call, spin, res, lost, force>>

TakeLock(t) ==
    /\ pc[t] = "take" /\ spin[t] < SpinMax /\ lock = NoThread
    /\ lock' = t
    /\ Goto(t, "body")
    /\ UNCHANGED <<poolVars, call, spin, res, lost, force>>

SpinAndYield(t) ==
    /\ pc[t] = "take" /\ spin[t] < SpinMax /\ lock \notin {NoThread, t}
    /\ spin' = [spin EXCEPT ![t] = @ + 1]
    /\ UNCHANGED <<poolVars, lock, pc, call, res, lost, force>>

(* Getters have no lock failure of their own: they return what they return for an
   empty state. *)
NotTaken(op) ==
    IF op = "oldest_index" THEN NoIndex ELSE IF op = "oldest_count" THEN 0 ELSE LockNotTaken

(* The limit was reached, or the lock word already holds this very tid, which
   sxe_pool_lock treats as a failure too. *)
FailToLock(t) ==
    /\ pc[t] = "take" /\ (spin[t] >= SpinMax \/ lock = t)
    /\ res' = [res EXCEPT ![t] = <<call[t].op, NotTaken(call[t].op)>>]
    /\ Goto(t, "return")
    /\ UNCHANGED <<poolVars, lock, call, spin, lost, force>>
-----------------------------------------------------------------------------
(* The bodies of the operations, with the lock taken. *)

(* sxe_list_remove on the list of e's state; the thread will push e on new. *)
StartMove(t, e, new) ==
    /\ e \in On(queue[stateOf[e]])
    /\ Remove(e)
    /\ call' = [call EXCEPT ![t].id = e, ![t].new = new]
    /\ Goto(t, "push")
    /\ UNCHANGED <<lock, spin, res, lost, force>>

(* A release assertion failed: the process dies with the lock in its hands. *)
Abort(t) ==
    /\ Leave(t, "dead")
    /\ UNCHANGED <<poolVars, lock, lost, force>>

(* The operation is over without a move.  Only try_to_set writes back to its
   arguments: the state it was told to move to becomes the state it found. *)
Answer(t, r) ==
    /\ res' = [res EXCEPT ![t] = <<call[t].op, r>>]
    /\ Goto(t, "give")
    /\ UNCHANGED <<poolVars, lock, spin, lost, force>>

SetIndexed(t) ==
    LET c == call[t] IN
    /\ pc[t] = "body" /\ c.op \in {"set_indexed", "try_to_set"}
    /\ \/ stateOf[c.id] = c.old /\ StartMove(t, c.id, c.new)
       \/ stateOf[c.id] = c.old /\ c.id \notin On(queue[c.old]) /\ Abort(t)
       \/ stateOf[c.id] # c.old /\ c.op = "set_indexed" /\ Abort(t)
       \/ /\ stateOf[c.id] # c.old /\ c.op = "try_to_set"
          /\ Answer(t, IncorrectState)
          /\ call' = [call EXCEPT ![t].new = stateOf[c.id]]

SetOldest(t) ==
    LET c == call[t] IN
    /\ pc[t] = "body" /\ c.op = "set_oldest"
    /\ \/ PeekHead(c.old) = NoIndex /\ Answer(t, NoIndex) /\ UNCHANGED call
       \/ PeekHead(c.old) # NoIndex /\ StartMove(t, PeekHead(c.old), c.new)

Touch(t) ==
    LET c == call[t] IN
    /\ pc[t] = "body" /\ c.op = "touch"
    /\ \/ StartMove(t, c.id, stateOf[c.id])
       \/ c.id \notin On(queue[stateOf[c.id]]) /\ Abort(t)

GetOldest(t) ==
    LET head == PeekHead(call[t].old) IN
    /\ pc[t] = "body" /\ UNCHANGED call
    /\ \/ call[t].op = "oldest_index" /\ Answer(t, head)
       \/ call[t].op = "oldest_count" /\ Answer(t, IF head = NoIndex THEN 0 ELSE last[head])

(* Second half of sxe_pool_set_indexed_element_state_unlocked. *)
Push(t) ==
    LET c == call[t] IN
    /\ pc[t] = "push"
    /\ StampAndPush(c.id, c.new)
    /\ res' = [res EXCEPT ![t] = <<c.op, IF c.op \in {"set_indexed", "touch"} THEN LockTaken ELSE c.id>>]
    /\ Goto(t, "give")
    /\ UNCHANGED <<lock, call, spin, lost, force>>

(* sxe_spinlock_give aborts when the lock word is not our tid. *)
Give(t) ==
    /\ pc[t] = "give"
    /\ IF lock = t
          THEN lock' = NoThread /\ Goto(t, "return") /\ UNCHANGED <<poolVars, call, spin, res, lost, force>>
          ELSE Abort(t)

(* The caller has its result; the call leaves nothing behind. *)
Return(t) ==
    /\ pc[t] = "return"
    /\ Leave(t, "idle")
    /\ UNCHANGED <<poolVars, lock, lost, force>>

Step(t) ==
    \/ TakeLock(t) \/ SpinAndYield(t) \/ FailToLock(t)
    \/ SetIndexed(t) \/ SetOldest(t) \/ Touch(t) \/ GetOldest(t) \/ Push(t) \/ Give(t)
    \/ Return(t)
-----------------------------------------------------------------------------
(* Death, rebirth and repair. *)

Inside == {"body", "push", "give"}

Crash(t) ==
    /\ pc[t] # "dead"
    /\ lost' = IF pc[t] = "push" THEN lost \union {call[t].id} ELSE lost
    /\ Leave(t, "dead")
    /\ UNCHANGED <<poolVars, lock, force>>

(* A death after the element is stamped and before it is pushed. *)
CrashStamped(t) ==
    /\ pc[t] = "push"
    /\ Stamp(call[t].id)
    /\ lost' = lost \union {call[t].id}
    /\ Leave(t, "dead")
    /\ UNCHANGED <<queue, stateOf, lock, force>>

(* The kernel gives the tid to a new thread. *)
Reuse(t) ==
    /\ pc[t] = "dead"
    /\ Goto(t, "idle")
    /\ UNCHANGED <<poolVars, lock, call, spin, res, lost, force>>

(* sxe_pool_override_locked is two compare and swaps.  One operator uses it, as
   its note demands: on a lock whose owner is no longer working.  Nobody else can
   change such a lock word, so that the swap finds what the read found; two operators
   at once, one of them late, could take the lock from a new thread with the old tid. *)
ForceRead ==
    /\ force = NoThread /\ lock # NoThread
    /\ pc[lock] \notin Inside
    /\ force' = lock
    /\ UNCHANGED <<poolVars, lock, pc, call, spin, res, lost>>

ForceSwap ==
    /\ force # NoThread
    /\ lock'  = IF lock = force THEN NoThread ELSE lock
    /\ force' = NoThread
    /\ UNCHANGED <<poolVars, pc, call, spin, res, lost>>

Next ==
    \/ \E t \in Thread : Call(t) \/ Step(t) \/ Crash(t) \/ CrashStamped(t) \/ Reuse(t)
    \/ ForceRead
    \/ ForceSwap

Spec == Init /\ [][Next]_vars

(* A thread inside a call keeps running: the code never blocks, it spins. *)
FairSpec == Spec /\ \A t \in Thread : WF_vars(Step(t))
-----------------------------------------------------------------------------
(* Properties. *)

TypeOK ==
    /\ queue \in [State -> Seq(Element)]
    /\ stateOf \in [Element -> State]
    /\ last \in [Element -> Nat]
    /\ nextCount \in Nat
    /\ lock \in Thread \union {NoThread}
    /\ pc \in [Thread -> {"idle", "take", "return", "dead"} \union Inside]
    /\ call \in [Thread -> Calls]
    /\ spin \in [Thread -> Nat]
    /\ lost \in SUBSET Element
    /\ force \in Thread \union {NoThread}

(* Whoever works on the queues owns the lock word, although owners die, tids
   are used again and the lock is forced: sxe_spinlock_give never finds another
   tid in it, and no two threads are inside sxe_pool operations. *)
MutualExclusion == \A t \in Thread : pc[t] \in Inside => lock = t

InFlight == {call[t].id : t \in {u \in Thread : pc[u] = "push"}}

(* sxe_pool_set_indexed_element_state_unlocked takes an element off one list
   and puts it on another: no element disappears and none is on two lists, except
   that a thread that dies between the two takes its element with it. *)
Conserved ==
    /\ \A e \in Element : e \in On(queue[stateOf[e]]) <=> e \notin lost \union InFlight
    /\ QueueMatchesId

(* The count stamped on an element is never above the pool's counter, so that
   the next stamp is the newest of all, and every queue is in strict age order
   (hence holds no element twice). *)
OldestFirst ==
    /\ \A e \in Element : last[e] <= nextCount
    /\ Sorted

(* The operations as their callers see them: each happens at once. *)
Abstract == INSTANCE SxePoolSpec

(* Every operation of sxe-pool.c has the effect and the result of one atomic
   step of SxePoolSpec: the oldest element moved, and no other. *)
ImplementsSpec == Abstract!Spec

(* Thread t is in a call.  sxe_spinlock_take gives up after sxe_spinlock_count_max
   attempts, so that it returns or dies, even when the lock's owner is dead. *)
InCall(t) == pc[t] \notin {"idle", "dead"}
=============================================================================
