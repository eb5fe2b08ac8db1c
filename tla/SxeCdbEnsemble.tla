--------------------------- MODULE SxeCdbEnsemble ----------------------------
(***************************************************************************)
(* Ensembles of sxe-cdb instances shared by threads                        *)
(* (sxe_cdb_ensemble_* of lib-sxe-cdb/sxe-cdb.c).  An ensemble is an array *)
(* of pointers to instances and, if it was made so, has a spinlock for     *)
(* each; one lock is shared by all the ensembles for rebooting and         *)
(* destroying them.  What an operation does to its instance is abstracted  *)
(* to the time it works on it.  A lock that cannot be taken is tried for   *)
(* again without end, so taking one is waiting for it.                     *)
(***************************************************************************)
EXTENDS Integers, FiniteSets

CONSTANTS
    Thread, NoThread,
    Ensemble,   \* the ensembles
    Locked,     \* those made with cdb_is_locked
    Slots,      \* cdb_count, the same for all
    Jobs        \* the calls that threads make

Slot == 0 .. Slots - 1

(* sxe_cdb_ensemble_put_val, _inc, _get_uid, _get_uid_hkv, _set_uid_hkv and the
   _raw_locked ... _raw_unlock pairs all use one instance of one ensemble. *)
AllJobs == [op : {"use"}, e : Ensemble, i : Slot]
             \union [op : {"swap"}, e : Ensemble, f : Ensemble]
             \union [op : {"reboot", "destroy"}, e : Ensemble]

EnsembleAssumption ==
    /\ NoThread \notin Thread
    /\ Locked \subseteq Ensemble
    /\ Slots \in Nat \ {0}
    /\ Jobs \subseteq AllJobs
    /\ Ensemble \intersect (Ensemble \X Slot) = {}

VARIABLES
    slot,       \* slot[e][i]: the instance cdb_instances[i] of e points to
    lock,       \* lock[e][i]: who holds cdb_instance_locks[i] of e
    elock,      \* who holds sxe_cdb_ensemble_lock
    alive,      \* the ensembles and the instances that were not destroyed
    pc, task,   \* where each thread is, and in which call
    at,         \* its variable instance
    ptr         \* its variable cdb_instance, or temp in a swap

ensVars == <<slot, lock, elock, alive, pc, task, at, ptr>>

Instance == Ensemble \X Slot
NoTask   == <<>>
NoPtr    == <<>>

EnsInit ==
    /\ EnsembleAssumption
    /\ slot = [e \in Ensemble |-> [i \in Slot |-> <<e, i>>]]
    /\ lock = [e \in Ensemble |-> [i \in Slot |-> NoThread]]
    /\ elock = NoThread
    /\ alive = Ensemble \union Instance
    /\ pc = [t \in Thread |-> "idle"] /\ task = [t \in Thread |-> NoTask]
    /\ at = [t \in Thread |-> 0] /\ ptr = [t \in Thread |-> NoPtr]

Goto(t, l) == pc' = [pc EXCEPT ![t] = l]
At(t, i)   == at' = [at EXCEPT ![t] = i]

UsedBy(j) == IF j = NoTask THEN {} ELSE IF j.op = "swap" THEN {j.e, j.f} ELSE {j.e}

(* A thread makes a call.  Callers do not use an ensemble that is, or is being,
   destroyed, and destroy none that others are using. *)
Begin(t, j) ==
    /\ pc[t] = "idle"
    /\ UsedBy(j) \subseteq alive
    /\ \A u \in Thread \ {t} : (task[u] # NoTask /\ "destroy" \in {j.op, task[u].op})
                                  => UsedBy(j) \intersect UsedBy(task[u]) = {}
    /\ task' = [task EXCEPT ![t] = j]
    /\ At(t, IF j.op = "use" THEN j.i ELSE 0)
    /\ Goto(t, CASE j.op = "use" -> "load" [] j.op = "swap" -> "lock this" [] OTHER -> "lock ensembles")
    /\ UNCHANGED <<slot, lock, elock, alive, ptr>>

Finish(t) ==
    /\ Goto(t, "idle")
    /\ task' = [task EXCEPT ![t] = NoTask] /\ At(t, 0) /\ ptr' = [ptr EXCEPT ![t] = NoPtr]
-----------------------------------------------------------------------------
(* Mutant of Lock: a lock that is held is taken all the same. *)
LockHeld(t, e) ==
    IF e \in Locked THEN lock' = [lock EXCEPT ![e][at[t]] = t] ELSE UNCHANGED lock

(* SXE_CDB_ENSEMBLE_INSTANCE_LOCK_BEFORE and _UNLOCK, for the slot t is at. *)
Lock(t, e) ==
    IF e \in Locked THEN lock[e][at[t]] = NoThread /\ lock' = [lock EXCEPT ![e][at[t]] = t]
                    ELSE UNCHANGED lock

(* Mutant of Unlocked: the lock is not given back. *)
StillLocked(l, t, e) == l

Unlocked(l, t, e) == IF e \in Locked THEN [l EXCEPT ![e][at[t]] = NoThread] ELSE l

(* The pointer is loaded ... *)
Load(t) ==
    /\ pc[t] = "load"
    /\ ptr' = [ptr EXCEPT ![t] = slot[task[t].e][at[t]]]
    /\ Goto(t, "lock")
    /\ UNCHANGED <<slot, lock, elock, alive, task, at>>

(* ... before the lock of its slot is taken. *)
TakeLock(t) ==
    /\ pc[t] = "lock"
    /\ Lock(t, task[t].e)
    /\ Goto(t, "work")
    /\ UNCHANGED <<slot, elock, alive, task, at, ptr>>

Done(t) ==
    /\ pc[t] = "work"
    /\ lock' = Unlocked(lock, t, task[t].e)
    /\ Finish(t)
    /\ UNCHANGED <<slot, elock, alive>>
-----------------------------------------------------------------------------
(* sxe_cdb_ensemble_swap_instances, slot by slot. *)

LockThis(t) ==
    /\ pc[t] = "lock this"
    /\ Lock(t, task[t].e)
    /\ Goto(t, "lock that")
    /\ UNCHANGED <<slot, elock, alive, task, at, ptr>>

LockThat(t) ==
    /\ pc[t] = "lock that"
    /\ Lock(t, task[t].f)
    /\ Goto(t, "swap")
    /\ UNCHANGED <<slot, elock, alive, task, at, ptr>>

SwapThis(t) ==
    LET j == task[t] IN
    /\ pc[t] = "swap"
    /\ ptr'  = [ptr EXCEPT ![t] = slot[j.e][at[t]]]
    /\ slot' = [slot EXCEPT ![j.e][at[t]] = slot[j.f][at[t]]]
    /\ Goto(t, "swapped")
    /\ UNCHANGED <<lock, elock, alive, task, at>>

SwapThat(t) ==
    LET j == task[t] IN
    /\ pc[t] = "swapped"
    /\ slot' = [slot EXCEPT ![j.f][at[t]] = ptr[t]]
    /\ lock' = Unlocked(Unlocked(lock, t, j.f), t, j.e)
    /\ \/ at[t] + 1 \in Slot /\ At(t, at[t] + 1) /\ Goto(t, "lock this") /\ UNCHANGED <<task, ptr>>
       \/ at[t] + 1 \notin Slot /\ Finish(t)
    /\ UNCHANGED <<elock, alive>>
-----------------------------------------------------------------------------
(* sxe_cdb_ensemble_reboot and sxe_cdb_ensemble_destroy. *)

LockEnsembles(t) ==
    /\ pc[t] = "lock ensembles" /\ elock = NoThread
    /\ elock' = t
    /\ Goto(t, IF task[t].op = "reboot" THEN "lock all" ELSE "destroy")
    /\ UNCHANGED <<slot, lock, alive, task, at, ptr>>

LockAll(t) ==
    /\ pc[t] = "lock all"
    /\ Lock(t, task[t].e)
    /\ At(t, (at[t] + 1) % Slots)
    /\ Goto(t, IF at[t] + 1 = Slots THEN "reboot" ELSE "lock all")
    /\ UNCHANGED <<slot, elock, alive, task, ptr>>

(* sxe_cdb_instance_reboot of one instance after the other. *)
RebootInstance(t) ==
    /\ pc[t] = "reboot"
    /\ At(t, (at[t] + 1) % Slots)
    /\ Goto(t, IF at[t] + 1 = Slots THEN "unlock all" ELSE "reboot")
    /\ UNCHANGED <<slot, lock, elock, alive, task, ptr>>

UnlockAll(t) ==
    /\ pc[t] = "unlock all"
    /\ lock' = Unlocked(lock, t, task[t].e)
    /\ \/ at[t] + 1 \in Slot /\ At(t, at[t] + 1) /\ UNCHANGED <<elock, pc, task, ptr>>
       \/ at[t] + 1 \notin Slot /\ elock' = NoThread /\ Finish(t)
    /\ UNCHANGED <<slot, alive>>

Destroy(t) ==
    LET e == task[t].e IN
    /\ pc[t] = "destroy"
    /\ alive' = alive \ ({e} \union {slot[e][i] : i \in Slot})
    /\ elock' = NoThread
    /\ Finish(t)
    /\ UNCHANGED <<slot, lock>>

Step(t) ==
    \/ Load(t) \/ TakeLock(t) \/ Done(t)
    \/ LockThis(t) \/ LockThat(t) \/ SwapThis(t) \/ SwapThat(t)
    \/ LockEnsembles(t) \/ LockAll(t) \/ RebootInstance(t) \/ UnlockAll(t) \/ Destroy(t)

EnsNext == \E t \in Thread : Step(t) \/ \E j \in Jobs : Begin(t, j)

EnsSpec == EnsInit /\ [][EnsNext]_ensVars
-----------------------------------------------------------------------------
EnsTypeOK ==
    /\ slot \in [Ensemble -> [Slot -> Instance]]
    /\ lock \in [Ensemble -> [Slot -> Thread \union {NoThread}]]
    /\ elock \in Thread \union {NoThread}
    /\ alive \subseteq Ensemble \union Instance
    /\ \A t \in Thread : task[t] \in Jobs \union {NoTask}
    /\ at \in [Thread -> Slot]
    /\ ptr \in [Thread -> Instance \union {NoPtr}]

(* The instances t is working on, reading, changing or unmapping them, by a
   pointer that its slot still holds.  A pointer is loaded before the lock of its
   slot is taken: if the slot was swapped in between, the pointer is stale. *)
Working(t) ==
    IF (pc[t] = "work" /\ ptr[t] = slot[task[t].e][at[t]]) \/ pc[t] = "reboot"
      THEN {slot[task[t].e][at[t]]} ELSE {}

(* "sxe-cdb allows individual instances to be locked": two threads never work on
   one instance at the same time, whatever is swapped, rebooted or destroyed
   meanwhile, nor on one that was destroyed (as long as no pointer is stale). *)
ExclusiveUse ==
    /\ \A t, u \in Thread : t # u => Working(t) \intersect Working(u) = {}
    /\ \A t \in Thread : Working(t) \subseteq alive

(* Swapping loses no instance and duplicates none, whichever swaps and reboots
   run at the same time. *)
SlotsHoldAll ==
    (\A t \in Thread : pc[t] # "swapped") =>
       {slot[e][i] : e \in Ensemble, i \in Slot} = Instance

(* Threads that share ensembles neither share nor lose an instance. *)
EnsembleSound == EnsTypeOK /\ ExclusiveUse /\ SlotsHoldAll

(* A swap holds the lock of one ensemble while it waits for the other's, and a
   reboot holds all those of its own: threads in calls never all wait for each
   other (as long as swaps are made the same way round). *)
NoDeadlock ==
    (\E t \in Thread : task[t] # NoTask) => \E t \in Thread : ENABLED Step(t)
=============================================================================
