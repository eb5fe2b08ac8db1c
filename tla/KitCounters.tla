----------------------------- MODULE KitCounters -----------------------------
(***************************************************************************)
(* The per thread counters of lib-kit-alloc/kit-counters.c, for one        *)
(* counter.  A thread counts in the block of its slot without locking; a   *)
(* total is summed over the slots in use, the counts of dead threads and   *)
(* the shared counts of threads that have no slot.                         *)
(*                                                                         *)
(* counter_lock protects the sums and the merging of a finished thread's   *)
(* block, but not what a thread does to its slot before and after that,    *)
(* nor what a finished thread still counts: so those are steps of their    *)
(* own, and a load and the store that goes with it are two.  The variables *)
(* collided, torn and clear note which of them have met.                   *)
(***************************************************************************)
EXTENDS Integers

CONSTANTS
    Worker,     \* threads that come and go; the main thread has slot 0
    NoThread,
    Statics,    \* slots asked for in kit_counters_initialize
    MaxSlots,   \* bound on the slots, dynamic ones included
    MaxUpdates, \* bound on the increments and zeroings
    Garbage     \* what a block just allocated by kit_malloc may hold

ASSUME CountersAssumption ==
    /\ NoThread \notin Worker /\ "main" \notin Worker /\ NoThread # "main"
    /\ Statics \in Nat \ {0} /\ MaxSlots \in Nat /\ Statics <= MaxSlots
    /\ MaxUpdates \in Nat
    /\ Garbage \subseteq Nat /\ Garbage # {}

VARIABLES
    maxthreads, \* how many slots there are
    state,      \* state[g]: generation g of the array counter_state
    gen,        \* the generation counter_state points to
    val,        \* val[s]: the counter in the block of slot s
    dead,       \* dead_thread_counters
    shared,     \* shared_counters
    lock,       \* counter_lock: who holds it, "main" being the main thread
    cpc, slot,  \* where each thread is, and its slot
    ctmp,       \* a value a thread has read and will write back
    ptr,        \* the generation of counter_state a thread has loaded
    sum, at, low, \* the total being summed: so far, the next slot to add,
                  \* and the number of increments when it was begun
    clear,      \* while a total is summed, nobody was starting or finishing
    count,      \* how many increments there have really been, less those taken back
    updates,    \* how many increments and zeroings were begun
    collided,   \* two threads had read the counts of the dead to change them
    torn        \* counter_state was replaced between a load and its store

readVars   == <<sum, at, low, clear>>
updateVars == <<count, updates>>
tally      == <<readVars, updateVars, collided, torn>>
counterVars == <<maxthreads, state, gen, val, dead, shared, lock, cpc, slot, ctmp, ptr, tally>>

Slot == 0 .. MaxSlots - 1

(* The bits COUNTER_DYNAMIC, COUNTER_STATIC and COUNTER_USED. *)
None == {}
Dynamic == {"dynamic"}
Static  == {"static"}
Used    == {"used"}

CountersInit ==
    /\ maxthreads = Statics
    /\ state = [g \in {0} |-> [s \in Slot |-> IF s = 0 THEN Static \union Used
                                              ELSE IF s < Statics THEN Static ELSE None]]
    /\ gen = 0
    /\ val = [s \in Slot |-> 0]
    /\ dead = 0 /\ shared = 0
    /\ lock = NoThread
    /\ cpc = [t \in Worker |-> "new"] /\ slot = [t \in Worker |-> 0]
    /\ ctmp = [t \in Worker |-> 0] /\ ptr = [t \in Worker |-> 0]
    /\ sum = 0 /\ at = 0 /\ low = 0 /\ clear = TRUE
    /\ count = 0 /\ updates = 0 /\ collided = FALSE /\ torn = FALSE

Allocated == 0 .. maxthreads - 1
IsUsed(s) == "used" \in state[gen][s]

(* Between joining and being in place, or leaving and being gone. *)
Unsettled == {t \in Worker : cpc[t] \in {"joining", "merging", "merged", "leaving"}}
Reading   == lock = "main"

(* No thread has read the counts of the dead and is about to write them back; no
   thread has loaded counter_state and is about to store into it. *)
DeadUnwritten == \A t \in Worker : cpc[t] \notin {"merging", "late"}
StateUnwritten == \A t \in Worker : cpc[t] \notin {"starting", "leaving"}

TouchesDead == collided' = (collided \/ ~ DeadUnwritten)
-----------------------------------------------------------------------------
(* Starting. *)

SetState(g, s, v) == state' = [state EXCEPT ![g][s] = v]

(* kit_counters_init_thread: a static slot, which its caller gives to one thread at
   a time, is found not to be in use, without the lock; counter_state is loaded ... *)
InitThread(t, s) ==
    /\ cpc[t] = "new" /\ s \in Allocated
    /\ state[gen][s] = Static /\ \A u \in Worker : slot[u] # s
    /\ slot' = [slot EXCEPT ![t] = s]
    /\ ptr' = [ptr EXCEPT ![t] = gen]
    /\ cpc' = [cpc EXCEPT ![t] = "starting"]
    /\ UNCHANGED <<maxthreads, state, gen, val, dead, shared, lock, ctmp, tally>>

(* ... and the slot's state is stored in the array that was loaded. *)
InitStore(t) ==
    /\ cpc[t] = "starting"
    /\ SetState(ptr[t], slot[t], state[ptr[t]][slot[t]] \union Used)
    /\ ptr' = [ptr EXCEPT ![t] = 0]
    /\ cpc' = [cpc EXCEPT ![t] = "on"]
    /\ UNCHANGED <<maxthreads, gen, val, dead, shared, lock, slot, ctmp, tally>>

(* kit_counters_init_dynamic_thread, up to the unlock: the slot is in use before
   its block is cleared. *)
InitDynamicThread(t) ==
    /\ cpc[t] = "new" /\ lock = NoThread
    /\ \E s \in Allocated :
          /\ state[gen][s] = Dynamic
          /\ \A r \in Allocated : state[gen][r] = Dynamic => s <= r
          /\ slot' = [slot EXCEPT ![t] = s]
          /\ SetState(gen, s, Dynamic \union Used)
    /\ cpc' = [cpc EXCEPT ![t] = "joining"]
    /\ UNCHANGED <<maxthreads, gen, val, dead, shared, lock, ctmp, ptr, tally>>

ClearBlock(t) ==
    /\ cpc[t] = "joining"
    /\ val' = [val EXCEPT ![slot[t]] = 0]
    /\ cpc' = [cpc EXCEPT ![t] = "on"]
    /\ UNCHANGED <<maxthreads, state, gen, dead, shared, lock, slot, ctmp, ptr, tally>>
-----------------------------------------------------------------------------
(* Counting: kit_counter_incr, kit_counter_add. *)

Updated(n) == count' = count + n /\ updates' = updates + 1

CountOwn(s) ==
    /\ updates < MaxUpdates
    /\ val' = [val EXCEPT ![s] = @ + 1] /\ Updated(1)
    /\ UNCHANGED <<maxthreads, state, gen, dead, shared, lock, cpc, slot, ctmp, ptr, readVars, collided, torn>>

Incr(t)  == cpc[t] = "on" /\ CountOwn(slot[t])
IncrMain == ~ Reading /\ CountOwn(0)

(* A thread without a block adds to the shared counters atomically. *)
IncrShared ==
    /\ updates < MaxUpdates
    /\ shared' = shared + 1 /\ Updated(1)
    /\ UNCHANGED <<maxthreads, state, gen, val, dead, lock, cpc, slot, ctmp, ptr, readVars, collided, torn>>

(* A finished thread's counters are the dead threads' counters: it reads, adds
   and writes them back like its own, without the lock. *)
LateRead(t) ==
    /\ cpc[t] = "off" /\ updates < MaxUpdates
    /\ ctmp' = [ctmp EXCEPT ![t] = dead] /\ updates' = updates + 1 /\ TouchesDead
    /\ cpc' = [cpc EXCEPT ![t] = "late"]
    /\ UNCHANGED <<maxthreads, state, gen, val, dead, shared, lock, slot, ptr, readVars, count, torn>>

LateWrite(t) ==
    /\ cpc[t] = "late"
    /\ dead' = ctmp[t] + 1 /\ count' = count + 1
    /\ ctmp' = [ctmp EXCEPT ![t] = 0]
    /\ cpc' = [cpc EXCEPT ![t] = "off"]
    /\ UNCHANGED <<maxthreads, state, gen, val, shared, lock, slot, ptr, readVars, updates, collided, torn>>

(* kit_counter_zero: what the calling thread has counted in its own block, in the
   counts of the dead or in the shared ones is taken back. *)
ZeroOwn(s) ==
    /\ val[s] # 0 /\ updates < MaxUpdates
    /\ val' = [val EXCEPT ![s] = 0] /\ Updated(- val[s]) /\ clear' = ~ Reading
    /\ UNCHANGED <<maxthreads, state, gen, dead, shared, lock, cpc, slot, ctmp, ptr, sum, at, low, collided, torn>>

ZeroBlock(t) == cpc[t] = "on" /\ ZeroOwn(slot[t])
ZeroMain == ~ Reading /\ ZeroOwn(0)

ZeroDead(t) ==
    /\ cpc[t] = "off" /\ dead # 0 /\ updates < MaxUpdates
    /\ dead' = 0 /\ Updated(- dead) /\ clear' = ~ Reading /\ TouchesDead
    /\ UNCHANGED <<maxthreads, state, gen, val, shared, lock, cpc, slot, ctmp, ptr, sum, at, low, torn>>

ZeroShared ==
    /\ shared # 0 /\ updates < MaxUpdates
    /\ shared' = 0 /\ Updated(- shared) /\ clear' = ~ Reading
    /\ UNCHANGED <<maxthreads, state, gen, val, dead, lock, cpc, slot, ctmp, ptr, sum, at, low, collided, torn>>
-----------------------------------------------------------------------------
(* Finishing: kit_counters_fini_thread and kit_counters_fini_dynamic_thread. *)

(* kit_counters_combine takes the lock and adds the block to the dead counts ... *)
FiniCombine(t) ==
    /\ cpc[t] = "on" /\ lock = NoThread /\ IsUsed(slot[t])
    /\ lock' = t
    /\ ctmp' = [ctmp EXCEPT ![t] = dead + val[slot[t]]] /\ TouchesDead
    /\ cpc' = [cpc EXCEPT ![t] = "merging"]
    /\ UNCHANGED <<maxthreads, state, gen, val, dead, shared, slot, ptr, readVars, updateVars, torn>>

(* ... and gives the lock back while the slot is still in use. *)
FiniUnlock(t) ==
    /\ cpc[t] = "merging"
    /\ dead' = ctmp[t] /\ lock' = NoThread
    /\ ctmp' = [ctmp EXCEPT ![t] = 0]
    /\ cpc' = [cpc EXCEPT ![t] = "merged"]
    /\ UNCHANGED <<maxthreads, state, gen, val, shared, slot, ptr, tally>>

(* Mutant of FiniLoad: the block of a static slot keeps its counts. *)
FiniLoadUncleared(t) ==
    /\ cpc[t] = "merged"
    /\ ptr' = [ptr EXCEPT ![t] = gen]
    /\ cpc' = [cpc EXCEPT ![t] = "leaving"]
    /\ UNCHANGED <<maxthreads, state, gen, val, dead, shared, lock, slot, ctmp, tally>>

(* A static slot's block is cleared; counter_state is loaded. *)
FiniLoad(t) ==
    LET s == slot[t] IN
    /\ cpc[t] = "merged"
    /\ val' = IF "static" \in state[gen][s] THEN [val EXCEPT ![s] = 0] ELSE val
    /\ ptr' = [ptr EXCEPT ![t] = gen]
    /\ cpc' = [cpc EXCEPT ![t] = "leaving"]
    /\ UNCHANGED <<maxthreads, state, gen, dead, shared, lock, slot, ctmp, tally>>

(* The slot's state is stored in the array that was loaded. *)
FiniStore(t) ==
    LET s == slot[t] IN
    /\ cpc[t] = "leaving"
    /\ SetState(ptr[t], s, state[ptr[t]][s] \intersect Static)
    /\ ptr' = [ptr EXCEPT ![t] = 0]
    /\ slot' = [slot EXCEPT ![t] = 0]
    /\ cpc' = [cpc EXCEPT ![t] = "off"]
    /\ UNCHANGED <<maxthreads, gen, val, dead, shared, lock, ctmp, tally>>

(* The thread is gone; another may start in its place. *)
Gone(t) ==
    /\ cpc[t] = "off"
    /\ cpc' = [cpc EXCEPT ![t] = "new"]
    /\ UNCHANGED <<maxthreads, state, gen, val, dead, shared, lock, slot, ctmp, ptr, tally>>
-----------------------------------------------------------------------------
(* kit_counters_prepare_dynamic_threads(1), by the main thread: a slot nobody
   has is made dynamic, else the arrays are copied to larger ones. *)

PrepareReuse ==
    /\ lock = NoThread
    /\ \E s \in Allocated :
          /\ state[gen][s] = None
          /\ \A r \in Allocated : state[gen][r] = None => s <= r
          /\ SetState(gen, s, Dynamic)
    /\ UNCHANGED <<maxthreads, gen, val, dead, shared, lock, cpc, slot, ctmp, ptr, tally>>

PrepareGrow ==
    /\ lock = NoThread /\ maxthreads < MaxSlots
    /\ \A s \in Allocated : state[gen][s] # None
    /\ torn' = (torn \/ ~ StateUnwritten)
    /\ \E v \in Garbage : val' = [val EXCEPT ![maxthreads] = v]
    /\ state' = [g \in 0 .. gen + 1 |->
                   IF g <= gen THEN state[g] ELSE [state[gen] EXCEPT ![maxthreads] = Dynamic]]
    /\ gen' = gen + 1
    /\ maxthreads' = maxthreads + 1
    /\ UNCHANGED <<dead, shared, lock, cpc, slot, ctmp, ptr, readVars, updateVars, collided>>
-----------------------------------------------------------------------------
(* kit_counter_get_data(c, KIT_THREAD_TOTAL), by the main thread: one slot after
   the other under the lock, which does not stop the counting. *)

ReadStart ==
    /\ lock = NoThread
    /\ lock' = "main" /\ sum' = 0 /\ at' = 0 /\ low' = count /\ clear' = (Unsettled = {})
    /\ UNCHANGED <<maxthreads, state, gen, val, dead, shared, cpc, slot, ctmp, ptr, updateVars, collided, torn>>

ReadSlot ==
    /\ Reading /\ at \in Allocated
    /\ sum' = IF IsUsed(at) THEN sum + val[at] ELSE sum
    /\ at' = at + 1
    /\ UNCHANGED <<maxthreads, state, gen, val, dead, shared, lock, cpc, slot, ctmp, ptr, low, clear, updateVars, collided, torn>>

ReadDeadAndShared ==
    /\ Reading /\ at = maxthreads
    /\ sum' = sum + dead + shared
    /\ at' = at + 1
    /\ UNCHANGED <<maxthreads, state, gen, val, dead, shared, lock, cpc, slot, ctmp, ptr, low, clear, updateVars, collided, torn>>

ReadEnd ==
    /\ Reading /\ at > maxthreads
    /\ lock' = NoThread /\ sum' = 0 /\ at' = 0 /\ low' = 0 /\ clear' = TRUE
    /\ UNCHANGED <<maxthreads, state, gen, val, dead, shared, cpc, slot, ctmp, ptr, updateVars, collided, torn>>

CountersNext ==
    \/ \E t \in Worker :
          \/ \E s \in Slot : InitThread(t, s)
          \/ InitStore(t) \/ InitDynamicThread(t) \/ ClearBlock(t)
          \/ Incr(t) \/ LateRead(t) \/ LateWrite(t) \/ ZeroBlock(t) \/ ZeroDead(t)
          \/ FiniCombine(t) \/ FiniUnlock(t) \/ FiniLoad(t) \/ FiniStore(t) \/ Gone(t)
    \/ IncrMain \/ IncrShared \/ ZeroMain \/ ZeroShared
    \/ PrepareReuse \/ PrepareGrow
    \/ ReadStart \/ ReadSlot \/ ReadDeadAndShared \/ ReadEnd

CountersSpec == CountersInit /\ [][CountersNext]_counterVars
-----------------------------------------------------------------------------
CountersTyped ==
    /\ maxthreads \in Statics .. MaxSlots
    /\ gen \in Nat /\ state \in [0 .. gen -> [Slot -> SUBSET {"dynamic", "static", "used"}]]
    /\ val \in [Slot -> Nat] /\ dead \in Nat /\ shared \in Nat
    /\ lock \in Worker \union {NoThread, "main"}
    /\ cpc \in [Worker -> {"new", "starting", "joining", "on", "merging", "merged", "leaving", "off", "late"}]
    /\ slot \in [Worker -> Slot] /\ ptr \in [Worker -> 0 .. gen]
    /\ ctmp \in [Worker -> Nat] /\ sum \in Nat /\ at \in Nat /\ low \in Int /\ count \in Int
    /\ updates \in 0 .. MaxUpdates
    /\ clear \in BOOLEAN /\ collided \in BOOLEAN /\ torn \in BOOLEAN

(* f[0] + ... + f[n - 1] *)
SumTo(f, n) ==
    LET upTo[i \in 0 .. n] == IF i = 0 THEN 0 ELSE upTo[i - 1] + f[i - 1] IN upTo[n]

(* What kit_counter_get_data adds up, if nothing moves. *)
Total == SumTo([s \in Slot |-> IF IsUsed(s) THEN val[s] ELSE 0], maxthreads) + dead + shared

(* One of the two meetings of unlocked steps that lose counts, or count twice, for good:
   of two threads that change the counts of the dead, at least one in a destructor, and
   of a new array of slots with a thread that is changing its state in the old one. *)
Spoiled == collided \/ torn

(* No increment is lost and none is counted twice, across the threads that come
   and go and the slots that are reused and added: whenever no thread is just
   starting or finishing, the total is the number of increments, unless Spoiled.
   "Each thread has its own set of counters, which it can modify without locking." *)
TotalExact == Unsettled = {} /\ ~ Spoiled => Total = count

(* "When a count is needed, it's summed up from all the per thread counts": a total
   that is read while threads count lies between the number of increments when the
   reading began and when it ended, if no thread was starting or finishing then. *)
ReadExact == Reading /\ at > maxthreads /\ clear /\ ~ Spoiled => sum \in low .. count

(* Counters are exact, at rest and when they are read, but for the windows named. *)
CountersExact == CountersTyped /\ TotalExact /\ ReadExact

(* The first sentence of kit-counters.c, "fast thread safe counters", without them. *)
ThreadSafeCounters ==
    /\ Unsettled = {} => Total = count
    /\ Reading /\ at > maxthreads => sum \in low .. count
=============================================================================
