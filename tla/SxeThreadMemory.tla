--------------------------- MODULE SxeThreadMemory ---------------------------
(***************************************************************************)
(* Per thread memory that outlives its thread                              *)
(* (lib-sxe-thread/sxe-thread-memory.c).  Any thread pushes the tracker of *)
(* a new allocation on a lock free list; the main thread takes the whole   *)
(* list, frees the trackers of dead threads, and puts the others back.     *)
(***************************************************************************)
EXTENDS Integers, FiniteSets

CONSTANTS
    Thread,         \* tids
    Main,           \* the thread that calls sxe_thread_memory_free
    Addr,           \* addresses that kit_malloc may give to a tracker
    NULL,
    Modes,          \* the modes sxe_thread_memory_free is called with
    MaxTries,       \* passes over the list when freeing ALL (the code: 1001)
    ExitDuringFree  \* may a thread exit while sxe_thread_memory_free runs?

ASSUME ThreadMemoryAssumption ==
    /\ Main \in Thread
    /\ IsFiniteSet(Addr) /\ NULL \notin Addr
    /\ Modes \subseteq {"UNUSED", "ALL"}
    /\ MaxTries \in Nat \ {0}
    /\ ExitDuringFree \in BOOLEAN

VARIABLES
    trackers,   \* the head of the list of trackers
    next,       \* tracker->next
    tid,        \* tracker->tid
    cell,       \* what an address is: "free", "held" (allocated, not yet
                \* pushed), "tracked", or "leaked"
    mpc,        \* "run", "push" or "dead", for Main also where the free is
    hold,       \* the tracker a thread is pushing
    what,       \* the mode of the running sxe_thread_memory_free
    tries,      \* its passes so far
    cur,        \* its variable tracker
    keepers,    \* its list of trackers not freed
    mlast,      \* the last tracker of that list
    unfreed,    \* its count of trackers not freed
    old         \* the trackers that were tracked when it was called and
                \* that it has not freed

freeVars == <<what, tries, cur, keepers, mlast, unfreed, old>>
memVars  == <<trackers, next, tid, cell, mpc, hold, freeVars>>

MemoryInit ==
    /\ trackers = NULL
    /\ next = [a \in Addr |-> NULL]
    /\ tid  = [a \in Addr |-> Main]
    /\ cell = [a \in Addr |-> "free"]
    /\ mpc  = [t \in Thread |-> "run"]
    /\ hold = [t \in Thread |-> NULL]
    /\ what = "UNUSED" /\ tries = 0 /\ cur = NULL /\ keepers = NULL /\ mlast = NULL
    /\ unfreed = 0 /\ old = {}

Tracked == {a \in Addr : cell[a] = "tracked"}

(* sxe_thread_memory_free runs.  It comes back: it races with threads that push,
   but each lost race is paid for by a push. *)
Freeing == mpc[Main] \in {"grab", "each", "link", "swap", "again"}
-----------------------------------------------------------------------------
(* sxe_thread_malloc *)

(* Both allocations succeed; the tracker is filled in with the current head. *)
Malloc(t, a) ==
    /\ mpc[t] = "run" /\ cell[a] = "free"
    /\ cell' = [cell EXCEPT ![a] = "held"]
    /\ tid'  = [tid EXCEPT ![a] = t]
    /\ next' = [next EXCEPT ![a] = trackers]
    /\ hold' = [hold EXCEPT ![t] = a]
    /\ mpc'  = [mpc EXCEPT ![t] = "push"]
    /\ UNCHANGED <<trackers, freeVars>>

(* The tracker is allocated but the memory is not: NULL is returned and the
   tracker is never seen again. *)
MallocFails(t, a) ==
    /\ mpc[t] = "run" /\ cell[a] = "free"
    /\ cell' = [cell EXCEPT ![a] = "leaked"]
    /\ UNCHANGED <<trackers, next, tid, mpc, hold, freeVars>>

(* The compare and swap succeeds, or the new head is read and tried again. *)
Push(t) ==
    LET a == hold[t] IN
    /\ mpc[t] = "push"
    /\ \/ /\ trackers = next[a]
          /\ trackers' = a
          /\ cell' = [cell EXCEPT ![a] = "tracked"]
          /\ hold' = [hold EXCEPT ![t] = NULL]
          /\ mpc'  = [mpc EXCEPT ![t] = "run"]
          /\ UNCHANGED next
       \/ /\ trackers # next[a]
          /\ next' = [next EXCEPT ![a] = trackers]
          /\ UNCHANGED <<trackers, cell, hold, mpc>>
    /\ UNCHANGED <<tid, freeVars>>

(* A thread other than the main thread ends; later, its tid is used again. *)
Exit(t) ==
    /\ t # Main /\ mpc[t] = "run"
    /\ ExitDuringFree \/ ~ Freeing
    /\ mpc' = [mpc EXCEPT ![t] = "dead"]
    /\ UNCHANGED <<trackers, next, tid, cell, hold, freeVars>>

Spawn(t) ==
    /\ mpc[t] = "dead"
    /\ mpc' = [mpc EXCEPT ![t] = "run"]
    /\ UNCHANGED <<trackers, next, tid, cell, hold, freeVars>>
-----------------------------------------------------------------------------
(* sxe_thread_memory_free *)

Goto(l) == mpc' = [mpc EXCEPT ![Main] = l]

MemoryFree(mode) ==
    /\ mpc[Main] = "run"
    /\ what' = mode /\ tries' = 0
    /\ keepers' = NULL /\ mlast' = NULL
    /\ cur' = NULL /\ unfreed' = 0 /\ old' = Tracked
    /\ Goto("grab")
    /\ UNCHANGED <<trackers, next, tid, cell, hold>>

(* Mutant of Grab: the list is read but not taken. *)
GrabShared ==
    /\ mpc[Main] = "grab"
    /\ cur' = trackers
    /\ unfreed' = 0 /\ tries' = tries + 1
    /\ Goto("each")
    /\ UNCHANGED <<trackers, next, tid, cell, hold, what, keepers, mlast, old>>

(* Take the whole list.  A failed compare and swap changes nothing, so the one
   that succeeds is the step. *)
Grab ==
    /\ mpc[Main] = "grab"
    /\ cur' = trackers /\ trackers' = NULL
    /\ unfreed' = 0 /\ tries' = tries + 1
    /\ Goto("each")
    /\ UNCHANGED <<next, tid, cell, hold, what, keepers, mlast, old>>

(* The calling thread's memory is reaped if ALL is asked for, that of another
   thread if its task directory is gone and stat says so. *)
Reap(a) == IF tid[a] = Main THEN what = "ALL" ELSE mpc[tid[a]] = "dead"

(* The calling thread's own tracker is kept unless ALL is asked for; any other may
   be, for the stat of its task directory may fail for another reason than ENOENT. *)
MayKeep(a) == tid[a] = Main => what # "ALL"

(* Mutant of Keep: a kept tracker is not counted. *)
KeepUncounted ==
    /\ mpc[Main] = "each" /\ cur # NULL /\ MayKeep(cur)
    /\ mlast' = IF mlast = NULL THEN cur ELSE mlast
    /\ next' = [next EXCEPT ![cur] = keepers]
    /\ keepers' = cur
    /\ cur' = next[cur]
    /\ UNCHANGED <<trackers, tid, cell, mpc, hold, what, tries, unfreed, old>>

Keep ==
    /\ mpc[Main] = "each" /\ cur # NULL /\ MayKeep(cur)
    /\ mlast' = IF mlast = NULL THEN cur ELSE mlast
    /\ next' = [next EXCEPT ![cur] = keepers]
    /\ keepers' = cur
    /\ unfreed' = unfreed + 1
    /\ cur' = next[cur]
    /\ UNCHANGED <<trackers, tid, cell, mpc, hold, what, tries, old>>

Free ==
    /\ mpc[Main] = "each" /\ cur # NULL /\ Reap(cur)
    /\ cell' = [cell EXCEPT ![cur] = "free"]
    /\ cur' = next[cur]
    /\ old' = old \ {cur}
    /\ UNCHANGED <<trackers, next, tid, mpc, hold, what, tries, keepers, mlast, unfreed>>

AllSeen ==
    /\ mpc[Main] = "each" /\ cur = NULL
    /\ Goto(IF keepers = NULL THEN "again" ELSE "link")
    /\ UNCHANGED <<trackers, next, tid, cell, hold, freeVars>>

(* Read the head and hang it behind the keepers ... *)
Link ==
    /\ mpc[Main] = "link"
    /\ cur' = trackers
    /\ next' = [next EXCEPT ![mlast] = trackers]
    /\ Goto("swap")
    /\ UNCHANGED <<trackers, tid, cell, hold, what, tries, keepers, mlast, unfreed, old>>

(* ... and make the keepers the head if it is still the same. *)
Swap ==
    /\ mpc[Main] = "swap"
    /\ \/ trackers = cur /\ trackers' = keepers /\ Goto("again")
       \/ trackers # cur /\ Goto("link") /\ UNCHANGED trackers
    /\ UNCHANGED <<next, tid, cell, hold, freeVars>>

Retry == what = "ALL" /\ unfreed # 0 /\ tries < MaxTries

Again ==
    /\ mpc[Main] = "again"
    /\ Goto(IF Retry THEN "grab" ELSE "run")
    /\ UNCHANGED <<trackers, next, tid, cell, hold, freeVars>>

MainStep == Grab \/ Keep \/ Free \/ AllSeen \/ Link \/ Swap \/ Again

MemoryNext ==
    \/ \E t \in Thread, a \in Addr : Malloc(t, a) \/ MallocFails(t, a)
    \/ \E t \in Thread : Push(t) \/ Exit(t) \/ Spawn(t)
    \/ \E mode \in Modes : MemoryFree(mode)
    \/ MainStep

MemorySpec == MemoryInit /\ [][MemoryNext]_memVars

(* The main thread, once in sxe_thread_memory_free, is always scheduled again. *)
FairMemorySpec == MemorySpec /\ WF_memVars(MainStep)
-----------------------------------------------------------------------------
MemoryTyped ==
    /\ {trackers, cur, keepers, mlast} \subseteq Addr \union {NULL}
    /\ next \in [Addr -> Addr \union {NULL}]
    /\ tid \in [Addr -> Thread]
    /\ cell \in [Addr -> {"free", "held", "tracked", "leaked"}]
    /\ mpc \in [Thread -> {"run", "push", "dead", "grab", "each", "link", "swap", "again"}]
    /\ hold \in [Thread -> Addr \union {NULL}]
    /\ what \in {"UNUSED", "ALL"} /\ tries \in 0 .. MaxTries
    /\ unfreed \in Nat /\ old \subseteq Addr

(* The trackers found by following next from a (with NULL, where it ends). *)
Chain(a) ==
    LET at[n \in 0 .. Cardinality(Addr)] ==
            IF n = 0 THEN a ELSE IF at[n - 1] = NULL THEN NULL ELSE next[at[n - 1]]
    IN  {at[n] : n \in DOMAIN at} \ {NULL}

(* "List of tackers not freed": nothing sxe_thread_memory_free keeps on keepers
   has been freed, and neither has a tracker it is about to look at or to write
   to.  Freeing one of them twice, or linking to it, would corrupt the heap. *)
KeepersNotFreed ==
    /\ mpc[Main] \in {"grab", "each", "link", "swap"} => Chain(keepers) \subseteq Tracked
    /\ mpc[Main] = "each" => Chain(cur) \subseteq Tracked

(* Every tracker that was pushed and not freed is on the shared list, or on one of
   the two lists in the hands of sxe_thread_memory_free. *)
Accounted ==
    Tracked = Chain(trackers)
              \union (IF Freeing THEN Chain(keepers) ELSE {})
              \union (IF mpc[Main] = "each" THEN Chain(cur) ELSE {})

(* No tracker that was pushed is forgotten until it is freed, and the function says
   how many there are: "@return the number of tracked per thread memory allocations
   remaining unfreed", at least those that were there at the call, at most all. *)
NoneForgotten ==
    [][/\ MemoryTyped' /\ Accounted'
       /\ mpc[Main] = "again" /\ mpc'[Main] = "run" =>
             unfreed \in Cardinality(old) .. Cardinality(Tracked)]_memVars
=============================================================================
