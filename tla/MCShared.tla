------------------------------ MODULE MCShared ------------------------------
(***************************************************************************)
(* What the threads of a process share, for TLC.  A behaviour is about one *)
(* of: the counters, the allocator, the cache of timezones, the random     *)
(* numbers, a walker over a pool, a hash table, or values that are indexed *)
(* when they are first looked into.  The others stay as initialized.       *)
(***************************************************************************)
EXTENDS SxeHash, KitTimezone, KitCounters, KitRandom, KitAlloc, SxeJitsonIndex, TLC

CONSTANTS t1, t2, w1

Symmetry == Permutations({t1, t2})

(* Two areas that can hold a guarded block, one of them aligned to 4 words; an array
   whose size is more than the largest size_t, and one whose size is not. *)
MCSlots      == {4, 14}
MCCallocArgs == {<<2, 1>>, <<8, 2>>}
MCFlagSets   == {{}, {"CHECK"}}

(* Two of the keys have the same bucket. *)
MCHashOf == <<2, 4, 5>>

(* A collection of four tokens that begins with one of two. *)
MCSize  == <<4, 2>>
MCInner == <<2, 0>>

(* Bound on nextCount when the behaviour is about the walker. *)
WalkMax == 6

ASSUME MCSizesFit == SizesFit

VARIABLE focus      \* what the behaviour is about

NoHash ==
    /\ key = <<>> /\ held = <<>> /\ giving = <<>>
    /\ looking = -1 /\ cand = -1 /\ found = -1 /\ present = {}

MCInit ==
    /\ CountersInit /\ AllocInit /\ ZoneInit /\ RandomInit /\ IndexInit
    /\ \/ focus \in {"counters", "alloc", "timezone", "random", "walker", "jitson"} /\ Init /\ NoHash
       \/ focus = "hash" /\ HashInit
    /\ focus # "alloc" => flags = {}

MCNext ==
    \/ focus = "counters" /\ CountersNext /\ UNCHANGED <<focus, allocVars, tzcVars, randomVars, vars, hashVars, indexVars>>
    \/ focus = "alloc" /\ AllocNext /\ UNCHANGED <<focus, counterVars, tzcVars, randomVars, vars, hashVars, indexVars>>
    \/ focus = "timezone" /\ ZoneNext /\ UNCHANGED <<focus, counterVars, allocVars, randomVars, vars, hashVars, indexVars>>
    \/ focus = "random" /\ RandomNext /\ UNCHANGED <<focus, counterVars, allocVars, tzcVars, vars, hashVars, indexVars>>
    \/ focus = "walker" /\ Next /\ nextCount' <= WalkMax /\ UNCHANGED <<focus, counterVars, allocVars, tzcVars, randomVars, hashVars, indexVars>>
    \/ focus = "hash" /\ HashNext /\ UNCHANGED <<focus, counterVars, allocVars, tzcVars, randomVars, indexVars>>
    \/ focus = "jitson" /\ IndexNext /\ UNCHANGED <<focus, counterVars, allocVars, tzcVars, randomVars, vars, hashVars>>

MCSpec == MCInit /\ [][MCNext]_<<focus, counterVars, allocVars, tzcVars, randomVars, vars, hashVars, indexVars>>
=============================================================================
