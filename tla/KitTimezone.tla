----------------------------- MODULE KitTimezone -----------------------------
(***************************************************************************)
(* The cache of timezones of lib-kit/kit-timezone.c, for one name.         *)
(* kit_timezone_load finds or adds the zone under cache_lock and           *)
(* kit_timezone_lock checks and reloads it under the zone's own lock, so   *)
(* the two may be at work on the same zone; what touches the file or the   *)
(* zone is a step of its own.                                              *)
(***************************************************************************)
EXTENDS Integers, FiniteSets

CONSTANTS
    Thread, Nobody,
    CacheSeconds,   \* what kit_timezone_initialize may be called with
    MaxTime,        \* bound on the clock
    MaxVersion,     \* bound on the changes of the file
    MaxLoads        \* bound on the tzdata allocated

ZoneAssumption == Nobody \notin Thread /\ MaxVersion \in Nat

VARIABLES
    now, file,          \* the clock; the file: [there, mtime]
    cache, cache_seconds, cache_lock,   \* "none", "empty" or "zone"
    tzdata, mtim, time_checked, zlock,  \* the zone
    live, loads,        \* the tzdata objects not freed, how many there have been
    checked,            \* the mtime of the file when it was last looked at
    pc, has, tmp,       \* a thread: where it is, has it the zone, what it has read
    raced               \* have a load and a reload of the zone been at work at once?

zone    == <<tzdata, mtim, time_checked, zlock>>
world   == <<now, file>>
tzcVars == <<world, cache, cache_seconds, cache_lock, zone, live, loads, checked, pc, has, tmp, raced>>

(* A tzdata is its number and the mtime of the file it was read from. *)
Null == [id |-> 0, mtime |-> 0]

Loading   == {"stat", "alloc", "set"}
Reloading == {"restat", "discard", "realloc", "reset"}

ZoneInit ==
    /\ ZoneAssumption
    /\ now = 0 /\ file = [there |-> TRUE, mtime |-> 1]
    /\ cache = "none" /\ cache_seconds = 0 /\ cache_lock = Nobody
    /\ tzdata = Null /\ mtim = 0 /\ time_checked = 0 /\ zlock = Nobody
    /\ live = {} /\ loads = 0 /\ checked = 0
    /\ pc = [t \in Thread |-> "idle"] /\ has = [t \in Thread |-> FALSE]
    /\ tmp = [t \in Thread |-> Null]
    /\ raced = FALSE

(* Thread t is at l now. *)
At(t, l) ==
    /\ pc' = [pc EXCEPT ![t] = l]
    /\ raced' = (raced \/ /\ \E u \in Thread : pc'[u] \in Loading
                          /\ \E u \in Thread : pc'[u] \in Reloading)

Recent == cache_seconds # 0 /\ now - time_checked <= cache_seconds
-----------------------------------------------------------------------------
kit_timezone_initialize(seconds) ==
    /\ cache = "none"
    /\ cache' = "empty" /\ cache_seconds' = seconds
    /\ UNCHANGED <<world, cache_lock, zone, live, loads, checked, pc, has, tmp, raced>>

(* By the last user: kit_timezone_free of every zone, and the cache. *)
kit_timezone_finalize ==
    /\ cache # "none" /\ \A t \in Thread : pc[t] = "idle"
    /\ cache' = "none" /\ live' = live \ {tzdata} /\ tzdata' = Null
    /\ mtim' = 0 /\ time_checked' = 0 /\ checked' = 0
    /\ has' = [t \in Thread |-> FALSE]
    /\ UNCHANGED <<world, cache_seconds, cache_lock, zlock, loads, pc, tmp, raced>>
-----------------------------------------------------------------------------
(* kit_timezone_load *)

(* The zone is in the cache and has tzdata; it has none and was looked at lately;
   it has none; it must be added, for which there may be no memory. *)
LoadFind(t) ==
    /\ pc[t] = "idle" /\ cache # "none" /\ cache_lock = Nobody
    /\ \/ /\ cache = "zone" /\ (tzdata # Null \/ Recent)
          /\ has' = [has EXCEPT ![t] = @ \/ tzdata # Null]
          /\ UNCHANGED <<cache, cache_lock, zone, pc, raced>>
       \/ /\ cache = "zone" /\ tzdata = Null /\ ~ Recent
          /\ cache_lock' = t /\ time_checked' = now /\ At(t, "stat")
          /\ UNCHANGED <<cache, tzdata, mtim, zlock, has>>
       \/ /\ cache = "empty"
          /\ cache' = "zone" /\ cache_lock' = t /\ time_checked' = now /\ At(t, "stat")
          /\ UNCHANGED <<tzdata, mtim, zlock, has>>
       \/ cache = "empty" /\ UNCHANGED <<cache, cache_lock, zone, pc, has, raced>>
    /\ UNCHANGED <<world, cache_seconds, live, loads, checked, tmp>>

LoadStat(t) ==
    /\ pc[t] = "stat"
    /\ IF file.there
       THEN /\ mtim' = file.mtime /\ checked' = file.mtime /\ At(t, "alloc")
            /\ UNCHANGED <<tzdata, cache_lock>>
       ELSE /\ mtim' = 0 /\ tzdata' = Null /\ cache_lock' = Nobody /\ At(t, "idle")
            /\ UNCHANGED checked
    /\ UNCHANGED <<world, cache, cache_seconds, time_checked, zlock, live, loads, has, tmp>>

(* tz_tzalloc reads the file as it is now, and may fail. *)
tz_tzalloc(t) ==
    \/ /\ file.there /\ loads < MaxLoads
       /\ loads' = loads + 1
       /\ LET d == [id |-> loads + 1, mtime |-> file.mtime]
          IN  live' = live \union {d} /\ tmp' = [tmp EXCEPT ![t] = d]
    \/ tmp' = [tmp EXCEPT ![t] = Null] /\ UNCHANGED <<live, loads>>

LoadAlloc(t) ==
    /\ pc[t] = "alloc"
    /\ tz_tzalloc(t) /\ At(t, "set")
    /\ UNCHANGED <<world, cache, cache_seconds, cache_lock, zone, checked, has>>

LoadSet(t) ==
    /\ pc[t] = "set"
    /\ tzdata' = tmp[t] /\ tmp' = [tmp EXCEPT ![t] = Null]
    /\ has' = [has EXCEPT ![t] = @ \/ tmp[t] # Null]
    /\ cache_lock' = Nobody /\ At(t, "idle")
    /\ UNCHANGED <<world, cache, cache_seconds, mtim, time_checked, zlock, live, loads, checked>>
-----------------------------------------------------------------------------
(* kit_timezone_lock; "held" is where it has returned the zone, locked. *)

LockTake(t) ==
    /\ pc[t] = "idle" /\ has[t] /\ zlock = Nobody
    /\ \/ Recent /\ tzdata # Null /\ zlock' = t /\ At(t, "held")
       \/ Recent /\ tzdata = Null /\ UNCHANGED <<zlock, pc, raced>>
       \/ ~ Recent /\ zlock' = t /\ At(t, "restat")
    /\ UNCHANGED <<world, cache, cache_seconds, cache_lock, tzdata, mtim, time_checked, live, loads,
                   checked, has, tmp>>

(* The file is looked at.  If it is gone, what is taken for its mtime was never
   written. *)
LockStat(t) ==
    /\ pc[t] = "restat"
    /\ time_checked' = now
    /\ IF file.there /\ file.mtime = mtim
       THEN checked' = mtim /\ At(t, "held") /\ UNCHANGED tmp
       ELSE /\ At(t, "discard")
            /\ IF file.there
               THEN checked' = file.mtime /\ tmp' = [tmp EXCEPT ![t] = [id |-> 1, mtime |-> file.mtime]]
               ELSE /\ \E m \in 0 .. MaxVersion : tmp' = [tmp EXCEPT ![t] = [id |-> 0, mtime |-> m]]
                    /\ UNCHANGED checked
    /\ UNCHANGED <<world, cache, cache_seconds, cache_lock, tzdata, mtim, zlock, live, loads, has>>

(* Mutant of LockDiscard: tzdata is left as it was when the file is gone. *)
LockDiscardDangling(t) ==
    /\ pc[t] = "discard"
    /\ live' = live \ {tzdata}
    /\ mtim' = tmp[t].mtime
    /\ IF tmp[t].id # 0
       THEN At(t, "realloc") /\ tzdata' = Null /\ UNCHANGED zlock
       ELSE At(t, "idle") /\ zlock' = Nobody /\ UNCHANGED tzdata
    /\ tmp' = [tmp EXCEPT ![t] = Null]
    /\ UNCHANGED <<world, cache, cache_seconds, cache_lock, time_checked, loads, checked, has>>

LockDiscard(t) ==
    /\ pc[t] = "discard"
    /\ live' = live \ {tzdata} /\ tzdata' = Null
    /\ mtim' = tmp[t].mtime
    /\ IF tmp[t].id # 0
       THEN At(t, "realloc") /\ UNCHANGED zlock
       ELSE At(t, "idle") /\ zlock' = Nobody
    /\ tmp' = [tmp EXCEPT ![t] = Null]
    /\ UNCHANGED <<world, cache, cache_seconds, cache_lock, time_checked, loads, checked, has>>

LockAlloc(t) ==
    /\ pc[t] = "realloc"
    /\ tz_tzalloc(t) /\ At(t, "reset")
    /\ UNCHANGED <<world, cache, cache_seconds, cache_lock, zone, checked, has>>

LockSet(t) ==
    /\ pc[t] = "reset"
    /\ tzdata' = tmp[t] /\ tmp' = [tmp EXCEPT ![t] = Null]
    /\ IF tmp[t] # Null THEN At(t, "held") /\ UNCHANGED zlock
                        ELSE At(t, "idle") /\ zlock' = Nobody
    /\ UNCHANGED <<world, cache, cache_seconds, cache_lock, mtim, time_checked, live, loads, checked, has>>

(* kit_timezone_unlock; until then kit_timezone_time_to_localtime reads tzdata. *)
kit_timezone_unlock(t) ==
    /\ pc[t] = "held"
    /\ zlock' = Nobody /\ At(t, "idle")
    /\ UNCHANGED <<world, cache, cache_seconds, cache_lock, tzdata, mtim, time_checked, live, loads,
                   checked, has, tmp>>
-----------------------------------------------------------------------------
(* Time passes; the zoneinfo file is replaced, goes away and comes back. *)
World ==
    /\ \/ now < MaxTime /\ now' = now + 1 /\ UNCHANGED file
       \/ /\ file.mtime < MaxVersion
          /\ file' = [there |-> TRUE, mtime |-> file.mtime + 1] /\ UNCHANGED now
       \/ file' = [file EXCEPT !.there = ~ @] /\ UNCHANGED now
    /\ UNCHANGED <<cache, cache_seconds, cache_lock, zone, live, loads, checked, pc, has, tmp, raced>>

ZoneNext ==
    \/ \E s \in CacheSeconds : kit_timezone_initialize(s)
    \/ kit_timezone_finalize
    \/ \E t \in Thread :
          \/ LoadFind(t) \/ LoadStat(t) \/ LoadAlloc(t) \/ LoadSet(t)
          \/ LockTake(t) \/ LockStat(t) \/ LockDiscard(t) \/ LockAlloc(t) \/ LockSet(t)
          \/ kit_timezone_unlock(t)
    \/ World

ZoneSpec == ZoneInit /\ [][ZoneNext]_tzcVars
-----------------------------------------------------------------------------
InHand == {tmp[t] : t \in {u \in Thread : pc[u] \in {"set", "reset"}}}

(* Whoever has the zone's lock reads tzdata that has not been freed, if any. *)
NeverDangling ==
    /\ tzdata # Null => tzdata \in live
    /\ \A t \in Thread : pc[t] \in Reloading \union {"held"} <=> zlock = t

(* No tzdata is lost, and what a lock returns is as new as the file was when it
   was last looked at. *)
FreshAndOwned ==
    /\ live \subseteq {tzdata} \union InHand
    /\ \A t \in Thread : pc[t] = "held" /\ tzdata # Null => tzdata.mtime >= checked

(* The zones stay sound under threads that load, lock and use one while its file
   changes: tzdata is never used or freed after it was freed, and it is neither
   lost nor stale unless a load came while another thread reloaded the zone. *)
ZoneSound == NeverDangling /\ (raced \/ FreshAndOwned)

(* "A thread-safe cache for tzcode timezone objects" *)
ThreadSafe == FreshAndOwned
=============================================================================
