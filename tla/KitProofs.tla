----------------------------- MODULE KitProofs ------------------------------
(***************************************************************************)
(* Proofs about what threads and processes share in lib-kit and            *)
(* lib-kit-alloc: the cache of timezones, the counters, the random numbers *)
(* and the memory interface.                                               *)
(***************************************************************************)
EXTENDS KitTimezone, KitCounters, KitRandom, KitAlloc, FiniteSetTheorems, WellFoundedInduction, TLAPS
-----------------------------------------------------------------------------
(***************************************************************************)
(* The cache of timezones is sound for any number of threads, loads and    *)
(* changes of the file.                                                    *)
(*                                                                         *)
(* ZoneSound is not inductive alone.  That nothing dangles needs that no   *)
(* two places hold the same tzdata (Distinct); that nothing is lost or     *)
(* stale needs, as long as no load came while a zone was reloaded, what    *)
(* each of the two has made of the zone so far (Calm).                     *)
(***************************************************************************)

Data == [id : Nat, mtime : Nat]

ZoneTyped ==
    /\ ZoneAssumption
    /\ file \in [there : BOOLEAN, mtime : Nat]
    /\ cache_lock \in Thread \union {Nobody} /\ zlock \in Thread \union {Nobody}
    /\ tzdata \in Data /\ mtim \in Nat /\ checked \in Nat
    /\ live \subseteq Data /\ loads \in Nat
    /\ pc \in [Thread -> {"idle", "held"} \union Loading \union Reloading]
    /\ tmp \in [Thread -> Data] /\ has \in [Thread -> BOOLEAN]
    /\ raced \in BOOLEAN

(* The two locks: that of the cache is held by a thread that loads, that of the zone
   by one that reloads or uses it. *)
ZoneLocks == \A t \in Thread :
    /\ pc[t] \in Loading <=> cache_lock = t
    /\ pc[t] \in Reloading \union {"held"} <=> zlock = t

(* A tzdata is in one place: in the zone, or in the hands of the thread that read it. *)
Holds(t) == pc[t] \in {"set", "reset"} /\ tmp[t] # Null

Distinct ==
    /\ \A d \in live : d.id \in 1 .. loads
    /\ tzdata # Null => tzdata \in live
    /\ \A t \in Thread : Holds(t) => tmp[t] \in live /\ tmp[t] # tzdata
    /\ \A t, u \in Thread : t # u /\ Holds(t) /\ Holds(u) => tmp[t] # tmp[u]

(* The file is not older than what was seen of it. *)
FileSeen ==
    /\ checked <= file.mtime
    /\ \A t \in Thread : pc[t] = "discard" /\ tmp[t].id # 0 => tmp[t].mtime <= file.mtime

(* No load and no reload are at work at once; the tzdata of a zone that is being loaded
   or read again is gone; none is lost; and the zone is not older than what was seen of
   the file, unless a thread is about to discard it. *)
Calm ==
    /\ \A t, u \in Thread : ~ (pc[t] \in Loading /\ pc[u] \in Reloading)
    /\ \A t \in Thread : pc[t] \in Loading \union {"realloc", "reset"} => tzdata = Null
    /\ \A d \in live : d = tzdata \/ \E t \in Thread : Holds(t) /\ tmp[t] = d
    /\ tzdata # Null => /\ tzdata.mtime >= mtim
                        /\ tzdata.mtime >= checked \/ \E t \in Thread : pc[t] = "discard"
    /\ \A t \in Thread :
          /\ pc[t] \in {"alloc", "realloc"} => mtim <= file.mtime
          /\ Holds(t) => tmp[t].mtime >= mtim /\ tmp[t].mtime >= checked

(* Without a zone in the cache there is nothing to work on. *)
Unused == cache # "zone" => tzdata = Null /\ \A t \in Thread : pc[t] = "idle" /\ ~ has[t]

ZoneInv == ZoneTyped /\ Unused /\ ZoneLocks /\ Distinct /\ FileSeen /\ (raced \/ Calm)
-----------------------------------------------------------------------------
LEMMA InitZoneInv == ZoneInit => ZoneInv
  <1> SUFFICES ASSUME ZoneInit PROVE ZoneInv
    OBVIOUS
  <1>1. \A t \in Thread : pc[t] = "idle"
    BY DEF ZoneInit
  <1>2. ZoneTyped
    BY DEF ZoneInit, ZoneTyped, ZoneAssumption, Null, Data
  <1>3. ZoneLocks
    BY <1>1 DEF ZoneInit, ZoneLocks, ZoneAssumption, Loading, Reloading
  <1>4. Unused /\ Distinct /\ FileSeen
    BY <1>1 DEF ZoneInit, Unused, Distinct, FileSeen, Holds
  <1>5. Calm
    BY <1>1 DEF ZoneInit, Calm, Holds, Loading, Reloading
  <1> QED
    BY <1>2, <1>3, <1>4, <1>5 DEF ZoneInv

LEMMA InvGivesZoneSound == ZoneInv => ZoneSound
  <1> SUFFICES ASSUME ZoneInv PROVE ZoneSound
    OBVIOUS
  <1>1. NeverDangling
    BY DEF ZoneInv, ZoneLocks, Distinct, NeverDangling
  <1>2. ASSUME Calm PROVE FreshAndOwned
    <2>1. live \subseteq {tzdata} \union InHand
      BY <1>2 DEF Calm, InHand, Holds
    <2>2. ASSUME NEW t \in Thread, pc[t] = "held", tzdata # Null PROVE tzdata.mtime >= checked
      <3>1. \A u \in Thread : pc[u] # "discard"
        BY <2>2 DEF ZoneInv, ZoneLocks, Reloading
      <3> QED
        BY <1>2, <2>2, <3>1 DEF Calm
    <2> QED
      BY <2>1, <2>2 DEF FreshAndOwned
  <1> QED
    BY <1>1, <1>2 DEF ZoneInv, ZoneSound

(* A thread goes on, and a load that meets a reload is noted. *)
LEMMA AtFacts ==
    ASSUME ZoneTyped, NEW t \in Thread, NEW l \in {"idle", "held"} \union Loading \union Reloading,
           At(t, l)
    PROVE  /\ pc' \in [Thread -> {"idle", "held"} \union Loading \union Reloading]
           /\ \A u \in Thread : pc'[u] = IF u = t THEN l ELSE pc[u]
           /\ raced' \in BOOLEAN /\ (raced => raced')
           /\ ~raced' => \A u, w \in Thread : ~ (pc'[u] \in Loading /\ pc'[w] \in Reloading)
  BY DEF ZoneTyped, At

(* The lock of the zone, for a thread that leaves that of the cache alone. *)
LEMMA ZoneLockMoves ==
    ASSUME ZoneInv, NEW t \in Thread, NEW l \in {"idle", "held"} \union Reloading, At(t, l),
           pc[t] \notin Loading, UNCHANGED cache_lock,
           zlock' = IF l = "idle" THEN Nobody ELSE t,
           pc[t] = "idle" => zlock = Nobody
    PROVE  ZoneLocks'
  <1>1. \A u \in Thread : pc'[u] = IF u = t THEN l ELSE pc[u]
    BY AtFacts DEF ZoneInv
  <1>2. l \notin Loading /\ (l = "idle" <=> l \notin Reloading \union {"held"})
    BY DEF Loading, Reloading
  <1>3. \A u \in Thread : u # t => pc[u] \notin Reloading \union {"held"}
    <2>1. CASE pc[t] = "idle"
      BY <2>1 DEF ZoneInv, ZoneLocks, ZoneTyped, ZoneAssumption
    <2>2. CASE pc[t] # "idle"
      <3>1. zlock = t
        BY <2>2 DEF ZoneInv, ZoneLocks, ZoneTyped
      <3> QED
        BY <3>1 DEF ZoneInv, ZoneLocks
    <2> QED
      BY <2>1, <2>2
  <1>4. Nobody \notin Thread /\ cache_lock' # t
    BY DEF ZoneInv, ZoneTyped, ZoneAssumption, ZoneLocks
  <1>5. ASSUME NEW u \in Thread PROVE pc'[u] \in Loading <=> cache_lock' = u
    BY <1>1, <1>2, <1>4 DEF ZoneInv, ZoneLocks
  <1>6. ASSUME NEW u \in Thread PROVE pc'[u] \in Reloading \union {"held"} <=> zlock' = u
    <2>1. CASE u = t
      BY <1>1, <1>2, <1>4, <2>1
    <2>2. CASE u # t
      BY <1>1, <1>3, <1>4, <2>2
    <2> QED
      BY <2>1, <2>2
  <1> QED
    BY <1>5, <1>6 DEF ZoneLocks

(* The lock of the cache, for a thread that leaves that of the zone alone. *)
LEMMA CacheLockMoves ==
    ASSUME ZoneInv, NEW t \in Thread, NEW l \in {"idle"} \union Loading, At(t, l),
           pc[t] \in {"idle"} \union Loading, UNCHANGED zlock,
           cache_lock' = IF l = "idle" THEN Nobody ELSE t,
           pc[t] = "idle" => cache_lock = Nobody
    PROVE  ZoneLocks'
  <1>1. \A u \in Thread : pc'[u] = IF u = t THEN l ELSE pc[u]
    BY AtFacts DEF ZoneInv
  <1>2. /\ l \notin Reloading \union {"held"} /\ pc[t] \notin Reloading \union {"held"}
        /\ l = "idle" <=> l \notin Loading
    BY DEF Loading, Reloading
  <1>3. \A u \in Thread : u # t => pc[u] \notin Loading
    <2>1. CASE pc[t] = "idle"
      BY <2>1 DEF ZoneInv, ZoneLocks, ZoneTyped, ZoneAssumption
    <2>2. CASE pc[t] # "idle"
      <3>1. cache_lock = t
        BY <2>2 DEF ZoneInv, ZoneLocks
      <3> QED
        BY <3>1 DEF ZoneInv, ZoneLocks
    <2> QED
      BY <2>1, <2>2
  <1>4. Nobody \notin Thread /\ zlock' # t
    BY <1>2 DEF ZoneInv, ZoneTyped, ZoneAssumption, ZoneLocks
  <1>5. ASSUME NEW u \in Thread PROVE pc'[u] \in Loading <=> cache_lock' = u
    <2>1. CASE u = t
      BY <1>1, <1>2, <1>4, <2>1
    <2>2. CASE u # t
      BY <1>1, <1>3, <1>4, <2>2
    <2> QED
      BY <2>1, <2>2
  <1>6. ASSUME NEW u \in Thread PROVE pc'[u] \in Reloading \union {"held"} <=> zlock' = u
    BY <1>1, <1>2, <1>4 DEF ZoneInv, ZoneLocks
  <1> QED
    BY <1>5, <1>6 DEF ZoneLocks

(* Time passes, the file changes, or a call comes back at once. *)
LEMMA QuietKeepsZoneInv ==
    ASSUME ZoneInv, UNCHANGED <<cache_lock, zlock, tzdata, mtim, checked, live, loads, pc, tmp, raced>>,
           file' \in [there : BOOLEAN, mtime : Nat], file'.mtime >= file.mtime,
           has' \in [Thread -> BOOLEAN], Unused'
    PROVE  ZoneInv'
  <1>1. ZoneTyped' /\ ZoneLocks'
    BY DEF ZoneInv, ZoneTyped, ZoneLocks, ZoneAssumption
  <1>2. \A t \in Thread : Holds(t)' = Holds(t)
    BY DEF Holds
  <1>3. Distinct'
    BY <1>2 DEF ZoneInv, Distinct
  <1>4. file.mtime \in Nat /\ file'.mtime \in Nat /\ checked \in Nat /\ mtim \in Nat
    BY DEF ZoneInv, ZoneTyped
  <1>5. \A t \in Thread : tmp[t].mtime \in Nat
    BY DEF ZoneInv, ZoneTyped, Data
  <1>6. FileSeen'
    BY <1>4, <1>5 DEF ZoneInv, FileSeen
  <1>7. Calm => Calm'
    BY <1>2, <1>4 DEF Calm
  <1> QED
    BY <1>1, <1>3, <1>6, <1>7 DEF ZoneInv

(* The first three steps of kit_timezone_load that go on: nothing is taken from the zone
   or put into it. *)
LEMMA LoadFindKeepsInv ==
    ASSUME ZoneInv, NEW t \in Thread, LoadFind(t)
    PROVE  ZoneInv'
  <1>1. CASE UNCHANGED <<cache, cache_lock, zone, pc, raced>>
    <2>1. has' \in [Thread -> BOOLEAN] /\ Unused'
      BY <1>1 DEF LoadFind, ZoneInv, ZoneTyped, Unused, zone
    <2>2. file'.mtime >= file.mtime /\ file' \in [there : BOOLEAN, mtime : Nat]
      BY DEF LoadFind, world, ZoneInv, ZoneTyped
    <2> QED
      BY <1>1, <2>1, <2>2, QuietKeepsZoneInv DEF LoadFind, zone
  <1>2. CASE cache_lock' = t /\ At(t, "stat") /\ tzdata = Null /\ cache' = "zone" /\ UNCHANGED <<tzdata, mtim, zlock, has>>
    <2>1. /\ UNCHANGED <<file, live, loads, checked, tmp>>
          /\ pc[t] = "idle" /\ cache_lock = Nobody
      BY DEF LoadFind, world
    <2>2. /\ pc' \in [Thread -> {"idle", "held"} \union Loading \union Reloading]
          /\ \A u \in Thread : pc'[u] = IF u = t THEN "stat" ELSE pc[u]
          /\ raced' \in BOOLEAN /\ (raced => raced')
          /\ ~raced' => \A u, w \in Thread : ~ (pc'[u] \in Loading /\ pc'[w] \in Reloading)
      BY <1>2, AtFacts DEF ZoneInv, Loading
    <2>3. ZoneTyped' /\ Unused'
      BY <1>2, <2>1, <2>2 DEF ZoneInv, ZoneTyped, ZoneAssumption, Unused
    <2>4. ZoneLocks'
      BY <1>2, <2>1, CacheLockMoves DEF Loading
    <2>5. \A u \in Thread : Holds(u)' = Holds(u) /\ (pc'[u] = "discard" <=> pc[u] = "discard")
      BY <2>1, <2>2 DEF Holds
    <2>6. Distinct' /\ FileSeen'
      BY <1>2, <2>1, <2>5 DEF ZoneInv, Distinct, FileSeen
    <2>7. Calm /\ ~raced' => Calm'
      BY <1>2, <2>1, <2>2, <2>5 DEF Calm
    <2> QED
      BY <2>2, <2>3, <2>4, <2>6, <2>7 DEF ZoneInv
  <1>3. cache = "empty" => tzdata = Null
    BY DEF ZoneInv, Unused
  <1> QED
    BY <1>1, <1>2, <1>3 DEF LoadFind

LEMMA LoadStatKeepsInv ==
    ASSUME ZoneInv, NEW t \in Thread, LoadStat(t)
    PROVE  ZoneInv'
  <1> DEFINE l == IF file.there THEN "alloc" ELSE "idle"
  <1>1. /\ At(t, l) /\ pc[t] = "stat" /\ pc[t] \in Loading
        /\ cache_lock' = IF l = "idle" THEN Nobody ELSE cache_lock
        /\ tzdata' = IF l = "idle" THEN Null ELSE tzdata
        /\ mtim' = IF l = "idle" THEN 0 ELSE file.mtime
        /\ checked' = IF l = "idle" THEN checked ELSE file.mtime
        /\ UNCHANGED <<file, cache, zlock, live, loads, has, tmp>>
    BY DEF LoadStat, world, Loading
  <1>2. l \in {"alloc", "idle"} /\ l \in {"idle", "held"} \union Loading \union Reloading
    BY DEF Loading
  <1> HIDE DEF l
  <1>3. /\ pc' \in [Thread -> {"idle", "held"} \union Loading \union Reloading]
        /\ \A u \in Thread : pc'[u] = IF u = t THEN l ELSE pc[u]
        /\ raced' \in BOOLEAN /\ (raced => raced')
        /\ ~raced' => \A u, w \in Thread : ~ (pc'[u] \in Loading /\ pc'[w] \in Reloading)
    BY <1>1, <1>2, AtFacts DEF ZoneInv
  <1>4. cache_lock = t /\ file.mtime \in Nat
    BY <1>1 DEF ZoneInv, ZoneLocks, ZoneTyped
  <1>5. ZoneTyped'
    BY <1>1, <1>3, <1>4 DEF ZoneInv, ZoneTyped, ZoneAssumption, Null, Data
  <1>6. Unused'
    BY <1>1 DEF ZoneInv, Unused
  <1>7. ZoneLocks'
    BY <1>1, <1>2, <1>4, CacheLockMoves DEF Loading
  <1>8. \A u \in Thread : Holds(u)' = Holds(u) /\ (pc'[u] = "discard" <=> pc[u] = "discard")
    BY <1>1, <1>2, <1>3 DEF Holds
  <1>9. Distinct'
    <2>1. \A u \in Thread : Holds(u) => tmp[u] # Null
      BY DEF Holds
    <2> QED
      BY <1>1, <1>8, <2>1 DEF ZoneInv, Distinct
  <1>10. FileSeen'
    BY <1>1, <1>4, <1>8 DEF ZoneInv, FileSeen
  <1>11. ASSUME Calm, ~raced' PROVE Calm'
    <2>1. tzdata = Null /\ tzdata' = Null
      BY <1>1, <1>11 DEF Calm
    <2>2. \A u \in Thread : ~Holds(u)
      <3>1. \A u \in Thread : pc[u] \in Loading => u = t
        BY <1>1 DEF ZoneInv, ZoneLocks
      <3>2. \A u \in Thread : pc[u] \notin Reloading
        BY <1>1, <1>11 DEF Calm
      <3> QED
        BY <1>1, <3>1, <3>2 DEF Holds, Loading, Reloading
    <2>3. \A u \in Thread : pc'[u] \in {"alloc", "realloc"} => mtim' <= file'.mtime
      <3>1. \A u \in Thread : pc[u] \in {"alloc", "realloc"} => FALSE
        <4>1. \A u \in Thread : pc[u] \in Loading => u = t
          BY <1>1 DEF ZoneInv, ZoneLocks
        <4>2. \A u \in Thread : pc[u] \notin Reloading
          BY <1>1, <1>11 DEF Calm
        <4> QED
          BY <1>1, <4>1, <4>2 DEF Loading, Reloading
      <3> QED
        BY <1>1, <1>3, <1>4, <3>1
    <2>4. \A u, w \in Thread : ~ (pc'[u] \in Loading /\ pc'[w] \in Reloading)
      BY <1>3, <1>11
    <2>5. \A d \in live' : d = tzdata' \/ \E u \in Thread : Holds(u)' /\ tmp'[u] = d
      BY <1>1, <1>8, <1>11, <2>1 DEF Calm
    <2> QED
      BY <1>8, <2>1, <2>2, <2>3, <2>4, <2>5 DEF Calm
  <1> QED
    BY <1>3, <1>5, <1>6, <1>7, <1>9, <1>10, <1>11 DEF ZoneInv

(* What tz_tzalloc reads is new, and it is in the hands of its thread only. *)
LEMMA AllocKeepsInv ==
    ASSUME ZoneInv, NEW t \in Thread, LoadAlloc(t) \/ LockAlloc(t)
    PROVE  ZoneInv'
  <1> DEFINE l == IF pc[t] = "alloc" THEN "set" ELSE "reset"
             d == [id |-> loads + 1, mtime |-> file.mtime]
  <1>1. /\ At(t, l) /\ pc[t] \in {"alloc", "realloc"} /\ tz_tzalloc(t)
        /\ UNCHANGED <<file, cache, cache_lock, tzdata, mtim, zlock, checked, has>>
    BY DEF LoadAlloc, LockAlloc, world, zone
  <1>2. /\ l \in {"set", "reset"} /\ l \in {"idle", "held"} \union Loading \union Reloading
        /\ pc[t] \in Loading => l \in Loading
        /\ pc[t] \in Reloading => l \in Reloading
    BY <1>1 DEF Loading, Reloading
  <1>3. d \in Data /\ d # Null /\ d \notin live /\ d.id = loads + 1 /\ d.mtime = file.mtime
    BY DEF ZoneInv, ZoneTyped, Data, Null, Distinct
  <1>4. \/ loads' = loads + 1 /\ live' = live \union {d} /\ tmp' = [tmp EXCEPT ![t] = d]
        \/ loads' = loads /\ live' = live /\ tmp' = [tmp EXCEPT ![t] = Null]
    BY <1>1 DEF tz_tzalloc
  <1> HIDE DEF l
  <1>5. /\ pc' \in [Thread -> {"idle", "held"} \union Loading \union Reloading]
        /\ \A u \in Thread : pc'[u] = IF u = t THEN l ELSE pc[u]
        /\ raced' \in BOOLEAN /\ (raced => raced')
        /\ ~raced' => \A u, w \in Thread : ~ (pc'[u] \in Loading /\ pc'[w] \in Reloading)
    BY <1>1, <1>2, AtFacts DEF ZoneInv
  <1>6. Null \in Data
    BY DEF Null, Data
  <1>7. ZoneTyped'
    <2>1. loads \in Nat /\ live \subseteq Data /\ tmp \in [Thread -> Data]
      BY DEF ZoneInv, ZoneTyped
    <2>2. loads' \in Nat /\ live' \subseteq Data /\ tmp' \in [Thread -> Data]
      BY <1>3, <1>4, <1>6, <2>1
    <2> QED
      BY <1>1, <1>5, <2>2 DEF ZoneInv, ZoneTyped, ZoneAssumption
  <1>8. Unused'
    BY <1>1 DEF ZoneInv, Unused
  <1>9. ZoneLocks'
    <2>1. pc[t] \in Loading \/ pc[t] \in Reloading
      BY <1>1 DEF Loading, Reloading
    <2>2. CASE pc[t] \in Loading
      BY <1>1, <1>2, <2>2, <1>5 DEF ZoneInv, ZoneLocks, Loading, Reloading
    <2>3. CASE pc[t] \in Reloading
      BY <1>1, <1>2, <2>3, <1>5 DEF ZoneInv, ZoneLocks, Loading, Reloading
    <2> QED
      BY <2>1, <2>2, <2>3
  <1>10. /\ ~Holds(t)
         /\ \A u \in Thread : u # t => /\ Holds(u)' = Holds(u) /\ tmp'[u] = tmp[u]
                                       /\ pc'[u] = "discard" <=> pc[u] = "discard"
         /\ Holds(t)' => live' = live \union {d} /\ loads' = loads + 1 /\ tmp'[t] = d
    BY <1>1, <1>4, <1>5 DEF ZoneInv, ZoneTyped, Holds
  <1>11. Distinct'
    <2> HIDE DEF d
    <2>1. \A e \in live' : e.id \in 1 .. loads'
      BY <1>3, <1>4 DEF ZoneInv, ZoneTyped, Distinct
    <2>2. tzdata' # Null => tzdata' \in live'
      BY <1>1, <1>4 DEF ZoneInv, Distinct
    <2>3. ASSUME NEW u \in Thread, Holds(u)' PROVE tmp'[u] \in live' /\ tmp'[u] # tzdata'
      <3>1. CASE u = t
        <4>1. tzdata # d
          BY <1>3 DEF ZoneInv, Distinct
        <4> QED
          BY <1>1, <1>10, <2>3, <3>1, <4>1
      <3>2. CASE u # t
        BY <1>1, <1>4, <1>10, <2>3, <3>2 DEF ZoneInv, Distinct
      <3> QED
        BY <3>1, <3>2
    <2>4. ASSUME NEW u \in Thread, NEW w \in Thread, u # w, Holds(u)', Holds(w)' PROVE tmp'[u] # tmp'[w]
      <3>1. \A x \in Thread : x # t /\ Holds(x)' => tmp'[x] \in live
        BY <1>10 DEF ZoneInv, Distinct
      <3>2. CASE u = t \/ w = t
        BY <1>3, <1>10, <2>4, <3>1, <3>2
      <3>3. CASE u # t /\ w # t
        BY <1>10, <2>4, <3>3 DEF ZoneInv, Distinct
      <3> QED
        BY <3>2, <3>3
    <2> QED
      BY <2>1, <2>2, <2>3, <2>4 DEF Distinct
  <1>12. FileSeen'
    <2>1. ASSUME NEW u \in Thread, pc'[u] = "discard" PROVE u # t /\ pc[u] = "discard" /\ tmp'[u] = tmp[u]
      BY <1>2, <1>5, <1>10, <2>1
    <2> QED
      BY <1>1, <2>1 DEF ZoneInv, FileSeen
  <1>13. ASSUME Calm, ~raced' PROVE Calm'
    <2> HIDE DEF d
    <2>1. \A u, w \in Thread : ~ (pc'[u] \in Loading /\ pc'[w] \in Reloading)
      BY <1>5, <1>13
    <2>2. tzdata = Null /\ tzdata' = Null
      BY <1>1, <1>13 DEF Calm, Loading
    <2>3. ASSUME NEW e \in live' PROVE \E u \in Thread : Holds(u)' /\ tmp'[u] = e
      <3>1. CASE e \in live
        <4>1. e # Null
          BY <3>1 DEF ZoneInv, Distinct, Null
        <4>2. PICK u \in Thread : Holds(u) /\ tmp[u] = e
          BY <1>13, <2>2, <3>1, <4>1 DEF Calm
        <4> QED
          BY <1>10, <4>2
      <3>2. CASE e \notin live
        <4>1. e = d /\ tmp'[t] = d /\ pc'[t] = l
          BY <1>4, <1>5, <2>3, <3>2 DEF ZoneInv, ZoneTyped
        <4> QED
          BY <1>2, <1>3, <4>1 DEF Holds
      <3> QED
        BY <3>1, <3>2
    <2>4. ASSUME NEW u \in Thread
          PROVE  /\ pc'[u] \in {"alloc", "realloc"} => mtim' <= file'.mtime
                 /\ Holds(u)' => tmp'[u].mtime >= mtim' /\ tmp'[u].mtime >= checked'
      <3>1. CASE u = t
        <4>1. mtim <= file.mtime /\ checked <= file.mtime
          BY <1>1, <1>13 DEF Calm, ZoneInv, FileSeen
        <4>2. file.mtime \in Nat /\ mtim \in Nat /\ checked \in Nat
          BY DEF ZoneInv, ZoneTyped
        <4> QED
          BY <1>1, <1>3, <1>10, <3>1, <4>1, <4>2
      <3>2. CASE u # t
        BY <1>1, <1>5, <1>10, <1>13, <3>2 DEF Calm
      <3> QED
        BY <3>1, <3>2
    <2> QED
      BY <2>1, <2>2, <2>3, <2>4 DEF Calm
  <1> QED
    BY <1>5, <1>7, <1>8, <1>9, <1>11, <1>12, <1>13 DEF ZoneInv

(* What a thread has read is put into the zone. *)
LEMMA SetKeepsInv ==
    ASSUME ZoneInv, NEW t \in Thread, LoadSet(t) \/ LockSet(t)
    PROVE  ZoneInv'
  <1> DEFINE l == IF LockSet(t) /\ tmp[t] # Null THEN "held" ELSE "idle"
  <1>0. PICK d \in Data : d = tmp[t]
    BY DEF ZoneInv, ZoneTyped
  <1>1. /\ At(t, l) /\ pc[t] \in {"set", "reset"}
        /\ tzdata' = d /\ tmp' = [tmp EXCEPT ![t] = Null]
        /\ UNCHANGED <<file, cache, mtim, live, loads, checked>>
    BY <1>0 DEF LoadSet, LockSet, world
  <1>2. l \in {"idle", "held"} /\ l \in {"idle", "held"} \union Loading \union Reloading
    OBVIOUS
  <1>3. pc[t] \in Loading \union Reloading \union {"held"}
    BY <1>1 DEF Loading, Reloading
  <1>4. ZoneLocks' /\ cache_lock' \in Thread \union {Nobody} /\ zlock' \in Thread \union {Nobody}
    <2>1. CASE LoadSet(t)
      <3>1. pc[t] \in Loading /\ At(t, "idle") /\ cache_lock' = Nobody /\ UNCHANGED zlock
        BY <2>1 DEF LoadSet, Loading
      <3> QED
        BY <3>1, CacheLockMoves DEF ZoneInv, ZoneTyped, Loading
    <2>2. CASE LockSet(t)
      <3>1. /\ pc[t] = "reset" /\ pc[t] \notin Loading /\ At(t, l) /\ UNCHANGED cache_lock
            /\ zlock' = IF l = "idle" THEN Nobody ELSE zlock
        BY <2>2 DEF LockSet, Loading
      <3>2. zlock = t
        BY <3>1 DEF ZoneInv, ZoneLocks, Reloading
      <3> HIDE DEF l
      <3> QED
        BY <1>2, <3>1, <3>2, ZoneLockMoves DEF ZoneInv, ZoneTyped
    <2> QED
      BY <2>1, <2>2
  <1>5. has' \in [Thread -> BOOLEAN]
    BY DEF LoadSet, LockSet, ZoneInv, ZoneTyped
  <1> HIDE DEF l
  <1>6. /\ pc' \in [Thread -> {"idle", "held"} \union Loading \union Reloading]
        /\ \A u \in Thread : pc'[u] = IF u = t THEN l ELSE pc[u]
        /\ raced' \in BOOLEAN /\ (raced => raced')
        /\ ~raced' => \A u, w \in Thread : ~ (pc'[u] \in Loading /\ pc'[w] \in Reloading)
    BY <1>1, <1>2, AtFacts DEF ZoneInv
  <1>7. ZoneTyped'
    BY <1>1, <1>4, <1>5, <1>6 DEF ZoneInv, ZoneTyped, ZoneAssumption, Null, Data
  <1>8. Unused'
    BY <1>1 DEF ZoneInv, Unused
  <1>9. /\ ~Holds(t)' /\ (Holds(t) <=> d # Null)
        /\ \A u \in Thread : u # t => /\ Holds(u)' = Holds(u) /\ tmp'[u] = tmp[u]
                                      /\ pc'[u] = "discard" <=> pc[u] = "discard"
    BY <1>0, <1>1, <1>2, <1>6 DEF ZoneInv, ZoneTyped, Holds
  <1>10. Distinct'
    <2>1. tzdata' # Null => tzdata' \in live'
      BY <1>0, <1>1, <1>9 DEF ZoneInv, Distinct
    <2>2. ASSUME NEW u \in Thread, Holds(u)' PROVE tmp'[u] \in live' /\ tmp'[u] # tzdata'
      <3>1. u # t /\ Holds(u) /\ tmp'[u] = tmp[u] /\ tmp[u] # Null
        BY <1>9, <2>2 DEF Holds
      <3> QED
        BY <1>0, <1>1, <1>9, <3>1 DEF ZoneInv, Distinct
    <2>3. \A u, w \in Thread : u # w /\ Holds(u)' /\ Holds(w)' => tmp'[u] # tmp'[w]
      BY <1>9 DEF ZoneInv, Distinct
    <2> QED
      BY <1>1, <2>1, <2>2, <2>3 DEF ZoneInv, Distinct
  <1>11. FileSeen'
    <2>1. ASSUME NEW u \in Thread, pc'[u] = "discard" PROVE u # t /\ pc[u] = "discard" /\ tmp'[u] = tmp[u]
      BY <1>2, <1>6, <1>9, <2>1
    <2> QED
      BY <1>1, <2>1 DEF ZoneInv, FileSeen
  <1>12. ASSUME Calm, ~raced' PROVE Calm'
    <2>1. \A u, w \in Thread : ~ (pc'[u] \in Loading /\ pc'[w] \in Reloading)
      BY <1>6, <1>12
    <2>2. tzdata = Null
      BY <1>1, <1>12 DEF Calm, Loading
    <2>3. \A u \in Thread : u # t => pc[u] \notin Loading \union Reloading
      <3>1. CASE pc[t] \in Loading
        <4>1. \A u \in Thread : pc[u] \notin Reloading
          BY <1>12, <3>1 DEF Calm
        <4> QED
          BY <3>1, <4>1 DEF ZoneInv, ZoneLocks
      <3>2. CASE pc[t] \in Reloading
        <4>1. \A u \in Thread : pc[u] \notin Loading
          BY <1>12, <3>2 DEF Calm
        <4> QED
          BY <3>2, <4>1 DEF ZoneInv, ZoneLocks
      <3> QED
        BY <1>1, <3>1, <3>2 DEF Loading, Reloading
    <2>4. \A u \in Thread : pc'[u] \notin Loading \union Reloading /\ ~Holds(u)'
      BY <1>2, <1>6, <1>9, <2>3 DEF Holds, Loading, Reloading
    <2>5. \A e \in live' : e = tzdata'
      <3>1. \A e \in live : e # Null
        BY DEF ZoneInv, Distinct, Null
      <3>2. \A e \in live : \E u \in Thread : Holds(u) /\ tmp[u] = e
        BY <1>12, <2>2, <3>1 DEF Calm
      <3>3. \A u \in Thread : Holds(u) => u = t
        BY <1>9, <2>4
      <3> QED
        BY <1>0, <1>1, <3>2, <3>3
    <2>6. tzdata' # Null => tzdata'.mtime >= mtim' /\ tzdata'.mtime >= checked'
      BY <1>0, <1>1, <1>9, <1>12 DEF Calm
    <2> QED
      BY <2>4, <2>5, <2>6 DEF Calm, Loading, Reloading
  <1> QED
    BY <1>6, <1>4, <1>7, <1>8, <1>10, <1>11, <1>12 DEF ZoneInv

(* The lock of the zone is taken, to use the zone or to look at its file, or given back. *)
LEMMA TakeAndUnlockKeepInv ==
    ASSUME ZoneInv, NEW t \in Thread, LockTake(t) \/ kit_timezone_unlock(t)
    PROVE  ZoneInv'
  <1>0. /\ UNCHANGED <<file, cache, cache_lock, tzdata, mtim, live, loads, checked, has, tmp>>
        /\ cache = "zone"
    BY DEF LockTake, kit_timezone_unlock, world, ZoneInv, Unused
  <1>1. CASE UNCHANGED <<zlock, pc, raced>>
    <2>1. has' \in [Thread -> BOOLEAN] /\ Unused'
      BY <1>0 DEF ZoneInv, ZoneTyped, Unused
    <2>2. file'.mtime >= file.mtime /\ file' \in [there : BOOLEAN, mtime : Nat]
      BY <1>0 DEF ZoneInv, ZoneTyped
    <2> QED
      BY <1>0, <1>1, <2>1, <2>2, QuietKeepsZoneInv
  <1>2. ASSUME NEW l \in {"idle", "held", "restat"}, At(t, l), pc[t] \in {"idle", "held"},
               zlock' = IF l = "idle" THEN Nobody ELSE t, pc[t] = "idle" => zlock = Nobody
        PROVE  ZoneInv'
    <2>1. /\ l \in {"idle", "held"} \union Loading \union Reloading
          /\ l \in {"idle", "held"} \union Reloading
          /\ pc[t] \notin Loading /\ pc[t] \notin Reloading /\ l \notin Loading
      BY <1>2 DEF Loading, Reloading
    <2>2. /\ pc' \in [Thread -> {"idle", "held"} \union Loading \union Reloading]
          /\ \A u \in Thread : pc'[u] = IF u = t THEN l ELSE pc[u]
          /\ raced' \in BOOLEAN /\ (raced => raced')
          /\ ~raced' => \A u, w \in Thread : ~ (pc'[u] \in Loading /\ pc'[w] \in Reloading)
      BY <1>2, <2>1, AtFacts DEF ZoneInv
    <2>3. ZoneTyped' /\ Unused'
      BY <1>0, <1>2, <2>2 DEF ZoneInv, ZoneTyped, ZoneAssumption, Unused
    <2>4. ZoneLocks'
      BY <1>0, <1>2, <2>1, ZoneLockMoves
    <2>5. \A u \in Thread : Holds(u)' = Holds(u) /\ (pc'[u] = "discard" <=> pc[u] = "discard")
      BY <1>0, <1>2, <2>2 DEF Holds
    <2>6. Distinct' /\ FileSeen'
      BY <1>0, <2>5 DEF ZoneInv, Distinct, FileSeen
    <2>7. ASSUME Calm, ~raced' PROVE Calm'
      <3>1. \A u \in Thread : pc'[u] \in Loading \union {"realloc", "reset"} => pc'[u] = pc[u]
        BY <1>2, <2>1, <2>2
      <3>2. \A u \in Thread : pc'[u] \in {"alloc", "realloc"} => pc'[u] = pc[u]
        BY <1>2, <2>2
      <3> QED
        BY <1>0, <2>2, <2>5, <2>7, <3>1, <3>2 DEF Calm
    <2> QED
      BY <2>2, <2>3, <2>4, <2>6, <2>7 DEF ZoneInv
  <1> QED
    BY <1>1, <1>2 DEF LockTake, kit_timezone_unlock

(* While the zone is locked and no load is at work, nobody holds a tzdata. *)
LEMMA CalmAlone ==
    ASSUME ZoneInv, Calm, NEW t \in Thread, pc[t] \in {"restat", "discard"}
    PROVE  /\ \A u \in Thread : pc[u] \notin Loading
           /\ \A u \in Thread : u # t => pc[u] \notin Reloading
           /\ \A u \in Thread : ~Holds(u)
  <1>1. pc[t] \in Reloading
    BY DEF Reloading
  <1>2. \A u \in Thread : pc[u] \notin Loading
    BY <1>1 DEF Calm
  <1>3. \A u \in Thread : u # t => pc[u] \notin Reloading
    BY <1>1 DEF ZoneInv, ZoneLocks
  <1> QED
    BY <1>2, <1>3 DEF Holds, Loading, Reloading

LEMMA LockStatKeepsInv ==
    ASSUME ZoneInv, NEW t \in Thread, LockStat(t)
    PROVE  ZoneInv'
  <1> DEFINE l == IF file.there /\ file.mtime = mtim THEN "held" ELSE "discard"
  <1>1. /\ At(t, l) /\ pc[t] = "restat"
        /\ checked' \in {checked, file.mtime} /\ (l = "held" => checked' = mtim)
        /\ UNCHANGED <<file, cache, cache_lock, tzdata, mtim, zlock, live, loads, has>>
    BY DEF LockStat, world
  <1>2. /\ l \in {"held", "discard"} /\ l \in {"idle", "held"} \union Loading \union Reloading
        /\ l \in {"idle", "held"} \union Reloading /\ l \notin Loading
        /\ pc[t] \in Reloading /\ pc[t] \notin Loading
    BY <1>1 DEF Loading, Reloading
  <1>3. /\ tmp' \in [Thread -> Data] /\ \A u \in Thread : u # t => tmp'[u] = tmp[u]
        /\ l = "discard" /\ tmp'[t].id # 0 => tmp'[t].mtime = file.mtime
    <2>1. file.mtime \in Nat /\ tmp \in [Thread -> Data] /\ MaxVersion \in Nat
      BY DEF ZoneInv, ZoneTyped, ZoneAssumption
    <2>2. CASE l = "held"
      <3>1. tmp' = tmp
        BY <2>2 DEF LockStat
      <3> QED
        BY <2>1, <2>2, <3>1
    <2>3. CASE l = "discard"
      <3>1. PICK d \in Data : /\ tmp' = [tmp EXCEPT ![t] = d]
                              /\ d.id # 0 => d.mtime = file.mtime
        <4>1. CASE file.there
          <5>1. [id |-> 1, mtime |-> file.mtime] \in Data
            BY <2>1 DEF Data
          <5>2. tmp' = [tmp EXCEPT ![t] = [id |-> 1, mtime |-> file.mtime]]
            BY <2>3, <4>1 DEF LockStat
          <5> QED
            BY <5>1, <5>2
        <4>2. CASE ~file.there
          <5>1. PICK m \in 0 .. MaxVersion : tmp' = [tmp EXCEPT ![t] = [id |-> 0, mtime |-> m]]
            BY <4>2 DEF LockStat
          <5>2. [id |-> 0, mtime |-> m] \in Data
            BY <2>1 DEF Data
          <5> QED
            BY <5>1, <5>2
        <4> QED
          BY <4>1, <4>2
      <3> QED
        BY <2>1, <3>1
    <2> QED
      BY <1>2, <2>2, <2>3
  <1> HIDE DEF l
  <1>4. /\ pc' \in [Thread -> {"idle", "held"} \union Loading \union Reloading]
        /\ \A u \in Thread : pc'[u] = IF u = t THEN l ELSE pc[u]
        /\ raced' \in BOOLEAN /\ (raced => raced')
        /\ ~raced' => \A u, w \in Thread : ~ (pc'[u] \in Loading /\ pc'[w] \in Reloading)
    BY <1>1, <1>2, AtFacts DEF ZoneInv
  <1>5. zlock = t /\ file.mtime \in Nat /\ checked \in Nat
    BY <1>2 DEF ZoneInv, ZoneLocks, ZoneTyped
  <1>6. ZoneTyped'
    BY <1>1, <1>3, <1>4, <1>5 DEF ZoneInv, ZoneTyped, ZoneAssumption
  <1>7. Unused'
    BY <1>1 DEF ZoneInv, Unused
  <1>8. ZoneLocks'
    <2>1. zlock' = IF l = "idle" THEN Nobody ELSE t
      BY <1>1, <1>2, <1>5
    <2> QED
      BY <1>1, <1>2, <2>1, ZoneLockMoves
  <1>9. /\ ~Holds(t) /\ ~Holds(t)'
        /\ \A u \in Thread : u # t => Holds(u)' = Holds(u)
    BY <1>1, <1>2, <1>3, <1>4 DEF Holds
  <1>10. Distinct'
    BY <1>1, <1>3, <1>9 DEF ZoneInv, Distinct
  <1>11. FileSeen'
    <2>1. ASSUME NEW u \in Thread, pc'[u] = "discard", tmp'[u].id # 0 PROVE tmp'[u].mtime <= file.mtime
      <3>1. CASE u = t
        BY <1>3, <1>4, <1>5, <2>1, <3>1
      <3>2. CASE u # t
        BY <1>3, <1>4, <2>1, <3>2 DEF ZoneInv, FileSeen
      <3> QED
        BY <3>1, <3>2
    <2> QED
      BY <1>1, <1>5, <2>1 DEF ZoneInv, FileSeen
  <1>12. ASSUME Calm, ~raced' PROVE Calm'
    <2>1. /\ \A u \in Thread : pc[u] \notin Loading
          /\ \A u \in Thread : u # t => pc[u] \notin Reloading
          /\ \A u \in Thread : ~Holds(u)
      BY <1>1, <1>12, CalmAlone
    <2>2. \A u \in Thread : ~Holds(u)' /\ pc'[u] \notin Loading
      BY <1>2, <1>4, <1>9, <2>1
    <2>3. \A u \in Thread : pc'[u] \notin {"alloc", "realloc", "reset"}
      BY <1>2, <1>4, <2>1 DEF Loading, Reloading
    <2>4. \A d \in live' : d = tzdata'
      BY <1>1, <1>12, <2>1 DEF Calm
    <2>5. tzdata' # Null => /\ tzdata'.mtime >= mtim'
                            /\ tzdata'.mtime >= checked' \/ \E u \in Thread : pc'[u] = "discard"
      <3>1. CASE l = "held"
        BY <1>1, <1>12, <3>1 DEF Calm
      <3>2. CASE l = "discard"
        BY <1>1, <1>4, <1>12, <3>2 DEF Calm
      <3> QED
        BY <1>2, <3>1, <3>2
    <2> QED
      BY <2>2, <2>3, <2>4, <2>5 DEF Calm
  <1> QED
    BY <1>4, <1>6, <1>7, <1>8, <1>10, <1>11, <1>12 DEF ZoneInv

(* The tzdata of the zone is freed: nobody else holds it. *)
LEMMA LockDiscardKeepsInv ==
    ASSUME ZoneInv, NEW t \in Thread, LockDiscard(t)
    PROVE  ZoneInv'
  <1> DEFINE l == IF tmp[t].id # 0 THEN "realloc" ELSE "idle"
  <1>1. /\ At(t, l) /\ pc[t] = "discard"
        /\ live' = live \ {tzdata} /\ tzdata' = Null /\ mtim' = tmp[t].mtime
        /\ tmp' = [tmp EXCEPT ![t] = Null]
        /\ zlock' = IF l = "idle" THEN Nobody ELSE zlock
        /\ UNCHANGED <<file, cache, cache_lock, loads, checked, has>>
    BY DEF LockDiscard, world
  <1>2. /\ l \in {"idle", "realloc"} /\ l \in {"idle", "held"} \union Loading \union Reloading
        /\ l \in {"idle", "held"} \union Reloading /\ l \notin Loading
        /\ pc[t] \in Reloading /\ pc[t] \notin Loading
        /\ l = "realloc" => mtim' <= file.mtime
    BY <1>1 DEF Loading, Reloading, ZoneInv, FileSeen
  <1> HIDE DEF l
  <1>3. /\ pc' \in [Thread -> {"idle", "held"} \union Loading \union Reloading]
        /\ \A u \in Thread : pc'[u] = IF u = t THEN l ELSE pc[u]
        /\ raced' \in BOOLEAN /\ (raced => raced')
        /\ ~raced' => \A u, w \in Thread : ~ (pc'[u] \in Loading /\ pc'[w] \in Reloading)
    BY <1>1, <1>2, AtFacts DEF ZoneInv
  <1>4. zlock = t /\ mtim' \in Nat /\ Null \in Data
    BY <1>1, <1>2 DEF ZoneInv, ZoneLocks, ZoneTyped, Data, Null
  <1>5. ZoneTyped'
    BY <1>1, <1>3, <1>4 DEF ZoneInv, ZoneTyped, ZoneAssumption
  <1>6. Unused'
    BY <1>1 DEF ZoneInv, Unused
  <1>7. ZoneLocks'
    BY <1>1, <1>2, <1>4, ZoneLockMoves
  <1>8. /\ ~Holds(t) /\ ~Holds(t)'
        /\ \A u \in Thread : u # t => Holds(u)' = Holds(u) /\ tmp'[u] = tmp[u]
    BY <1>1, <1>2, <1>3 DEF ZoneInv, ZoneTyped, Holds
  <1>9. Distinct'
    <2>1. \A u \in Thread : Holds(u) => tmp[u] # Null
      BY DEF Holds
    <2> QED
      BY <1>1, <1>8, <2>1 DEF ZoneInv, Distinct
  <1>10. FileSeen'
    <2>1. ASSUME NEW u \in Thread, pc'[u] = "discard" PROVE u # t /\ pc[u] = "discard" /\ tmp'[u] = tmp[u]
      BY <1>2, <1>3, <1>8, <2>1
    <2> QED
      BY <1>1, <2>1 DEF ZoneInv, FileSeen
  <1>11. ASSUME Calm, ~raced' PROVE Calm'
    <2>1. /\ \A u \in Thread : pc[u] \notin Loading
          /\ \A u \in Thread : u # t => pc[u] \notin Reloading
          /\ \A u \in Thread : ~Holds(u)
      BY <1>1, <1>11, CalmAlone
    <2>2. live' = {}
      BY <1>1, <1>11, <2>1 DEF Calm
    <2>3. \A u \in Thread : ~Holds(u)' /\ pc'[u] \notin Loading
      BY <1>2, <1>3, <1>8, <2>1
    <2>4. \A u \in Thread : pc'[u] \in {"alloc", "realloc"} => mtim' <= file'.mtime
      BY <1>1, <1>2, <1>3, <2>1 DEF Loading, Reloading
    <2> QED
      BY <1>1, <2>2, <2>3, <2>4 DEF Calm
  <1> QED
    BY <1>3, <1>5, <1>6, <1>7, <1>9, <1>10, <1>11 DEF ZoneInv

(* The cache is freed once nobody is in it. *)
LEMMA FinalizeKeepsInv ==
    ASSUME ZoneInv, kit_timezone_finalize
    PROVE  ZoneInv'
  <1>1. /\ \A t \in Thread : pc[t] = "idle" /\ pc'[t] = "idle" /\ ~has'[t]
        /\ \A t \in Thread : ~Holds(t) /\ ~Holds(t)'
        /\ UNCHANGED <<file, cache_lock, zlock, loads, pc, tmp, raced>>
        /\ live' = live \ {tzdata} /\ tzdata' = Null /\ mtim' = 0 /\ checked' = 0
    BY DEF kit_timezone_finalize, world, Holds
  <1>2. ZoneTyped'
    BY <1>1 DEF kit_timezone_finalize, ZoneInv, ZoneTyped, ZoneAssumption, Data, Null
  <1>3. ZoneLocks' /\ Unused'
    BY <1>1 DEF ZoneInv, ZoneLocks, Unused
  <1>4. Distinct' /\ FileSeen'
    BY <1>1 DEF ZoneInv, ZoneTyped, Distinct, FileSeen
  <1>5. Calm => Calm'
    BY <1>1 DEF Calm, Loading
  <1> QED
    BY <1>1, <1>2, <1>3, <1>4, <1>5 DEF ZoneInv

LEMMA WorldKeepsInv ==
    ASSUME ZoneInv, World \/ (\E s \in CacheSeconds : kit_timezone_initialize(s))
    PROVE  ZoneInv'
  <1>1. file' \in [there : BOOLEAN, mtime : Nat] /\ file'.mtime >= file.mtime
    <2>1. file \in [there : BOOLEAN, mtime : Nat] /\ file.mtime \in Nat
      BY DEF ZoneInv, ZoneTyped
    <2>2. CASE file' = file
      BY <2>1, <2>2
    <2>3. CASE file' = [there |-> TRUE, mtime |-> file.mtime + 1]
      BY <2>1, <2>3
    <2>4. CASE file' = [file EXCEPT !.there = ~ @]
      <3>1. file = [there |-> file.there, mtime |-> file.mtime]
        BY <2>1
      <3>2. file' = [there |-> ~ file.there, mtime |-> file.mtime]
        BY <2>4, <3>1
      <3>3. (~ file.there) \in BOOLEAN
        BY Zenon
      <3> QED
        BY <2>1, <3>2, <3>3
    <2> QED
      BY <2>2, <2>3, <2>4 DEF World, kit_timezone_initialize, world
  <1>2. has' \in [Thread -> BOOLEAN] /\ Unused'
    BY DEF World, kit_timezone_initialize, zone, ZoneInv, ZoneTyped, Unused
  <1> QED
    BY <1>1, <1>2, QuietKeepsZoneInv DEF World, kit_timezone_initialize, zone

LEMMA NextKeepsZoneInv ==
    ASSUME ZoneInv, [ZoneNext]_tzcVars
    PROVE  ZoneInv'
  <1>1. CASE UNCHANGED tzcVars
    <2>1. /\ UNCHANGED <<file, cache, cache_lock, zlock, tzdata, mtim, checked, live, loads, pc, tmp, raced>>
          /\ UNCHANGED has
      BY <1>1 DEF tzcVars, world, zone
    <2>2. file' \in [there : BOOLEAN, mtime : Nat] /\ file'.mtime >= file.mtime
      BY <2>1 DEF ZoneInv, ZoneTyped
    <2>3. has' \in [Thread -> BOOLEAN] /\ Unused'
      BY <2>1 DEF ZoneInv, ZoneTyped, Unused
    <2> QED
      BY <2>1, <2>2, <2>3, QuietKeepsZoneInv
  <1>2. CASE kit_timezone_finalize
    BY <1>2, FinalizeKeepsInv
  <1>3. CASE World \/ (\E s \in CacheSeconds : kit_timezone_initialize(s))
    BY <1>3, WorldKeepsInv
  <1>4. ASSUME NEW t \in Thread, LoadFind(t) PROVE ZoneInv'
    BY <1>4, LoadFindKeepsInv
  <1>5. ASSUME NEW t \in Thread, LoadStat(t) PROVE ZoneInv'
    BY <1>5, LoadStatKeepsInv
  <1>6. ASSUME NEW t \in Thread, LoadAlloc(t) \/ LockAlloc(t) PROVE ZoneInv'
    BY <1>6, AllocKeepsInv
  <1>7. ASSUME NEW t \in Thread, LoadSet(t) \/ LockSet(t) PROVE ZoneInv'
    BY <1>7, SetKeepsInv
  <1>8. ASSUME NEW t \in Thread, LockTake(t) \/ kit_timezone_unlock(t) PROVE ZoneInv'
    BY <1>8, TakeAndUnlockKeepInv
  <1>9. ASSUME NEW t \in Thread, LockStat(t) PROVE ZoneInv'
    BY <1>9, LockStatKeepsInv
  <1>10. ASSUME NEW t \in Thread, LockDiscard(t) PROVE ZoneInv'
    BY <1>10, LockDiscardKeepsInv
  <1> QED
    BY <1>1, <1>2, <1>3, <1>4, <1>5, <1>6, <1>7, <1>8, <1>9, <1>10 DEF ZoneNext

(* Whatever loads, locks, reloads and changes of the file overlap, kit-timezone.c never
   uses or frees a tzdata that is freed; and as long as no kit_timezone_load was at work
   on a zone while kit_timezone_lock reloaded it, none is lost, and a lock returns what
   is as new as the file was when it was last looked at. *)
THEOREM TimezonesSound == ZoneSpec => []ZoneSound
  <1>1. ZoneInit => ZoneInv
    BY InitZoneInv
  <1>2. ZoneInv /\ [ZoneNext]_tzcVars => ZoneInv'
    BY NextKeepsZoneInv
  <1>3. ZoneInv => ZoneSound
    BY InvGivesZoneSound
  <1> QED
    BY <1>1, <1>2, <1>3, PTL DEF ZoneSpec
-----------------------------------------------------------------------------
(***************************************************************************)
(* The counters of kit-counters.c are exact, for any number of threads and *)
(* slots, until a count is Spoiled.                                        *)
(*                                                                         *)
(* CountersExact is not inductive: it says nothing while a thread starts   *)
(* or finishes.  What is added up at all times is Credit, the blocks in    *)
(* use without those that are not cleared yet or are added to the dead     *)
(* already; that sum is the number of increments (AllCounted).  It rests   *)
(* on who owns which slot (SlotsOwned) and who may write the counts of the *)
(* dead (DeadOwned), both of which hold until two steps without the lock   *)
(* have met in one of the two ways that spoil a count.                     *)
(***************************************************************************)

(* A thread has a slot from when it takes one to when it gives it back. *)
Placed(t) == cpc[t] \in {"starting", "joining", "on", "merging", "merged", "leaving"}

SlotsOwned ==
    /\ state[gen][0] = Static \union Used
    /\ \A t \in Worker : Placed(t) => slot[t] \in Allocated \ {0} /\ (cpc[t] = "starting" \/ IsUsed(slot[t]))
    /\ \A t, u \in Worker : Placed(t) /\ Placed(u) /\ slot[t] = slot[u] => t = u
    /\ \A t \in Worker : cpc[t] = "starting" => ptr[t] = gen /\ state[gen][slot[t]] = Static
    /\ \A t \in Worker : cpc[t] = "leaving" => /\ ptr[t] = gen
                                               /\ "static" \in state[gen][slot[t]] => val[slot[t]] = 0
    /\ \A s \in Allocated : state[gen][s] = Static => val[s] = 0

DeadOwned ==
    /\ \A t \in Worker : cpc[t] = "merging" => lock = t /\ ctmp[t] = dead + val[slot[t]]
    /\ \A t \in Worker : cpc[t] = "late" => ctmp[t] = dead
    /\ \A t, u \in Worker : {cpc[t], cpc[u]} \subseteq {"merging", "late"} => t = u

(* The blocks of these threads do not count: they hold garbage, or what was added to
   the counts of the dead. *)
Spent(s) == \E t \in Worker : slot[t] = s /\ cpc[t] \in {"joining", "merged", "leaving"}

(* What the blocks have of the increments. *)
Credit == [s \in Slot |-> IF IsUsed(s) /\ ~ Spent(s) THEN val[s] ELSE 0]

AllCounted == SumTo(Credit, maxthreads) + dead + shared = count

(* A total is being summed up, and nobody has started or finished since. *)
Watched == Reading /\ clear

(* What is summed up so far is not more than the slots seen have, and together with
   the rest no less than there was when the reading began. *)
ReadSound ==
    Watched => /\ Unsettled = {}
               /\ at <= maxthreads + 1
               /\ at <= maxthreads => /\ sum <= SumTo(Credit, at)
                                      /\ low <= sum + (SumTo(Credit, maxthreads) - SumTo(Credit, at)) + dead + shared
               /\ at > maxthreads => sum \in low .. count

CountersInv == CountersTyped /\ SlotsOwned /\ DeadOwned /\ AllCounted /\ ReadSound
-----------------------------------------------------------------------------
(* Sums. *)

(* A nonempty set of numbers has a least one. *)
LEMMA Least ==
    ASSUME NEW N \in SUBSET Nat, N # {}
    PROVE  \E k \in N : \A m \in N : k <= m
  <1> DEFINE R == OpToRel(<, Nat)
  <1>1. IsWellFoundedOn(R, Nat)
    BY NatLessThanWellFounded
  <1>2. \A x, y \in Nat : y < x => <<y, x>> \in R
    BY DEF OpToRel
  <1> HIDE DEF R
  <1>3. PICK k \in N : \A m \in N : ~ (<<m, k>> \in R)
    BY <1>1, WFMin
  <1>4. ASSUME NEW m \in N PROVE k <= m
    <2>1. ~ (m < k)
      BY <1>2, <1>3
    <2> QED
      BY <2>1
  <1> QED
    BY <1>4

(* g has the sums of the first 0, 1, ... n values of f. *)
Adds(g, f, n) ==
    /\ g \in [0 .. n -> Nat] /\ g[0] = 0
    /\ \A i \in 0 .. n - 1 : g[i + 1] = g[i] + f[i]

LEMMA AddsExists ==
    ASSUME NEW m \in Nat, NEW f \in [0 .. m - 1 -> Nat], NEW n \in 0 .. m
    PROVE  \E g : Adds(g, f, n)
  <1> DEFINE Bad == {i \in 0 .. m : ~ \E g : Adds(g, f, i)}
  <1> SUFFICES ASSUME Bad # {} PROVE FALSE
    OBVIOUS
  <1>0. Bad \in SUBSET Nat
    OBVIOUS
  <1>1. PICK k \in Bad : \A i \in Bad : k <= i
    BY <1>0, Least
  <1>2. CASE k = 0
    <2>1. Adds([i \in 0 .. 0 |-> 0], f, 0)
      BY DEF Adds
    <2> QED
      BY <1>2, <2>1
  <1>3. CASE k # 0
    <2>1. k - 1 \in 0 .. m /\ k - 1 \notin Bad /\ k \in 1 .. m
      BY <1>1, <1>3
    <2>2. PICK g : Adds(g, f, k - 1)
      BY <2>1
    <2> DEFINE h == [i \in 0 .. k |-> IF i < k THEN g[i] ELSE g[k - 1] + f[k - 1]]
    <2>3. g \in [0 .. k - 1 -> Nat] /\ f[k - 1] \in Nat
      BY <2>1, <2>2 DEF Adds
    <2>4. h \in [0 .. k -> Nat] /\ h[0] = 0
      BY <2>1, <2>2, <2>3 DEF Adds
    <2>5. ASSUME NEW i \in 0 .. k - 1 PROVE h[i + 1] = h[i] + f[i]
      <3>1. CASE i < k - 1
        <4>1. i \in 0 .. (k - 1) - 1 /\ i + 1 < k
          BY <2>1, <3>1
        <4>2. g[i + 1] = g[i] + f[i]
          BY <4>1, <2>2 DEF Adds
        <4> QED
          BY <2>1, <4>1, <4>2
      <3>2. CASE i = k - 1
        BY <2>1, <3>2
      <3> QED
        BY <2>1, <3>1, <3>2
    <2>6. Adds(h, f, k)
      BY <2>4, <2>5 DEF Adds
    <2> QED
      BY <2>6
  <1> QED
    BY <1>2, <1>3

LEMMA AddsUnique ==
    ASSUME NEW m \in Nat, NEW f \in [0 .. m - 1 -> Nat], NEW n \in 0 .. m, NEW g, NEW h,
           h = [i \in 0 .. n |-> IF i = 0 THEN 0 ELSE h[i - 1] + f[i - 1]], Adds(g, f, n)
    PROVE  g = h
  <1> DEFINE Bad == {i \in 0 .. n : g[i] # h[i]}
  <1>1. CASE Bad # {}
    <2>0. Bad \in SUBSET Nat
      OBVIOUS
    <2>1. PICK k \in Bad : \A i \in Bad : k <= i
      BY <1>1, <2>0, Least
    <2>2. k # 0
      BY DEF Adds
    <2>3. k - 1 \in 0 .. n /\ k - 1 \notin Bad /\ k - 1 \in 0 .. n - 1 /\ (k - 1) + 1 = k
      BY <2>1, <2>2
    <2>4. g[k] = g[k - 1] + f[k - 1]
      BY <2>3 DEF Adds
    <2>5. h[k] = h[k - 1] + f[k - 1]
      BY <2>2
    <2> QED
      BY <2>3, <2>4, <2>5
  <1>2. CASE Bad = {}
    <2>1. \A i \in 0 .. n : g[i] = h[i]
      BY <1>2
    <2>2. DOMAIN g = 0 .. n /\ g = [i \in 0 .. n |-> g[i]] /\ h = [i \in 0 .. n |-> h[i]]
      BY DEF Adds
    <2> QED
      BY <2>1, <2>2
  <1> QED
    BY <1>1, <1>2

LEMMA SumIs ==
    ASSUME NEW m \in Nat, NEW f \in [0 .. m - 1 -> Nat], NEW n \in 0 .. m, NEW g, Adds(g, f, n)
    PROVE  SumTo(f, n) = g[n]
  <1> DEFINE E(h) == h = [i \in 0 .. n |-> IF i = 0 THEN 0 ELSE h[i - 1] + f[i - 1]]
  <1>1. E(g)
    <2> DEFINE e == [i \in 0 .. n |-> IF i = 0 THEN 0 ELSE g[i - 1] + f[i - 1]]
    <2>1. ASSUME NEW i \in 0 .. n, i # 0 PROVE g[i] = g[i - 1] + f[i - 1]
      <3>1. i - 1 \in 0 .. n - 1 /\ (i - 1) + 1 = i
        BY <2>1
      <3> QED
        BY <3>1 DEF Adds
    <2>2. \A i \in 0 .. n : g[i] = e[i]
      BY <2>1 DEF Adds
    <2> QED
      BY <2>2 DEF Adds
  <1>2. \A h : E(h) => h = g
    BY AddsUnique
  <1>3. SumTo(f, n) = (CHOOSE h : E(h))[n]
    BY DEF SumTo
  <1> HIDE DEF E
  <1>4. (CHOOSE h : E(h)) = g
    BY <1>1, <1>2
  <1> QED
    BY <1>3, <1>4

(* The sum of nothing, of one more value, and its type. *)
LEMMA SumStep ==
    ASSUME NEW m \in Nat, NEW f \in [0 .. m - 1 -> Nat]
    PROVE  /\ SumTo(f, 0) = 0
           /\ \A n \in 0 .. m : SumTo(f, n) \in Nat
           /\ \A n \in 0 .. m - 1 : SumTo(f, n + 1) = SumTo(f, n) + f[n]
  <1>1. PICK g : Adds(g, f, m)
    BY AddsExists
  <1>2. ASSUME NEW n \in 0 .. m PROVE SumTo(f, n) = g[n]
    <2> DEFINE h == [i \in 0 .. n |-> g[i]]
    <2>1. Adds(h, f, n)
      BY <1>1 DEF Adds
    <2> QED
      BY <2>1, SumIs
  <1>3. 0 \in 0 .. m /\ \A n \in 0 .. m - 1 : n \in 0 .. m /\ n + 1 \in 0 .. m
    OBVIOUS
  <1> QED
    BY <1>1, <1>2, <1>3 DEF Adds

(* Sums of values that are alike but for one. *)
LEMMA SumOfChanged ==
    ASSUME NEW m \in Nat, NEW f \in [0 .. m - 1 -> Nat], NEW g \in [0 .. m - 1 -> Nat],
           NEW s \in 0 .. m - 1, \A i \in 0 .. m - 1 : i # s => g[i] = f[i]
    PROVE  \A n \in 0 .. m : SumTo(g, n) = SumTo(f, n) + IF s < n THEN g[s] - f[s] ELSE 0
  <1> DEFINE Ok(n) == SumTo(g, n) = SumTo(f, n) + IF s < n THEN g[s] - f[s] ELSE 0
             Bad == {n \in 0 .. m : ~ Ok(n)}
  <1>0. \A n \in 0 .. m : SumTo(f, n) \in Nat /\ SumTo(g, n) \in Nat
    BY SumStep
  <1> SUFFICES ASSUME Bad # {} PROVE FALSE
    OBVIOUS
  <1>a. Bad \in SUBSET Nat
    OBVIOUS
  <1>1. PICK k \in Bad : \A i \in Bad : k <= i
    BY <1>a, Least
  <1>2. k # 0
    <2>1. SumTo(f, 0) = 0
      BY SumStep
    <2>2. SumTo(g, 0) = 0
      BY SumStep
    <2> QED
      BY <2>1, <2>2
  <1>3. k - 1 \in 0 .. m - 1 /\ (k - 1) + 1 = k /\ k - 1 \in 0 .. m
    BY <1>1, <1>2
  <1>4. Ok(k - 1)
    BY <1>1, <1>3
  <1>5. SumTo(f, k) = SumTo(f, k - 1) + f[k - 1] /\ SumTo(g, k) = SumTo(g, k - 1) + g[k - 1]
    BY <1>3, SumStep
  <1>6. f[k - 1] \in Nat /\ g[k - 1] \in Nat /\ f[s] \in Nat /\ g[s] \in Nat
    BY <1>3
  <1>7. CASE k - 1 = s
    <2>1. Ok(k - 1) /\ s < k /\ ~ (s < k - 1)
      BY <1>3, <1>4, <1>7
    <2> QED
      BY <1>0, <1>3, <1>5, <1>6, <1>7, <2>1
  <1>8. CASE k - 1 # s
    <2>1. g[k - 1] = f[k - 1]
      BY <1>3, <1>8
    <2>2. s < k <=> s < k - 1
      BY <1>3, <1>8
    <2> DEFINE d == IF s < k THEN g[s] - f[s] ELSE 0
    <2>3. d \in Int /\ SumTo(g, k - 1) = SumTo(f, k - 1) + d
      BY <1>4, <1>6, <2>2
    <2> HIDE DEF d
    <2>4. SumTo(g, k) = SumTo(f, k) + d
      BY <1>0, <1>3, <1>5, <1>6, <2>1, <2>3
    <2>5. Ok(k)
      BY <2>4 DEF d
    <2> QED
      BY <2>5
  <1> QED
    BY <1>7, <1>8

(* Sums of values that are alike. *)
LEMMA SumOfSame ==
    ASSUME NEW m \in Nat, NEW f \in [0 .. m - 1 -> Nat], NEW g \in [0 .. m - 1 -> Nat],
           NEW k \in 0 .. m, \A i \in 0 .. k - 1 : g[i] = f[i]
    PROVE  SumTo(g, k) = SumTo(f, k)
  <1>1. PICK e : Adds(e, f, k)
    BY AddsExists
  <1>2. Adds(e, g, k)
    BY <1>1 DEF Adds
  <1>3. SumTo(f, k) = e[k]
    BY <1>1, SumIs
  <1>4. SumTo(g, k) = e[k]
    BY <1>2, SumIs
  <1> QED
    BY <1>3, <1>4

-----------------------------------------------------------------------------
(* What a step does to the sums. *)

LEMMA CounterSizes ==
    ASSUME CountersTyped
    PROVE  /\ MaxSlots \in Nat /\ maxthreads \in 1 .. MaxSlots /\ 0 \in Allocated
           /\ Slot = 0 .. MaxSlots - 1 /\ Allocated = 0 .. maxthreads - 1 /\ Allocated \subseteq Slot
  BY CountersAssumption DEF CountersTyped, Slot, Allocated

LEMMA CreditTyped ==
    ASSUME CountersTyped
    PROVE  Credit \in [0 .. MaxSlots - 1 -> Nat]
  BY DEF CountersTyped, Credit, Slot

LEMMA CreditTypedNext ==
    ASSUME CountersTyped'
    PROVE  Credit' \in [0 .. MaxSlots - 1 -> Nat]
  BY DEF CountersTyped, Credit, Slot

(* A step that changes what one block has, and takes it from or gives it to the other
   counts, keeps the books; it may happen while a total is read if nothing gets less. *)
LEMMA Books ==
    ASSUME CountersInv, CountersTyped', NEW s \in Allocated,
           maxthreads' = maxthreads, Watched' => readVars' = readVars,
           \A i \in Slot : i # s => Credit'[i] = Credit[i],
           Credit'[s] + dead' + shared' + count = Credit[s] + dead + shared + count',
           Watched' => /\ Watched /\ Unsettled' = {}
                       /\ Credit'[s] >= Credit[s] /\ dead' >= dead /\ shared' >= shared
    PROVE  AllCounted' /\ ReadSound'
  <1> DEFINE S(n) == SumTo(Credit, n)
             T(n) == SumTo(Credit', n)
  <1>1. /\ MaxSlots \in Nat /\ maxthreads \in 1 .. MaxSlots /\ s \in 0 .. MaxSlots - 1 /\ s < maxthreads
        /\ Slot = 0 .. MaxSlots - 1
    BY CounterSizes DEF CountersInv
  <1>2. Credit \in [0 .. MaxSlots - 1 -> Nat] /\ Credit' \in [0 .. MaxSlots - 1 -> Nat]
    BY CreditTyped, CreditTypedNext DEF CountersInv
  <1>3. \A n \in 0 .. MaxSlots : S(n) \in Nat
    BY <1>1, <1>2, SumStep
  <1>4. \A n \in 0 .. MaxSlots : T(n) = S(n) + IF s < n THEN Credit'[s] - Credit[s] ELSE 0
    BY <1>1, <1>2, SumOfChanged
  <1>5. /\ Credit[s] \in Nat /\ Credit'[s] \in Nat
        /\ dead \in Nat /\ shared \in Nat /\ count \in Int /\ sum \in Nat /\ at \in Nat /\ low \in Int
        /\ dead' \in Nat /\ shared' \in Nat /\ count' \in Int
    BY <1>1, <1>2 DEF CountersInv, CountersTyped
  <1>6. S(maxthreads) + dead + shared = count
    BY DEF CountersInv, AllCounted
  <1>7. T(maxthreads) = S(maxthreads) + (Credit'[s] - Credit[s])
    BY <1>1, <1>4
  <1>8. AllCounted'
    <2>1. S(maxthreads) \in Nat
      BY <1>1, <1>3
    <2> HIDE DEF S, T
    <2>2. T(maxthreads) + dead' + shared' = count'
      BY <2>1, <1>5, <1>6, <1>7
    <2> QED
      BY <2>2 DEF AllCounted, S, T
  <1>9. ASSUME Watched' PROVE ReadSound'
    <2>1. /\ Unsettled' = {} /\ at <= maxthreads + 1
          /\ at <= maxthreads => /\ sum <= S(at)
                                 /\ low <= sum + (S(maxthreads) - S(at)) + dead + shared
          /\ at > maxthreads => sum \in low .. count
      BY <1>9 DEF CountersInv, ReadSound
    <2>2. sum' = sum /\ at' = at /\ low' = low
      BY <1>9 DEF readVars
    <2>3. CASE at > maxthreads
      <3>1. sum \in low .. count'
        BY <1>5, <1>9, <2>1, <2>3
      <3> QED
        BY <2>1, <2>2, <2>3, <3>1, <1>1, <1>5 DEF ReadSound
    <2>4. CASE at <= maxthreads
      <3>1. at \in 0 .. MaxSlots
        BY <1>1, <1>5, <2>4
      <3>2. T(at) = S(at) + IF s < at THEN Credit'[s] - Credit[s] ELSE 0
        BY <1>4, <3>1
      <3>3. S(at) \in Nat /\ S(maxthreads) \in Nat
        BY <1>1, <1>3, <3>1
      <3>4. Credit'[s] - Credit[s] >= 0 /\ dead' >= dead /\ shared' >= shared
        BY <1>5, <1>9
      <3> HIDE DEF S, T
      <3>5. sum <= T(at) /\ low <= sum + (T(maxthreads) - T(at)) + dead' + shared'
        BY <1>5, <1>7, <2>1, <2>4, <3>2, <3>3, <3>4
      <3> QED
        BY <2>1, <2>2, <2>4, <3>5, <1>1, <1>5 DEF ReadSound, S, T
    <2> QED
      BY <1>1, <1>5, <2>3, <2>4
  <1> QED
    BY <1>8, <1>9 DEF ReadSound

(* A step that changes what no block has. *)
LEMMA Untouched ==
    ASSUME CountersInv, CountersTyped', maxthreads' = maxthreads, Watched' => readVars' = readVars,
           \A i \in Slot : Credit'[i] = Credit[i],
           dead' + shared' + count = dead + shared + count',
           Watched' => Watched /\ Unsettled' = {} /\ dead' >= dead /\ shared' >= shared
    PROVE  AllCounted' /\ ReadSound'
  <1>1. 0 \in Allocated /\ 0 \in Slot
    BY CounterSizes DEF CountersInv
  <1>2. Credit[0] \in Nat /\ Credit'[0] = Credit[0]
    BY <1>1, CreditTyped DEF CountersInv, Slot
  <1>3. /\ dead \in Nat /\ shared \in Nat /\ count \in Int
        /\ dead' \in Nat /\ shared' \in Nat /\ count' \in Int
    BY DEF CountersInv, CountersTyped
  <1>4. Credit'[0] + dead' + shared' + count = Credit[0] + dead + shared + count'
    BY <1>2, <1>3
  <1>5. Watched' => Credit'[0] >= Credit[0]
    BY <1>2
  <1> QED
    BY <1>1, <1>4, <1>5, Books
-----------------------------------------------------------------------------
(* One lemma for each action. *)

Bits == SUBSET {"dynamic", "static", "used"}

LEMMA InitKeeps ==
    ASSUME CountersInit
    PROVE  CountersInv
  <1>2. MaxSlots \in Nat /\ Statics \in 1 .. MaxSlots
    BY CountersAssumption
  <1>3. CountersTyped
    <2>1. /\ lock \in Worker \union {NoThread, "main"} /\ updates \in 0 .. MaxUpdates /\ maxthreads \in Statics .. MaxSlots
      BY <1>2, CountersAssumption DEF CountersInit
    <2>3. clear \in BOOLEAN /\ collided \in BOOLEAN /\ torn \in BOOLEAN
      BY DEF CountersInit
    <2>2. 0 \in Slot /\ state \in [0 .. gen -> [Slot -> Bits]] /\ ptr \in [Worker -> 0 .. gen] /\ gen \in Nat
      BY <1>2 DEF CountersInit, Slot, Bits, Static, Used, None
    <2> QED
      BY <2>1, <2>2, <2>3 DEF CountersInit, CountersTyped, Bits
  <1>4. SlotsOwned
    BY <1>2 DEF CountersInit, SlotsOwned, Placed, Allocated, Slot, Static, Used, None
  <1>5. DeadOwned
    BY DEF CountersInit, DeadOwned
  <1>6. AllCounted
    <2>1. Credit = [s \in 0 .. MaxSlots - 1 |-> 0]
      BY DEF CountersInit, Credit, Slot
    <2> DEFINE g == [i \in 0 .. maxthreads |-> 0]
    <2>2. maxthreads \in 0 .. MaxSlots
      BY <1>2 DEF CountersInit
    <2>3. Adds(g, Credit, maxthreads)
      <3>1. g \in [0 .. maxthreads -> Nat] /\ g[0] = 0
        BY <1>2, <2>2
      <3>2. ASSUME NEW i \in 0 .. maxthreads - 1 PROVE g[i + 1] = g[i] + Credit[i]
        <4>1. i \in 0 .. maxthreads /\ i + 1 \in 0 .. maxthreads /\ i \in 0 .. MaxSlots - 1
          BY <1>2, <2>2
        <4> QED
          BY <2>1, <4>1
      <3> QED
        BY <3>1, <3>2 DEF Adds
    <2>4. SumTo(Credit, maxthreads) = 0
      BY <1>2, <1>3, <2>2, <2>3, CreditTyped, SumIs
    <2> QED
      BY <2>4 DEF CountersInit, AllCounted
  <1>7. ReadSound
    BY CountersAssumption DEF CountersInit, ReadSound, Watched, Reading
  <1> QED
    BY <1>3, <1>4, <1>5, <1>6, <1>7 DEF CountersInv

(* What a slot's state is set to. *)
LEMMA StateSet ==
    ASSUME CountersTyped, NEW s \in Slot, NEW v \in Bits, SetState(gen, s, v), gen' = gen
    PROVE  /\ state' \in [0 .. gen' -> [Slot -> Bits]]
           /\ \A i \in Slot : state'[gen'][i] = IF i = s THEN v ELSE state[gen][i]
           /\ \A i \in Slot : IsUsed(i)' = IF i = s THEN "used" \in v ELSE IsUsed(i)
  <1>1. gen \in 0 .. gen /\ state \in [0 .. gen -> [Slot -> Bits]]
    BY DEF CountersTyped, Bits
  <1>2. state' = [state EXCEPT ![gen] = [state[gen] EXCEPT ![s] = v]]
    BY <1>1 DEF SetState
  <1>3. state'[gen] = [state[gen] EXCEPT ![s] = v]
    BY <1>1, <1>2
  <1>4. state' \in [0 .. gen' -> [Slot -> Bits]]
    BY <1>1, <1>2
  <1> QED
    BY <1>1, <1>3, <1>4 DEF IsUsed

(* Settled while the main thread reads. *)
LEMMA NobodyMoves ==
    ASSUME CountersInv, Watched
    PROVE  \A t \in Worker : cpc[t] \in {"new", "starting", "on", "off", "late"}
  BY DEF CountersInv, ReadSound, CountersTyped, Unsettled

(* A step of t that touches no slot but s, which is its own before and after it as far
   as it has one. *)
AtSlot(t, s) ==
    /\ maxthreads' = maxthreads /\ gen' = gen
    /\ s \in Allocated \ {0}
    /\ \A u \in Worker \ {t} : /\ Placed(u) => slot[u] # s
                               /\ cpc'[u] = cpc[u] /\ slot'[u] = slot[u] /\ ptr'[u] = ptr[u]
    /\ \A i \in Slot \ {s} : state'[gen'][i] = state[gen][i] /\ val'[i] = val[i]
    /\ Placed(t) => slot[t] = s
    /\ Placed(t)' => slot'[t] = s

LEMMA AtSlotKeeps ==
    ASSUME CountersInv, NEW t \in Worker, NEW s, AtSlot(t, s),
           Placed(t)' /\ cpc'[t] # "starting" => "used" \in state'[gen'][s],
           cpc'[t] = "starting" => ptr'[t] = gen' /\ state'[gen'][s] = Static,
           cpc'[t] = "leaving" => ptr'[t] = gen' /\ ("static" \in state'[gen'][s] => val'[s] = 0),
           state'[gen'][s] = Static => val'[s] = 0
    PROVE  SlotsOwned' /\ \A i \in Slot \ {s} : Credit'[i] = Credit[i]
  <1>1. Allocated' = Allocated /\ s \in Allocated \ {0} /\ Allocated \subseteq Slot /\ 0 \in Slot
    BY CounterSizes DEF AtSlot, Allocated, CountersInv
  <1>2. \A u \in Worker : u # t => /\ Placed(u)' = Placed(u) /\ slot'[u] = slot[u] /\ slot[u] \in Slot
                                    /\ cpc'[u] = cpc[u] /\ ptr'[u] = ptr[u] /\ (Placed(u) => slot[u] # s)
    BY DEF AtSlot, Placed, CountersInv, CountersTyped
  <1>3. \A i \in Slot : i # s => state'[gen'][i] = state[gen][i] /\ val'[i] = val[i]
    BY DEF AtSlot
  <1>4. Placed(t)' => slot'[t] = s
    BY DEF AtSlot
  <1>5. ASSUME NEW u \in Worker, Placed(u)'
        PROVE  slot'[u] \in Allocated \ {0} /\ (cpc'[u] = "starting" \/ "used" \in state'[gen'][slot'[u]])
    <2>1. CASE u = t
      BY <1>1, <1>4, <1>5, <2>1
    <2>2. CASE u # t
      BY <1>2, <1>3, <1>5, <2>2 DEF CountersInv, SlotsOwned, IsUsed
    <2> QED
      BY <2>1, <2>2
  <1>6. \A u, v \in Worker : Placed(u)' /\ Placed(v)' /\ slot'[u] = slot'[v] => u = v
    BY <1>2, <1>4 DEF CountersInv, SlotsOwned
  <1>7. ASSUME NEW u \in Worker, cpc'[u] = "leaving"
        PROVE  ptr'[u] = gen' /\ ("static" \in state'[gen'][slot'[u]] => val'[slot'[u]] = 0)
    <2>1. CASE u = t
      <3>1. slot'[t] = s
        BY <1>4, <1>7, <2>1 DEF Placed
      <3> QED
        BY <1>7, <2>1, <3>1
    <2>2. CASE u # t
      <3>1. cpc[u] = "leaving" /\ Placed(u) /\ slot'[u] = slot[u] /\ ptr'[u] = ptr[u] /\ slot[u] # s /\ slot[u] \in Slot
        BY <1>2, <1>7, <2>2 DEF Placed
      <3>2. ptr[u] = gen /\ ("static" \in state[gen][slot[u]] => val[slot[u]] = 0)
        BY <3>1 DEF CountersInv, SlotsOwned
      <3> QED
        BY <1>3, <3>1, <3>2 DEF AtSlot
    <2> QED
      BY <2>1, <2>2
  <1>12. ASSUME NEW u \in Worker, cpc'[u] = "starting"
         PROVE  ptr'[u] = gen' /\ state'[gen'][slot'[u]] = Static
    <2>1. CASE u = t
      BY <1>4, <1>12, <2>1 DEF Placed
    <2>2. CASE u # t
      <3>1. cpc[u] = "starting" /\ Placed(u) /\ slot'[u] = slot[u] /\ ptr'[u] = ptr[u] /\ slot[u] # s /\ slot[u] \in Slot
        BY <1>2, <1>12, <2>2 DEF Placed
      <3>2. ptr[u] = gen /\ state[gen][slot[u]] = Static
        BY <3>1 DEF CountersInv, SlotsOwned
      <3> QED
        BY <1>3, <3>1, <3>2 DEF AtSlot
    <2> QED
      BY <2>1, <2>2
  <1>8. \A i \in Allocated : state'[gen'][i] = Static => val'[i] = 0
    BY <1>1, <1>3 DEF CountersInv, SlotsOwned
  <1>9. state'[gen'][0] = Static \union Used
    BY <1>1, <1>3 DEF CountersInv, SlotsOwned
  <1>10. SlotsOwned'
    BY <1>1, <1>5, <1>6, <1>7, <1>8, <1>9, <1>12 DEF SlotsOwned, IsUsed
  <1>11. ASSUME NEW i \in Slot, i # s PROVE Credit'[i] = Credit[i]
    <2>1. Spent(i)' <=> Spent(i)
      <3>1. ASSUME NEW u \in Worker, slot'[u] = i, cpc'[u] \in {"joining", "merged", "leaving"}
            PROVE  slot[u] = i /\ cpc[u] \in {"joining", "merged", "leaving"}
        BY <1>2, <1>4, <1>11, <3>1 DEF Placed
      <3>2. ASSUME NEW u \in Worker, slot[u] = i, cpc[u] \in {"joining", "merged", "leaving"}
            PROVE  slot'[u] = i /\ cpc'[u] \in {"joining", "merged", "leaving"}
        <4>1. u # t
          BY <1>11, <3>2 DEF AtSlot, Placed
        <4> QED
          BY <1>2, <3>2, <4>1
      <3> QED
        BY <3>1, <3>2 DEF Spent
    <2> QED
      BY <1>3, <1>11, <2>1 DEF Credit, IsUsed
  <1> QED
    BY <1>10, <1>11

LEMMA InitThreadKeeps ==
    ASSUME CountersInv, CountersTyped', NEW t \in Worker, NEW s \in Slot, InitThread(t, s)
    PROVE  CountersInv'
  <1>1. /\ UNCHANGED <<maxthreads, state, gen, val, dead, shared, lock, ctmp, readVars, count>>
        /\ slot' = [slot EXCEPT ![t] = s] /\ ptr' = [ptr EXCEPT ![t] = gen]
        /\ cpc' = [cpc EXCEPT ![t] = "starting"] /\ cpc[t] = "new"
        /\ s \in Allocated /\ state[gen][s] = Static
    BY DEF InitThread, tally, updateVars
  <1>2. slot'[t] = s /\ ptr'[t] = gen /\ cpc'[t] = "starting"
    BY <1>1 DEF CountersInv, CountersTyped
  <1>3. s # 0 /\ val[s] = 0 /\ \A u \in Worker : slot[u] # s
    BY <1>1 DEF InitThread, CountersInv, SlotsOwned, Static, Used
  <1>4. AtSlot(t, s)
    BY <1>1, <1>2, <1>3 DEF AtSlot, Placed, CountersInv, CountersTyped
  <1>5. SlotsOwned' /\ \A i \in Slot \ {s} : Credit'[i] = Credit[i]
    BY <1>1, <1>2, <1>3, <1>4, AtSlotKeeps
  <1>6. DeadOwned'
    BY <1>1 DEF CountersInv, DeadOwned, CountersTyped
  <1>7. Credit'[s] = 0 /\ Credit[s] = 0
    BY <1>1, <1>3 DEF Credit
  <1>8. AllCounted' /\ ReadSound'
    <2>1. Watched' => Watched /\ Unsettled' = {}
      BY <1>1, NobodyMoves DEF Watched, Reading, readVars, Unsettled, CountersInv, CountersTyped
    <2>2. dead \in Nat /\ shared \in Nat /\ count \in Int
      BY DEF CountersInv, CountersTyped
    <2> QED
      BY <1>1, <1>5, <1>7, <2>1, <2>2, Untouched
  <1> QED
    BY <1>5, <1>6, <1>8 DEF CountersInv

LEMMA InitStoreKeeps ==
    ASSUME CountersInv, CountersTyped', NEW t \in Worker, InitStore(t)
    PROVE  CountersInv'
  <1> DEFINE s == slot[t]
  <1>1. /\ UNCHANGED <<maxthreads, gen, val, dead, shared, lock, slot, ctmp, readVars, count>>
        /\ ptr' = [ptr EXCEPT ![t] = 0] /\ cpc' = [cpc EXCEPT ![t] = "on"] /\ cpc[t] = "starting"
        /\ ptr[t] = gen /\ state[gen][s] = Static /\ SetState(gen, s, Static \union Used)
    BY DEF InitStore, tally, updateVars, CountersInv, SlotsOwned
  <1>2. /\ s \in Allocated \ {0} /\ s \in Slot /\ val[s] = 0
        /\ \A u \in Worker \ {t} : Placed(u) => slot[u] # s
    BY <1>1, CounterSizes DEF CountersInv, SlotsOwned, Placed
  <1>3. \A i \in Slot : state'[gen'][i] = IF i = s THEN Static \union Used ELSE state[gen][i]
    <2>1. Static \union Used \in Bits
      BY DEF Bits, Static, Used
    <2>2. gen' = gen /\ CountersTyped
      BY <1>1 DEF CountersInv
    <2> QED
      BY <1>1, <1>2, <2>1, <2>2, StateSet
  <1>4. AtSlot(t, s) /\ cpc'[t] = "on"
    BY <1>1, <1>2, <1>3 DEF AtSlot, Placed, CountersInv, CountersTyped
  <1>6. DeadOwned'
    BY <1>1 DEF CountersInv, DeadOwned, CountersTyped
  <1>7. Credit'[s] = 0 /\ Credit[s] = 0
    BY <1>1, <1>2 DEF Credit
  <1> HIDE DEF s
  <1>5. SlotsOwned' /\ \A i \in Slot \ {s} : Credit'[i] = Credit[i]
    BY <1>1, <1>2, <1>3, <1>4, AtSlotKeeps DEF Static, Used
  <1>8. AllCounted' /\ ReadSound'
    <2>1. Watched' => Watched /\ Unsettled' = {}
      BY <1>1, NobodyMoves DEF Watched, Reading, readVars, Unsettled, CountersInv, CountersTyped
    <2>2. dead \in Nat /\ shared \in Nat /\ count \in Int
      BY DEF CountersInv, CountersTyped
    <2> QED
      BY <1>1, <1>5, <1>7, <2>1, <2>2, Untouched
  <1> QED
    BY <1>5, <1>6, <1>8 DEF CountersInv

LEMMA InitDynamicThreadKeeps ==
    ASSUME CountersInv, CountersTyped', NEW t \in Worker, InitDynamicThread(t)
    PROVE  CountersInv'
  <1>1. PICK s \in Allocated : /\ state[gen][s] = Dynamic
                               /\ slot' = [slot EXCEPT ![t] = s]
                               /\ SetState(gen, s, Dynamic \union Used)
    BY DEF InitDynamicThread, tally, updateVars
  <1>2. s \in Slot
    BY CounterSizes DEF CountersInv
  <1>3. /\ state' \in [0 .. gen' -> [Slot -> Bits]]
        /\ \A i \in Slot : state'[gen'][i] = IF i = s THEN Dynamic \union Used ELSE state[gen][i]
    <2>1. Dynamic \union Used \in Bits
      BY DEF Bits, Dynamic, Used
    <2>2. gen' = gen /\ CountersTyped
      BY DEF InitDynamicThread, tally, updateVars, CountersInv
    <2> QED
      BY <1>1, <1>2, <2>1, <2>2, StateSet
  <1>5. s # 0 /\ \A u \in Worker : Placed(u) => slot[u] # s
    BY <1>1 DEF CountersInv, SlotsOwned, Static, Used, Dynamic, IsUsed
  <1>6. AtSlot(t, s) /\ cpc'[t] = "joining" /\ slot'[t] = s
    BY <1>1, <1>2, <1>3, <1>5 DEF AtSlot, Placed, InitDynamicThread, tally, updateVars, CountersInv, CountersTyped
  <1>7. SlotsOwned' /\ \A i \in Slot \ {s} : Credit'[i] = Credit[i]
    BY <1>2, <1>3, <1>6, AtSlotKeeps DEF Static, Dynamic, Used
  <1>8. DeadOwned'
    BY <1>1 DEF InitDynamicThread, tally, updateVars, CountersInv, DeadOwned, CountersTyped
  <1>9. Credit'[s] = 0 /\ Credit[s] = 0
    <2>1. Spent(s)'
      BY <1>6 DEF Spent
    <2>2. ~ IsUsed(s)
      BY <1>1 DEF IsUsed, Dynamic
    <2> QED
      BY <1>2, <2>1, <2>2 DEF Credit
  <1>10. AllCounted' /\ ReadSound'
    <2>1. ~ Watched'
      BY CountersAssumption DEF InitDynamicThread, tally, updateVars, Watched, Reading, CountersInv
    <2>2. maxthreads' = maxthreads /\ readVars' = readVars
      BY DEF InitDynamicThread, tally, updateVars, readVars
    <2>3. dead' = dead /\ shared' = shared /\ count' = count
      BY DEF InitDynamicThread, tally, updateVars
    <2>4. \A i \in Slot : Credit'[i] = Credit[i]
      BY <1>7, <1>9
    <2> QED
      BY <2>1, <2>2, <2>3, <2>4, Untouched
  <1> QED
    BY <1>7, <1>8, <1>10 DEF CountersInv

LEMMA ClearBlockKeeps ==
    ASSUME CountersInv, CountersTyped', NEW t \in Worker, ClearBlock(t)
    PROVE  CountersInv'
  <1> DEFINE s == slot[t]
  <1>2. /\ s \in Allocated \ {0} /\ "used" \in state[gen][s] /\ s \in Slot
        /\ \A u \in Worker \ {t} : Placed(u) => slot[u] # s
    BY CounterSizes DEF ClearBlock, tally, updateVars, CountersInv, SlotsOwned, Placed, IsUsed
  <1>3. /\ val' = [val EXCEPT ![s] = 0] /\ cpc' = [cpc EXCEPT ![t] = "on"]
        /\ val'[s] = 0 /\ cpc'[t] = "on" /\ slot' = slot /\ state' = state /\ gen' = gen
    BY <1>2 DEF ClearBlock, tally, updateVars, CountersInv, CountersTyped
  <1>4. AtSlot(t, s)
    BY <1>2, <1>3 DEF AtSlot, ClearBlock, tally, updateVars, CountersInv, CountersTyped
  <1>5. Credit'[s] = 0 /\ Credit[s] = 0
    <2>1. Spent(s)
      BY DEF Spent, ClearBlock, tally, updateVars
    <2> QED
      BY <1>2, <1>3, <2>1 DEF Credit
  <1> HIDE DEF s
  <1>6. SlotsOwned' /\ \A i \in Slot \ {s} : Credit'[i] = Credit[i]
    BY <1>2, <1>3, <1>4, AtSlotKeeps
  <1>7. DeadOwned'
    <2>1. \A u \in Worker : u # t => cpc'[u] = cpc[u] /\ (Placed(u) => val'[slot[u]] = val[slot[u]])
      BY <1>2, <1>3 DEF CountersInv, CountersTyped
    <2>2. \A u \in Worker : cpc'[u] \in {"merging", "late"} => u # t /\ cpc'[u] = cpc[u]
      BY <1>3, <2>1
    <2> QED
      BY <1>3, <2>1, <2>2 DEF ClearBlock, tally, updateVars, CountersInv, DeadOwned, Placed
  <1>8. AllCounted' /\ ReadSound'
    <2>1. ~ Watched'
      BY NobodyMoves DEF ClearBlock, tally, updateVars, Watched, Reading, readVars
    <2>2. maxthreads' = maxthreads /\ readVars' = readVars
      BY DEF ClearBlock, tally, updateVars, readVars
    <2>3. dead' = dead /\ shared' = shared /\ count' = count
      BY DEF ClearBlock, tally, updateVars
    <2>4. \A i \in Slot : Credit'[i] = Credit[i]
      BY <1>5, <1>6
    <2> QED
      BY <2>1, <2>2, <2>3, <2>4, Untouched
  <1> QED
    BY <1>6, <1>7, <1>8 DEF CountersInv

(* Counting in a block that is in use and nobody's who is starting or finishing. *)
LEMMA CountOwnKeeps ==
    ASSUME CountersInv, CountersTyped', NEW s \in Allocated, CountOwn(s), IsUsed(s), ~ Spent(s),
           \A u \in Worker : cpc[u] = "merging" => slot[u] # s
    PROVE  CountersInv'
  <1>1. s \in Slot /\ val[s] \in Nat /\ count \in Int
    BY CounterSizes DEF CountersInv, CountersTyped
  <1>3. /\ \A i \in Slot : val'[i] = IF i = s THEN val[s] + 1 ELSE val[i]
        /\ state' = state /\ gen' = gen /\ slot' = slot /\ cpc' = cpc /\ ptr' = ptr /\ maxthreads' = maxthreads
        /\ dead' = dead /\ shared' = shared /\ count' = count + 1 /\ lock' = lock /\ ctmp' = ctmp
    BY <1>1 DEF CountOwn, Updated, CountersInv, CountersTyped
  <1>4. \A u \in Worker : cpc[u] \in {"merging", "leaving"} => slot[u] \in Slot /\ slot[u] # s
    BY DEF Spent, CountersInv, CountersTyped
  <1>5. SlotsOwned'
    <2>1. \A i \in Allocated : state[gen][i] = Static => i # s /\ i \in Slot
      BY CounterSizes DEF IsUsed, Static, CountersInv
    <2> QED
      BY <1>3, <1>4, <2>1 DEF CountersInv, SlotsOwned, Placed, IsUsed, Allocated
  <1>6. DeadOwned'
    BY <1>3, <1>4 DEF CountersInv, DeadOwned
  <1>7. \A i \in Slot : Credit'[i] = IF i = s THEN Credit[s] + 1 ELSE Credit[i]
    BY <1>1, <1>3 DEF Credit, Spent, IsUsed
  <1>8. AllCounted' /\ ReadSound'
    <2>1. readVars' = readVars /\ Watched' = Watched /\ Unsettled' = Unsettled
      BY <1>3 DEF CountOwn, Updated, readVars, Watched, Reading, Unsettled
    <2>2. Watched => Unsettled = {}
      BY DEF CountersInv, ReadSound
    <2>3. dead \in Nat /\ shared \in Nat /\ Credit[s] \in Nat /\ Credit'[s] = Credit[s] + 1
      BY <1>1, <1>7, CreditTyped DEF CountersInv, CountersTyped, Slot
    <2>4. Credit'[s] + dead' + shared' + count = Credit[s] + dead + shared + count'
      BY <1>1, <1>3, <2>3
    <2>5. Watched' => /\ Watched /\ Unsettled' = {}
                      /\ Credit'[s] >= Credit[s] /\ dead' >= dead /\ shared' >= shared
      BY <1>3, <2>1, <2>2, <2>3
    <2>6. \A i \in Slot : i # s => Credit'[i] = Credit[i]
      BY <1>7
    <2> QED
      BY <1>3, <2>1, <2>4, <2>5, <2>6, Books
  <1> QED
    BY <1>5, <1>6, <1>8 DEF CountersInv

LEMMA IncrKeeps ==
    ASSUME CountersInv, CountersTyped', NEW t \in Worker, Incr(t)
    PROVE  CountersInv'
  <1>1. cpc[t] = "on" /\ CountOwn(slot[t]) /\ Placed(t)
    BY DEF Incr, Placed
  <1>2. slot[t] \in Allocated /\ IsUsed(slot[t])
    BY <1>1 DEF CountersInv, SlotsOwned
  <1>3. \A u \in Worker : Placed(u) /\ slot[u] = slot[t] => u = t
    BY <1>1 DEF CountersInv, SlotsOwned
  <1>4. ~ Spent(slot[t]) /\ \A u \in Worker : cpc[u] = "merging" => slot[u] # slot[t]
    BY <1>1, <1>3 DEF Spent, Placed
  <1> QED
    BY <1>1, <1>2, <1>4, CountOwnKeeps

LEMMA IncrMainKeeps ==
    ASSUME CountersInv, CountersTyped', IncrMain
    PROVE  CountersInv'
  <1>1. CountOwn(0) /\ 0 \in Allocated
    BY CounterSizes DEF IncrMain, CountersInv
  <1>2. IsUsed(0)
    BY DEF IsUsed, Used, CountersInv, SlotsOwned
  <1>3. ~ Spent(0) /\ \A u \in Worker : cpc[u] = "merging" => slot[u] # 0
    BY DEF Spent, Placed, CountersInv, SlotsOwned
  <1> QED
    BY <1>1, <1>2, <1>3, CountOwnKeeps

(* A step that leaves the slots and the threads that have one alone. *)
LEMMA SlotsAlone ==
    ASSUME CountersInv, UNCHANGED <<maxthreads, state, gen, val, slot, ptr>>,
           \A u \in Worker : cpc'[u] # cpc[u] => ~ Placed(u) /\ ~ Placed(u)'
    PROVE  SlotsOwned' /\ \A i \in Slot : Credit'[i] = Credit[i]
  <1>1. \A u \in Worker : Placed(u)' = Placed(u) /\ (Placed(u) => cpc'[u] = cpc[u])
    BY DEF Placed
  <1>2. Allocated' = Allocated /\ \A i : IsUsed(i)' = IsUsed(i)
    BY DEF Allocated, IsUsed
  <1>3. \A u \in Worker : cpc'[u] \in {"starting", "leaving"} => cpc'[u] = cpc[u]
    BY <1>1 DEF Placed
  <1>4. SlotsOwned'
    BY <1>1, <1>2, <1>3 DEF CountersInv, SlotsOwned, IsUsed
  <1>5. \A i \in Slot : Spent(i)' <=> Spent(i)
    BY <1>1 DEF Spent, Placed
  <1> QED
    BY <1>2, <1>4, <1>5 DEF Credit, IsUsed

LEMMA IncrSharedKeeps ==
    ASSUME CountersInv, CountersTyped', IncrShared
    PROVE  CountersInv'
  <1>2. SlotsOwned' /\ \A i \in Slot : Credit'[i] = Credit[i]
    BY SlotsAlone DEF IncrShared, Updated
  <1>3. DeadOwned'
    BY DEF IncrShared, Updated, CountersInv, DeadOwned
  <1>4. AllCounted' /\ ReadSound'
    <2>1. readVars' = readVars /\ maxthreads' = maxthreads /\ (Watched' => Watched /\ Unsettled' = {})
      BY DEF IncrShared, Updated, readVars, Watched, Reading, Unsettled, CountersInv, ReadSound
    <2>2. dead \in Nat /\ shared \in Nat /\ count \in Int /\ dead' = dead /\ shared' = shared + 1 /\ count' = count + 1
      BY DEF IncrShared, Updated, CountersInv, CountersTyped
    <2>3. dead' + shared' + count = dead + shared + count' /\ dead' >= dead /\ shared' >= shared
      BY <2>2
    <2> QED
      BY <1>2, <2>1, <2>3, Untouched
  <1> QED
    BY <1>2, <1>3, <1>4 DEF CountersInv

(* Zeroing a block that is in use and nobody's who is starting or finishing. *)
LEMMA ZeroOwnKeeps ==
    ASSUME CountersInv, CountersTyped', NEW s \in Allocated, ZeroOwn(s), IsUsed(s), ~ Spent(s),
           \A u \in Worker : cpc[u] = "merging" => slot[u] # s
    PROVE  CountersInv'
  <1>1. s \in Slot /\ val[s] \in Nat /\ count \in Int
    BY CounterSizes DEF CountersInv, CountersTyped
  <1>2. /\ \A i \in Slot : val'[i] = IF i = s THEN 0 ELSE val[i]
        /\ state' = state /\ gen' = gen /\ slot' = slot /\ cpc' = cpc /\ ptr' = ptr /\ maxthreads' = maxthreads
        /\ dead' = dead /\ shared' = shared /\ count' = count - val[s] /\ lock' = lock /\ ctmp' = ctmp
    BY <1>1 DEF ZeroOwn, Updated, CountersInv, CountersTyped
  <1>3. \A u \in Worker : slot[u] \in Slot /\ (cpc[u] = "merging" => slot[u] # s)
    BY DEF CountersInv, CountersTyped
  <1>4. SlotsOwned'
    <2>1. Allocated \subseteq Slot
      BY CounterSizes DEF CountersInv
    <2> QED
      BY <1>2, <1>3, <2>1 DEF CountersInv, SlotsOwned, Placed, IsUsed, Allocated
  <1>5. DeadOwned'
    BY <1>2, <1>3 DEF CountersInv, DeadOwned
  <1>6. \A i \in Slot : Credit'[i] = IF i = s THEN 0 ELSE Credit[i]
    BY <1>1, <1>2 DEF Credit, Spent, IsUsed
  <1>7. Credit[s] = val[s] /\ Credit'[s] = 0
    BY <1>1, <1>6 DEF Credit
  <1>8. AllCounted' /\ ReadSound'
    <2>1. ~ Watched'
      BY <1>2 DEF ZeroOwn, Watched, Reading
    <2>2. Credit'[s] + dead' + shared' + count = Credit[s] + dead + shared + count'
      BY <1>1, <1>2, <1>7 DEF CountersInv, CountersTyped
    <2>3. \A i \in Slot : i # s => Credit'[i] = Credit[i]
      BY <1>6
    <2> QED
      BY <1>2, <2>1, <2>2, <2>3, Books
  <1> QED
    BY <1>4, <1>5, <1>8 DEF CountersInv

LEMMA ZeroBlockKeeps ==
    ASSUME CountersInv, CountersTyped', NEW t \in Worker, ZeroBlock(t)
    PROVE  CountersInv'
  <1>1. cpc[t] = "on" /\ ZeroOwn(slot[t]) /\ Placed(t)
    BY DEF ZeroBlock, Placed
  <1>2. slot[t] \in Allocated /\ IsUsed(slot[t])
    BY <1>1 DEF CountersInv, SlotsOwned
  <1>3. \A u \in Worker : Placed(u) /\ slot[u] = slot[t] => u = t
    BY <1>1 DEF CountersInv, SlotsOwned
  <1>4. ~ Spent(slot[t]) /\ \A u \in Worker : cpc[u] = "merging" => slot[u] # slot[t]
    BY <1>1, <1>3 DEF Spent, Placed
  <1> QED
    BY <1>1, <1>2, <1>4, ZeroOwnKeeps

LEMMA ZeroMainKeeps ==
    ASSUME CountersInv, CountersTyped', ZeroMain
    PROVE  CountersInv'
  <1>1. ZeroOwn(0) /\ 0 \in Allocated
    BY CounterSizes DEF ZeroMain, CountersInv
  <1>2. IsUsed(0)
    BY DEF IsUsed, Used, CountersInv, SlotsOwned
  <1>3. ~ Spent(0) /\ \A u \in Worker : cpc[u] = "merging" => slot[u] # 0
    BY DEF Spent, Placed, CountersInv, SlotsOwned
  <1> QED
    BY <1>1, <1>2, <1>3, ZeroOwnKeeps

LEMMA ZeroDeadKeeps ==
    ASSUME CountersInv, CountersTyped', ~ Spoiled', NEW t \in Worker, ZeroDead(t)
    PROVE  CountersInv'
  <1>1. SlotsOwned' /\ \A i \in Slot : Credit'[i] = Credit[i]
    BY SlotsAlone DEF ZeroDead
  <1>2. DeadOwned'
    BY DEF ZeroDead, TouchesDead, DeadUnwritten, Spoiled, CountersInv, DeadOwned
  <1>3. AllCounted' /\ ReadSound'
    <2>1. maxthreads' = maxthreads /\ ~ Watched'
      BY DEF ZeroDead, Watched, Reading
    <2>2. dead \in Nat /\ shared \in Nat /\ count \in Int /\ dead' = 0 /\ shared' = shared /\ count' = count - dead
      BY DEF ZeroDead, Updated, CountersInv, CountersTyped
    <2>3. dead' + shared' + count = dead + shared + count'
      BY <2>2
    <2> QED
      BY <1>1, <2>1, <2>3, Untouched
  <1> QED
    BY <1>1, <1>2, <1>3 DEF CountersInv

LEMMA ZeroSharedKeeps ==
    ASSUME CountersInv, CountersTyped', ZeroShared
    PROVE  CountersInv'
  <1>1. SlotsOwned' /\ \A i \in Slot : Credit'[i] = Credit[i]
    BY SlotsAlone DEF ZeroShared
  <1>2. DeadOwned'
    BY DEF ZeroShared, CountersInv, DeadOwned
  <1>3. AllCounted' /\ ReadSound'
    <2>1. maxthreads' = maxthreads /\ ~ Watched'
      BY DEF ZeroShared, Watched, Reading
    <2>2. dead \in Nat /\ shared \in Nat /\ count \in Int /\ dead' = dead /\ shared' = 0 /\ count' = count - shared
      BY DEF ZeroShared, Updated, CountersInv, CountersTyped
    <2>3. dead' + shared' + count = dead + shared + count'
      BY <2>2
    <2> QED
      BY <1>1, <2>1, <2>3, Untouched
  <1> QED
    BY <1>1, <1>2, <1>3 DEF CountersInv

LEMMA LateReadKeeps ==
    ASSUME CountersInv, CountersTyped', ~ Spoiled', NEW t \in Worker, LateRead(t)
    PROVE  CountersInv'
  <1>2. SlotsOwned' /\ \A i \in Slot : Credit'[i] = Credit[i]
    <2>1. \A u \in Worker : cpc'[u] # cpc[u] => ~ Placed(u) /\ ~ Placed(u)'
      BY DEF LateRead, Placed, CountersInv, CountersTyped
    <2> QED
      BY <2>1, SlotsAlone DEF LateRead
  <1>3. DeadOwned'
    BY DEF LateRead, TouchesDead, Spoiled, DeadUnwritten, CountersInv, CountersTyped, DeadOwned
  <1>4. AllCounted' /\ ReadSound'
    <2>1. readVars' = readVars /\ maxthreads' = maxthreads
      BY DEF LateRead, readVars
    <2>2. Watched' => Watched /\ Unsettled' = {}
      BY NobodyMoves DEF LateRead, Watched, Reading, readVars, Unsettled, CountersInv, CountersTyped
    <2>3. dead' = dead /\ shared' = shared /\ count' = count /\ dead \in Nat /\ shared \in Nat
      BY DEF LateRead, CountersInv, CountersTyped
    <2> QED
      BY <1>2, <2>1, <2>2, <2>3, Untouched
  <1> QED
    BY <1>2, <1>3, <1>4 DEF CountersInv

LEMMA LateWriteKeeps ==
    ASSUME CountersInv, CountersTyped', NEW t \in Worker, LateWrite(t)
    PROVE  CountersInv'
  <1>0. cpc[t] = "late" /\ ctmp[t] = dead /\ dead \in Nat /\ dead' = dead + 1
    BY DEF LateWrite, CountersInv, CountersTyped, DeadOwned
  <1>2. SlotsOwned' /\ \A i \in Slot : Credit'[i] = Credit[i]
    <2>1. \A u \in Worker : cpc'[u] # cpc[u] => ~ Placed(u) /\ ~ Placed(u)'
      BY DEF LateWrite, Placed, CountersInv, CountersTyped
    <2> QED
      BY <2>1, SlotsAlone DEF LateWrite
  <1>3. DeadOwned'
    BY <1>0 DEF LateWrite, CountersInv, CountersTyped, DeadOwned
  <1>4. AllCounted' /\ ReadSound'
    <2>1. readVars' = readVars /\ maxthreads' = maxthreads
      BY DEF LateWrite, readVars
    <2>2. Watched' => Watched /\ Unsettled' = {}
      BY NobodyMoves DEF LateWrite, Watched, Reading, readVars, Unsettled, CountersInv, CountersTyped
    <2>3. shared' = shared /\ count' = count + 1 /\ shared \in Nat /\ count \in Int
      BY DEF LateWrite, CountersInv, CountersTyped
    <2>4. dead' + shared' + count = dead + shared + count' /\ dead' >= dead /\ shared' >= shared
      BY <1>0, <2>3
    <2> QED
      BY <1>2, <2>1, <2>2, <2>4, Untouched
  <1> QED
    BY <1>2, <1>3, <1>4 DEF CountersInv

LEMMA GoneKeeps ==
    ASSUME CountersInv, CountersTyped', NEW t \in Worker, Gone(t)
    PROVE  CountersInv'
  <1>2. SlotsOwned' /\ \A i \in Slot : Credit'[i] = Credit[i]
    <2>1. \A u \in Worker : cpc'[u] # cpc[u] => ~ Placed(u) /\ ~ Placed(u)'
      BY DEF Gone, tally, updateVars, Placed, CountersInv, CountersTyped
    <2> QED
      BY <2>1, SlotsAlone DEF Gone, tally, updateVars
  <1>3. DeadOwned'
    BY DEF Gone, tally, updateVars, CountersInv, CountersTyped, DeadOwned
  <1>4. AllCounted' /\ ReadSound'
    <2>1. readVars' = readVars /\ maxthreads' = maxthreads
      BY DEF Gone, tally, updateVars, readVars
    <2>2. Watched' => Watched /\ Unsettled' = {}
      BY NobodyMoves DEF Gone, tally, updateVars, Watched, Reading, readVars, Unsettled, CountersInv, CountersTyped
    <2>3. dead' = dead /\ shared' = shared /\ count' = count /\ dead \in Nat /\ shared \in Nat
      BY DEF Gone, tally, updateVars, CountersInv, CountersTyped
    <2> QED
      BY <1>2, <2>1, <2>2, <2>3, Untouched
  <1> QED
    BY <1>2, <1>3, <1>4 DEF CountersInv

(* Where a thread that has a slot is at. *)
LEMMA OwnSlot ==
    ASSUME CountersInv, NEW t \in Worker, Placed(t), cpc[t] # "starting"
    PROVE  /\ slot[t] \in Allocated \ {0} /\ slot[t] \in Slot /\ "used" \in state[gen][slot[t]]
           /\ \A u \in Worker \ {t} : Placed(u) => slot[u] # slot[t]
           /\ val[slot[t]] \in Nat
  BY CounterSizes DEF CountersInv, SlotsOwned, IsUsed, CountersTyped

LEMMA FiniCombineKeeps ==
    ASSUME CountersInv, CountersTyped', ~ Spoiled', NEW t \in Worker, FiniCombine(t)
    PROVE  CountersInv'
  <1> DEFINE s == slot[t]
  <1>1. /\ s \in Allocated \ {0} /\ s \in Slot /\ "used" \in state[gen][s] /\ val[s] \in Nat
        /\ \A u \in Worker \ {t} : Placed(u) => slot[u] # s
    BY OwnSlot DEF FiniCombine, updateVars, Placed
  <1>3. /\ cpc' = [cpc EXCEPT ![t] = "merging"] /\ cpc'[t] = "merging" /\ cpc[t] = "on"
        /\ UNCHANGED <<maxthreads, state, gen, val, dead, shared, slot, ptr, count>>
        /\ ctmp'[t] = dead + val[s] /\ lock' = t
    BY DEF FiniCombine, updateVars, CountersInv, CountersTyped
  <1>4. AtSlot(t, s)
    BY <1>1, <1>3 DEF AtSlot, CountersInv, CountersTyped
  <1>5. Credit'[s] = Credit[s]
    <2>1. ~ Spent(s) /\ ~ Spent(s)'
      BY <1>1, <1>3 DEF Spent, Placed, CountersInv, CountersTyped
    <2> QED
      BY <1>1, <1>3, <2>1 DEF Credit, IsUsed
  <1>6. DeadOwned'
    <2>1. DeadUnwritten
      BY DEF FiniCombine, TouchesDead, Spoiled
    <2> QED
      BY <1>3, <2>1 DEF DeadUnwritten, CountersInv, CountersTyped, DeadOwned
  <1> HIDE DEF s
  <1>7. state[gen][s] = Static => val[s] = 0
    BY <1>1 DEF Static
  <1>8. SlotsOwned' /\ \A i \in Slot \ {s} : Credit'[i] = Credit[i]
    BY <1>1, <1>3, <1>4, <1>7, AtSlotKeeps
  <1>9. AllCounted' /\ ReadSound'
    <2>1. ~ Watched'
      BY <1>3, CountersAssumption DEF Watched, Reading, CountersInv
    <2>2. readVars' = readVars
      BY DEF FiniCombine, updateVars, readVars
    <2>3. \A i \in Slot : Credit'[i] = Credit[i]
      BY <1>5, <1>8
    <2> QED
      BY <1>3, <2>1, <2>2, <2>3, Untouched
  <1> QED
    BY <1>6, <1>8, <1>9 DEF CountersInv

LEMMA FiniUnlockKeeps ==
    ASSUME CountersInv, CountersTyped', NEW t \in Worker, FiniUnlock(t)
    PROVE  CountersInv'
  <1> DEFINE s == slot[t]
  <1>1. /\ s \in Allocated \ {0} /\ s \in Slot /\ "used" \in state[gen][s] /\ val[s] \in Nat
        /\ \A u \in Worker \ {t} : Placed(u) => slot[u] # s
    BY OwnSlot DEF FiniUnlock, tally, updateVars, Placed
  <1>2. /\ cpc' = [cpc EXCEPT ![t] = "merged"] /\ cpc'[t] = "merged" /\ cpc[t] = "merging"
        /\ UNCHANGED <<maxthreads, state, gen, val, shared, slot, ptr, count, readVars>>
        /\ dead' = dead + val[s] /\ lock' = NoThread /\ dead \in Nat /\ shared \in Nat /\ count \in Int
    BY DEF FiniUnlock, tally, updateVars, CountersInv, CountersTyped, DeadOwned
  <1>4. AtSlot(t, s)
    BY <1>1, <1>2 DEF AtSlot, CountersInv, CountersTyped
  <1>5. Credit'[s] = 0 /\ Credit[s] = val[s]
    <2>1. ~ Spent(s) /\ Spent(s)'
      BY <1>1, <1>2 DEF Spent, Placed, CountersInv, CountersTyped
    <2> QED
      BY <1>1, <1>2, <2>1 DEF Credit, IsUsed
  <1>6. DeadOwned'
    BY <1>2 DEF FiniUnlock, tally, updateVars, CountersInv, CountersTyped, DeadOwned
  <1> HIDE DEF s
  <1>7. state[gen][s] = Static => val[s] = 0
    BY <1>1 DEF Static
  <1>8. SlotsOwned' /\ \A i \in Slot \ {s} : Credit'[i] = Credit[i]
    BY <1>1, <1>2, <1>4, <1>7, AtSlotKeeps
  <1>9. AllCounted' /\ ReadSound'
    <2>1. ~ Watched'
      BY <1>2, CountersAssumption DEF Watched, Reading, CountersInv
    <2>2. Credit'[s] + dead' + shared' + count = Credit[s] + dead + shared + count'
      BY <1>1, <1>2, <1>5
    <2>3. \A i \in Slot : i # s => Credit'[i] = Credit[i]
      BY <1>8
    <2> QED
      BY <1>1, <1>2, <2>1, <2>2, <2>3, Books
  <1> QED
    BY <1>6, <1>8, <1>9 DEF CountersInv

LEMMA FiniLoadKeeps ==
    ASSUME CountersInv, CountersTyped', NEW t \in Worker, FiniLoad(t)
    PROVE  CountersInv'
  <1> DEFINE s == slot[t]
  <1>1. /\ s \in Allocated \ {0} /\ s \in Slot /\ "used" \in state[gen][s] /\ val[s] \in Nat
        /\ \A u \in Worker \ {t} : Placed(u) => slot[u] # s
    BY OwnSlot DEF FiniLoad, tally, updateVars, Placed
  <1>2. /\ cpc' = [cpc EXCEPT ![t] = "leaving"] /\ cpc'[t] = "leaving" /\ cpc[t] = "merged"
        /\ ptr' = [ptr EXCEPT ![t] = gen] /\ ptr'[t] = gen
        /\ UNCHANGED <<maxthreads, state, gen, dead, shared, lock, slot, ctmp, count, readVars>>
        /\ val' \in [Slot -> Nat] /\ \A i \in Slot \ {s} : val'[i] = val[i]
        /\ "static" \in state[gen][s] => val'[s] = 0
    BY <1>1 DEF FiniLoad, tally, updateVars, CountersInv, CountersTyped
  <1>4. AtSlot(t, s)
    BY <1>1, <1>2 DEF AtSlot, CountersInv, CountersTyped
  <1>5. Credit'[s] = 0 /\ Credit[s] = 0
    <2>1. Spent(s) /\ Spent(s)'
      BY <1>1, <1>2 DEF Spent
    <2> QED
      BY <1>1, <1>2, <2>1 DEF Credit
  <1>6. DeadOwned'
    <2>1. \A u \in Worker : u # t => cpc'[u] = cpc[u] /\ (Placed(u) => val'[slot[u]] = val[slot[u]])
      BY <1>1, <1>2 DEF CountersInv, CountersTyped
    <2>2. \A u \in Worker : cpc'[u] \in {"merging", "late"} => u # t /\ cpc'[u] = cpc[u]
      BY <1>2, <2>1
    <2> QED
      BY <1>2, <2>1, <2>2 DEF CountersInv, DeadOwned, Placed
  <1> HIDE DEF s
  <1>7. state[gen][s] = Static => val'[s] = 0
    BY <1>2 DEF Static
  <1>8. SlotsOwned' /\ \A i \in Slot \ {s} : Credit'[i] = Credit[i]
    BY <1>1, <1>2, <1>4, <1>7, AtSlotKeeps
  <1>9. AllCounted' /\ ReadSound'
    <2>1. ~ Watched'
      BY <1>2, NobodyMoves DEF Watched, Reading, readVars
    <2>2. \A i \in Slot : Credit'[i] = Credit[i]
      BY <1>5, <1>8
    <2> QED
      BY <1>2, <2>1, <2>2, Untouched
  <1> QED
    BY <1>6, <1>8, <1>9 DEF CountersInv

LEMMA FiniStoreKeeps ==
    ASSUME CountersInv, CountersTyped', NEW t \in Worker, FiniStore(t)
    PROVE  CountersInv'
  <1> DEFINE s == slot[t]
             v == state[gen][s] \intersect Static
  <1>1. /\ s \in Allocated \ {0} /\ s \in Slot /\ "used" \in state[gen][s] /\ val[s] \in Nat
        /\ \A u \in Worker \ {t} : Placed(u) => slot[u] # s
    BY OwnSlot DEF FiniStore, tally, updateVars, Placed
  <1>2. /\ cpc' = [cpc EXCEPT ![t] = "off"] /\ cpc'[t] = "off" /\ cpc[t] = "leaving"
        /\ ptr' = [ptr EXCEPT ![t] = 0] /\ slot' = [slot EXCEPT ![t] = 0]
        /\ UNCHANGED <<maxthreads, gen, val, dead, shared, lock, ctmp, count, readVars>>
        /\ SetState(gen, s, v)
        /\ "static" \in state[gen][s] => val[s] = 0
    BY DEF FiniStore, tally, updateVars, CountersInv, CountersTyped, SlotsOwned
  <1>3. /\ state' \in [0 .. gen' -> [Slot -> Bits]]
        /\ \A i \in Slot : state'[gen'][i] = IF i = s THEN v ELSE state[gen][i]
    <2>1. v \in Bits
      BY DEF Bits, Static
    <2>2. gen' = gen /\ CountersTyped
      BY <1>2 DEF CountersInv
    <2> QED
      BY <1>1, <1>2, <2>1, <2>2, StateSet
  <1>5. AtSlot(t, s)
    BY <1>1, <1>2, <1>3 DEF AtSlot, Placed, CountersInv, CountersTyped
  <1>6. Credit'[s] = 0 /\ Credit[s] = 0
    <2>1. PICK i \in Slot : i = s
      BY <1>1
    <2>2. Spent(i) /\ "used" \notin state'[gen'][i]
      BY <1>2, <1>3, <2>1 DEF Spent, Static
    <2>3. Credit'[i] = 0 /\ Credit[i] = 0
      BY <2>2 DEF Credit, IsUsed
    <2> QED
      BY <2>1, <2>3
  <1>7. DeadOwned'
    BY <1>2 DEF CountersInv, CountersTyped, DeadOwned
  <1>8. v = Static => val[s] = 0
    BY <1>2 DEF Static
  <1> HIDE DEF s, v
  <1>9. SlotsOwned' /\ \A i \in Slot \ {s} : Credit'[i] = Credit[i]
    BY <1>1, <1>2, <1>3, <1>5, <1>8, AtSlotKeeps DEF Placed
  <1>10. AllCounted' /\ ReadSound'
    <2>1. ~ Watched'
      BY <1>2, NobodyMoves DEF Watched, Reading, readVars
    <2>2. \A i \in Slot : Credit'[i] = Credit[i]
      BY <1>6, <1>9
    <2> QED
      BY <1>2, <2>1, <2>2, Untouched
  <1> QED
    BY <1>7, <1>9, <1>10 DEF CountersInv

LEMMA PrepareReuseKeeps ==
    ASSUME CountersInv, CountersTyped', PrepareReuse
    PROVE  CountersInv'
  <1>1. PICK s \in Allocated : state[gen][s] = None /\ SetState(gen, s, Dynamic)
    BY DEF PrepareReuse, tally, updateVars
  <1>2. s \in Slot /\ s # 0 /\ \A u \in Worker : Placed(u) => slot[u] # s
    <2>1. \A u \in Worker : Placed(u) => state[gen][slot[u]] # None
      BY DEF CountersInv, SlotsOwned, IsUsed, None, Static
    <2>2. state[gen][0] # None
      BY DEF CountersInv, SlotsOwned, None, Static
    <2> QED
      BY <1>1, <2>1, <2>2, CounterSizes DEF CountersInv
  <1>3. /\ state' \in [0 .. gen' -> [Slot -> Bits]]
        /\ \A i \in Slot : state'[gen'][i] = IF i = s THEN Dynamic ELSE state[gen][i]
    <2>1. Dynamic \in Bits
      BY DEF Bits, Dynamic
    <2>2. gen' = gen /\ CountersTyped
      BY DEF PrepareReuse, tally, updateVars, CountersInv
    <2> QED
      BY <1>1, <1>2, <2>1, <2>2, StateSet
  <1>4. UNCHANGED <<maxthreads, gen, val, dead, shared, lock, cpc, slot, ctmp, ptr, readVars, count>>
    BY DEF PrepareReuse, tally, updateVars
  <1>6. SlotsOwned'
    <2>1. Allocated' = Allocated /\ Allocated \subseteq Slot /\ 0 \in Allocated
      BY <1>4, CounterSizes DEF Allocated, CountersInv
    <2>2. \A u \in Worker : Placed(u)' = Placed(u)
      BY <1>4 DEF Placed
    <2>3. \A u \in Worker : Placed(u) => slot[u] \in Slot /\ state'[gen'][slot[u]] = state[gen][slot[u]]
      BY <1>2, <1>3 DEF CountersInv, CountersTyped
    <2>4. \A u \in Worker : Placed(u) => /\ (cpc[u] = "starting" \/ "used" \in state'[gen'][slot[u]])
                                          /\ slot[u] \in Allocated \ {0}
      BY <2>3 DEF CountersInv, SlotsOwned, IsUsed
    <2>8. \A u \in Worker : cpc[u] = "starting" => ptr[u] = gen /\ state'[gen'][slot[u]] = Static
      BY <2>3 DEF CountersInv, SlotsOwned, Placed
    <2>5. \A u \in Worker : cpc[u] = "leaving" => /\ ptr[u] = gen
                                                   /\ "static" \in state'[gen'][slot[u]] => val[slot[u]] = 0
      BY <2>3 DEF CountersInv, SlotsOwned, Placed
    <2>6. \A i \in Allocated : state'[gen'][i] = Static => val[i] = 0
      BY <1>3, <2>1 DEF CountersInv, SlotsOwned, Static, Dynamic
    <2>7. state'[gen'][0] = Static \union Used
      BY <1>2, <1>3, <2>1 DEF CountersInv, SlotsOwned
    <2> QED
      BY <1>4, <2>1, <2>2, <2>4, <2>5, <2>6, <2>7, <2>8 DEF CountersInv, SlotsOwned, IsUsed
  <1>7. DeadOwned'
    BY <1>4 DEF CountersInv, DeadOwned
  <1>8. \A i \in Slot : Credit'[i] = Credit[i]
    <2>1. \A i \in Slot : IsUsed(i)' <=> IsUsed(i)
      BY <1>1, <1>3 DEF IsUsed, None, Dynamic
    <2>2. \A i \in Slot : Spent(i)' <=> Spent(i)
      BY <1>4 DEF Spent
    <2> QED
      BY <1>4, <2>1, <2>2 DEF Credit
  <1>9. ~ Watched'
    BY CountersAssumption DEF PrepareReuse, tally, updateVars, Watched, Reading, CountersInv
  <1>10. AllCounted' /\ ReadSound'
    BY <1>4, <1>8, <1>9, Untouched
  <1> QED
    BY <1>6, <1>7, <1>10 DEF CountersInv

LEMMA PrepareGrowKeeps ==
    ASSUME CountersInv, CountersTyped', ~ Spoiled', PrepareGrow
    PROVE  CountersInv'
  <1>1. /\ MaxSlots \in Nat /\ maxthreads \in 1 .. MaxSlots /\ maxthreads < MaxSlots
        /\ Slot = 0 .. MaxSlots - 1 /\ Allocated = 0 .. maxthreads - 1 /\ maxthreads \in Slot
    BY CounterSizes DEF CountersInv, PrepareGrow, updateVars
  <1>2. /\ maxthreads' = maxthreads + 1 /\ gen' = gen + 1 /\ StateUnwritten /\ lock = NoThread
        /\ UNCHANGED <<dead, shared, lock, cpc, slot, ctmp, ptr, readVars, count>>
    BY DEF PrepareGrow, updateVars, Spoiled
  <1>3. PICK v \in Garbage : val' = [val EXCEPT ![maxthreads] = v]
    BY DEF PrepareGrow, updateVars
  <1>4. gen \in Nat /\ state \in [0 .. gen -> [Slot -> Bits]] /\ state[gen] \in [Slot -> Bits]
    <2>1. gen \in Nat /\ state \in [0 .. gen -> [Slot -> Bits]]
      BY DEF CountersInv, CountersTyped, Bits
    <2> QED
      BY <2>1
  <1>5. state'[gen'] = [state[gen] EXCEPT ![maxthreads] = Dynamic]
    BY <1>2, <1>4 DEF PrepareGrow, updateVars
  <1>6. state' \in [0 .. gen' -> [Slot -> Bits]]
    <2>1. [state[gen] EXCEPT ![maxthreads] = Dynamic] \in [Slot -> Bits]
      BY <1>4 DEF Bits, Dynamic
    <2>2. \A g \in 0 .. gen + 1 : g <= gen => g \in 0 .. gen /\ state[g] \in [Slot -> Bits]
      BY <1>4
    <2> QED
      BY <1>2, <2>1, <2>2 DEF PrepareGrow, updateVars
  <1>7. val' \in [Slot -> Nat] /\ \A i \in Slot : i # maxthreads => val'[i] = val[i]
    BY <1>3, CountersAssumption DEF CountersInv, CountersTyped
  <1>9. \A i \in Slot : state'[gen'][i] = IF i = maxthreads THEN Dynamic ELSE state[gen][i]
    BY <1>4, <1>5
  <1>10. \A u \in Worker : cpc[u] \notin {"starting", "merging", "leaving"}
    BY <1>2, CountersAssumption DEF StateUnwritten, CountersInv, DeadOwned
  <1>11. SlotsOwned'
    <2>1. Allocated' = 0 .. maxthreads /\ \A i \in Allocated' : i \in Slot /\ (i # maxthreads => i \in Allocated)
      BY <1>1, <1>2 DEF Allocated
    <2>2. \A u \in Worker : Placed(u)' = Placed(u)
      BY <1>2 DEF Placed
    <2>3. \A u \in Worker : Placed(u) => slot[u] \in Allocated \ {0} /\ "used" \in state[gen][slot[u]]
      BY <1>10 DEF CountersInv, SlotsOwned, IsUsed
    <2>4. \A u \in Worker : Placed(u) => slot[u] \in Allocated' \ {0} /\ "used" \in state'[gen'][slot[u]]
      BY <1>1, <1>9, <2>1, <2>3
    <2>5. \A i \in Allocated' : state'[gen'][i] = Static => val'[i] = 0
      <3>1. ASSUME NEW i \in Allocated', state'[gen'][i] = Static PROVE val'[i] = 0
        <4>1. i # maxthreads
          BY <1>9, <2>1, <3>1 DEF Static, Dynamic
        <4> QED
          BY <1>7, <1>9, <2>1, <3>1, <4>1 DEF CountersInv, SlotsOwned
      <3> QED
        BY <3>1
    <2>6. state'[gen'][0] = Static \union Used
      BY <1>1, <1>9 DEF CountersInv, SlotsOwned
    <2>7. \A u \in Worker : cpc'[u] \notin {"starting", "leaving"}
      BY <1>2, <1>10
    <2> QED
      BY <1>2, <2>2, <2>4, <2>5, <2>6, <2>7 DEF CountersInv, SlotsOwned, IsUsed
  <1>12. DeadOwned'
    BY <1>2, <1>10 DEF CountersInv, DeadOwned
  <1>13. Credit'[maxthreads] = 0 /\ \A i \in Slot : i # maxthreads => Credit'[i] = Credit[i]
    <2>1. \A i \in Slot : Spent(i)' <=> Spent(i)
      BY <1>2 DEF Spent
    <2>2. "used" \notin state'[gen'][maxthreads]
      BY <1>1, <1>9 DEF Dynamic
    <2>3. PICK m \in Slot : m = maxthreads
      BY <1>1
    <2>4. Credit'[m] = 0
      BY <2>2, <2>3 DEF Credit, IsUsed
    <2> QED
      BY <1>7, <1>9, <2>1, <2>3, <2>4 DEF Credit, IsUsed
  <1>14. SumTo(Credit', maxthreads') = SumTo(Credit, maxthreads)
    <2>1. Credit \in [0 .. MaxSlots - 1 -> Nat] /\ Credit' \in [0 .. MaxSlots - 1 -> Nat]
      BY CreditTyped, CreditTypedNext DEF CountersInv
    <2>2. maxthreads \in 0 .. MaxSlots - 1 /\ maxthreads \in 0 .. MaxSlots
      BY <1>1
    <2>3. SumTo(Credit', maxthreads + 1) = SumTo(Credit', maxthreads) + Credit'[maxthreads]
      BY <1>1, <2>1, <2>2, SumStep
    <2>4. \A i \in 0 .. maxthreads - 1 : Credit'[i] = Credit[i]
      BY <1>1, <1>13
    <2>5. SumTo(Credit', maxthreads) = SumTo(Credit, maxthreads)
      BY <1>1, <2>1, <2>2, <2>4, SumOfSame
    <2>6. SumTo(Credit, maxthreads) \in Nat
      BY <1>1, <2>1, <2>2, SumStep
    <2> QED
      BY <1>2, <1>13, <2>3, <2>5, <2>6
  <1>15. AllCounted'
    BY <1>2, <1>14 DEF CountersInv, AllCounted
  <1>16. ReadSound'
    BY <1>2, CountersAssumption DEF ReadSound, Watched, Reading, CountersInv
  <1> QED
    BY <1>11, <1>12, <1>15, <1>16 DEF CountersInv

(* Reading leaves all but the sum as it is. *)
LEMMA ReadingKeeps ==
    ASSUME CountersInv, CountersTyped',
           UNCHANGED <<maxthreads, state, gen, val, dead, shared, cpc, slot, ctmp, ptr, count>>,
           \A t \in Worker : lock = t => lock' = t,
           ReadSound'
    PROVE  CountersInv'
  <1>1. SlotsOwned' /\ \A i \in Slot : Credit'[i] = Credit[i]
    BY SlotsAlone
  <1>2. DeadOwned'
    BY DEF CountersInv, DeadOwned
  <1>3. Credit' = Credit
    BY <1>1 DEF Credit
  <1>4. AllCounted'
    BY <1>3 DEF CountersInv, AllCounted
  <1> QED
    BY <1>1, <1>2, <1>4 DEF CountersInv

LEMMA ReadStartKeeps ==
    ASSUME CountersInv, CountersTyped', ReadStart
    PROVE  CountersInv'
  <1>2. /\ UNCHANGED <<maxthreads, state, gen, val, dead, shared, cpc, slot, ctmp, ptr, count>>
        /\ sum' = 0 /\ at' = 0 /\ low' = count /\ clear' = (Unsettled = {})
        /\ maxthreads \in 1 .. MaxSlots /\ MaxSlots \in Nat
    BY CounterSizes DEF ReadStart, updateVars, CountersInv
  <1>3. \A t \in Worker : lock # t
    BY CountersAssumption DEF ReadStart, updateVars, CountersInv
  <1>4. Credit' = Credit /\ Unsettled' = Unsettled
    BY <1>2 DEF Credit, Spent, IsUsed, Unsettled
  <1>5. SumTo(Credit, 0) = 0 /\ SumTo(Credit, maxthreads) \in Nat
    <2>1. Credit \in [0 .. MaxSlots - 1 -> Nat] /\ maxthreads \in 0 .. MaxSlots
      BY <1>2, CreditTyped DEF CountersInv
    <2> QED
      BY <1>2, <2>1, SumStep
  <1>6. 0 <= SumTo(Credit, 0) /\ count <= 0 + (SumTo(Credit, maxthreads) - SumTo(Credit, 0)) + dead + shared
    <2>1. dead \in Nat /\ shared \in Nat /\ count = SumTo(Credit, maxthreads) + dead + shared
      BY DEF CountersInv, AllCounted, CountersTyped
    <2> QED
      BY <1>5, <2>1
  <1>7. ReadSound'
    <2> SUFFICES ASSUME Watched' PROVE ReadSound'
      BY DEF ReadSound
    <2>1. Unsettled' = {}
      BY <1>2, <1>4 DEF Watched
    <2>2. at' <= maxthreads' + 1 /\ ~ (at' > maxthreads')
      BY <1>2
    <2> QED
      BY <1>2, <1>4, <1>6, <2>1, <2>2 DEF ReadSound
  <1> QED
    BY <1>2, <1>3, <1>7, ReadingKeeps

LEMMA ReadSlotKeeps ==
    ASSUME CountersInv, CountersTyped', ReadSlot
    PROVE  CountersInv'
  <1>1. /\ UNCHANGED <<maxthreads, state, gen, val, dead, shared, lock, cpc, slot, ctmp, ptr, low, clear, count>>
        /\ at' = at + 1 /\ at \in 0 .. maxthreads - 1 /\ at \in Slot
        /\ maxthreads \in 1 .. MaxSlots /\ MaxSlots \in Nat
    BY CounterSizes DEF ReadSlot, updateVars, CountersInv
  <1>2. ASSUME Watched' PROVE ReadSound'
    <2>1. Watched
      BY <1>1, <1>2 DEF Watched, Reading
    <2>2. Credit' = Credit /\ Unsettled' = Unsettled /\ Unsettled = {}
      BY <1>1, <2>1 DEF Credit, Spent, IsUsed, Unsettled, CountersInv, ReadSound
    <2>3. sum' = sum + Credit[at]
      <3>1. ~ Spent(at)
        BY <2>1, NobodyMoves DEF Spent
      <3> QED
        BY <1>1, <3>1 DEF ReadSlot, Credit, CountersInv, CountersTyped
    <2>4. /\ SumTo(Credit, at + 1) = SumTo(Credit, at) + Credit[at] /\ Credit[at] \in Nat
          /\ SumTo(Credit, at) \in Nat /\ SumTo(Credit, maxthreads) \in Nat
      <3>1. Credit \in [0 .. MaxSlots - 1 -> Nat]
        BY CreditTyped DEF CountersInv
      <3>2. at \in 0 .. MaxSlots - 1 /\ at \in 0 .. MaxSlots /\ maxthreads \in 0 .. MaxSlots
        BY <1>1
      <3> QED
        BY <1>1, <3>1, <3>2, SumStep
    <2>5. /\ sum <= SumTo(Credit, at)
          /\ low <= sum + (SumTo(Credit, maxthreads) - SumTo(Credit, at)) + dead + shared
          /\ sum \in Nat /\ low \in Int /\ dead \in Nat /\ shared \in Nat
      BY <1>1, <2>1 DEF CountersInv, ReadSound, CountersTyped
    <2>6. /\ sum' <= SumTo(Credit, at + 1)
          /\ low <= sum' + (SumTo(Credit, maxthreads) - SumTo(Credit, at + 1)) + dead + shared
      BY <2>3, <2>4, <2>5
    <2> QED
      BY <1>1, <2>2, <2>6 DEF ReadSound
  <1>3. ReadSound'
    BY <1>2 DEF ReadSound
  <1> QED
    BY <1>1, <1>3, ReadingKeeps

LEMMA ReadDeadAndSharedKeeps ==
    ASSUME CountersInv, CountersTyped', ReadDeadAndShared
    PROVE  CountersInv'
  <1>1. /\ UNCHANGED <<maxthreads, state, gen, val, dead, shared, lock, cpc, slot, ctmp, ptr, low, clear, count>>
        /\ at' = at + 1 /\ at = maxthreads /\ sum' = sum + dead + shared
        /\ maxthreads \in 1 .. MaxSlots /\ MaxSlots \in Nat
    BY CounterSizes DEF ReadDeadAndShared, updateVars, CountersInv
  <1>2. ASSUME Watched' PROVE ReadSound'
    <2>1. Watched
      BY <1>1, <1>2 DEF Watched, Reading
    <2>2. Unsettled' = Unsettled /\ Unsettled = {}
      BY <1>1, <2>1 DEF Unsettled, CountersInv, ReadSound
    <2>3. SumTo(Credit, maxthreads) \in Nat
      <3>1. Credit \in [0 .. MaxSlots - 1 -> Nat] /\ maxthreads \in 0 .. MaxSlots
        BY <1>1, CreditTyped DEF CountersInv
      <3> QED
        BY <1>1, <3>1, SumStep
    <2>4. /\ sum <= SumTo(Credit, maxthreads)
          /\ low <= sum + (SumTo(Credit, maxthreads) - SumTo(Credit, maxthreads)) + dead + shared
          /\ SumTo(Credit, maxthreads) + dead + shared = count
          /\ sum \in Nat /\ low \in Int /\ dead \in Nat /\ shared \in Nat /\ count \in Int
      BY <1>1, <2>1 DEF CountersInv, ReadSound, CountersTyped, AllCounted
    <2>5. sum' \in low .. count
      BY <1>1, <2>3, <2>4
    <2> QED
      BY <1>1, <2>2, <2>5 DEF ReadSound
  <1>3. ReadSound'
    BY <1>2 DEF ReadSound
  <1> QED
    BY <1>1, <1>3, ReadingKeeps

LEMMA ReadEndKeeps ==
    ASSUME CountersInv, CountersTyped', ReadEnd
    PROVE  CountersInv'
  <1>2. UNCHANGED <<maxthreads, state, gen, val, dead, shared, cpc, slot, ctmp, ptr, count>>
    BY DEF ReadEnd, updateVars
  <1>3. ReadSound' /\ \A t \in Worker : lock # t
    BY CountersAssumption DEF ReadEnd, updateVars, Watched, Reading, ReadSound, CountersInv
  <1> QED
    BY <1>2, <1>3, ReadingKeeps
-----------------------------------------------------------------------------
(* The theorem. *)

(* The types hold whether or not a count is spoiled. *)
LEMMA TypedStep ==
    ASSUME CountersTyped, [CountersNext]_counterVars
    PROVE  CountersTyped'
  <1>1. /\ gen \in Nat /\ 0 \in 0 .. gen /\ gen \in 0 .. gen /\ 0 \in Slot /\ Allocated \subseteq Slot
        /\ state \in [0 .. gen -> [Slot -> Bits]]
    BY CounterSizes DEF CountersTyped, Bits
  <1>2. \A t \in Worker : /\ ptr[t] \in 0 .. gen /\ slot[t] \in Slot /\ val[slot[t]] \in Nat /\ ctmp[t] \in Nat
                           /\ state[ptr[t]][slot[t]] \in Bits
    BY <1>1 DEF CountersTyped
  <1>3. ASSUME NEW g \in 0 .. gen, NEW s \in Slot, NEW v \in Bits, SetState(g, s, v)
        PROVE  state' \in [0 .. gen -> [Slot -> Bits]]
    <2>1. state' = [state EXCEPT ![g] = [state[g] EXCEPT ![s] = v]]
      BY <1>3, <1>1 DEF SetState
    <2> QED
      BY <1>1, <2>1
  <1>4. ASSUME NEW t \in Worker, NEW s \in Slot, InitThread(t, s) PROVE CountersTyped'
    BY <1>1, <1>4 DEF InitThread, CountersTyped, tally, readVars, updateVars
  <1>5. ASSUME NEW t \in Worker, InitStore(t) PROVE CountersTyped'
    <2>1. state[ptr[t]][slot[t]] \union Used \in Bits
      BY <1>2 DEF Bits, Used
    <2>2. state' \in [0 .. gen -> [Slot -> Bits]]
      BY <1>2, <1>3, <1>5, <2>1 DEF InitStore
    <2> QED
      BY <1>1, <1>5, <2>2 DEF InitStore, CountersTyped, Bits, tally, readVars, updateVars
  <1>6. ASSUME NEW t \in Worker, InitDynamicThread(t) PROVE CountersTyped'
    <2>1. PICK s \in Slot : slot' = [slot EXCEPT ![t] = s] /\ SetState(gen, s, Dynamic \union Used)
      BY <1>1, <1>6 DEF InitDynamicThread
    <2>2. Dynamic \union Used \in Bits
      BY DEF Bits, Dynamic, Used
    <2>3. state' \in [0 .. gen -> [Slot -> Bits]]
      BY <1>1, <1>3, <2>1, <2>2
    <2> QED
      BY <1>6, <2>1, <2>3 DEF InitDynamicThread, CountersTyped, Bits, tally, readVars, updateVars
  <1>7. ASSUME NEW t \in Worker, ClearBlock(t) \/ FiniUnlock(t) \/ FiniLoad(t) \/ Gone(t) PROVE CountersTyped'
    <2>1. CASE ClearBlock(t)
      BY <1>2, <2>1 DEF ClearBlock, CountersTyped, tally, readVars, updateVars
    <2>2. CASE FiniUnlock(t)
      BY <1>2, <2>2 DEF FiniUnlock, CountersTyped, tally, readVars, updateVars
    <2>3. CASE FiniLoad(t)
      BY <1>1, <1>2, <2>3 DEF FiniLoad, CountersTyped, tally, readVars, updateVars
    <2>4. CASE Gone(t)
      BY <2>4 DEF Gone, CountersTyped, tally, readVars, updateVars
    <2> QED
      BY <1>7, <2>1, <2>2, <2>3, <2>4
  <1>8. ASSUME NEW s \in Slot, CountOwn(s) \/ ZeroOwn(s) PROVE CountersTyped'
    <2>1. val[s] \in Nat /\ count \in Int /\ updates \in Nat
      BY <1>8 DEF CountersTyped
    <2>2. updates' \in 0 .. MaxUpdates /\ count' \in Int
      BY <1>8, <2>1, CountersAssumption DEF CountOwn, ZeroOwn, Updated, CountersTyped
    <2>3. CASE CountOwn(s)
      BY <2>1, <2>2, <2>3 DEF CountOwn, CountersTyped, readVars
    <2>4. CASE ZeroOwn(s)
      BY <2>1, <2>2, <2>4 DEF ZeroOwn, CountersTyped, Reading
    <2> QED
      BY <1>8, <2>3, <2>4
  <1>9. ASSUME NEW t \in Worker, LateRead(t) \/ LateWrite(t) \/ ZeroDead(t) \/ FiniCombine(t) PROVE CountersTyped'
    <2>1. dead \in Nat /\ count \in Int /\ updates \in Nat
      BY DEF CountersTyped
    <2>6. collided' \in BOOLEAN
      BY <1>9 DEF LateRead, LateWrite, ZeroDead, FiniCombine, TouchesDead, CountersTyped
    <2>2. CASE LateRead(t)
      BY <2>1, <2>6, <2>2, CountersAssumption DEF LateRead, CountersTyped, readVars
    <2>3. CASE LateWrite(t)
      BY <1>2, <2>1, <2>6, <2>3 DEF LateWrite, CountersTyped, readVars
    <2>4. CASE ZeroDead(t)
      BY <2>1, <2>6, <2>4, CountersAssumption DEF ZeroDead, Updated, CountersTyped, Reading
    <2>5. CASE FiniCombine(t)
      BY <1>2, <2>1, <2>6, <2>5 DEF FiniCombine, CountersTyped, readVars, updateVars
    <2> QED
      BY <1>9, <2>2, <2>3, <2>4, <2>5
  <1>10. CASE IncrShared \/ ZeroShared
    <2>1. shared \in Nat /\ count \in Int /\ updates \in Nat
      BY DEF CountersTyped
    <2>2. CASE IncrShared
      BY <2>1, <2>2, CountersAssumption DEF IncrShared, Updated, CountersTyped, readVars
    <2>3. CASE ZeroShared
      BY <2>1, <2>3, CountersAssumption DEF ZeroShared, Updated, CountersTyped, Reading
    <2> QED
      BY <1>10, <2>2, <2>3
  <1>11. ASSUME NEW t \in Worker, FiniStore(t) PROVE CountersTyped'
    <2>1. state[ptr[t]][slot[t]] \intersect Static \in Bits
      BY <1>2 DEF Bits
    <2>2. state' \in [0 .. gen -> [Slot -> Bits]]
      BY <1>2, <1>3, <1>11, <2>1 DEF FiniStore
    <2> QED
      BY <1>1, <1>11, <2>2 DEF FiniStore, CountersTyped, Bits, tally, readVars, updateVars
  <1>12. CASE PrepareReuse
    <2>1. PICK s \in Slot : SetState(gen, s, Dynamic)
      BY <1>1, <1>12 DEF PrepareReuse
    <2>2. Dynamic \in Bits
      BY DEF Bits, Dynamic
    <2>3. state' \in [0 .. gen -> [Slot -> Bits]]
      BY <1>1, <1>3, <2>1, <2>2
    <2> QED
      BY <1>12, <2>3 DEF PrepareReuse, CountersTyped, Bits, tally, readVars, updateVars
  <1>13. CASE PrepareGrow
    <2>1. maxthreads \in Slot /\ gen' = gen + 1 /\ maxthreads' \in Statics .. MaxSlots
      BY <1>13, CountersAssumption DEF PrepareGrow, CountersTyped, Slot
    <2>2. state' \in [0 .. gen' -> [Slot -> Bits]]
      <3>1. [state[gen] EXCEPT ![maxthreads] = Dynamic] \in [Slot -> Bits]
        BY <1>1 DEF Bits, Dynamic
      <3>2. \A g \in 0 .. gen + 1 : g <= gen => g \in 0 .. gen /\ state[g] \in [Slot -> Bits]
        BY <1>1
      <3> QED
        BY <1>13, <2>1, <3>1, <3>2 DEF PrepareGrow
    <2>3. val' \in [Slot -> Nat]
      BY <1>13, CountersAssumption DEF PrepareGrow, CountersTyped
    <2>4. ptr' \in [Worker -> 0 .. gen']
      <3>1. ptr \in [Worker -> 0 .. gen] /\ 0 .. gen \subseteq 0 .. gen'
        BY <1>1, <2>1 DEF CountersTyped
      <3> QED
        BY <1>13, <3>1 DEF PrepareGrow
    <2>5. torn' \in BOOLEAN /\ gen' \in Nat
      BY <1>1, <1>13, <2>1 DEF PrepareGrow, CountersTyped
    <2> QED
      BY <1>13, <2>1, <2>2, <2>3, <2>4, <2>5 DEF PrepareGrow, CountersTyped, Bits, readVars, updateVars
  <1>14. CASE ReadStart \/ ReadEnd
    <2>1. clear' \in BOOLEAN
      BY <1>14 DEF ReadStart, ReadEnd
    <2>2. CASE ReadStart
      BY <2>1, <2>2 DEF ReadStart, CountersTyped, updateVars
    <2>3. CASE ReadEnd
      BY <2>1, <2>3 DEF ReadEnd, CountersTyped, updateVars
    <2> QED
      BY <1>14, <2>2, <2>3
  <1>15. CASE ReadSlot \/ ReadDeadAndShared
    <2>1. sum \in Nat /\ at \in Nat /\ dead \in Nat /\ shared \in Nat /\ (at \in Allocated => val[at] \in Nat)
      BY <1>1 DEF CountersTyped
    <2>2. sum' \in Nat /\ at' \in Nat
      BY <1>15, <2>1 DEF ReadSlot, ReadDeadAndShared
    <2> QED
      BY <1>15, <2>2 DEF ReadSlot, ReadDeadAndShared, CountersTyped, updateVars
  <1>16. CASE UNCHANGED counterVars
    BY <1>16 DEF counterVars, CountersTyped, tally, readVars, updateVars
  <1>17. CASE IncrMain \/ ZeroMain
    BY <1>1, <1>8, <1>17 DEF IncrMain, ZeroMain
  <1>18. ASSUME NEW t \in Worker, Incr(t) \/ ZeroBlock(t) PROVE CountersTyped'
    BY <1>2, <1>8, <1>18 DEF Incr, ZeroBlock
  <1> QED
    BY <1>4, <1>5, <1>6, <1>7, <1>9, <1>10, <1>11, <1>12, <1>13, <1>14, <1>15, <1>16, <1>17, <1>18 DEF CountersNext

LEMMA CountersStep ==
    ASSUME CountersInv, ~ Spoiled', [CountersNext]_counterVars
    PROVE  CountersInv'
  <1>0. CountersTyped'
    BY TypedStep DEF CountersInv
  <1>1. ASSUME NEW t \in Worker, NEW s \in Slot, InitThread(t, s) PROVE CountersInv'
    BY <1>0, <1>1, InitThreadKeeps
  <1>2. ASSUME NEW t \in Worker, InitStore(t) \/ InitDynamicThread(t) \/ ClearBlock(t) PROVE CountersInv'
    BY <1>0, <1>2, InitStoreKeeps, InitDynamicThreadKeeps, ClearBlockKeeps
  <1>3. ASSUME NEW t \in Worker, Incr(t) \/ LateRead(t) \/ LateWrite(t) \/ Gone(t) PROVE CountersInv'
    BY <1>0, <1>3, IncrKeeps, LateReadKeeps, LateWriteKeeps, GoneKeeps
  <1>4. ASSUME NEW t \in Worker, FiniCombine(t) \/ FiniUnlock(t) \/ FiniLoad(t) \/ FiniStore(t)
        PROVE  CountersInv'
    BY <1>0, <1>4, FiniCombineKeeps, FiniUnlockKeeps, FiniLoadKeeps, FiniStoreKeeps
  <1>9. ASSUME NEW t \in Worker, ZeroBlock(t) \/ ZeroDead(t) PROVE CountersInv'
    BY <1>0, <1>9, ZeroBlockKeeps, ZeroDeadKeeps
  <1>5. CASE IncrMain \/ IncrShared \/ ZeroMain \/ ZeroShared
    BY <1>0, <1>5, IncrMainKeeps, IncrSharedKeeps, ZeroMainKeeps, ZeroSharedKeeps
  <1>6. CASE PrepareReuse \/ PrepareGrow
    BY <1>0, <1>6, PrepareReuseKeeps, PrepareGrowKeeps
  <1>7. CASE ReadStart \/ ReadSlot \/ ReadDeadAndShared \/ ReadEnd
    BY <1>0, <1>7, ReadStartKeeps, ReadSlotKeeps, ReadDeadAndSharedKeeps, ReadEndKeeps
  <1>8. CASE UNCHANGED counterVars
    <2>1. Credit' = Credit /\ Unsettled' = Unsettled
      BY <1>8 DEF counterVars, Credit, Spent, IsUsed, Unsettled
    <2>2. ReadSound'
      BY <1>8, <2>1 DEF counterVars, tally, readVars, updateVars, ReadSound, CountersInv, Watched, Reading
    <2> QED
      BY <1>0, <1>8, <2>2, ReadingKeeps DEF counterVars, tally, updateVars
  <1> QED
    BY <1>1, <1>2, <1>3, <1>4, <1>5, <1>6, <1>7, <1>8, <1>9 DEF CountersNext

(* What is spoiled stays so. *)
LEMMA SpoiledStays ==
    ASSUME CountersTyped, Spoiled, [CountersNext]_counterVars
    PROVE  Spoiled'
  BY DEF Spoiled, CountersNext, counterVars, tally, updateVars, TouchesDead, InitThread, InitStore, InitDynamicThread,
         ClearBlock, Incr, IncrMain, CountOwn, IncrShared, LateRead, LateWrite, ZeroBlock, ZeroMain, ZeroOwn, ZeroDead,
         ZeroShared, FiniCombine, FiniUnlock, FiniLoad, FiniStore, Gone, PrepareReuse, PrepareGrow,
         ReadStart, ReadSlot, ReadDeadAndShared, ReadEnd

(* The inductive invariant. *)
ExactUntilSpoiled == CountersTyped /\ (Spoiled \/ CountersInv)

LEMMA InvExact ==
    ASSUME ExactUntilSpoiled
    PROVE  CountersExact
  <1>1. CountersTyped
    BY DEF ExactUntilSpoiled
  <1>2. TotalExact
    <2> SUFFICES ASSUME Unsettled = {}, ~ Spoiled PROVE Total = count
      BY DEF TotalExact
    <2>1. \A i \in Slot : ~ Spent(i)
      BY DEF Spent, Unsettled
    <2>2. Credit = [s \in Slot |-> IF IsUsed(s) THEN val[s] ELSE 0]
      BY <2>1 DEF Credit
    <2> QED
      BY <2>2 DEF Total, ExactUntilSpoiled, CountersInv, AllCounted
  <1>3. ReadExact
    BY DEF ReadExact, ExactUntilSpoiled, CountersInv, ReadSound, Watched
  <1> QED
    BY <1>1, <1>2, <1>3 DEF CountersExact

(* The counters of kit-counters.c lose no increment and count none twice, at rest or when a
   total is read while nobody starts or finishes, however threads come and go and slots are
   reused and added, until two of the steps taken without the lock have met: two threads
   changing the counts of the dead, or the array of slots and a thread changing its slot. *)
THEOREM CountersAreExact == CountersSpec => []CountersExact
  <1>1. CountersInit => ExactUntilSpoiled
    BY InitKeeps DEF ExactUntilSpoiled, CountersInv
  <1>2. ASSUME ExactUntilSpoiled, [CountersNext]_counterVars PROVE ExactUntilSpoiled'
    <2>1. CountersTyped'
      BY <1>2, TypedStep DEF ExactUntilSpoiled
    <2>2. CASE Spoiled
      BY <1>2, <2>1, <2>2, SpoiledStays DEF ExactUntilSpoiled
    <2>3. CASE ~ Spoiled
      BY <1>2, <2>1, <2>3, CountersStep DEF ExactUntilSpoiled
    <2> QED
      BY <2>2, <2>3
  <1>3. ExactUntilSpoiled => CountersExact
    BY InvExact
  <1> QED
    BY <1>1, <1>2, <1>3, PTL DEF CountersSpec
-----------------------------------------------------------------------------
(***************************************************************************)
(* No byte of the keystream is handed out twice, for any number of         *)
(* processes and of seeds.                                                 *)
(*                                                                         *)
(* RandomOnce is not inductive: it looks back at what was handed out.      *)
(* What makes it true lies ahead.  A process hands out, of the seed that   *)
(* is its own (SeedsOwned), only bytes that come after all it has drawn    *)
(* (AheadNew), and what kit_random16 and kit_random8 keep in hand is in no *)
(* other hand and was not handed out, unless a fork has left it in two     *)
(* (HandsLeft).                                                            *)
(***************************************************************************)

(* A byte of the keystream: its seed, how often the key was replaced, its place. *)
Byte == Nat \X Nat \X Nat

(* What is in the buffer is of the last key but one, at its place. *)
StateOK(s) ==
    /\ s \in [initialized : BOOLEAN, key : Nat \X Nat, buf : [1 .. RSBUFSZ -> Byte], have : Nat,
              count : Nat, half : Seq(Byte), byte : Seq(Byte)]
    /\ s.have <= RSBUFSZ - KEYIV
    /\ \A i \in 1 .. RSBUFSZ : i > RSBUFSZ - s.have =>
          s.key[2] > 0 /\ s.buf[i] = <<s.key[1], s.key[2] - 1, i>>

(* s may still hand out b: it is in the buffer, or of a key to come. *)
IsAhead(s, b) ==
    /\ b[1] = s.key[1]
    /\ \/ b[2] >= s.key[2]
       \/ b[2] + 1 = s.key[2] /\ b[3] > RSBUFSZ - s.have

(* What kit_random16 and kit_random8 have in hand. *)
Hand(s) == Range(s.half) \union Range(s.byte)

RandomTyped ==
    /\ seeds \in Nat /\ out \subseteq Byte
    /\ DOMAIN rs = Process
    /\ \A p \in Process : StateOK(rs[p])

(* Bytes are of a seed that was read, and two processes have no seed in common. *)
SeedsOwned ==
    /\ \A p \in Process : rs[p].initialized => rs[p].key[1] \in 1 .. seeds
    /\ \A p, q \in Process : p # q /\ rs[p].initialized /\ rs[q].initialized => rs[p].key[1] # rs[q].key[1]
    /\ \A b \in out : b[1] \in 1 .. seeds
    /\ \A p \in Process : \A b \in Hand(rs[p]) : b[1] \in 1 .. seeds

(* What is ahead has not been handed out, and is in nobody's hand. *)
AheadNew ==
    \A p \in Process : rs[p].initialized =>
        /\ \A b \in out : ~ IsAhead(rs[p], b)
        /\ \A q \in Process : \A b \in Hand(rs[q]) : ~ IsAhead(rs[p], b)

HandsDistinct ==
    \A p \in Process :
        /\ IsInjective(rs[p].half) /\ IsInjective(rs[p].byte)
        /\ Range(rs[p].half) \intersect Range(rs[p].byte) = {}

(* What is in a hand and elsewhere is what a fork has left over. *)
HandsLeft ==
    /\ \A p \in Process : Hand(rs[p]) \intersect out \subseteq leftovers
    /\ \A p, q \in Process : p # q => Hand(rs[p]) \intersect Hand(rs[q]) \subseteq leftovers

RandomInv == RandomTyped /\ SeedsOwned /\ AheadNew /\ HandsDistinct /\ HandsLeft /\ again \subseteq leftovers
-----------------------------------------------------------------------------
LEMMA RandomSizes ==
    /\ RSBUFSZ \in Nat /\ KEYIV \in Nat /\ RESEED \in Nat
    /\ UINTS \in Nat /\ WORD \in Nat /\ WORD > 0 /\ KEYIV + WORD <= RSBUFSZ
    /\ Lengths \subseteq Nat
  BY RandomAssumption

LEMMA ZeroIsByte == Zero \in Byte
  BY DEF Zero, Byte

(* From state s to t these bytes are handed out: all different, all ahead of s, none
   ahead of t. *)
Gives(s, bytes, t) ==
    /\ StateOK(t)
    /\ t.initialized = s.initialized /\ t.key[1] = s.key[1] /\ t.half = s.half /\ t.byte = s.byte
    /\ bytes \in Seq(Byte) /\ IsInjective(bytes)
    /\ \A b \in Range(bytes) : IsAhead(s, b) /\ ~ IsAhead(t, b)
    /\ \A b \in Byte : IsAhead(t, b) => IsAhead(s, b)

LEMMA RekeyGives ==
    ASSUME NEW s, StateOK(s)
    PROVE  Gives(s, <<>>, _rs_rekey(s)) /\ _rs_rekey(s).have = RSBUFSZ - KEYIV
  <1> USE RandomSizes
  <1> DEFINE t == _rs_rekey(s)
             bb == [i \in 1 .. RSBUFSZ |-> IF i <= KEYIV THEN Zero ELSE <<s.key[1], s.key[2], i>>]
  <1>0. s.key \in Nat \X Nat /\ s.key[1] \in Nat /\ s.key[2] \in Nat /\ s.have \in Nat
    BY DEF StateOK
  <1>1. bb \in [1 .. RSBUFSZ -> Byte]
    <2>1. ASSUME NEW i \in 1 .. RSBUFSZ PROVE <<s.key[1], s.key[2], i>> \in Byte
      BY <1>0 DEF Byte
    <2> QED
      BY <2>1, ZeroIsByte
  <1>2. t = [s EXCEPT !.buf = bb, !.key = <<s.key[1], s.key[2] + 1>>, !.have = RSBUFSZ - KEYIV]
    BY DEF _rs_rekey
  <1>a. RSBUFSZ - KEYIV \in Nat /\ <<s.key[1], s.key[2] + 1>> \in Nat \X Nat
    BY <1>0
  <1>3. /\ t.buf = bb /\ t.key = <<s.key[1], s.key[2] + 1>> /\ t.have = RSBUFSZ - KEYIV
        /\ t.initialized = s.initialized /\ t.half = s.half /\ t.byte = s.byte
        /\ t \in [initialized : BOOLEAN, key : Nat \X Nat, buf : [1 .. RSBUFSZ -> Byte], have : Nat,
                  count : Nat, half : Seq(Byte), byte : Seq(Byte)]
    <2> HIDE DEF t, bb
    <2> QED
      BY <1>a, <1>1, <1>2 DEF StateOK
  <1> HIDE DEF t
  <1>4. t.key[1] = s.key[1] /\ t.key[2] = s.key[2] + 1
    BY <1>3
  <1>5. StateOK(t)
    <2>1. ASSUME NEW i \in 1 .. RSBUFSZ, i > RSBUFSZ - t.have
          PROVE  t.key[2] > 0 /\ t.buf[i] = <<t.key[1], t.key[2] - 1, i>>
      <3>1. i > KEYIV
        BY <2>1, <1>3
      <3>2. t.buf[i] = <<s.key[1], s.key[2], i>>
        BY <3>1, <1>3
      <3>3. t.key[2] > 0 /\ t.key[2] - 1 = s.key[2]
        BY <1>0, <1>4
      <3> QED
        BY <3>2, <3>3, <1>4
    <2> QED
      BY <2>1, <1>3 DEF StateOK
  <1>6. ASSUME NEW b \in Byte, IsAhead(t, b) PROVE IsAhead(s, b)
    <2>1. b[2] \in Nat
      BY DEF Byte
    <2> QED
      BY <1>0, <1>4, <1>6, <2>1 DEF IsAhead
  <1>7. <<>> \in Seq(Byte) /\ IsInjective(<<>>) /\ Range(<<>>) = {}
    BY DEF IsInjective, Range
  <1> QED
    BY <1>3, <1>4, <1>5, <1>6, <1>7 DEF Gives, t

LEMMA TakeGives ==
    ASSUME NEW s, StateOK(s), NEW n \in Nat, n <= s.have
    PROVE  /\ Gives(s, Taken(s, n), Cleared(s, n)) /\ Cleared(s, n).have = s.have - n
           /\ Taken(s, n) \in [1 .. n -> Byte]
  <1>s. RSBUFSZ \in Nat /\ KEYIV \in Nat
    BY RandomSizes
  <1>0. /\ s.key \in Nat \X Nat /\ s.key[1] \in Nat /\ s.key[2] \in Nat /\ s.have \in Nat
        /\ s.have <= RSBUFSZ - KEYIV /\ s.buf \in [1 .. RSBUFSZ -> Byte]
    BY DEF StateOK
  <1>h. PICK h \in Nat : h = s.have
    BY <1>0
  <1>k. PICK k \in Nat : k = s.key[2]
    BY <1>0
  <1>o. PICK o \in Nat : o = RSBUFSZ - s.have
    BY <1>s, <1>0, <1>h
  <1>p. o + n <= RSBUFSZ /\ RSBUFSZ - (s.have - n) = o + n /\ s.have - n \in Nat /\ s.have - n <= RSBUFSZ - KEYIV
    BY <1>s, <1>0, <1>h, <1>o
  <1>q. \A i \in 1 .. RSBUFSZ : i > o => k > 0 /\ k - 1 \in Nat /\ s.buf[i] = <<s.key[1], k - 1, i>>
    <2>1. \A i \in 1 .. RSBUFSZ : i > o => k > 0 /\ s.buf[i] = <<s.key[1], k - 1, i>>
      BY <1>k, <1>o DEF StateOK
    <2>2. k > 0 => k - 1 \in Nat
      OBVIOUS
    <2> QED
      BY <2>1, <2>2
  <1> DEFINE t == Cleared(s, n)
             bb == [i \in 1 .. RSBUFSZ |-> IF i - o \in 1 .. n THEN Zero ELSE s.buf[i]]
             bytes == Taken(s, n)
  <1>1. bb \in [1 .. RSBUFSZ -> Byte]
    BY <1>0, ZeroIsByte
  <1>2. t = [s EXCEPT !.buf = bb, !.have = s.have - n]
    BY <1>o DEF Cleared, StateOK
  <1>3. /\ t.buf = bb /\ t.key = s.key /\ t.have = s.have - n
        /\ t.initialized = s.initialized /\ t.half = s.half /\ t.byte = s.byte
        /\ t \in [initialized : BOOLEAN, key : Nat \X Nat, buf : [1 .. RSBUFSZ -> Byte], have : Nat,
                  count : Nat, half : Seq(Byte), byte : Seq(Byte)]
    <2> HIDE DEF t, bb
    <2> QED
      BY <1>p, <1>1, <1>2 DEF StateOK
  <1> HIDE DEF t
  <1>4. RSBUFSZ - t.have = o + n
    BY <1>3, <1>p
  <1>5. StateOK(t)
    <2>1. ASSUME NEW i \in 1 .. RSBUFSZ, i > RSBUFSZ - t.have
          PROVE  t.key[2] > 0 /\ t.buf[i] = <<t.key[1], t.key[2] - 1, i>>
      <3>1. i > o + n /\ i > o /\ i - o \notin 1 .. n
        BY <2>1, <1>4
      <3>2. t.buf[i] = s.buf[i]
        BY <3>1, <1>3
      <3>3. k > 0 /\ s.buf[i] = <<s.key[1], k - 1, i>>
        BY <3>1, <1>q
      <3> QED
        BY <3>2, <3>3, <1>3, <1>k
    <2>2. t.have <= RSBUFSZ - KEYIV
      BY <1>p, <1>3
    <2> QED
      BY <2>1, <2>2, <1>3 DEF StateOK
  <1>6. ASSUME NEW b \in Byte, IsAhead(t, b) PROVE IsAhead(s, b)
    <2>1. b[3] \in Nat
      BY DEF Byte
    <2>2. b[3] > o + n => b[3] > o
      BY <2>1
    <2> QED
      BY <1>3, <1>4, <1>6, <1>o, <2>2 DEF IsAhead
  <1>7. ASSUME NEW i \in 1 .. n
        PROVE  /\ bytes[i] = <<s.key[1], k - 1, o + i>> /\ k - 1 \in Nat
               /\ o + i \in Nat /\ bytes[i] \in Byte
    <2>1. o + i \in 1 .. RSBUFSZ /\ o + i > o /\ o + i \in Nat
      BY <1>s, <1>p
    <2>2. bytes[i] = s.buf[o + i]
      BY <1>o DEF Taken
    <2>3. k - 1 \in Nat /\ s.buf[o + i] = <<s.key[1], k - 1, o + i>>
      BY <2>1, <1>q
    <2>4. s.buf[o + i] \in Byte
      BY <2>1, <1>0
    <2> QED
      BY <2>1, <2>2, <2>3, <2>4
  <1>8. DOMAIN bytes = 1 .. n /\ bytes \in Seq(Byte) /\ bytes \in [1 .. n -> Byte]
    <2>1. bytes \in [1 .. n -> Byte]
      BY <1>7 DEF Taken
    <2> QED
      BY <2>1
  <1>9. IsInjective(bytes)
    <2>1. ASSUME NEW i \in 1 .. n, NEW j \in 1 .. n, bytes[i] = bytes[j] PROVE i = j
      <3>1. bytes[i][3] = o + i /\ bytes[j][3] = o + j
        BY <1>7
      <3>2. o + i = o + j
        BY <3>1, <2>1
      <3> QED
        BY <3>2
    <2> QED
      BY <2>1, <1>8 DEF IsInjective
  <1>10. ASSUME NEW b \in Range(bytes) PROVE IsAhead(s, b) /\ ~ IsAhead(t, b)
    <2>1. PICK i \in 1 .. n : b = bytes[i]
      BY <1>8 DEF Range
    <2>2. b[1] = s.key[1] /\ b[2] = k - 1 /\ b[3] = o + i
      BY <2>1, <1>7
    <2>3. b[2] + 1 = s.key[2] /\ ~ (b[2] >= s.key[2])
      BY <2>2, <1>k
    <2>4. b[3] > RSBUFSZ - s.have /\ ~ (b[3] > RSBUFSZ - t.have)
      <3>1. o + i > o /\ ~ (o + i > o + n)
        OBVIOUS
      <3> QED
        BY <3>1, <2>2, <1>o, <1>4
    <2> QED
      BY <2>2, <2>3, <2>4, <1>3 DEF IsAhead
  <1> QED
    BY <1>3, <1>5, <1>6, <1>8, <1>9, <1>10 DEF Gives, t

LEMMA GivesThen ==
    ASSUME NEW s, StateOK(s), NEW x, NEW t, NEW y, NEW u, Gives(s, x, t), Gives(t, y, u)
    PROVE  Gives(s, x \o y, u)
  <1>1. x \in Seq(Byte) /\ y \in Seq(Byte) /\ x \o y \in Seq(Byte)
    BY DEF Gives
  <1>2. \A b \in Range(x) : b \in Byte
    BY <1>1 DEF Range
  <1>3. \A b \in Range(y) : b \in Byte
    BY <1>1 DEF Range
  <1>4. \A b \in Range(y) : IsAhead(t, b) /\ IsAhead(s, b) /\ ~ IsAhead(u, b)
    BY <1>3 DEF Gives
  <1>5. \A b \in Range(x) : ~ IsAhead(t, b) /\ IsAhead(s, b) /\ ~ IsAhead(u, b)
    BY <1>2 DEF Gives
  <1>6. ASSUME NEW i \in DOMAIN (x \o y)
        PROVE  \/ i \in DOMAIN x /\ (x \o y)[i] = x[i]
               \/ i - Len(x) \in DOMAIN y /\ (x \o y)[i] = y[i - Len(x)] /\ i \in Int /\ Len(x) \in Int
    BY <1>1
  <1>7. \A b \in Range(x \o y) : b \in Range(x) \/ b \in Range(y)
    BY <1>6 DEF Range
  <1>8. ASSUME NEW i \in DOMAIN (x \o y), NEW j \in DOMAIN (x \o y), (x \o y)[i] = (x \o y)[j]
        PROVE  i = j
    <2>1. \A a \in DOMAIN x : x[a] \in Range(x)
      BY DEF Range
    <2>2. \A a \in DOMAIN y : y[a] \in Range(y)
      BY DEF Range
    <2>3. CASE i \in DOMAIN x /\ (x \o y)[i] = x[i] /\ j \in DOMAIN x /\ (x \o y)[j] = x[j]
      BY <1>8, <2>3 DEF Gives, IsInjective
    <2>4. CASE /\ i - Len(x) \in DOMAIN y /\ (x \o y)[i] = y[i - Len(x)] /\ i \in Int
               /\ j - Len(x) \in DOMAIN y /\ (x \o y)[j] = y[j - Len(x)] /\ j \in Int /\ Len(x) \in Int
      <3>1. i - Len(x) = j - Len(x)
        BY <1>8, <2>4 DEF Gives, IsInjective
      <3> QED
        BY <3>1, <2>4
    <2>5. \A a \in DOMAIN x : \A c \in DOMAIN y : x[a] # y[c]
      BY <2>1, <2>2, <1>4, <1>5
    <2> QED
      BY <1>6, <1>8, <2>3, <2>4, <2>5
  <1>9. IsInjective(x \o y)
    BY <1>8 DEF IsInjective
  <1>10. \A b \in Byte : IsAhead(u, b) => IsAhead(s, b)
    BY DEF Gives
  <1>11. \A b \in Range(x \o y) : IsAhead(s, b) /\ ~ IsAhead(u, b)
    BY <1>4, <1>5, <1>7
  <1> QED
    BY <1>1, <1>9, <1>10, <1>11 DEF Gives

(* What a draw of n bytes begins with: a state that is initialized, with a seed of its
   own or the one it had. *)
LEMMA StirOK ==
    ASSUME NEW s, StateOK(s), NEW n \in Nat, seeds \in Nat
    PROVE  LET u == _rs_stir_if_needed(s, n) IN
           /\ StateOK(u) /\ u.initialized /\ u.half = s.half /\ u.byte = s.byte
           /\ Stirs(s, n) => u.key[1] = seeds + 1
           /\ ~ Stirs(s, n) => s.initialized /\ u.key = s.key /\ u.have = s.have
  <1> DEFINE u == _rs_stir_if_needed(s, n)
  <1>s. RSBUFSZ \in Nat /\ KEYIV \in Nat /\ RESEED \in Nat /\ 0 <= RSBUFSZ - KEYIV
    BY RandomSizes
  <1>z. Zeros \in [1 .. RSBUFSZ -> Byte]
    BY ZeroIsByte DEF Zeros
  <1>0. s.count \in Nat /\ s.initialized \in BOOLEAN
    BY DEF StateOK
  <1>1. CASE Stirs(s, n)
    <2>1. u = [s EXCEPT !.key = <<seeds + 1, 0>>, !.initialized = TRUE, !.have = 0, !.buf = Zeros, !.count = RESEED]
      BY <1>1 DEF _rs_stir_if_needed, kit_arc4random_stir
    <2>2. <<seeds + 1, 0>> \in Nat \X Nat
      OBVIOUS
    <2> HIDE DEF u
    <2>3. /\ u.key = <<seeds + 1, 0>> /\ u.initialized /\ u.have = 0 /\ u.half = s.half /\ u.byte = s.byte
          /\ u \in [initialized : BOOLEAN, key : Nat \X Nat, buf : [1 .. RSBUFSZ -> Byte], have : Nat,
                    count : Nat, half : Seq(Byte), byte : Seq(Byte)]
      BY <2>1, <2>2, <1>s, <1>z DEF StateOK
    <2>4. \A i \in 1 .. RSBUFSZ : ~ (i > RSBUFSZ - u.have)
      BY <2>3, <1>s
    <2>5. StateOK(u)
      BY <2>3, <2>4, <1>s DEF StateOK
    <2> QED
      BY <1>1, <2>3, <2>5 DEF u
  <1>2. CASE ~ Stirs(s, n)
    <2>1. u = [s EXCEPT !.count = s.count - n]
      BY <1>2 DEF _rs_stir_if_needed, StateOK
    <2>2. s.initialized /\ s.count - n \in Nat
      BY <1>0, <1>2 DEF Stirs
    <2> HIDE DEF u
    <2>3. /\ u.key = s.key /\ u.initialized = s.initialized /\ u.have = s.have /\ u.half = s.half
          /\ u.byte = s.byte /\ u.buf = s.buf
          /\ u \in [initialized : BOOLEAN, key : Nat \X Nat, buf : [1 .. RSBUFSZ -> Byte], have : Nat,
                    count : Nat, half : Seq(Byte), byte : Seq(Byte)]
      BY <2>1, <2>2 DEF StateOK
    <2>5. StateOK(u)
      BY <2>3 DEF StateOK
    <2> QED
      BY <1>2, <2>2, <2>3, <2>5 DEF u
  <1> QED
    BY <1>1, <1>2

LEMMA GivesNothing ==
    ASSUME NEW s, StateOK(s)
    PROVE  Gives(s, <<>>, s)
  <1>1. <<>> \in Seq(Byte) /\ IsInjective(<<>>) /\ Range(<<>>) = {}
    BY DEF IsInjective, Range
  <1> QED
    BY <1>1 DEF Gives

LEMMA WordGives ==
    ASSUME NEW s, StateOK(s), seeds \in Nat
    PROVE  Gives(_rs_stir_if_needed(s, WORD), Word(s).got, Word(s).s) /\ Word(s).got \in [1 .. WORD -> Byte]
  <1> DEFINE t == _rs_stir_if_needed(s, WORD)
             u == IF t.have < WORD THEN _rs_rekey(t) ELSE t
  <1>s. RSBUFSZ \in Nat /\ KEYIV \in Nat /\ WORD \in Nat /\ WORD <= RSBUFSZ - KEYIV
    BY RandomSizes
  <1>1. StateOK(t)
    BY <1>s, StirOK
  <1> HIDE DEF t
  <1>2. Gives(t, <<>>, u) /\ WORD <= u.have
    <2>1. t.have \in Nat
      BY <1>1 DEF StateOK
    <2> QED
      BY <1>1, <1>s, <2>1, RekeyGives, GivesNothing
  <1> HIDE DEF u
  <1>3. StateOK(u)
    BY <1>2 DEF Gives
  <1>4. Gives(u, Taken(u, WORD), Cleared(u, WORD)) /\ Taken(u, WORD) \in [1 .. WORD -> Byte]
    BY <1>2, <1>3, <1>s, TakeGives
  <1>5. Gives(t, <<>> \o Taken(u, WORD), Cleared(u, WORD))
    BY <1>1, <1>2, <1>4, GivesThen
  <1>6. Taken(u, WORD) \in Seq(Byte)
    BY <1>4 DEF Gives
  <1>7. <<>> \o Taken(u, WORD) = Taken(u, WORD)
    BY <1>6
  <1>8. Word(s).got = Taken(u, WORD) /\ Word(s).s = Cleared(u, WORD)
    BY DEF Word, t, u
  <1> QED
    BY <1>4, <1>5, <1>7, <1>8 DEF t

(* kit_arc4random_buf: what it begins with, and one byte more. *)
BufStart(s, n) == [got |-> <<>>, s |-> Replenished(_rs_stir_if_needed(s, n))]
BufMore(r) == [got |-> r.got \o Taken(r.s, 1), s |-> Replenished(Cleared(r.s, 1))]

LEMMA BufMoreIs ==
    ASSUME NEW r
    PROVE  BufMore(r).got = r.got \o Taken(r.s, 1) /\ BufMore(r).s = Replenished(Cleared(r.s, 1))
  <1> DEFINE x == r.got \o Taken(r.s, 1)
             y == Replenished(Cleared(r.s, 1))
  <1>1. BufMore(r) = [got |-> x, s |-> y]
    BY DEF BufMore
  <1> HIDE DEF x, y
  <1>2. BufMore(r).got = x /\ BufMore(r).s = y
    BY <1>1
  <1> QED
    BY <1>2 DEF x, y

(* f has the states after 0, 1, ... k of the bytes. *)
BufRun(f, a, k) ==
    /\ DOMAIN f = 0 .. k /\ f = [i \in 0 .. k |-> f[i]] /\ f[0] = a
    /\ \A i \in 0 .. k - 1 : f[i + 1] = BufMore(f[i])

LEMMA BufRunExists ==
    ASSUME NEW n \in Nat, NEW a
    PROVE  \E f : BufRun(f, a, n)
  <1> DEFINE Bad == {i \in 0 .. n : ~ \E f : BufRun(f, a, i)}
  <1> SUFFICES ASSUME Bad # {} PROVE FALSE
    OBVIOUS
  <1>0. Bad \in SUBSET Nat
    OBVIOUS
  <1>1. PICK k \in Bad : \A i \in Bad : k <= i
    BY <1>0, Least
  <1>2. CASE k = 0
    <2>1. BufRun([i \in 0 .. 0 |-> a], a, 0)
      BY DEF BufRun
    <2> QED
      BY <1>2, <2>1
  <1>3. CASE k # 0
    <2>1. k - 1 \in 0 .. n /\ k - 1 \notin Bad /\ k \in 1 .. n /\ k \in Nat
      BY <1>1, <1>3
    <2>2. PICK g : BufRun(g, a, k - 1)
      BY <2>1
    <2> DEFINE h == [i \in 0 .. k |-> IF i < k THEN g[i] ELSE BufMore(g[k - 1])]
    <2>4. DOMAIN h = 0 .. k /\ h = [i \in 0 .. k |-> h[i]] /\ h[0] = a
      BY <2>1, <2>2 DEF BufRun
    <2>5. ASSUME NEW i \in 0 .. k - 1 PROVE h[i + 1] = BufMore(h[i])
      <3>1. CASE i < k - 1
        <4>1. i \in 0 .. (k - 1) - 1 /\ i + 1 < k /\ i + 1 \in 0 .. k /\ i \in 0 .. k /\ i < k
          BY <2>1, <3>1
        <4>2. g[i + 1] = BufMore(g[i])
          BY <4>1, <2>2 DEF BufRun
        <4>3. h[i + 1] = g[i + 1] /\ h[i] = g[i]
          BY <4>1
        <4> QED
          BY <4>2, <4>3
      <3>2. CASE i = k - 1
        <4>1. i + 1 = k /\ i < k /\ i \in 0 .. k /\ k \in 0 .. k
          BY <2>1, <3>2
        <4>2. h[k] = BufMore(g[k - 1]) /\ h[i] = g[i]
          BY <2>1, <4>1
        <4> QED
          BY <3>2, <4>1, <4>2
      <3> QED
        BY <2>1, <3>1, <3>2
    <2> HIDE DEF h
    <2>6. BufRun(h, a, k)
      BY <2>4, <2>5 DEF BufRun
    <2> QED
      BY <2>6
  <1> QED
    BY <1>2, <1>3

LEMMA BufBytesIs ==
    ASSUME NEW s, NEW n \in Nat, NEW f, BufRun(f, BufStart(s, n), n)
    PROVE  BufBytes(s, n) = f[n]
  <1> DEFINE a == BufStart(s, n)
             E(h) == h = [i \in 0 .. n |-> IF i = 0 THEN a ELSE BufMore(h[i - 1])]
  <1>0. BufBytes(s, n) = (CHOOSE h : E(h))[n]
    BY DEF BufBytes, BufStart, BufMore
  <1>a. BufRun(f, a, n)
    OBVIOUS
  <1> HIDE DEF a
  <1>1. E(f)
    <2> DEFINE e == [i \in 0 .. n |-> IF i = 0 THEN a ELSE BufMore(f[i - 1])]
    <2>1. ASSUME NEW i \in 0 .. n, i # 0 PROVE f[i] = BufMore(f[i - 1])
      <3>1. i - 1 \in 0 .. n - 1 /\ (i - 1) + 1 = i
        BY <2>1
      <3> QED
        BY <3>1, <1>a DEF BufRun
    <2>2. \A i \in 0 .. n : f[i] = e[i]
      BY <2>1, <1>a DEF BufRun
    <2>3. f = [i \in 0 .. n |-> f[i]] /\ e = [i \in 0 .. n |-> e[i]]
      BY <1>a DEF BufRun
    <2> HIDE DEF e
    <2>4. f = e
      BY <2>2, <2>3
    <2> QED
      BY <2>4 DEF e
  <1>2. ASSUME NEW h, E(h) PROVE h = f
    <2> DEFINE Bad == {i \in 0 .. n : f[i] # h[i]}
    <2>0. Bad \in SUBSET Nat
      OBVIOUS
    <2>1. CASE Bad # {}
      <3>1. PICK k \in Bad : \A i \in Bad : k <= i
        BY <2>0, <2>1, Least
      <3>2. k # 0
        BY <1>a, <1>2 DEF BufRun
      <3>3. k - 1 \in 0 .. n /\ k - 1 \notin Bad /\ k - 1 \in 0 .. n - 1 /\ (k - 1) + 1 = k
        BY <3>1, <3>2
      <3>4. f[k] = BufMore(f[k - 1])
        BY <3>3, <1>a DEF BufRun
      <3>5. h[k] = BufMore(h[k - 1])
        BY <3>2, <1>2
      <3> QED
        BY <3>3, <3>4, <3>5
    <2>2. CASE Bad = {}
      <3>1. \A i \in 0 .. n : f[i] = h[i]
        BY <2>2
      <3>2. f = [i \in 0 .. n |-> f[i]] /\ h = [i \in 0 .. n |-> h[i]]
        BY <1>a, <1>2 DEF BufRun
      <3> QED
        BY <3>1, <3>2
    <2> QED
      BY <2>1, <2>2
  <1> HIDE DEF E
  <1>4. (CHOOSE h : E(h)) = f
    BY <1>1, <1>2
  <1> QED
    BY <1>0, <1>4

LEMMA ReplenishGives ==
    ASSUME NEW s, StateOK(s)
    PROVE  Gives(s, <<>>, Replenished(s)) /\ 1 <= Replenished(s).have
  <1>s. RSBUFSZ \in Nat /\ KEYIV \in Nat /\ 1 <= RSBUFSZ - KEYIV
    BY RandomSizes
  <1>1. s.have \in Nat
    BY DEF StateOK
  <1> QED
    BY <1>1, <1>s, RekeyGives, GivesNothing DEF Replenished

LEMMA BufBytesGives ==
    ASSUME NEW s, StateOK(s), seeds \in Nat, NEW n \in Nat
    PROVE  Gives(_rs_stir_if_needed(s, n), BufBytes(s, n).got, BufBytes(s, n).s)
  <1>0. PICK u : u = _rs_stir_if_needed(s, n)
    OBVIOUS
  <1>1. StateOK(u)
    BY <1>0, StirOK
  <1>2. PICK f : BufRun(f, BufStart(s, n), n)
    BY BufRunExists
  <1> DEFINE Ok(i) == Gives(u, f[i].got, f[i].s) /\ 1 <= f[i].s.have
             Bad == {i \in 0 .. n : ~ Ok(i)}
  <1>3. Ok(0)
    <2>1. f[0].got = <<>> /\ f[0].s = Replenished(u)
      BY <1>0, <1>2 DEF BufRun, BufStart
    <2> QED
      BY <2>1, <1>1, ReplenishGives
  <1>4. ASSUME NEW i \in 0 .. n - 1, Ok(i) PROVE Ok(i + 1)
    <2>1. PICK r : r = f[i]
      OBVIOUS
    <2>2. f[i + 1].got = r.got \o Taken(r.s, 1) /\ f[i + 1].s = Replenished(Cleared(r.s, 1))
      <3>1. f[i + 1] = BufMore(r)
        BY <2>1, <1>2 DEF BufRun
      <3> QED
        BY <3>1, BufMoreIs
    <2>3. StateOK(r.s) /\ 1 <= r.s.have /\ Gives(u, r.got, r.s)
      BY <2>1, <1>4 DEF Gives
    <2>4. Gives(r.s, Taken(r.s, 1), Cleared(r.s, 1))
      BY <2>3, TakeGives
    <2>5. StateOK(Cleared(r.s, 1))
      BY <2>4 DEF Gives
    <2>6. /\ Gives(Cleared(r.s, 1), <<>>, Replenished(Cleared(r.s, 1)))
          /\ 1 <= Replenished(Cleared(r.s, 1)).have
      BY <2>5, ReplenishGives
    <2>7. Gives(u, r.got \o Taken(r.s, 1), Cleared(r.s, 1))
      BY <1>1, <2>3, <2>4, GivesThen
    <2>8. Gives(u, (r.got \o Taken(r.s, 1)) \o <<>>, Replenished(Cleared(r.s, 1)))
      BY <1>1, <2>6, <2>7, GivesThen
    <2>9. (r.got \o Taken(r.s, 1)) \o <<>> = r.got \o Taken(r.s, 1)
      <3>1. r.got \o Taken(r.s, 1) \in Seq(Byte)
        BY <2>7 DEF Gives
      <3> QED
        BY <3>1
    <2> QED
      BY <2>2, <2>6, <2>8, <2>9
  <1> HIDE DEF Ok
  <1>5. Ok(n)
    <2> SUFFICES ASSUME Bad # {} PROVE FALSE
      OBVIOUS
    <2>0. Bad \in SUBSET Nat
      OBVIOUS
    <2>1. PICK k \in Bad : \A i \in Bad : k <= i
      BY <2>0, Least
    <2>2. k # 0
      BY <1>3
    <2>3. k - 1 \in 0 .. n /\ k - 1 \notin Bad /\ k - 1 \in 0 .. n - 1 /\ (k - 1) + 1 = k
      BY <2>1, <2>2
    <2>4. Ok(k - 1)
      BY <2>3
    <2>5. Ok((k - 1) + 1)
      BY <2>3, <2>4, <1>4
    <2> QED
      BY <2>3, <2>5
  <1>6. BufBytes(s, n) = f[n]
    BY <1>2, BufBytesIs
  <1> QED
    BY <1>0, <1>5, <1>6 DEF Ok
-----------------------------------------------------------------------------
LEMMA InitRandomInv == RandomInit => RandomInv
  <1> SUFFICES ASSUME RandomInit PROVE RandomInv
    OBVIOUS
  <1>s. RSBUFSZ \in Nat /\ KEYIV \in Nat /\ 0 <= RSBUFSZ - KEYIV
    BY RandomSizes
  <1>z. Zeros \in [1 .. RSBUFSZ -> Byte]
    BY ZeroIsByte DEF Zeros
  <1>1. ASSUME NEW p \in Process
        PROVE  /\ ~ rs[p].initialized /\ rs[p].half = <<>> /\ rs[p].byte = <<>> /\ rs[p].have = 0
               /\ rs[p] \in [initialized : BOOLEAN, key : Nat \X Nat, buf : [1 .. RSBUFSZ -> Byte], have : Nat,
                             count : Nat, half : Seq(Byte), byte : Seq(Byte)]
    <2>1. rs[p] = [initialized |-> FALSE, key |-> <<0, 0>>, buf |-> Zeros, have |-> 0,
                   count |-> 0, half |-> <<>>, byte |-> <<>>]
      BY DEF RandomInit
    <2>2. <<0, 0>> \in Nat \X Nat /\ <<>> \in Seq(Byte)
      OBVIOUS
    <2> QED
      BY <2>1, <2>2, <1>z
  <1>2. ASSUME NEW p \in Process PROVE StateOK(rs[p])
    <2>1. \A i \in 1 .. RSBUFSZ : ~ (i > RSBUFSZ - rs[p].have)
      BY <1>1, <1>s
    <2> QED
      BY <1>1, <2>1, <1>s DEF StateOK
  <1>3. IsInjective(<<>>) /\ Range(<<>>) = {}
    BY DEF IsInjective, Range
  <1>4. \A p \in Process : Hand(rs[p]) = {}
    BY <1>1, <1>3 DEF Hand
  <1>5. RandomTyped
    BY <1>2 DEF RandomTyped, RandomInit
  <1>6. SeedsOwned /\ AheadNew
    BY <1>1, <1>4 DEF SeedsOwned, AheadNew, RandomInit
  <1>7. HandsDistinct
    BY <1>1, <1>3 DEF HandsDistinct
  <1>8. HandsLeft /\ again \subseteq leftovers
    BY <1>4 DEF HandsLeft, RandomInit
  <1> QED
    BY <1>5, <1>6, <1>7, <1>8 DEF RandomInv

(* Process p goes to state t and hands out these bytes, when sd seeds have been read:
   they, and what is in its hand then, are of a set F that nobody had, or of its own
   hand. *)
Fresh(p, bytes, t, F, sd) ==
    /\ StateOK(t) /\ bytes \in Seq(Byte) /\ IsInjective(bytes)
    /\ IsInjective(t.half) /\ IsInjective(t.byte) /\ Range(t.half) \intersect Range(t.byte) = {}
    /\ Range(bytes) \union Hand(t) \subseteq F \union Hand(rs[p])
    /\ Range(bytes) \intersect Hand(t) = {}
    /\ \A b \in F : /\ b \notin out /\ b[1] \in 1 .. sd
                    /\ \A q \in Process : /\ b \notin Hand(rs[q])
                                          /\ q # p /\ rs[q].initialized => ~ IsAhead(rs[q], b)
    /\ t.initialized =>
           /\ t.key[1] \in 1 .. sd
           /\ \A q \in Process : q # p /\ rs[q].initialized => rs[q].key[1] # t.key[1]
           /\ \A b \in out \union Range(bytes) \union Hand(t) : ~ IsAhead(t, b)
           /\ \A q \in Process : q # p => \A b \in Hand(rs[q]) : ~ IsAhead(t, b)

LEMMA HandOutKeeps ==
    ASSUME RandomInv, NEW p \in Process, NEW bytes, NEW t, NEW stirred \in BOOLEAN, HandOut(p, bytes, t, stirred),
           NEW F, Fresh(p, bytes, t, F, seeds')
    PROVE  RandomInv'
  <1> USE DEF Fresh
  <1>1. /\ DOMAIN rs = Process /\ rs' = [rs EXCEPT ![p] = t] /\ out' = out \union Range(bytes)
        /\ leftovers' = leftovers
    BY DEF HandOut, RandomInv, RandomTyped
  <1>2. DOMAIN rs' = Process /\ rs'[p] = t /\ \A q \in Process : q # p => rs'[q] = rs[q]
    BY <1>1
  <1>3. seeds \in Nat /\ seeds' \in Nat /\ seeds <= seeds'
    BY DEF HandOut, RandomInv, RandomTyped
  <1>4. \A k \in 1 .. seeds : k \in 1 .. seeds'
    BY <1>3
  <1>5. RandomTyped'
    <2>1. Range(bytes) \subseteq Byte
      BY DEF Range
    <2> QED
      BY <1>1, <1>2, <1>3, <2>1 DEF RandomInv, RandomTyped
  <1>6. SeedsOwned'
    <2>1. \A b \in F \union Hand(rs[p]) : b[1] \in 1 .. seeds'
      BY <1>4 DEF RandomInv, SeedsOwned
    <2>2. \A b \in out' : b[1] \in 1 .. seeds'
      BY <1>1, <1>4, <2>1 DEF RandomInv, SeedsOwned
    <2>3. ASSUME NEW q \in Process PROVE \A b \in Hand(rs'[q]) : b[1] \in 1 .. seeds'
      BY <1>2, <1>4, <2>1 DEF RandomInv, SeedsOwned
    <2>4. \A q \in Process : rs'[q].initialized => rs'[q].key[1] \in 1 .. seeds'
      BY <1>2, <1>4 DEF RandomInv, SeedsOwned
    <2>5. ASSUME NEW q \in Process, NEW r \in Process, q # r, rs'[q].initialized, rs'[r].initialized
          PROVE  rs'[q].key[1] # rs'[r].key[1]
      BY <2>5, <1>2 DEF RandomInv, SeedsOwned
    <2> QED
      BY <2>2, <2>3, <2>4, <2>5 DEF SeedsOwned
  <1>7. AheadNew'
    <2> SUFFICES ASSUME NEW q \in Process, rs'[q].initialized
                 PROVE  /\ \A b \in out' : ~ IsAhead(rs'[q], b)
                        /\ \A r \in Process : \A b \in Hand(rs'[r]) : ~ IsAhead(rs'[q], b)
      BY DEF AheadNew, IsAhead, Hand
    <2>1. CASE q = p
      BY <2>1, <1>1, <1>2
    <2>2. CASE q # p
      <3>1. rs'[q] = rs[q] /\ rs[q].initialized
        BY <2>2, <1>2
      <3>2. \A b \in F \union Hand(rs[p]) : ~ IsAhead(rs[q], b)
        BY <2>2, <3>1 DEF RandomInv, AheadNew
      <3>3. \A b \in out' : ~ IsAhead(rs[q], b)
        BY <3>1, <3>2, <1>1 DEF RandomInv, AheadNew
      <3>4. ASSUME NEW r \in Process, NEW b \in Hand(rs'[r]) PROVE ~ IsAhead(rs[q], b)
        BY <3>1, <3>2, <3>4, <1>2 DEF RandomInv, AheadNew
      <3> QED
        BY <3>1, <3>3, <3>4
    <2> QED
      BY <2>1, <2>2
  <1>8. HandsDistinct'
    BY <1>2 DEF RandomInv, HandsDistinct
  <1>9. HandsLeft'
    <2>1. ASSUME NEW q \in Process, NEW b \in Hand(rs'[q]), b \in out' PROVE b \in leftovers
      <3>1. CASE q = p
        <4>1. b \in Hand(t) /\ b \notin Range(bytes) /\ b \in out
          BY <2>1, <3>1, <1>1, <1>2
        <4>2. b \in Hand(rs[p])
          BY <4>1
        <4> QED
          BY <4>1, <4>2 DEF RandomInv, HandsLeft
      <3>2. CASE q # p
        <4>1. b \in Hand(rs[q]) /\ b \notin F
          BY <2>1, <3>2, <1>2
        <4>2. b \in out \/ b \in Hand(rs[p])
          BY <2>1, <4>1, <1>1
        <4> QED
          BY <3>2, <4>1, <4>2 DEF RandomInv, HandsLeft
      <3> QED
        BY <3>1, <3>2
    <2>2. ASSUME NEW q \in Process, q # p, NEW b \in Hand(rs[q]), b \in Hand(t) PROVE b \in leftovers
      BY <2>2 DEF RandomInv, HandsLeft
    <2>3. ASSUME NEW q \in Process, NEW r \in Process, q # r, NEW b \in Hand(rs'[q]), b \in Hand(rs'[r])
          PROVE  b \in leftovers
      <3>1. CASE q # p /\ r # p
        BY <2>3, <3>1, <1>2 DEF RandomInv, HandsLeft
      <3> QED
        BY <2>2, <2>3, <3>1, <1>2
    <2> QED
      BY <1>1, <2>1, <2>3 DEF HandsLeft, Hand
  <1>10. (again \subseteq leftovers)'
    <2>1. {bytes[i] : i \in {j \in DOMAIN bytes : \E k \in 1 .. j - 1 : bytes[k] = bytes[j]}} = {}
      <3>1. ASSUME NEW j \in DOMAIN bytes, NEW k \in 1 .. j - 1, bytes[k] = bytes[j] PROVE FALSE
        <4>1. k \in DOMAIN bytes /\ k # j
          OBVIOUS
        <4> QED
          BY <4>1, <3>1 DEF IsInjective
      <3> QED
        BY <3>1
    <2>2. again' = again \union (out \intersect Range(bytes))
      BY <2>1 DEF HandOut
    <2>3. \A b \in out \intersect Range(bytes) : b \in Hand(rs[p])
      OBVIOUS
    <2> QED
      BY <1>1, <2>2, <2>3 DEF RandomInv, HandsLeft
  <1> QED
    BY <1>5, <1>6, <1>7, <1>8, <1>9, <1>10 DEF RandomInv

(* What is ahead once the state is stirred, if it has to be, is new to all. *)
LEMMA DrawNew ==
    ASSUME RandomInv, NEW p \in Process, NEW n \in Nat, NEW u, u = _rs_stir_if_needed(rs[p], n),
           NEW sd, sd = IF Stirs(rs[p], n) THEN seeds + 1 ELSE seeds
    PROVE  /\ StateOK(u) /\ u.initialized /\ u.half = rs[p].half /\ u.byte = rs[p].byte /\ u.key[1] \in 1 .. sd
           /\ \A q \in Process : q # p /\ rs[q].initialized => rs[q].key[1] # u.key[1]
           /\ \A b \in Byte : IsAhead(u, b) =>
                 /\ b \notin out /\ b[1] \in 1 .. sd
                 /\ \A q \in Process : /\ b \notin Hand(rs[q])
                                       /\ q # p /\ rs[q].initialized => ~ IsAhead(rs[q], b)
  <1>0. StateOK(rs[p]) /\ seeds \in Nat
    BY DEF RandomInv, RandomTyped
  <1>1. /\ StateOK(u) /\ u.initialized /\ u.half = rs[p].half /\ u.byte = rs[p].byte
        /\ Stirs(rs[p], n) => u.key[1] = seeds + 1
        /\ ~ Stirs(rs[p], n) => rs[p].initialized /\ u.key = rs[p].key /\ u.have = rs[p].have
    BY <1>0, StirOK
  <1>2. u.key[1] \in 1 .. sd
    BY <1>0, <1>1 DEF RandomInv, SeedsOwned
  <1>3. ASSUME NEW q \in Process, q # p, rs[q].initialized PROVE rs[q].key[1] # u.key[1]
    <2>1. rs[q].key[1] \in 1 .. seeds
      BY <1>3 DEF RandomInv, SeedsOwned
    <2>2. rs[q].key[1] # seeds + 1
      BY <2>1, <1>0
    <2> QED
      BY <1>1, <1>3, <2>2 DEF RandomInv, SeedsOwned
  <1>4. ASSUME NEW b \in Byte, IsAhead(u, b)
        PROVE  /\ b \notin out /\ b[1] = u.key[1]
               /\ \A q \in Process : b \notin Hand(rs[q])
    <2>1. b[1] = u.key[1]
      BY <1>4 DEF IsAhead
    <2>2. CASE Stirs(rs[p], n)
      <3>1. b[1] \notin 1 .. seeds
        BY <1>0, <1>1, <2>1, <2>2
      <3> QED
        BY <2>1, <3>1 DEF RandomInv, SeedsOwned
    <2>3. CASE ~ Stirs(rs[p], n)
      <3>1. IsAhead(rs[p], b) /\ rs[p].initialized
        BY <1>1, <1>4, <2>3 DEF IsAhead
      <3> QED
        BY <2>1, <3>1 DEF RandomInv, AheadNew
    <2> QED
      BY <2>2, <2>3
  <1>5. ASSUME NEW b \in Byte, IsAhead(u, b), NEW q \in Process, q # p, rs[q].initialized
        PROVE  ~ IsAhead(rs[q], b)
    BY <1>3, <1>4, <1>5 DEF IsAhead
  <1> QED
    BY <1>1, <1>2, <1>3, <1>4, <1>5

(* Of what was drawn some is handed out, the rest may stay in the hand. *)
LEMMA DrawKeeps ==
    ASSUME RandomInv, NEW p \in Process, NEW n \in Nat, NEW got, NEW t,
           Gives(_rs_stir_if_needed(rs[p], n), got, t),
           NEW bytes, NEW v, HandOut(p, bytes, v, Stirs(rs[p], n)),
           StateOK(v), v.key = t.key, v.have = t.have, v.initialized = t.initialized,
           bytes \in Seq(Byte), IsInjective(bytes), Range(bytes) \subseteq Range(got),
           IsInjective(v.half), IsInjective(v.byte), Range(v.half) \intersect Range(v.byte) = {},
           Hand(v) \subseteq Range(got) \union Hand(rs[p]),
           Range(bytes) \intersect Hand(v) = {}
    PROVE  RandomInv'
  <1>0. PICK u : u = _rs_stir_if_needed(rs[p], n)
    OBVIOUS
  <1>1. Gives(u, got, t)
    BY <1>0
  <1>2. seeds' = IF Stirs(rs[p], n) THEN seeds + 1 ELSE seeds
    BY DEF HandOut
  <1>3. /\ StateOK(u) /\ u.initialized /\ u.key[1] \in 1 .. seeds'
        /\ \A q \in Process : q # p /\ rs[q].initialized => rs[q].key[1] # u.key[1]
        /\ \A b \in Byte : IsAhead(u, b) =>
              /\ b \notin out /\ b[1] \in 1 .. seeds'
              /\ \A q \in Process : /\ b \notin Hand(rs[q])
                                    /\ q # p /\ rs[q].initialized => ~ IsAhead(rs[q], b)
    BY <1>0, <1>2, DrawNew
  <1>4. \A b \in Range(got) : b \in Byte /\ IsAhead(u, b) /\ ~ IsAhead(t, b)
    BY <1>1 DEF Gives, Range
  <1>5. \A b : IsAhead(v, b) <=> IsAhead(t, b)
    BY DEF IsAhead
  <1>6. v.initialized /\ v.key[1] = u.key[1]
    BY <1>1, <1>3 DEF Gives
  <1>7. ASSUME NEW b \in Byte, IsAhead(t, b) PROVE IsAhead(u, b)
    BY <1>1, <1>7 DEF Gives
  <1>8. out \subseteq Byte /\ \A q \in Process : Hand(rs[q]) \subseteq Byte
    <2>1. out \subseteq Byte /\ \A q \in Process : StateOK(rs[q])
      BY DEF RandomInv, RandomTyped
    <2>2. ASSUME NEW q \in Process PROVE rs[q].half \in Seq(Byte) /\ rs[q].byte \in Seq(Byte)
      BY <2>1 DEF StateOK
    <2> QED
      BY <2>1, <2>2 DEF Hand, Range
  <1>9. \A b \in out : ~ IsAhead(v, b)
    BY <1>3, <1>5, <1>7, <1>8
  <1>10. \A q \in Process : \A b \in Hand(rs[q]) : ~ IsAhead(v, b)
    BY <1>3, <1>5, <1>7, <1>8
  <1>11. \A b \in Range(got) : ~ IsAhead(v, b)
    BY <1>4, <1>5
  <1>12. \A b \in out \union Range(bytes) \union Hand(v) : ~ IsAhead(v, b)
    BY <1>9, <1>10, <1>11
  <1>13. \A b \in Range(got) :
              /\ b \notin out /\ b[1] \in 1 .. seeds'
              /\ \A q \in Process : /\ b \notin Hand(rs[q])
                                    /\ q # p /\ rs[q].initialized => ~ IsAhead(rs[q], b)
    BY <1>3, <1>4
  <1>14. Stirs(rs[p], n) \in BOOLEAN
    <2>1. rs[p].initialized \in BOOLEAN
      BY DEF RandomInv, RandomTyped, StateOK
    <2> QED
      BY <2>1 DEF Stirs
  <1>15. Range(bytes) \union Hand(v) \subseteq Range(got) \union Hand(rs[p])
    OBVIOUS
  <1>16. /\ v.key[1] \in 1 .. seeds'
         /\ \A q \in Process : q # p /\ rs[q].initialized => rs[q].key[1] # v.key[1]
    BY <1>3, <1>6
  <1>17. \A q \in Process : q # p => \A b \in Hand(rs[q]) : ~ IsAhead(v, b)
    BY <1>10
  <1>18. v.initialized =>
            /\ v.key[1] \in 1 .. seeds'
            /\ \A q \in Process : q # p /\ rs[q].initialized => rs[q].key[1] # v.key[1]
            /\ \A b \in out \union Range(bytes) \union Hand(v) : ~ IsAhead(v, b)
            /\ \A q \in Process : q # p => \A b \in Hand(rs[q]) : ~ IsAhead(v, b)
    BY <1>12, <1>16, <1>17
  <1>19. Fresh(p, bytes, v, Range(got), seeds')
    BY <1>13, <1>15, <1>18 DEF Fresh
  <1> QED
    BY <1>14, <1>19, HandOutKeeps

(* The bytes a draw gives are in nobody's hand. *)
LEMMA DrawnNotInHand ==
    ASSUME RandomInv, NEW p \in Process, NEW n \in Nat, NEW got, NEW t,
           Gives(_rs_stir_if_needed(rs[p], n), got, t)
    PROVE  /\ StateOK(t) /\ t.half = rs[p].half /\ t.byte = rs[p].byte
           /\ got \in Seq(Byte) /\ IsInjective(got) /\ Range(got) \intersect Hand(rs[p]) = {}
           /\ IsInjective(rs[p].half) /\ IsInjective(rs[p].byte)
           /\ Range(rs[p].half) \intersect Range(rs[p].byte) = {}
           /\ rs[p].half \in Seq(Byte) /\ rs[p].byte \in Seq(Byte)
  <1>0. PICK u : u = _rs_stir_if_needed(rs[p], n)
    OBVIOUS
  <1>1. /\ u.half = rs[p].half /\ u.byte = rs[p].byte
        /\ \A b \in Byte : IsAhead(u, b) => b \notin Hand(rs[p])
    BY <1>0, DrawNew
  <1>2. Gives(u, got, t)
    BY <1>0
  <1>3. \A b \in Range(got) : b \in Byte /\ IsAhead(u, b)
    BY <1>2 DEF Gives, Range
  <1>4. rs[p].half \in Seq(Byte) /\ rs[p].byte \in Seq(Byte)
    BY DEF RandomInv, RandomTyped, StateOK
  <1> QED
    BY <1>1, <1>2, <1>3, <1>4 DEF Gives, RandomInv, HandsDistinct

LEMMA BufKeeps ==
    ASSUME RandomInv, NEW p \in Process, NEW n \in Lengths, kit_arc4random_buf(p, n)
    PROVE  RandomInv'
  <1>1. n \in Nat
    BY RandomSizes
  <1>2. StateOK(rs[p]) /\ seeds \in Nat
    BY DEF RandomInv, RandomTyped
  <1>3. PICK got, t : got = BufBytes(rs[p], n).got /\ t = BufBytes(rs[p], n).s
    OBVIOUS
  <1>4. Gives(_rs_stir_if_needed(rs[p], n), got, t)
    BY <1>1, <1>2, <1>3, BufBytesGives
  <1>5. HandOut(p, got, t, Stirs(rs[p], n))
    BY <1>3 DEF kit_arc4random_buf
  <1>6. /\ StateOK(t) /\ t.half = rs[p].half /\ t.byte = rs[p].byte
        /\ got \in Seq(Byte) /\ IsInjective(got) /\ Range(got) \intersect Hand(rs[p]) = {}
        /\ IsInjective(rs[p].half) /\ IsInjective(rs[p].byte)
        /\ Range(rs[p].half) \intersect Range(rs[p].byte) = {}
    BY <1>1, <1>4, DrawnNotInHand
  <1>7. Hand(t) = Hand(rs[p])
    BY <1>6 DEF Hand
  <1> QED
    BY <1>1, <1>4, <1>5, <1>6, <1>7, DrawKeeps

LEMMA Arc4randomKeeps ==
    ASSUME RandomInv, NEW p \in Process, kit_arc4random(p)
    PROVE  RandomInv'
  <1>1. WORD \in Nat
    BY RandomSizes
  <1>2. StateOK(rs[p]) /\ seeds \in Nat
    BY DEF RandomInv, RandomTyped
  <1>3. PICK got, t : got = Word(rs[p]).got /\ t = Word(rs[p]).s
    OBVIOUS
  <1>4. Gives(_rs_stir_if_needed(rs[p], WORD), got, t)
    BY <1>2, <1>3, WordGives
  <1>5. HandOut(p, got, t, Stirs(rs[p], WORD))
    BY <1>3 DEF kit_arc4random
  <1>6. /\ StateOK(t) /\ t.half = rs[p].half /\ t.byte = rs[p].byte
        /\ got \in Seq(Byte) /\ IsInjective(got) /\ Range(got) \intersect Hand(rs[p]) = {}
        /\ IsInjective(rs[p].half) /\ IsInjective(rs[p].byte)
        /\ Range(rs[p].half) \intersect Range(rs[p].byte) = {}
    BY <1>1, <1>4, DrawnNotInHand
  <1>7. Hand(t) = Hand(rs[p])
    BY <1>6 DEF Hand
  <1> QED
    BY <1>1, <1>4, <1>5, <1>6, <1>7, DrawKeeps

(* Two parts of the bytes of a number. *)
LEMMA Parts ==
    ASSUME NEW got, got \in [1 .. WORD -> Byte], IsInjective(got), NEW k \in Nat, k <= WORD
    PROVE  LET x == SubSeq(got, 1, k) y == SubSeq(got, k + 1, WORD) IN
           /\ x \in Seq(Byte) /\ IsInjective(x) /\ Range(x) \subseteq Range(got)
           /\ y \in Seq(Byte) /\ IsInjective(y) /\ Range(y) \subseteq Range(got)
           /\ Range(x) \intersect Range(y) = {}
  <1>0. WORD \in Nat
    BY RandomSizes
  <1>1. got \in Seq(Byte) /\ Len(got) = WORD /\ DOMAIN got = 1 .. WORD
    BY <1>0
  <1>2. PICK x, y : x = SubSeq(got, 1, k) /\ y = SubSeq(got, k + 1, WORD)
    OBVIOUS
  <1>3. x \in Seq(Byte) /\ DOMAIN x = 1 .. k /\ \A i \in 1 .. k : x[i] = got[i] /\ i \in 1 .. WORD
    BY <1>0, <1>1, <1>2
  <1>4. /\ y \in Seq(Byte) /\ DOMAIN y = 1 .. WORD - k
        /\ \A i \in 1 .. WORD - k : y[i] = got[k + i] /\ k + i \in 1 .. WORD
    <2>1. Len(y) = WORD - k /\ y \in Seq(Byte)
      BY <1>0, <1>1, <1>2
    <2>2. ASSUME NEW i \in 1 .. WORD - k PROVE y[i] = got[k + i] /\ k + i \in 1 .. WORD
      BY <1>0, <1>1, <1>2
    <2> QED
      BY <2>1, <2>2
  <1>5. IsInjective(x)
    BY <1>1, <1>3 DEF IsInjective
  <1>6. IsInjective(y)
    <2>1. ASSUME NEW i \in 1 .. WORD - k, NEW j \in 1 .. WORD - k, y[i] = y[j] PROVE i = j
      <3>1. k + i = k + j
        BY <2>1, <1>1, <1>4 DEF IsInjective
      <3> QED
        BY <3>1
    <2> QED
      BY <2>1, <1>4 DEF IsInjective
  <1>7. Range(x) \intersect Range(y) = {}
    <2>1. ASSUME NEW i \in 1 .. k, NEW j \in 1 .. WORD - k, x[i] = y[j] PROVE FALSE
      <3>1. i = k + j
        BY <2>1, <1>1, <1>3, <1>4 DEF IsInjective
      <3> QED
        BY <3>1
    <2> QED
      BY <2>1, <1>3, <1>4 DEF Range
  <1>8. Range(x) \subseteq Range(got) /\ Range(y) \subseteq Range(got)
    <2>1. \A i \in 1 .. WORD : got[i] \in Range(got)
      BY <1>1 DEF Range
    <2>2. Range(x) \subseteq Range(got)
      BY <1>3, <2>1 DEF Range
    <2>3. Range(y) \subseteq Range(got)
      BY <1>4, <2>1 DEF Range
    <2> QED
      BY <2>2, <2>3
  <1> QED
    BY <1>2, <1>3, <1>4, <1>5, <1>6, <1>7, <1>8

LEMMA Half == WORD \div 2 \in Nat /\ WORD \div 2 <= WORD
  BY RandomSizes

(* What is handed out of the hand is new to nobody. *)
LEMMA FromHandKeeps ==
    ASSUME RandomInv, NEW p \in Process, NEW bytes, NEW v, HandOut(p, bytes, v, FALSE),
           StateOK(v), v.key = rs[p].key, v.have = rs[p].have, v.initialized = rs[p].initialized,
           bytes \in Seq(Byte), IsInjective(bytes), Range(bytes) \subseteq Hand(rs[p]),
           IsInjective(v.half), IsInjective(v.byte), Range(v.half) \intersect Range(v.byte) = {},
           Hand(v) \subseteq Hand(rs[p]), Range(bytes) \intersect Hand(v) = {}
    PROVE  RandomInv'
  <1>1. seeds' = seeds
    BY DEF HandOut
  <1>2. \A b : IsAhead(v, b) <=> IsAhead(rs[p], b)
    BY DEF IsAhead
  <1>3. v.initialized =>
            /\ v.key[1] \in 1 .. seeds'
            /\ \A q \in Process : q # p /\ rs[q].initialized => rs[q].key[1] # v.key[1]
    BY <1>1 DEF RandomInv, SeedsOwned
  <1>4. v.initialized =>
            /\ \A b \in out \union Range(bytes) \union Hand(v) : ~ IsAhead(v, b)
            /\ \A q \in Process : q # p => \A b \in Hand(rs[q]) : ~ IsAhead(v, b)
    BY <1>2 DEF RandomInv, AheadNew
  <1>5. Fresh(p, bytes, v, {}, seeds')
    BY <1>3, <1>4 DEF Fresh
  <1> QED
    BY <1>5, HandOutKeeps

LEMMA WithHand ==
    ASSUME NEW t, StateOK(t), NEW x \in Seq(Byte)
    PROVE  /\ LET v == [t EXCEPT !.half = x] IN
              /\ StateOK(v) /\ v.key = t.key /\ v.have = t.have /\ v.initialized = t.initialized
              /\ v.half = x /\ v.byte = t.byte
           /\ LET v == [t EXCEPT !.byte = x] IN
              /\ StateOK(v) /\ v.key = t.key /\ v.have = t.have /\ v.initialized = t.initialized
              /\ v.byte = x /\ v.half = t.half
  <1>1. PICK v : v = [t EXCEPT !.half = x]
    OBVIOUS
  <1>2. /\ v.key = t.key /\ v.have = t.have /\ v.initialized = t.initialized /\ v.buf = t.buf
        /\ v.half = x /\ v.byte = t.byte
        /\ v \in [initialized : BOOLEAN, key : Nat \X Nat, buf : [1 .. RSBUFSZ -> Byte], have : Nat,
                  count : Nat, half : Seq(Byte), byte : Seq(Byte)]
    BY <1>1 DEF StateOK
  <1>3. StateOK(v)
    BY <1>2 DEF StateOK
  <1>4. PICK w : w = [t EXCEPT !.byte = x]
    OBVIOUS
  <1>5. /\ w.key = t.key /\ w.have = t.have /\ w.initialized = t.initialized /\ w.buf = t.buf
        /\ w.byte = x /\ w.half = t.half
        /\ w \in [initialized : BOOLEAN, key : Nat \X Nat, buf : [1 .. RSBUFSZ -> Byte], have : Nat,
                  count : Nat, half : Seq(Byte), byte : Seq(Byte)]
    BY <1>4 DEF StateOK
  <1>6. StateOK(w)
    BY <1>5 DEF StateOK
  <1> QED
    BY <1>1, <1>2, <1>3, <1>4, <1>5, <1>6

LEMMA Random16Keeps ==
    ASSUME RandomInv, NEW p \in Process, kit_random16(p)
    PROVE  RandomInv'
  <1>1. WORD \in Nat
    BY RandomSizes
  <1>2. StateOK(rs[p]) /\ seeds \in Nat /\ rs[p].half \in Seq(Byte) /\ rs[p].byte \in Seq(Byte)
    BY DEF RandomInv, RandomTyped, StateOK
  <1>e. <<>> \in Seq(Byte) /\ IsInjective(<<>>) /\ Range(<<>>) = {}
    BY DEF IsInjective, Range
  <1>3. CASE rs[p].half = <<>>
    <2>1. PICK got, t : got = Word(rs[p]).got /\ t = Word(rs[p]).s
      OBVIOUS
    <2>2. Gives(_rs_stir_if_needed(rs[p], WORD), got, t) /\ got \in [1 .. WORD -> Byte]
      BY <1>2, <2>1, WordGives
    <2>3. PICK x, y : x = SubSeq(got, 1, WORD \div 2) /\ y = SubSeq(got, WORD \div 2 + 1, WORD)
      OBVIOUS
    <2>4. PICK v : v = [t EXCEPT !.half = y]
      OBVIOUS
    <2>5. HandOut(p, x, v, Stirs(rs[p], WORD))
      BY <1>3, <2>1, <2>3, <2>4 DEF kit_random16
    <2>6. /\ StateOK(t) /\ t.half = rs[p].half /\ t.byte = rs[p].byte
          /\ got \in Seq(Byte) /\ IsInjective(got) /\ Range(got) \intersect Hand(rs[p]) = {}
          /\ IsInjective(rs[p].byte)
      BY <1>1, <2>2, DrawnNotInHand
    <2>7. /\ x \in Seq(Byte) /\ IsInjective(x) /\ Range(x) \subseteq Range(got)
          /\ y \in Seq(Byte) /\ IsInjective(y) /\ Range(y) \subseteq Range(got)
          /\ Range(x) \intersect Range(y) = {}
      BY <2>2, <2>3, <2>6, Half, Parts
    <2>8. /\ StateOK(v) /\ v.key = t.key /\ v.have = t.have /\ v.initialized = t.initialized
          /\ v.half = y /\ v.byte = rs[p].byte
      <3>1. StateOK(t) /\ y \in Seq(Byte)
        BY <2>6, <2>7
      <3>2. /\ StateOK(v) /\ v.key = t.key /\ v.have = t.have /\ v.initialized = t.initialized
            /\ v.half = y /\ v.byte = t.byte
        BY <2>4, <3>1, WithHand
      <3> QED
        BY <2>6, <3>2
    <2>9. Hand(v) = Range(y) \union Range(rs[p].byte) /\ Range(rs[p].byte) \subseteq Hand(rs[p])
      BY <2>8 DEF Hand
    <2>10. Range(v.half) \intersect Range(v.byte) = {} /\ Range(x) \intersect Hand(v) = {}
      BY <2>6, <2>7, <2>8, <2>9
    <2>11. Hand(v) \subseteq Range(got) \union Hand(rs[p]) /\ IsInjective(v.half) /\ IsInjective(v.byte)
      BY <2>6, <2>7, <2>8, <2>9
    <2> QED
      BY <1>1, <2>2, <2>5, <2>7, <2>8, <2>10, <2>11, DrawKeeps
  <1>4. CASE rs[p].half # <<>>
    <2>1. PICK v : v = [rs[p] EXCEPT !.half = <<>>]
      OBVIOUS
    <2>2. HandOut(p, rs[p].half, v, FALSE)
      BY <1>4, <2>1 DEF kit_random16
    <2>3. /\ StateOK(v) /\ v.key = rs[p].key /\ v.have = rs[p].have /\ v.initialized = rs[p].initialized
          /\ v.half = <<>> /\ v.byte = rs[p].byte
      BY <1>2, <1>e, <2>1, WithHand
    <2>4. /\ IsInjective(rs[p].half) /\ IsInjective(rs[p].byte)
          /\ Range(rs[p].half) \intersect Range(rs[p].byte) = {}
      BY DEF RandomInv, HandsDistinct
    <2>5. Hand(v) = Range(rs[p].byte) /\ Hand(rs[p]) = Range(rs[p].half) \union Range(rs[p].byte)
      BY <1>e, <2>3 DEF Hand
    <2>6. /\ Range(rs[p].half) \subseteq Hand(rs[p]) /\ Hand(v) \subseteq Hand(rs[p])
          /\ Range(rs[p].half) \intersect Hand(v) = {} /\ Range(v.half) \intersect Range(v.byte) = {}
          /\ IsInjective(v.half) /\ IsInjective(v.byte)
      BY <1>e, <2>3, <2>4, <2>5
    <2> QED
      BY <1>2, <2>2, <2>3, <2>4, <2>6, FromHandKeeps
  <1> QED
    BY <1>3, <1>4

LEMMA First ==
    ASSUME NEW s \in Seq(Byte), s # <<>>, IsInjective(s)
    PROVE  /\ <<s[1]>> \in Seq(Byte) /\ IsInjective(<<s[1]>>) /\ Range(<<s[1]>>) \subseteq Range(s)
           /\ Tail(s) \in Seq(Byte) /\ IsInjective(Tail(s)) /\ Range(Tail(s)) \subseteq Range(s)
           /\ Range(<<s[1]>>) \intersect Range(Tail(s)) = {}
  <1>1. Len(s) \in Nat \ {0} /\ DOMAIN s = 1 .. Len(s) /\ s[1] \in Byte /\ 1 \in DOMAIN s
    OBVIOUS
  <1>2. PICK x : x = <<s[1]>>
    OBVIOUS
  <1>3. x \in Seq(Byte) /\ DOMAIN x = {1} /\ x[1] = s[1]
    BY <1>1, <1>2
  <1>4. PICK y : y = Tail(s)
    OBVIOUS
  <1>5. /\ y \in Seq(Byte) /\ DOMAIN y = 1 .. Len(s) - 1
        /\ \A i \in 1 .. Len(s) - 1 : y[i] = s[i + 1] /\ i + 1 \in DOMAIN s /\ i + 1 # 1
    BY <1>1, <1>4
  <1>6. Range(x) = {s[1]}
    BY <1>3 DEF Range
  <1>7. IsInjective(x)
    BY <1>3 DEF IsInjective
  <1>8. IsInjective(y)
    <2>1. ASSUME NEW i \in 1 .. Len(s) - 1, NEW j \in 1 .. Len(s) - 1, y[i] = y[j] PROVE i = j
      <3>1. i + 1 = j + 1
        BY <2>1, <1>5 DEF IsInjective
      <3> QED
        BY <3>1
    <2> QED
      BY <2>1, <1>5 DEF IsInjective
  <1>9. Range(y) \subseteq Range(s) /\ s[1] \in Range(s)
    BY <1>1, <1>5 DEF Range
  <1>10. s[1] \notin Range(y)
    <2>1. ASSUME NEW i \in 1 .. Len(s) - 1, y[i] = s[1] PROVE FALSE
      BY <2>1, <1>1, <1>5 DEF IsInjective
    <2> QED
      BY <2>1, <1>5 DEF Range
  <1> QED
    BY <1>2, <1>3, <1>4, <1>5, <1>6, <1>7, <1>8, <1>9, <1>10

LEMMA Random8Keeps ==
    ASSUME RandomInv, NEW p \in Process, kit_random8(p)
    PROVE  RandomInv'
  <1>1. WORD \in Nat /\ WORD > 0
    BY RandomSizes
  <1>2. StateOK(rs[p]) /\ seeds \in Nat /\ rs[p].half \in Seq(Byte) /\ rs[p].byte \in Seq(Byte)
    BY DEF RandomInv, RandomTyped, StateOK
  <1>3. CASE rs[p].byte = <<>>
    <2>1. PICK got, t : got = Word(rs[p]).got /\ t = Word(rs[p]).s
      OBVIOUS
    <2>2. Gives(_rs_stir_if_needed(rs[p], WORD), got, t) /\ got \in [1 .. WORD -> Byte]
      BY <1>2, <2>1, WordGives
    <2>3. PICK x, y : x = <<got[1]>> /\ y = Tail(got)
      OBVIOUS
    <2>4. PICK v : v = [t EXCEPT !.byte = y]
      OBVIOUS
    <2>5. HandOut(p, x, v, Stirs(rs[p], WORD))
      BY <1>3, <2>1, <2>3, <2>4 DEF kit_random8
    <2>6. /\ StateOK(t) /\ t.half = rs[p].half /\ t.byte = rs[p].byte
          /\ got \in Seq(Byte) /\ IsInjective(got) /\ Range(got) \intersect Hand(rs[p]) = {}
          /\ IsInjective(rs[p].half)
      BY <1>1, <2>2, DrawnNotInHand
    <2>e. got # <<>>
      <3>1. 1 \in DOMAIN got
        BY <1>1, <2>2
      <3> QED
        BY <3>1
    <2>7. /\ x \in Seq(Byte) /\ IsInjective(x) /\ Range(x) \subseteq Range(got)
          /\ y \in Seq(Byte) /\ IsInjective(y) /\ Range(y) \subseteq Range(got)
          /\ Range(x) \intersect Range(y) = {}
      BY <2>3, <2>6, <2>e, First
    <2>8. /\ StateOK(v) /\ v.key = t.key /\ v.have = t.have /\ v.initialized = t.initialized
          /\ v.byte = y /\ v.half = rs[p].half
      <3>1. StateOK(t) /\ y \in Seq(Byte)
        BY <2>6, <2>7
      <3>2. /\ StateOK(v) /\ v.key = t.key /\ v.have = t.have /\ v.initialized = t.initialized
            /\ v.byte = y /\ v.half = t.half
        BY <2>4, <3>1, WithHand
      <3> QED
        BY <2>6, <3>2
    <2>9. Hand(v) = Range(y) \union Range(rs[p].half) /\ Range(rs[p].half) \subseteq Hand(rs[p])
      BY <2>8 DEF Hand
    <2>10. Range(v.half) \intersect Range(v.byte) = {} /\ Range(x) \intersect Hand(v) = {}
      BY <2>6, <2>7, <2>8, <2>9
    <2>11. Hand(v) \subseteq Range(got) \union Hand(rs[p]) /\ IsInjective(v.half) /\ IsInjective(v.byte)
      BY <2>6, <2>7, <2>8, <2>9
    <2> QED
      BY <1>1, <2>2, <2>5, <2>7, <2>8, <2>10, <2>11, DrawKeeps
  <1>4. CASE rs[p].byte # <<>>
    <2>0. PICK x, y : x = <<rs[p].byte[1]>> /\ y = Tail(rs[p].byte)
      OBVIOUS
    <2>1. PICK v : v = [rs[p] EXCEPT !.byte = y]
      OBVIOUS
    <2>2. HandOut(p, x, v, FALSE)
      BY <1>2, <1>4, <2>0, <2>1 DEF kit_random8, StateOK
    <2>4. /\ IsInjective(rs[p].half) /\ IsInjective(rs[p].byte)
          /\ Range(rs[p].half) \intersect Range(rs[p].byte) = {}
      BY DEF RandomInv, HandsDistinct
    <2>7. /\ x \in Seq(Byte) /\ IsInjective(x) /\ Range(x) \subseteq Range(rs[p].byte)
          /\ y \in Seq(Byte) /\ IsInjective(y) /\ Range(y) \subseteq Range(rs[p].byte)
          /\ Range(x) \intersect Range(y) = {}
      BY <1>2, <1>4, <2>0, <2>4, First
    <2>3. /\ StateOK(v) /\ v.key = rs[p].key /\ v.have = rs[p].have /\ v.initialized = rs[p].initialized
          /\ v.byte = y /\ v.half = rs[p].half
      BY <1>2, <2>1, <2>7, WithHand
    <2>5. /\ Hand(v) = Range(rs[p].half) \union Range(y)
          /\ Hand(rs[p]) = Range(rs[p].half) \union Range(rs[p].byte)
      BY <2>3 DEF Hand
    <2>6. /\ Range(x) \subseteq Hand(rs[p]) /\ Hand(v) \subseteq Hand(rs[p])
          /\ Range(x) \intersect Hand(v) = {} /\ Range(v.half) \intersect Range(v.byte) = {}
          /\ IsInjective(v.half) /\ IsInjective(v.byte)
      BY <2>3, <2>4, <2>5, <2>7
    <2> QED
      BY <2>2, <2>3, <2>6, <2>7, FromHandKeeps
  <1> QED
    BY <1>3, <1>4

LEMMA ForkKeeps ==
    ASSUME RandomInv, NEW p \in Process, NEW c \in Process, fork(p, c)
    PROVE  RandomInv'
  <1>1. PICK v : v = [rs[p] EXCEPT !.initialized = FALSE]
    OBVIOUS
  <1>2. /\ p # c /\ DOMAIN rs = Process /\ rs' = [rs EXCEPT ![c] = v]
        /\ seeds' = seeds /\ out' = out /\ again' = again
    BY <1>1 DEF fork, _rs_need_init, RandomInv, RandomTyped
  <1>3. DOMAIN rs' = Process /\ rs'[c] = v /\ \A q \in Process : q # c => rs'[q] = rs[q]
    BY <1>2
  <1>4. /\ v.key = rs[p].key /\ v.have = rs[p].have /\ v.initialized = FALSE /\ v.buf = rs[p].buf
        /\ v.half = rs[p].half /\ v.byte = rs[p].byte
        /\ v \in [initialized : BOOLEAN, key : Nat \X Nat, buf : [1 .. RSBUFSZ -> Byte], have : Nat,
                  count : Nat, half : Seq(Byte), byte : Seq(Byte)]
    BY <1>1 DEF RandomInv, RandomTyped, StateOK
  <1>5. StateOK(v)
    BY <1>4 DEF StateOK, RandomInv, RandomTyped
  <1>6. Hand(v) = Hand(rs[p])
    BY <1>4 DEF Hand
  <1>7. leftovers' = leftovers \union Hand(rs[p])
    BY DEF fork, Hand
  <1>8. RandomTyped'
    BY <1>2, <1>3, <1>5 DEF RandomInv, RandomTyped
  <1>9. SeedsOwned'
    <2>1. ASSUME NEW q \in Process PROVE \A b \in Hand(rs'[q]) : b[1] \in 1 .. seeds
      BY <1>3, <1>6 DEF RandomInv, SeedsOwned
    <2>2. ASSUME NEW q \in Process, rs'[q].initialized PROVE rs'[q] = rs[q] /\ rs[q].initialized
      BY <2>2, <1>3, <1>4
    <2> QED
      BY <1>2, <2>1, <2>2 DEF RandomInv, SeedsOwned, Hand
  <1>10. AheadNew'
    <2> SUFFICES ASSUME NEW q \in Process, rs'[q].initialized
                 PROVE  /\ \A b \in out : ~ IsAhead(rs'[q], b)
                        /\ \A r \in Process : \A b \in Hand(rs'[r]) : ~ IsAhead(rs'[q], b)
      BY <1>2 DEF AheadNew, IsAhead, Hand
    <2>1. rs'[q] = rs[q] /\ rs[q].initialized
      BY <1>3, <1>4
    <2>2. \A r \in Process : \A b \in Hand(rs[r]) : ~ IsAhead(rs[q], b)
      BY <2>1 DEF RandomInv, AheadNew
    <2>3. \A r \in Process : Hand(rs'[r]) = Hand(rs[r]) \/ Hand(rs'[r]) = Hand(rs[p])
      BY <1>3, <1>6
    <2> QED
      BY <2>1, <2>2, <2>3 DEF RandomInv, AheadNew
  <1>11. HandsDistinct'
    BY <1>3, <1>4 DEF RandomInv, HandsDistinct
  <1>12. HandsLeft'
    <2>1. \A r \in Process : IF r = c THEN Hand(rs'[r]) = Hand(rs[p]) ELSE Hand(rs'[r]) = Hand(rs[r])
      BY <1>3, <1>6
    <2>2. \A q \in Process : Hand(rs'[q]) \intersect out' \subseteq leftovers'
      BY <1>2, <1>7, <2>1 DEF RandomInv, HandsLeft
    <2>3. ASSUME NEW q \in Process, NEW r \in Process, q # r
          PROVE  Hand(rs'[q]) \intersect Hand(rs'[r]) \subseteq leftovers'
      <3>1. CASE q # c /\ r # c
        BY <2>1, <2>3, <3>1, <1>7 DEF RandomInv, HandsLeft
      <3>2. CASE q = c \/ r = c
        BY <2>1, <3>2, <1>7
      <3> QED
        BY <3>1, <3>2
    <2> QED
      BY <2>2, <2>3 DEF HandsLeft, Hand
  <1>13. (again \subseteq leftovers)'
    BY <1>2, <1>7 DEF RandomInv
  <1> QED
    BY <1>8, <1>9, <1>10, <1>11, <1>12, <1>13 DEF RandomInv

LEMMA RandomStep == RandomInv /\ [RandomNext]_randomVars => RandomInv'
  <1> SUFFICES ASSUME RandomInv, [RandomNext]_randomVars PROVE RandomInv'
    OBVIOUS
  <1>1. CASE kit_arc4random_init \/ UNCHANGED randomVars
    <2>1. UNCHANGED <<rs, seeds, out, again, leftovers>>
      BY <1>1 DEF kit_arc4random_init, randomVars
    <2>2. RandomTyped'
      BY <2>1 DEF RandomInv, RandomTyped, StateOK
    <2>3. SeedsOwned' /\ HandsDistinct' /\ HandsLeft' /\ (again \subseteq leftovers)'
      BY <2>1 DEF RandomInv, SeedsOwned, HandsDistinct, HandsLeft, Hand
    <2>4. AheadNew'
      BY <2>1 DEF RandomInv, AheadNew, IsAhead, Hand
    <2> QED
      BY <2>2, <2>3, <2>4 DEF RandomInv
  <1>2. CASE \E p \in Process : kit_arc4random(p)
    BY <1>2, Arc4randomKeeps
  <1>3. CASE \E p \in Process : kit_random16(p)
    BY <1>3, Random16Keeps
  <1>4. CASE \E p \in Process : kit_random8(p)
    BY <1>4, Random8Keeps
  <1>5. CASE \E p \in Process : \E n \in Lengths : kit_arc4random_buf(p, n)
    BY <1>5, BufKeeps
  <1>6. CASE \E p \in Process : \E c \in Process : fork(p, c)
    BY <1>6, ForkKeeps
  <1> QED
    BY <1>1, <1>2, <1>3, <1>4, <1>5, <1>6 DEF RandomNext
-----------------------------------------------------------------------------
(* A number has one quotient and one remainder. *)
LEMMA Quotient ==
    ASSUME NEW d \in Nat \ {0}, NEW a \in Nat
    PROVE  /\ a \div d \in Nat /\ a % d \in 0 .. d - 1 /\ a = d * (a \div d) + (a % d)
           /\ \A q \in Int, m \in 0 .. d - 1 : a = d * q + m => q = a \div d /\ m = a % d
  <1>1. a \div d \in Nat /\ a % d \in 0 .. d - 1 /\ a = d * (a \div d) + (a % d)
    <2>1. a % d \in 0 .. d - 1
      OBVIOUS
    <2>2. a \div d \in Int
      OBVIOUS
    <2>3. a = d * (a \div d) + (a % d)
      OBVIOUS
    <2>4. a \div d >= 0
      OBVIOUS
    <2> QED
      BY <2>1, <2>2, <2>3, <2>4
  <1>2. ASSUME NEW q \in Int, NEW m \in 0 .. d - 1, a = d * q + m PROVE q = a \div d /\ m = a % d
    <2>1. PICK k \in Nat, e \in 0 .. d - 1 : k = a \div d /\ e = a % d /\ a = d * k + e
      BY <1>1
    <2>2. d * (q - k) = e - m
      BY <1>2, <2>1
    <2>3. CASE q - k >= 1
      <3>1. d * (q - k) >= d
        BY <2>3
      <3> QED
        BY <2>2, <3>1
    <2>4. CASE q - k <= -1
      <3>1. d * (q - k) <= - d
        BY <2>4
      <3> QED
        BY <2>2, <3>1
    <2>5. CASE q = k
      BY <2>1, <2>2, <2>5
    <2> QED
      BY <2>1, <2>3, <2>4, <2>5
  <1> QED
    BY <1>1, <1>2

(* As many accepted numbers give v as the bound goes into UINTS. *)
LEMMA UniformInGeneral == Uniform
  <1> SUFFICES ASSUME NEW ub \in 2 .. UINTS - 1, NEW v \in 0 .. ub - 1
               PROVE  Cardinality({r \in UniformMin(ub) .. UINTS - 1 : r % ub = v}) = UINTS \div ub
    BY DEF Uniform
  <1>0. UINTS \in Nat /\ ub \in Nat \ {0} /\ UINTS - ub \in Nat
    BY RandomSizes
  <1>1. PICK q \in Nat, m \in 0 .. ub - 1 : UINTS = ub * q + m /\ q = UINTS \div ub
    BY <1>0, Quotient
  <1>2. UniformMin(ub) = m
    <2>0. PICK w \in Nat : w = UINTS - ub
      BY <1>0
    <2>k. PICK k \in Int : k = q - 1
      OBVIOUS
    <2>1. w = ub * k + m
      BY <1>0, <1>1, <2>0, <2>k
    <2>2. m = w % ub
      BY <1>0, <1>1, <2>1, Quotient
    <2> QED
      BY <2>0, <2>2 DEF UniformMin
  <1> DEFINE S == {r \in m .. UINTS - 1 : r % ub = v}
             o == IF v >= m THEN -1 ELSE 0
             f == [j \in 1 .. q |-> ub * (j + o) + v]
  <1>3. ASSUME NEW j \in 1 .. q PROVE ub * (j + o) + v \in S
    <2>0. PICK k \in Nat : k = j + o
      OBVIOUS
    <2>1. ub * k + v \in Nat
      BY <1>0
    <2>2. (ub * k + v) % ub = v
      BY <1>0, <2>1, Quotient
    <2>3. ub * k + v >= m
      <3>1. CASE v >= m
        <4>1. ub * k >= 0
          BY <1>0
        <4> QED
          BY <1>0, <1>1, <3>1, <4>1
      <3>2. CASE v < m
        <4>1. k >= 1
          BY <2>0, <3>2
        <4>2. ub * k >= ub
          BY <1>0, <4>1
        <4> QED
          BY <1>0, <1>1, <4>2
      <3> QED
        BY <1>1, <3>1, <3>2
    <2>4. ub * k + v <= UINTS - 1
      <3>1. CASE v >= m
        <4>1. k <= q - 1
          BY <2>0, <3>1
        <4>2. ub * k <= ub * (q - 1)
          BY <1>0, <1>1, <4>1
        <4>3. ub * (q - 1) = ub * q - ub
          BY <1>0, <1>1
        <4> QED
          BY <1>0, <1>1, <4>2, <4>3
      <3>2. CASE v < m
        <4>1. k <= q
          BY <2>0, <3>2
        <4>2. ub * k <= ub * q
          BY <1>0, <1>1, <4>1
        <4> QED
          BY <1>0, <1>1, <3>2, <4>2
      <3> QED
        BY <1>1, <3>1, <3>2
    <2> QED
      BY <1>0, <1>1, <2>0, <2>1, <2>2, <2>3, <2>4
  <1>4. ASSUME NEW i \in 1 .. q, NEW j \in 1 .. q, ub * (i + o) + v = ub * (j + o) + v PROVE i = j
    <2>0. PICK k \in Nat, l \in Nat : k = i + o /\ l = j + o
      OBVIOUS
    <2>1. ub * k + v \in Nat /\ ub * k + v = ub * l + v
      BY <1>0, <1>4, <2>0
    <2>2. k = (ub * k + v) \div ub /\ l = (ub * k + v) \div ub
      BY <1>0, <2>1, Quotient
    <2>3. k = l
      BY <2>2
    <2> QED
      BY <2>0, <2>3
  <1>5. ASSUME NEW r \in S PROVE \E j \in 1 .. q : r = ub * (j + o) + v
    <2>0. r \in Nat /\ r >= m /\ r <= UINTS - 1 /\ r % ub = v
      BY <1>0, <1>1
    <2>1. PICK k \in Nat : r = ub * k + v
      BY <1>0, <2>0, Quotient
    <2>2. k <= q
      <3>1. CASE k >= q + 1
        <4>1. ub * k >= ub * (q + 1)
          BY <1>0, <1>1, <3>1
        <4>2. ub * (q + 1) = ub * q + ub
          BY <1>0, <1>1
        <4> QED
          BY <1>0, <1>1, <2>0, <2>1, <4>1, <4>2
      <3> QED
        BY <1>1, <3>1
    <2>3. CASE v >= m
      <3>1. k # q
        BY <1>0, <1>1, <2>0, <2>1, <2>3
      <3>2. k + 1 \in 1 .. q /\ (k + 1) + o = k
        BY <1>1, <2>2, <2>3, <3>1
      <3> QED
        BY <2>1, <3>2
    <2>4. CASE v < m
      <3>1. k # 0
        BY <1>0, <1>1, <2>0, <2>1, <2>4
      <3>2. k \in 1 .. q /\ k + o = k
        BY <1>1, <2>2, <2>4, <3>1
      <3> QED
        BY <2>1, <3>2
    <2> QED
      BY <1>1, <2>3, <2>4
  <1>6. f \in Bijection(1 .. q, S)
    <2> HIDE DEF S, o
    <2>1. f \in [1 .. q -> S]
      BY <1>3
    <2>2. IsInjective(f)
      BY <1>4 DEF IsInjective
    <2>3. \A r \in S : \E j \in 1 .. q : f[j] = r
      BY <1>5
    <2> HIDE DEF f
    <2> QED
      BY <2>1, <2>2, <2>3 DEF Bijection, Injection, Surjection
  <1>7. Cardinality(S) = q
    <2> HIDE DEF S, f
    <2>1. ExistsBijection(1 .. q, S)
      BY <1>6 DEF ExistsBijection
    <2> QED
      BY <2>1, FS_CountingElements
  <1> QED
    BY <1>1, <1>2, <1>7
-----------------------------------------------------------------------------
(* For any number of processes, sizes of the buffer and of a word, and sequence of
   calls and forks: no byte of the keystream is handed out twice but what kit_random8
   and kit_random16 have left of a number when a process forks; no cleared byte is; and
   kit_arc4random_uniform favours no number, whatever the bound and the width. *)
THEOREM RandomGivenOnce == RandomSpec => []RandomOnce
  <1>1. RandomInv => RandomOnce
    <2>1. ASSUME SeedsOwned, Zero \in out PROVE FALSE
      <3>1. Zero[1] = 0 /\ Zero[1] \in 1 .. seeds
        BY <2>1 DEF SeedsOwned, Zero
      <3> QED
        BY <3>1
    <2> QED
      BY <2>1, UniformInGeneral DEF RandomInv, RandomOnce
  <1> QED
    BY <1>1, InitRandomInv, RandomStep, PTL DEF RandomSpec
-----------------------------------------------------------------------------
(***************************************************************************)
(* kit-alloc.c, for any slots, sizes and sequence of calls.                *)
(*                                                                         *)
(* AllocSound is not inductive: the invariant adds what is written in the  *)
(* words of every block that is held or was freed (HeldOK, FreedOK; a      *)
(* check reads nothing else), that the flags cannot change once there is a *)
(* block (Tallied), and why a block was refused (Refused).                 *)
(***************************************************************************)
Blocks == [ptr : Nat, at : Slots, size : Nat, abused : BOOLEAN]

(* The fore guard of a block is intact: its size, its address, and a copy. *)
Stamped(m, h, b) == m[b.at] = h[b.at] /\ m[b.at + 1] = b.at /\ m[b.ptr - 1] = b.at

HeldOK(m, h, chk, b) ==
    /\ b \in Blocks /\ h[b.at] \in 1 .. SlotWords
    /\ ~ chk => b.ptr = b.at /\ h[b.at] = b.size /\ b.abused = FALSE
    /\ chk => /\ b.ptr - b.at \in {2, 4, 8} /\ h[b.at] = (b.ptr - b.at) + b.size + 1
              /\ \/ b.abused = FALSE /\ Stamped(m, h, b) /\ m[b.at + h[b.at] - 1] = b.at
                 \/ b.abused = TRUE /\ m[b.ptr - 1] = JUNK
                 \/ b.abused = TRUE /\ Stamped(m, h, b) /\ m[b.at + h[b.at] - 1] = JUNK

FreedOK(m, h, chk, b) ==
    /\ b \in Blocks /\ h[b.at] = 0
    /\ chk => /\ b.ptr - b.at \in {2, 4, 8} /\ (b.ptr - b.at) + b.size + 1 <= SlotWords
              /\ m[b.at + 1] = FREE /\ (b.ptr - b.at # 2 => m[b.ptr - 1] = b.at)

Memory(m, h, chk, H, F) ==
    /\ m \in [Words -> Int] /\ h \in [Slots -> 0 .. SlotWords]
    /\ \A b \in H : HeldOK(m, h, chk, b)
    /\ \A b \in F : FreedOK(m, h, chk, b)
    /\ \A b, c \in H : b.at = c.at => b = c

(* The counts that count now. *)
Tally == IF using THEN counters ELSE early

Tallied ==
    /\ using \in BOOLEAN /\ initialized \in BOOLEAN
    /\ early \in [Counted -> Nat] /\ counters \in [Counted -> Nat]
    /\ ~ using => counters = [c \in Counted |-> 0]
    /\ using => initialized
    /\ lent \union freed # {} => initialized \/ Calls > 0
    /\ IsFiniteSet(lent) /\ Accounted

Refused ==
    aborted = "corrupt" => \/ \E b \in lent : b.abused = TRUE \/ Misaligned(b)
                           \/ freed # {}

Maxima == allocated_max \in Int /\ logged_max \in Int /\ logged_max <= allocated_max

AllocInv ==
    /\ AllocAssumption /\ Memory(mem, heap, Checking, lent, freed) /\ Tallied /\ Refused /\ Maxima
    /\ unsafe = FALSE
-----------------------------------------------------------------------------
(* A finite set of numbers has a greatest one. *)
LEMMA Greatest ==
    ASSUME NEW S, IsFiniteSet(S), S \subseteq Nat, S # {}
    PROVE  \E x \in S : \A y \in S : x >= y
  <1>1. PICK n : n = Cardinality(S)
    OBVIOUS
  <1>2. n \in Nat /\ ExistsBijection(1 .. n, S)
    BY <1>1, FS_CardinalityType
  <1>3. PICK f \in [1 .. n -> S] : \A x \in S : \E i \in 1 .. n : f[i] = x
    BY <1>2 DEF ExistsBijection, Bijection, Surjection, Injection
  <1>4. n # 0
    <2>1. PICK x \in S : TRUE
      OBVIOUS
    <2>2. PICK i \in 1 .. n : f[i] = x
      BY <1>3
    <2> QED
      BY <2>2, <1>2
  <1>t. \A i \in 1 .. n : f[i] \in Nat
    BY <1>3
  <1> DEFINE Top(k) == \E i \in 1 .. k : \A j \in 1 .. k : f[i] >= f[j]
             Bad == {k \in 1 .. n : ~ Top(k)}
  <1>5. CASE Bad # {}
    <2>1. Bad \in SUBSET Nat
      BY <1>2
    <2>2. PICK k \in Bad : \A m \in Bad : k <= m
      BY <1>5, <2>1, Least
    <2>3. k \in 1 .. n /\ ~ Top(k)
      OBVIOUS
    <2>4. k # 1
      <3>1. ASSUME k = 1 PROVE Top(k)
        <4>1. 1 \in 1 .. 1 /\ \A j \in 1 .. 1 : j = 1
          OBVIOUS
        <4>2. f[1] \in Nat
          BY <3>1, <2>3, <1>t
        <4>3. f[1] >= f[1]
          BY <4>2
        <4> QED
          BY <3>1, <4>1, <4>3
      <3> QED
        BY <3>1, <2>3
    <2>5. k - 1 \in 1 .. n /\ ~ (k <= k - 1) /\ k \in Nat /\ 1 .. k - 1 \subseteq 1 .. k /\ k \in 1 .. k
      BY <2>3, <2>4, <1>2
    <2>6. Top(k - 1)
      BY <2>2, <2>5
    <2>7. PICK i \in 1 .. k - 1 : \A j \in 1 .. k - 1 : f[i] >= f[j]
      BY <2>6
    <2>8. \A j \in 1 .. k : f[j] \in Nat /\ (j \in 1 .. k - 1 \/ j = k)
      <3>1. ASSUME NEW j \in 1 .. k PROVE j \in 1 .. n /\ (j \in 1 .. k - 1 \/ j = k)
        BY <2>3, <1>2
      <3> QED
        BY <3>1, <1>t
    <2>9. CASE f[i] >= f[k]
      <3>1. \A j \in 1 .. k : f[i] >= f[j]
        BY <2>7, <2>8, <2>9
      <3> QED
        BY <3>1, <2>3, <2>5
    <2>10. CASE ~ (f[i] >= f[k])
      <3>1. f[i] \in Nat /\ f[k] \in Nat
        BY <2>5, <2>8
      <3>2. ASSUME NEW j \in 1 .. k PROVE f[k] >= f[j]
        <4>1. CASE j = k
          BY <4>1, <3>1
        <4>2. CASE j # k
          <5>0. j \in 1 .. k - 1 /\ f[j] \in Nat
            BY <4>2, <2>8
          <5>1. f[j] \in Nat /\ f[i] >= f[j]
            BY <5>0, <2>7
          <5>2. PICK x, y, z \in Nat : x = f[i] /\ y = f[j] /\ z = f[k]
            BY <5>1, <3>1
          <5>3. x >= y /\ ~ (x >= z)
            BY <5>1, <5>2, <2>10
          <5>4. z >= y
            BY <5>3
          <5> QED
            BY <5>2, <5>4
        <4> QED
          BY <4>1, <4>2
      <3> QED
        BY <3>2, <2>3, <2>5
    <2> QED
      BY <2>9, <2>10
  <1>6. CASE Bad = {}
    <2>1. n \in 1 .. n
      BY <1>2, <1>4
    <2>2. Top(n)
      BY <1>6, <2>1
    <2>3. PICK i \in 1 .. n : \A j \in 1 .. n : f[i] >= f[j]
      BY <2>2
    <2> QED
      BY <2>3, <1>3
  <1> QED
    BY <1>5, <1>6

(* The words of a slot are memory, and of no other slot. *)
LEMMA SlotWordsOf ==
    ASSUME AllocAssumption, NEW a \in Slots, NEW w \in a .. a + SlotWords - 1
    PROVE  /\ a \in Nat /\ a % 2 = 0 /\ a > 2 /\ SlotWords \in Nat /\ w \in Words
           /\ \A b \in Slots : b # a => w \notin b .. b + SlotWords - 1
  <1>1. /\ IsFiniteSet(Slots) /\ Slots \subseteq Nat /\ SlotWords \in Nat
        /\ \A x \in Slots : x % 2 = 0 /\ x > 2 /\ \A y \in Slots : x < y => x + SlotWords <= y
    BY DEF AllocAssumption
  <1>2. \E x \in Slots : \A y \in Slots : x >= y
    BY <1>1, Greatest
  <1>3. PICK g : g = Max(Slots)
    OBVIOUS
  <1>4. g \in Slots /\ \A y \in Slots : g >= y
    BY <1>2, <1>3 DEF Max
  <1>5. g \in Nat /\ a \in Nat /\ g >= a
    BY <1>1, <1>4
  <1>6. w \in Words
    BY <1>1, <1>3, <1>5 DEF Words
  <1>7. ASSUME NEW b \in Slots, b # a PROVE w \notin b .. b + SlotWords - 1
    <2>1. b \in Nat /\ (b < a => b + SlotWords <= a) /\ (a < b => a + SlotWords <= b)
      BY <1>1
    <2> QED
      BY <2>1, <1>1, <1>5, <1>7
  <1> QED
    BY <1>1, <1>5, <1>6, <1>7

LEMMA BlockTypes ==
    ASSUME AllocAssumption, NEW b \in Blocks
    PROVE  b.ptr \in Nat /\ b.at \in Slots /\ b.at \in Nat /\ b.size \in Nat /\ b.abused \in BOOLEAN
  BY DEF AllocAssumption, Blocks

(* What a block says depends on its own slot only. *)
LEMMA HeldElsewhere ==
    ASSUME AllocAssumption, NEW m, NEW h, NEW chk, NEW b, HeldOK(m, h, chk, b), NEW m2, NEW h2,
           h2[b.at] = h[b.at],
           \A w \in b.at .. b.at + SlotWords - 1 : m2[w] = m[w]
    PROVE  HeldOK(m2, h2, chk, b)
  <1>1. b \in Blocks /\ h[b.at] \in 1 .. SlotWords /\ SlotWords \in Nat
    BY DEF HeldOK, AllocAssumption
  <1>2. b.ptr \in Nat /\ b.at \in Nat /\ b.size \in Nat
    BY <1>1, BlockTypes
  <1>3. CASE chk
    <2>1. b.ptr - b.at \in {2, 4, 8} /\ h[b.at] = (b.ptr - b.at) + b.size + 1
      BY <1>3 DEF HeldOK
    <2>2. PICK n, p, a, s : n = h[b.at] /\ p = b.ptr /\ a = b.at /\ s = b.size
      OBVIOUS
    <2>3. /\ a \in a .. a + SlotWords - 1 /\ a + 1 \in a .. a + SlotWords - 1
          /\ p - 1 \in a .. a + SlotWords - 1 /\ a + n - 1 \in a .. a + SlotWords - 1
      BY <1>1, <1>2, <2>1, <2>2
    <2>4. m2[a] = m[a] /\ m2[a + 1] = m[a + 1] /\ m2[p - 1] = m[p - 1] /\ m2[a + n - 1] = m[a + n - 1]
      BY <2>2, <2>3
    <2> QED
      BY <1>3, <2>2, <2>4 DEF HeldOK, Stamped
  <1>4. CASE ~ chk
    BY <1>4 DEF HeldOK
  <1> QED
    BY <1>3, <1>4

LEMMA FreedElsewhere ==
    ASSUME AllocAssumption, NEW m, NEW h, NEW chk, NEW b, FreedOK(m, h, chk, b), NEW m2, NEW h2,
           h2[b.at] = h[b.at],
           \A w \in b.at .. b.at + SlotWords - 1 : m2[w] = m[w]
    PROVE  FreedOK(m2, h2, chk, b)
  <1>1. b \in Blocks /\ SlotWords \in Nat
    BY DEF FreedOK, AllocAssumption
  <1>2. b.ptr \in Nat /\ b.at \in Nat /\ b.size \in Nat
    BY <1>1, BlockTypes
  <1>3. CASE chk
    <2>1. b.ptr - b.at \in {2, 4, 8} /\ (b.ptr - b.at) + b.size + 1 <= SlotWords
      BY <1>3 DEF FreedOK
    <2>2. PICK p, a, s : p = b.ptr /\ a = b.at /\ s = b.size
      OBVIOUS
    <2>3. a + 1 \in a .. a + SlotWords - 1 /\ p - 1 \in a .. a + SlotWords - 1
      BY <1>1, <1>2, <2>1, <2>2
    <2>4. m2[a + 1] = m[a + 1] /\ m2[p - 1] = m[p - 1]
      BY <2>2, <2>3
    <2> QED
      BY <1>3, <2>2, <2>4 DEF FreedOK
  <1>4. CASE ~ chk
    BY <1>4 DEF FreedOK
  <1> QED
    BY <1>3, <1>4

(* The distance from a slot to the pointer into it. *)
Offsets == {2, 4, 8}

(* guard_initialize writes the stamps, in its slot only. *)
LEMMA GuardWritten ==
    ASSUME AllocAssumption, Checking, NEW m \in [Words -> Int], NEW a \in Slots,
           NEW alignment \in Int, Offset(alignment) \in Offsets, NEW size \in Nat,
           NEW n, n = Offset(alignment) + size + 1, n \in 1 .. SlotWords, NEW m2, m2 = guard_initialize(m, a, n, alignment)
    PROVE  /\ m2 \in [Words -> Int]
           /\ m2[a] = n /\ m2[a + 1] = a /\ m2[a + Offset(alignment) - 1] = a /\ m2[a + n - 1] = a
           /\ \A w \in Words : w \notin a .. a + SlotWords - 1 => m2[w] = m[w]
  <1>1. a \in Nat /\ SlotWords \in Nat /\ n \in Nat
    BY DEF AllocAssumption
  <1>o. PICK o \in Offsets : o = Offset(alignment) /\ (alignment > 2 => o = alignment) /\ (~ (alignment > 2) => o = 2)
    BY DEF Offset
  <1>2. n = o + size + 1 /\ o \in {2, 4, 8}
    BY <1>o DEF Offsets
  <1> DEFINE In(w) == w \in a .. a + SlotWords - 1
  <1>3. In(a) /\ In(a + 1) /\ In(a + o - 1) /\ In(a + o - 2) /\ In(a + n - 1)
    BY <1>1, <1>2
  <1>4. a + 1 # a /\ a + n - 1 # a /\ a + n - 1 # a + 1 /\ a + n - 1 # a + o - 1 /\ a + n - 1 # a + o - 2
    BY <1>1, <1>2
  <1>5. \A w : In(w) => w \in Words
    BY SlotWordsOf
  <1>6. PICK st : st = [m EXCEPT ![a] = n, ![a + 1] = a, ![a + n - 1] = a]
    OBVIOUS
  <1>7. a \in Words /\ a + 1 \in Words /\ a + o - 1 \in Words /\ a + o - 2 \in Words /\ a + n - 1 \in Words
    BY <1>3, <1>5
  <1>8. n \in Int /\ a \in Int
    BY <1>1
  <1>9. st \in [Words -> Int]
    BY <1>6, <1>7, <1>8
  <1>10. st[a] = n /\ st[a + 1] = a /\ st[a + n - 1] = a
    BY <1>4, <1>6, <1>7
  <1>11. \A w \in Words : ~ In(w) => st[w] = m[w]
    BY <1>3, <1>6
  <1> HIDE DEF In
  <1>12. CASE alignment > 2
    <2>1. m2 = [st EXCEPT ![a + alignment - 2] = st[a], ![a + alignment - 1] = st[a + 1]]
      BY <1>6, <1>12 DEF guard_initialize
    <2>2. m2 = [st EXCEPT ![a + o - 2] = n, ![a + o - 1] = a]
      BY <2>1, <1>10, <1>12, <1>o
    <2>3. o # 3 /\ a + o - 1 # a + o - 2 /\ a + o - 1 # a /\ (a + o - 2 = a + 1 => FALSE) /\ (a + o - 1 = a + 1 => o = 2) /\ (a + o - 2 = a => o = 2)
      BY <1>1, <1>2
    <2>4. m2 \in [Words -> Int]
      BY <2>2, <1>7, <1>8, <1>9
    <2>5. m2[a + o - 1] = a
      BY <2>2, <2>3, <1>7, <1>9
    <2>6. m2[a + n - 1] = a
      BY <2>2, <1>4, <1>7, <1>9, <1>10
    <2>7. m2[a] = n
      BY <2>2, <2>3, <1>7, <1>9, <1>10
    <2>8. m2[a + 1] = a
      BY <2>2, <2>3, <1>7, <1>9, <1>10
    <2>9. \A w \in Words : ~ In(w) => m2[w] = m[w]
      BY <2>2, <1>3, <1>9, <1>11
    <2> QED
      BY <2>4, <2>5, <2>6, <2>7, <2>8, <2>9, <1>o DEF In
  <1>13. CASE ~ (alignment > 2)
    <2>1. m2 = st /\ o = 2 /\ a + o - 1 = a + 1
      BY <1>1, <1>6, <1>13, <1>o DEF guard_initialize
    <2> QED
      BY <2>1, <1>9, <1>10, <1>11, <1>o DEF In
  <1> QED
    BY <1>12, <1>13

(* A block b of size is put into slot a, over what R was: allocating takes none
   away, moving one. *)
Placing(m0, m, h, h2, H, F, R, a, alignment, size, n) ==
    /\ R \subseteq H /\ a \in Slots /\ \A c \in H \ R : c.at # a
    /\ m \in [Words -> Int] /\ \A w \in Words : w \notin a .. a + SlotWords - 1 => m[w] = m0[w]
    /\ alignment \in Int /\ Offset(alignment) \in Offsets /\ size \in Nat
    /\ n = (IF Checking THEN Offset(alignment) + size + 1 ELSE size) /\ n \in 1 .. SlotWords
    /\ h2 \in [Slots -> 0 .. SlotWords] /\ h2[a] = n
    /\ \A c \in H \ R : h2[c.at] = h[c.at]
    /\ \A c \in F : c.at # a => h2[c.at] = h[c.at]

LEMMA BlockPlaced ==
    ASSUME AllocAssumption, NEW h, NEW H, NEW F, NEW m0, Memory(m0, h, Checking, H, F),
           NEW m, NEW h2, NEW R, NEW a, NEW alignment, NEW size, NEW n,
           Placing(m0, m, h, h2, H, F, R, a, alignment, size, n),
           NEW b, b = Block(Given(a, alignment), a, size),
           NEW m2, m2 = guard_initialize(m, a, n, alignment),
           NEW H2, H2 = (H \ R) \union {b},
           NEW F2, \A c : c \in F2 <=> c \in F /\ c.at # a
    PROVE  Memory(m2, h2, Checking, H2, F2)
  <1>p. /\ R \subseteq H /\ a \in Slots /\ \A c \in H \ R : c.at # a
        /\ m \in [Words -> Int] /\ \A w \in Words : w \notin a .. a + SlotWords - 1 => m[w] = m0[w]
        /\ alignment \in Int /\ Offset(alignment) \in Offsets /\ size \in Nat
        /\ n = (IF Checking THEN Offset(alignment) + size + 1 ELSE size) /\ n \in 1 .. SlotWords
        /\ h2 \in [Slots -> 0 .. SlotWords] /\ h2[a] = n
        /\ \A c \in H \ R : h2[c.at] = h[c.at]
        /\ \A c \in F : c.at # a => h2[c.at] = h[c.at]
    BY DEF Placing
  <1>1. a \in Nat /\ SlotWords \in Nat /\ n \in Nat
    BY <1>p DEF AllocAssumption
  <1>2. b = Block(Given(a, alignment), a, size) /\ m2 = guard_initialize(m, a, n, alignment)
    OBVIOUS
  <1>3. /\ m2 \in [Words -> Int]
        /\ \A w \in Words : w \notin a .. a + SlotWords - 1 => m2[w] = m[w]
        /\ Checking => /\ m2[a] = n /\ m2[a + 1] = a /\ m2[a + n - 1] = a
                       /\ m2[a + Offset(alignment) - 1] = a
    <2>1. CASE Checking
      <3>1. n = Offset(alignment) + size + 1
        BY <2>1, <1>p
      <3>2. /\ m2 \in [Words -> Int]
            /\ m2[a] = n /\ m2[a + 1] = a /\ m2[a + Offset(alignment) - 1] = a /\ m2[a + n - 1] = a
            /\ \A w \in Words : w \notin a .. a + SlotWords - 1 => m2[w] = m[w]
        BY <2>1, <3>1, <1>2, <1>p, GuardWritten
      <3> QED
        BY <3>2
    <2>2. CASE ~ Checking
      BY <2>2, <1>2, <1>p DEF guard_initialize
    <2> QED
      BY <2>1, <2>2
  <1>4. /\ b.at = a /\ b.size = size /\ b.abused = FALSE
        /\ b.ptr = (IF Checking THEN a + Offset(alignment) ELSE a)
    BY <1>2 DEF Block, Given
  <1>5. Offset(alignment) \in {2, 4, 8}
    BY <1>p DEF Offsets
  <1>6. b \in Blocks
    BY <1>1, <1>2, <1>5, <1>p DEF Block, Given, Blocks
  <1>7. HeldOK(m2, h2, Checking, b)
    <2>1. CASE Checking
      <3>1. PICK o \in {2, 4, 8} : o = Offset(alignment)
        BY <1>5
      <3>2. b.ptr = a + o /\ n = o + size + 1 /\ b.ptr - b.at = o /\ b.ptr - 1 = a + o - 1
        BY <2>1, <3>1, <1>1, <1>4, <1>p
      <3>3. Stamped(m2, h2, b) /\ m2[b.at + h2[b.at] - 1] = b.at
        BY <2>1, <3>1, <3>2, <1>3, <1>4, <1>p DEF Stamped
      <3> QED
        BY <2>1, <3>2, <3>3, <1>4, <1>6, <1>p DEF HeldOK
    <2>2. CASE ~ Checking
      BY <2>2, <1>4, <1>6, <1>p DEF HeldOK
    <2> QED
      BY <2>1, <2>2
  <1>8. ASSUME NEW c \in Slots, c # a, NEW w \in c .. c + SlotWords - 1 PROVE m2[w] = m0[w]
    <2>1. w \in Words /\ w \notin a .. a + SlotWords - 1
      BY <1>8, <1>p, SlotWordsOf
    <2> QED
      BY <2>1, <1>3, <1>p
  <1>9. ASSUME NEW c \in H \ R PROVE HeldOK(m2, h2, Checking, c)
    <2>1. HeldOK(m0, h, Checking, c) /\ c.at # a
      BY <1>p DEF Memory
    <2>2. c.at \in Slots
      BY <2>1, BlockTypes DEF HeldOK
    <2>3. h2[c.at] = h[c.at] /\ \A w \in c.at .. c.at + SlotWords - 1 : m2[w] = m0[w]
      BY <2>1, <2>2, <1>8, <1>p
    <2> QED
      BY <2>1, <2>3, HeldElsewhere
  <1>10. ASSUME NEW c \in F, c.at # a PROVE FreedOK(m2, h2, Checking, c)
    <2>1. FreedOK(m0, h, Checking, c)
      BY DEF Memory
    <2>2. c.at \in Slots
      BY <2>1, BlockTypes DEF FreedOK
    <2>3. h2[c.at] = h[c.at] /\ \A w \in c.at .. c.at + SlotWords - 1 : m2[w] = m0[w]
      BY <2>2, <1>8, <1>10, <1>p
    <2> QED
      BY <2>1, <2>3, FreedElsewhere
  <1>11. \A c, d \in (H \ R) \union {b} : c.at = d.at => c = d
    <2>1. \A c, d \in H : c.at = d.at => c = d
      BY DEF Memory
    <2> QED
      BY <2>1, <1>4, <1>p
  <1>12. (\A c \in H2 : HeldOK(m2, h2, Checking, c)) /\ \A c \in F2 : FreedOK(m2, h2, Checking, c)
    BY <1>7, <1>9, <1>10
  <1> QED
    BY <1>3, <1>11, <1>12, <1>p DEF Memory

(* memory_alloc of a slot that was free. *)
LEMMA AllocatedMemory ==
    ASSUME AllocAssumption, Memory(mem, heap, Checking, lent, freed),
           NEW a \in Slots, heap[a] = 0, NEW zero,
           NEW alignment \in Int, Offset(alignment) \in Offsets, NEW size \in Nat,
           NEW n, n = (IF Checking THEN Offset(alignment) + size + 1 ELSE size), n \in 1 .. SlotWords,
           NEW m, m = (IF zero THEN [w \in Words |-> IF w \in a .. a + n - 1 THEN 0 ELSE mem[w]] ELSE mem),
           NEW h2, h2 = [heap EXCEPT ![a] = n], NEW m2, m2 = guard_initialize(m, a, n, alignment),
           NEW H2, H2 = lent \union {Block(Given(a, alignment), a, size)},
           NEW F2, F2 = {f \in freed : f.at # a}
    PROVE  /\ Memory(m2, h2, Checking, H2, F2)
           /\ Block(Given(a, alignment), a, size) \notin lent
  <1>1. a \in Nat /\ SlotWords \in Nat /\ n \in Nat /\ mem \in [Words -> Int] /\ heap \in [Slots -> 0 .. SlotWords]
    BY DEF AllocAssumption, Memory
  <1>2. m \in [Words -> Int]
    BY <1>1
  <1>3. a .. a + n - 1 \subseteq a .. a + SlotWords - 1
    BY <1>1
  <1>4. \A w \in Words : w \notin a .. a + SlotWords - 1 => m[w] = mem[w]
    BY <1>1, <1>3
  <1>5. \A c \in lent : c.at # a
    <2>1. \A c \in lent : heap[c.at] \in 1 .. SlotWords
      BY DEF Memory, HeldOK
    <2> QED
      BY <2>1
  <1>7. h2 \in [Slots -> 0 .. SlotWords] /\ h2[a] = n
    BY <1>1
  <1>8. \A c \in lent \union freed : c.at # a => h2[c.at] = heap[c.at]
    <2>1. \A c \in lent \union freed : c.at \in Slots
      BY BlockTypes DEF Memory, HeldOK, FreedOK
    <2> QED
      BY <2>1, <1>1
  <1>10. PICK b : b = Block(Given(a, alignment), a, size)
    OBVIOUS
  <1>11. H2 = lent \union {b}
    BY <1>10
  <1>12. Memory(m2, h2, Checking, H2, F2)
    <2>1. PICK R : R = {}
      OBVIOUS
    <2>2. Placing(mem, m, heap, h2, lent, freed, R, a, alignment, size, n)
      BY <2>1, <1>2, <1>4, <1>5, <1>7, <1>8 DEF Placing
    <2>3. H2 = (lent \ R) \union {b} /\ \A c : c \in F2 <=> c \in freed /\ c.at # a
      BY <2>1, <1>11
    <2> QED
      BY <2>2, <2>3, <1>10, BlockPlaced
  <1>13. b.at = a
    BY <1>10 DEF Block
  <1> QED
    BY <1>5, <1>10, <1>12, <1>13

(* A held block moved to slot a, which may be its own. *)
LEMMA MovedMemory ==
    ASSUME AllocAssumption, Memory(mem, heap, Checking, lent, freed), NEW b \in lent,
           NEW a \in Slots, a = b.at \/ heap[a] = 0,
           NEW alignment \in Int, Offset(alignment) \in Offsets, NEW size \in Nat,
           NEW n, n = (IF Checking THEN Offset(alignment) + size + 1 ELSE size), n \in 1 .. SlotWords,
           MoveBlock(b, b.at, a, n, alignment, size)
    PROVE  /\ Memory(mem', heap', Checking, lent', freed')
           /\ lent' = (lent \ {b}) \union {Block(Given(a, alignment), a, size)}
           /\ Block(Given(a, alignment), a, size) \notin lent \ {b}
  <1>1. a \in Nat /\ SlotWords \in Nat /\ n \in Nat /\ mem \in [Words -> Int] /\ heap \in [Slots -> 0 .. SlotWords]
    BY DEF AllocAssumption, Memory
  <1>2. PICK from \in Slots : from = b.at
    BY BlockTypes DEF Memory, HeldOK
  <1>3. PICK kept, m : /\ kept = Min({heap[from], n})
                       /\ m = [w \in Words |-> IF w \in a .. a + kept - 1 THEN mem[from + (w - a)] ELSE mem[w]]
    OBVIOUS
  <1>4. heap[from] \in 0 .. SlotWords
    BY <1>1
  <1>5. kept \in {heap[from], n} /\ \A y \in {heap[from], n} : kept <= y
    <2>1. \E x \in {heap[from], n} : \A y \in {heap[from], n} : x <= y
      <3>1. heap[from] <= n \/ n <= heap[from]
        BY <1>1, <1>4
      <3>2. heap[from] <= heap[from] /\ n <= n
        BY <1>1, <1>4
      <3> QED
        BY <3>1, <3>2
    <2> QED
      BY <2>1, <1>3 DEF Min
  <1>6. kept \in Nat /\ kept <= n /\ kept <= SlotWords
    BY <1>1, <1>4, <1>5
  <1>7. m \in [Words -> Int]
    <2>1. ASSUME NEW w \in Words, w \in a .. a + kept - 1 PROVE mem[from + (w - a)] \in Int
      <3>1. from \in Nat
        BY <1>2 DEF AllocAssumption
      <3>2. from + (w - a) \in from .. from + SlotWords - 1
        BY <2>1, <3>1, <1>1, <1>6
      <3>3. from + (w - a) \in Words
        BY <3>2, SlotWordsOf
      <3> QED
        BY <3>3, <1>1
    <2> QED
      BY <2>1, <1>1, <1>3
  <1>8. \A w \in Words : w \notin a .. a + SlotWords - 1 => m[w] = mem[w]
    <2>1. a .. a + kept - 1 \subseteq a .. a + SlotWords - 1
      BY <1>1, <1>6
    <2> QED
      BY <2>1, <1>3
  <1>9. \A c \in lent \ {b} : c.at # a /\ c.at # from
    <2>1. ASSUME NEW c \in lent \ {b} PROVE c.at # from /\ heap[c.at] \in 1 .. SlotWords
      BY <1>2 DEF Memory, HeldOK
    <2> QED
      BY <2>1, <1>2
  <1>10. \A c \in freed : c.at # from
    <2>1. heap[from] \in 1 .. SlotWords /\ \A c \in freed : heap[c.at] = 0
      BY <1>2 DEF Memory, HeldOK, FreedOK
    <2> QED
      BY <2>1
  <1>11. /\ heap' = [heap EXCEPT ![from] = 0, ![a] = n]
         /\ mem' = guard_initialize(m, a, n, alignment)
         /\ lent' = (lent \ {b}) \union {Block(Given(a, alignment), a, size)}
         /\ freed' = {f \in freed : f.at # a}
    BY <1>2, <1>3 DEF MoveBlock
  <1>12. PICK h2 : h2 = heap'
    OBVIOUS
  <1>13. h2 \in [Slots -> 0 .. SlotWords] /\ h2[a] = n
    BY <1>1, <1>11, <1>12
  <1>14. \A c \in (lent \ {b}) \union freed : c.at # a => h2[c.at] = heap[c.at]
    <2>1. \A c \in lent \union freed : c.at \in Slots
      BY BlockTypes DEF Memory, HeldOK, FreedOK
    <2> QED
      BY <2>1, <1>1, <1>9, <1>10, <1>11, <1>12
  <1>x. PICK c : c = Block(Given(a, alignment), a, size)
    OBVIOUS
  <1>y. PICK m2, H2, F2 : m2 = mem' /\ H2 = lent' /\ F2 = freed'
    OBVIOUS
  <1>z. H2 = (lent \ {b}) \union {c} /\ F2 = {f \in freed : f.at # a} /\ m2 = guard_initialize(m, a, n, alignment)
    BY <1>x, <1>y, <1>11
  <1>16. Memory(m2, h2, Checking, H2, F2)
    <2>1. PICK R : R = {b}
      OBVIOUS
    <2>2. Placing(mem, m, heap, h2, lent, freed, R, a, alignment, size, n)
      BY <2>1, <1>7, <1>8, <1>9, <1>13, <1>14 DEF Placing
    <2>3. H2 = (lent \ R) \union {c} /\ \A d : d \in F2 <=> d \in freed /\ d.at # a
      BY <2>1, <1>z
    <2> QED
      BY <2>2, <2>3, <1>x, <1>z, BlockPlaced
  <1>17. Block(Given(a, alignment), a, size) \notin lent \ {b}
    <2>1. Block(Given(a, alignment), a, size).at = a
      BY DEF Block
    <2> QED
      BY <2>1, <1>9
  <1> QED
    BY <1>11, <1>12, <1>16, <1>17, <1>y

(* What kit_memory_check says of a block that is held ... *)
LEMMA CheckHeld ==
    ASSUME AllocAssumption, NEW b, HeldOK(mem, heap, Checking, b)
    PROVE  /\ kit_memory_check(b.ptr).ok => kit_memory_check(b.ptr).at = b.at /\ b.abused = FALSE
           /\ b.abused = FALSE /\ ~ (Checking /\ Misaligned(b)) => kit_memory_check(b.ptr).ok
           /\ Checking /\ kit_memory_check(b.ptr).ok => kit_memory_check(b.ptr).size = b.size
  <1>1. b \in Blocks /\ b.ptr \in Nat /\ b.at \in Slots /\ b.at \in Nat /\ b.size \in Nat /\ SlotWords \in Nat
    BY BlockTypes DEF HeldOK, AllocAssumption
  <1>2. CASE ~ Checking
    BY <1>2 DEF HeldOK, kit_memory_check
  <1>3. CASE Checking
    <2>1. PICK a, p, n : a = b.at /\ p = b.ptr /\ n = heap[b.at]
      OBVIOUS
    <2>2. /\ p - a \in {2, 4, 8} /\ n = (p - a) + b.size + 1 /\ n \in 1 .. SlotWords
          /\ \/ b.abused = FALSE /\ Stamped(mem, heap, b) /\ mem[a + n - 1] = a
             \/ b.abused = TRUE /\ mem[p - 1] = JUNK
             \/ b.abused = TRUE /\ Stamped(mem, heap, b) /\ mem[a + n - 1] = JUNK
      BY <1>3, <2>1 DEF HeldOK
    <2>3. a \in Nat /\ p \in Nat /\ a \in Slots /\ a % 2 = 0 /\ a > 2
      BY <1>1, <2>1 DEF AllocAssumption
    <2>4. a # JUNK /\ p - 2 # JUNK /\ JUNK % 4 # 0
      <3>1. \A x \in Nat : x % 2 = 0 => x # 3 /\ x # 1
        OBVIOUS
      <3>2. a # 3 /\ a # 1
        BY <2>3, <3>1
      <3>3. p = a + 2 \/ p = a + 4 \/ p = a + 8
        BY <2>2, <2>3
      <3>4. p - 2 # 3
        BY <2>3, <3>2, <3>3
      <3>5. 3 % 4 = 3
        OBVIOUS
      <3> QED
        BY <3>2, <3>4, <3>5 DEF JUNK
    <2>5. CASE b.abused = TRUE /\ mem[p - 1] = JUNK
      <3>1. ForeGuard(p) = JUNK
        BY <2>4, <2>5 DEF ForeGuard
      <3>2. ~ ForeStamped(p)
        BY <2>4, <3>1 DEF ForeStamped
      <3> QED
        BY <1>3, <2>1, <2>5, <3>2 DEF kit_memory_check
    <2>6. ASSUME Stamped(mem, heap, b)
          PROVE  /\ ForeGuard(p) = a /\ (ForeStamped(p) <=> ~ Misaligned(b))
                 /\ RearStamped(a) <=> mem[a + n - 1] = a
      <3>1. mem[a] = n /\ mem[a + 1] = a /\ mem[p - 1] = a
        BY <2>1, <2>6 DEF Stamped
      <3>2. ForeGuard(p) = a
        BY <3>1 DEF ForeGuard
      <3>3. a = p - 2 <=> p - a = 2
        BY <2>3
      <3>4. p - a # 2 => a < p - 2 /\ p - a > 2
        BY <2>2, <2>3
      <3>5. ForeStamped(p) <=> (p - a # 2 => a % 4 = 0)
        BY <2>3, <3>1, <3>2, <3>3, <3>4 DEF ForeStamped
      <3>6. Misaligned(b) <=> (p - a # 2 /\ a % 4 # 0)
        BY <2>1, <2>2, <3>4 DEF Misaligned
      <3>7. RearStamped(a) <=> mem[a + n - 1] = a
        BY <2>2, <3>1 DEF RearStamped
      <3> QED
        BY <3>2, <3>5, <3>6, <3>7
    <2>7. CASE b.abused = TRUE /\ Stamped(mem, heap, b) /\ mem[a + n - 1] = JUNK
      <3>1. ~ RearStamped(ForeGuard(p))
        BY <2>4, <2>6, <2>7
      <3> QED
        BY <1>3, <2>1, <2>7, <3>1 DEF kit_memory_check
    <2>8. CASE b.abused = FALSE /\ Stamped(mem, heap, b) /\ mem[a + n - 1] = a
      <3>1. ForeGuard(p) = a /\ RearStamped(a) /\ (ForeStamped(p) <=> ~ Misaligned(b)) /\ mem[a] = n
        BY <2>1, <2>6, <2>8 DEF Stamped
      <3>2. n - (p - a) - 1 = b.size
        BY <1>1, <2>2, <2>3
      <3> QED
        BY <1>3, <2>1, <2>8, <3>1, <3>2 DEF kit_memory_check
    <2> QED
      BY <2>2, <2>5, <2>7, <2>8
  <1> QED
    BY <1>2, <1>3

(* ... and of one that was freed. *)
LEMMA CheckFreed ==
    ASSUME AllocAssumption, Checking, NEW b, FreedOK(mem, heap, Checking, b)
    PROVE  ~ kit_memory_check(b.ptr).ok
  <1>1. b.ptr \in Nat /\ b.at \in Slots /\ b.at \in Nat
    BY BlockTypes DEF FreedOK
  <1>2. PICK a, p : a = b.at /\ p = b.ptr
    OBVIOUS
  <1>3. p - a \in {2, 4, 8} /\ mem[a + 1] = FREE /\ (p - a # 2 => mem[p - 1] = a)
    BY <1>2 DEF FreedOK
  <1>4. a \in Nat /\ p \in Nat /\ Slots \subseteq Nat /\ FREE = -1
    BY <1>1, <1>2 DEF AllocAssumption, FREE
  <1>5. CASE p - a = 2
    <2>1. p - 1 = a + 1 /\ p - 2 = a /\ FREE # p - 2 /\ FREE \notin Slots
      BY <1>4, <1>5
    <2>2. ForeGuard(p) = FREE
      BY <2>1, <1>3 DEF ForeGuard
    <2>3. ~ ForeStamped(p)
      BY <2>1, <2>2 DEF ForeStamped
    <2> QED
      BY <2>3, <1>2 DEF kit_memory_check
  <1>6. CASE p - a # 2
    <2>1. mem[p - 1] = a /\ FREE # a
      BY <1>3, <1>4, <1>6
    <2>2. ForeGuard(p) = a
      BY <2>1 DEF ForeGuard
    <2>3. ~ ForeStamped(p)
      BY <2>1, <2>2, <1>3 DEF ForeStamped
    <2> QED
      BY <2>3, <1>2 DEF kit_memory_check
  <1> QED
    BY <1>5, <1>6

(* A held block that passes its check is given back. *)
LEMMA ReleasedMemory ==
    ASSUME AllocAssumption, Memory(mem, heap, Checking, lent, freed), NEW b \in lent, NEW twice,
           kit_memory_check(b.ptr).ok, Release(b, kit_memory_check(b.ptr).at, twice)
    PROVE  Memory(mem', heap', Checking, lent', freed') /\ b.abused = FALSE
  <1>1. HeldOK(mem, heap, Checking, b)
    BY DEF Memory
  <1>2. kit_memory_check(b.ptr).at = b.at /\ b.abused = FALSE
    BY <1>1, CheckHeld
  <1>3. PICK a, p, n : a = b.at /\ p = b.ptr /\ n = heap[b.at]
    OBVIOUS
  <1>4. /\ b \in Blocks /\ a \in Slots /\ a \in Nat /\ p \in Nat /\ b.size \in Nat /\ n \in 1 .. SlotWords
        /\ SlotWords \in Nat /\ mem \in [Words -> Int] /\ heap \in [Slots -> 0 .. SlotWords]
    BY <1>1, <1>3, BlockTypes DEF HeldOK, AllocAssumption, Memory
  <1>5. /\ heap' = [heap EXCEPT ![a] = 0] /\ lent' = lent \ {b} /\ freed' = freed \union {b}
        /\ Checking => mem' = [mem EXCEPT ![a + 1] = FREE]
        /\ ~ Checking => mem' = mem
    BY <1>2, <1>3 DEF Release
  <1>6. /\ Checking => /\ p - a \in {2, 4, 8} /\ n = (p - a) + b.size + 1 /\ mem[p - 1] = a
                       /\ a + 1 \in a .. a + SlotWords - 1 /\ p - 1 \in a .. a + SlotWords - 1
    <2>1. ASSUME Checking PROVE p - a \in {2, 4, 8} /\ n = (p - a) + b.size + 1 /\ mem[p - 1] = a
      <3>1. Stamped(mem, heap, b)
        BY <2>1, <1>1, <1>2 DEF HeldOK
      <3> QED
        BY <2>1, <3>1, <1>1, <1>3 DEF HeldOK, Stamped
    <2>2. ASSUME Checking PROVE a + 1 \in a .. a + SlotWords - 1 /\ p - 1 \in a .. a + SlotWords - 1
      BY <2>1, <2>2, <1>4
    <2> QED
      BY <2>1, <2>2
  <1>7. Checking => a + 1 \in Words /\ p - 1 \in Words
    BY <1>4, <1>6, SlotWordsOf
  <1>8. mem' \in [Words -> Int]
    <2>1. FREE \in Int
      BY DEF FREE
    <2> QED
      BY <2>1, <1>4, <1>5
  <1>9. heap' \in [Slots -> 0 .. SlotWords] /\ heap'[a] = 0
    BY <1>4, <1>5
  <1>10. \A w \in Words : w \notin a .. a + SlotWords - 1 => mem'[w] = mem[w]
    BY <1>4, <1>5, <1>6
  <1>11. ASSUME NEW c \in Slots, c # a
         PROVE  heap'[c] = heap[c] /\ \A w \in c .. c + SlotWords - 1 : mem'[w] = mem[w]
    <2>1. heap'[c] = heap[c]
      BY <1>4, <1>5, <1>11
    <2>2. ASSUME NEW w \in c .. c + SlotWords - 1 PROVE mem'[w] = mem[w]
      <3>1. w \in Words /\ w \notin a .. a + SlotWords - 1
        BY <1>4, <1>11, SlotWordsOf
      <3> QED
        BY <3>1, <1>10
    <2> QED
      BY <2>1, <2>2
  <1>12. ASSUME NEW c \in lent' PROVE HeldOK(mem', heap', Checking, c)
    <2>1. c \in lent /\ c # b /\ HeldOK(mem, heap, Checking, c)
      BY <1>5 DEF Memory
    <2>2. c.at \in Slots /\ c.at # a
      <3>1. c.at = b.at => c = b
        BY <2>1 DEF Memory
      <3> QED
        BY <2>1, <3>1, <1>3, BlockTypes DEF HeldOK
    <2>3. heap'[c.at] = heap[c.at] /\ \A w \in c.at .. c.at + SlotWords - 1 : mem'[w] = mem[w]
      BY <2>2, <1>11
    <2>4. PICK m2, h2 : m2 = mem' /\ h2 = heap'
      OBVIOUS
    <2>5. HeldOK(m2, h2, Checking, c)
      BY <2>1, <2>3, <2>4, HeldElsewhere
    <2> QED
      BY <2>4, <2>5
  <1>13. ASSUME NEW c \in freed PROVE FreedOK(mem', heap', Checking, c)
    <2>1. FreedOK(mem, heap, Checking, c)
      BY DEF Memory
    <2>2. c.at \in Slots /\ c.at # a
      <3>1. heap[c.at] = 0 /\ heap[a] # 0
        BY <2>1, <1>3, <1>4 DEF FreedOK
      <3> QED
        BY <2>1, <3>1, BlockTypes DEF FreedOK
    <2>3. heap'[c.at] = heap[c.at] /\ \A w \in c.at .. c.at + SlotWords - 1 : mem'[w] = mem[w]
      BY <2>2, <1>11
    <2>4. PICK m2, h2 : m2 = mem' /\ h2 = heap'
      OBVIOUS
    <2>5. FreedOK(m2, h2, Checking, c)
      BY <2>1, <2>3, <2>4, FreedElsewhere
    <2> QED
      BY <2>4, <2>5
  <1>14. FreedOK(mem', heap', Checking, b)
    <2>1. CASE Checking
      <3>1. mem'[a + 1] = FREE
        BY <2>1, <1>4, <1>5, <1>7
      <3>2. p - a # 2 => mem'[p - 1] = a
        <4>1. p - a # 2 => p - 1 # a + 1
          BY <1>4
        <4> QED
          BY <2>1, <4>1, <1>4, <1>5, <1>6, <1>7
      <3>3. p - a \in {2, 4, 8} /\ (p - a) + b.size + 1 <= SlotWords
        <4>1. n <= SlotWords
          BY <1>4
        <4> QED
          BY <4>1, <2>1, <1>6
      <3> QED
        BY <2>1, <3>1, <3>2, <3>3, <1>3, <1>4, <1>9 DEF FreedOK
    <2>2. CASE ~ Checking
      BY <2>2, <1>3, <1>4, <1>9 DEF FreedOK
    <2> QED
      BY <2>1, <2>2
  <1>15. \A c, d \in lent' : c.at = d.at => c = d
    BY <1>5 DEF Memory
  <1>16. \A c \in freed' : FreedOK(mem', heap', Checking, c)
    BY <1>5, <1>13, <1>14
  <1> QED
    BY <1>2, <1>8, <1>9, <1>12, <1>15, <1>16 DEF Memory

(* A caller writes past the end of its block, or before the beginning. *)
LEMMA OverrunMemory ==
    ASSUME AllocAssumption, Memory(mem, heap, Checking, lent, freed), NEW b \in lent,
           NEW w, w = b.ptr + b.size \/ w = b.ptr - 1, Overrun(b, w)
    PROVE  /\ Memory(mem', heap', Checking, lent', freed')
           /\ \E c : c.abused = TRUE /\ lent' = (lent \ {b}) \union {c} /\ c \notin lent
  <1>1. HeldOK(mem, heap, Checking, b)
    BY DEF Memory
  <1>2. Checking /\ b.abused = FALSE
    <2>1. b.abused \in BOOLEAN
      BY <1>1, BlockTypes DEF HeldOK
    <2> QED
      BY <2>1 DEF Overrun
  <1>3. PICK a, p, n, s : a = b.at /\ p = b.ptr /\ n = heap[b.at] /\ s = b.size
    OBVIOUS
  <1>4. /\ b \in Blocks /\ a \in Slots /\ a \in Nat /\ p \in Nat /\ s \in Nat /\ n \in 1 .. SlotWords
        /\ SlotWords \in Nat /\ mem \in [Words -> Int] /\ heap \in [Slots -> 0 .. SlotWords]
    BY <1>1, <1>3, BlockTypes DEF HeldOK, AllocAssumption, Memory
  <1>5. PICK c : c = [b EXCEPT !.abused = TRUE]
    OBVIOUS
  <1>6. c \in Blocks /\ c.ptr = p /\ c.at = a /\ c.size = s /\ c.abused = TRUE /\ c # b
    BY <1>2, <1>3, <1>4, <1>5 DEF Blocks
  <1>7. mem' = [mem EXCEPT ![w] = JUNK] /\ lent' = (lent \ {b}) \union {c} /\ heap' = heap /\ freed' = freed
    BY <1>5 DEF Overrun
  <1>8. /\ p - a \in {2, 4, 8} /\ n = (p - a) + s + 1
        /\ mem[a] = n /\ mem[a + 1] = a /\ mem[p - 1] = a
    BY <1>1, <1>2, <1>3 DEF HeldOK, Stamped
  <1>9. w = a + n - 1 \/ w = p - 1
    BY <1>3, <1>4, <1>8
  <1>10. w \in a .. a + SlotWords - 1
    <2>1. p - 1 \in a .. a + SlotWords - 1 /\ a + n - 1 \in a .. a + SlotWords - 1
      BY <1>4, <1>8
    <2> QED
      BY <2>1, <1>9
  <1>11. w \in Words
    BY <1>4, <1>10, SlotWordsOf
  <1>12. mem' \in [Words -> Int] /\ mem'[w] = JUNK /\ \A x \in Words : x # w => mem'[x] = mem[x]
    <2>1. JUNK \in Int
      BY DEF JUNK
    <2> QED
      BY <2>1, <1>4, <1>7, <1>11
  <1>13. ASSUME NEW d \in Slots, d # a, NEW x \in d .. d + SlotWords - 1 PROVE mem'[x] = mem[x]
    <2>1. x \in Words /\ x \notin a .. a + SlotWords - 1
      BY <1>4, <1>13, SlotWordsOf
    <2> QED
      BY <2>1, <1>10, <1>12
  <1>14. PICK m2 : m2 = mem'
    OBVIOUS
  <1>15. HeldOK(m2, heap, Checking, c)
    <2>1. CASE w = p - 1
      BY <2>1, <1>2, <1>3, <1>4, <1>6, <1>8, <1>12, <1>14 DEF HeldOK
    <2>2. CASE w # p - 1
      <3>1. w = a + n - 1
        BY <2>2, <1>9
      <3>2. a # w /\ a + 1 # w /\ p - 1 # w
        BY <3>1, <1>4, <1>8
      <3>3. a \in Words /\ a + 1 \in Words /\ p - 1 \in Words
        <4>1. a \in a .. a + SlotWords - 1 /\ a + 1 \in a .. a + SlotWords - 1 /\ p - 1 \in a .. a + SlotWords - 1
          BY <1>4, <1>8
        <4> QED
          BY <4>1, <1>4, SlotWordsOf
      <3>4. m2[a] = n /\ m2[a + 1] = a /\ m2[p - 1] = a /\ m2[a + n - 1] = JUNK
        BY <3>1, <3>2, <3>3, <1>8, <1>12, <1>14
      <3>5. Stamped(m2, heap, c) /\ m2[c.at + heap[c.at] - 1] = JUNK
        BY <3>4, <1>3, <1>6 DEF Stamped
      <3> QED
        BY <3>5, <1>2, <1>3, <1>4, <1>6, <1>8 DEF HeldOK
    <2> QED
      BY <2>1, <2>2
  <1>16. ASSUME NEW d \in lent, d # b PROVE HeldOK(m2, heap, Checking, d) /\ d.at # a
    <2>1. HeldOK(mem, heap, Checking, d) /\ d.at # a
      BY <1>3, <1>16 DEF Memory
    <2>2. d.at \in Slots
      BY <2>1, BlockTypes DEF HeldOK
    <2>3. \A x \in d.at .. d.at + SlotWords - 1 : m2[x] = mem[x]
      BY <2>1, <2>2, <1>13, <1>14
    <2> QED
      BY <2>1, <2>3, HeldElsewhere
  <1>17. ASSUME NEW d \in freed PROVE FreedOK(m2, heap, Checking, d)
    <2>1. FreedOK(mem, heap, Checking, d)
      BY DEF Memory
    <2>2. d.at \in Slots /\ d.at # a
      <3>1. heap[d.at] = 0 /\ heap[a] # 0
        BY <2>1, <1>3, <1>4 DEF FreedOK
      <3> QED
        BY <2>1, <3>1, BlockTypes DEF FreedOK
    <2>3. \A x \in d.at .. d.at + SlotWords - 1 : m2[x] = mem[x]
      BY <2>2, <1>13, <1>14
    <2> QED
      BY <2>1, <2>3, FreedElsewhere
  <1>18. PICK H2 : H2 = (lent \ {b}) \union {c}
    OBVIOUS
  <1>19. \A d, e \in H2 : d.at = e.at => d = e
    <2>1. \A d, e \in lent : d.at = e.at => d = e
      BY DEF Memory
    <2> QED
      BY <2>1, <1>6, <1>16, <1>18
  <1>20. Memory(m2, heap, Checking, H2, freed)
    BY <1>4, <1>12, <1>14, <1>15, <1>16, <1>17, <1>18, <1>19 DEF Memory
  <1>21. c \notin lent
    BY <1>6, <1>16
  <1> QED
    BY <1>6, <1>7, <1>14, <1>18, <1>20, <1>21

(* What Count does to the counts that count now. *)
Bump(names, c) == IF c \in names THEN 1 ELSE 0

LEMMA CountedUp ==
    ASSUME Tallied, UNCHANGED using, NEW names, Count(names)
    PROVE  /\ early' \in [Counted -> Nat] /\ counters' \in [Counted -> Nat]
           /\ ~ using => counters' = counters
           /\ \A c \in Counted : Tally'[c] = Tally[c] + Bump(names, c)
           /\ \A c \in Counted : ~ using => early'[c] = early[c] + Bump(names, c)
  <1>1. using \in BOOLEAN /\ early \in [Counted -> Nat] /\ counters \in [Counted -> Nat]
    BY DEF Tallied
  <1>2. \A c : Bump(names, c) \in Nat
    BY DEF Bump
  <1>3. CASE using
    <2>1. counters' = [c \in Counted |-> counters[c] + Bump(names, c)] /\ early' = early
      BY <1>3 DEF Count, Bump
    <2>2. counters' \in [Counted -> Nat]
      BY <2>1, <1>1, <1>2
    <2> QED
      BY <2>1, <2>2, <1>1, <1>3 DEF Tally
  <1>4. CASE ~ using
    <2>1. early' = [c \in Counted |-> early[c] + Bump(names, c)] /\ counters' = counters
      BY <1>4 DEF Count, Bump
    <2>2. early' \in [Counted -> Nat]
      BY <2>1, <1>1, <1>2
    <2> QED
      BY <2>1, <2>2, <1>1, <1>4 DEF Tally
  <1> QED
    BY <1>3, <1>4

(* The counts add up again if a step that adds d blocks counts so. *)
CountsFor(names, d) ==
    (Bump(names, "calloc") + Bump(names, "malloc")) - (Bump(names, "free") + d) \in 0 .. Bump(names, "fail")

LEMMA TalliedUp ==
    ASSUME Tallied, UNCHANGED <<using, initialized>>, NEW names, Count(names), NEW d \in Int,
           IsFiniteSet(lent'), Cardinality(lent') = Cardinality(lent) + d, CountsFor(names, d),
           lent' \union freed' # {} => lent \union freed # {} \/ "calloc" \in names \/ "malloc" \in names
    PROVE  Tallied'
  <1>1. /\ using \in BOOLEAN /\ initialized \in BOOLEAN /\ (using => initialized)
        /\ early \in [Counted -> Nat] /\ counters \in [Counted -> Nat] /\ IsFiniteSet(lent) /\ Accounted
        /\ ~ using => counters = [c \in Counted |-> 0]
        /\ lent \union freed # {} => initialized \/ Calls > 0
    BY DEF Tallied
  <1>2. /\ early' \in [Counted -> Nat] /\ counters' \in [Counted -> Nat]
        /\ ~ using => counters' = counters
        /\ \A c \in Counted : Tally'[c] = Tally[c] + Bump(names, c)
        /\ \A c \in Counted : ~ using => early'[c] = early[c] + Bump(names, c)
    BY CountedUp
  <1>3. {"calloc", "malloc", "free", "fail"} \subseteq Counted
    BY DEF Counted
  <1>4. PICK f, f2 : f = Tally /\ f2 = Tally'
    OBVIOUS
  <1>5. f \in [Counted -> Nat] /\ f2 \in [Counted -> Nat]
    BY <1>1, <1>2, <1>4 DEF Tally
  <1>6. PICK k, k2 \in Nat : k = Cardinality(lent) /\ k2 = Cardinality(lent')
    BY <1>1, FS_CardinalityType
  <1>7. (f["calloc"] + f["malloc"]) - f["free"] \in k .. k + f["fail"]
    <2>1. f = IF using THEN counters ELSE early
      BY <1>4 DEF Tally
    <2>2. kit_memory_allocations = (f["calloc"] + f["malloc"]) - f["free"]
      <3>1. kit_memory_allocations = f["calloc"] + (f["malloc"] - f["free"])
        BY <2>1 DEF kit_memory_allocations
      <3>2. f["calloc"] \in Nat /\ f["malloc"] \in Nat /\ f["free"] \in Nat
        BY <1>3, <1>5
      <3> QED
        BY <3>1, <3>2
    <2>3. kit_memory_allocations \in Cardinality(lent) .. Cardinality(lent) + (IF using THEN counters ELSE early)["fail"]
      BY <1>1 DEF Accounted
    <2>4. (IF using THEN counters ELSE early)["fail"] = f["fail"]
      BY <2>1
    <2> QED
      BY <2>2, <2>3, <2>4, <1>6
  <1>8. (f2["calloc"] + f2["malloc"]) - f2["free"] \in k2 .. k2 + f2["fail"]
    <2>1. PICK x, y, z, e \in Nat : x = f["calloc"] /\ y = f["malloc"] /\ z = f["free"] /\ e = f["fail"]
      BY <1>3, <1>5
    <2>2. PICK bx, by, bz, be \in 0 .. 1 : /\ bx = Bump(names, "calloc") /\ by = Bump(names, "malloc")
                                           /\ bz = Bump(names, "free") /\ be = Bump(names, "fail")
      BY DEF Bump
    <2>3. f2["calloc"] = x + bx /\ f2["malloc"] = y + by /\ f2["free"] = z + bz /\ f2["fail"] = e + be
      BY <2>1, <2>2, <1>2, <1>3, <1>4
    <2>4. (x + y) - z \in k .. k + e /\ (bx + by) - (bz + d) \in 0 .. be /\ k2 = k + d
      BY <2>1, <2>2, <1>6, <1>7 DEF CountsFor
    <2>5. ((x + bx) + (y + by)) - (z + bz) \in k2 .. k2 + (e + be)
      BY <2>4
    <2> QED
      BY <2>3, <2>5
  <1>9. Accounted'
    <2>1. f2 = IF using' THEN counters' ELSE early'
      BY <1>4 DEF Tally
    <2>2. kit_memory_allocations' = (f2["calloc"] + f2["malloc"]) - f2["free"]
      <3>1. kit_memory_allocations' = f2["calloc"] + (f2["malloc"] - f2["free"])
        BY <2>1 DEF kit_memory_allocations
      <3>2. f2["calloc"] \in Nat /\ f2["malloc"] \in Nat /\ f2["free"] \in Nat
        BY <1>3, <1>5
      <3> QED
        BY <3>1, <3>2
    <2>3. (IF using' THEN counters' ELSE early')["fail"] = f2["fail"]
      BY <2>1
    <2>4. kit_memory_allocations' \in Cardinality(lent') .. Cardinality(lent') + (IF using' THEN counters' ELSE early')["fail"]
      BY <2>2, <2>3, <1>6, <1>8
    <2> QED
      BY <2>4 DEF Accounted
  <1>10. lent' \union freed' # {} => initialized' \/ Calls' > 0
    <2>1. CASE initialized
      BY <2>1
    <2>2. CASE ~ initialized
      <3>1. ~ using
        BY <2>2, <1>1
      <3>2. PICK x, y, x2, y2 \in Nat : /\ x = early["calloc"] /\ y = early["malloc"]
                                        /\ x2 = early'["calloc"] /\ y2 = early'["malloc"]
        BY <1>1, <1>2, <1>3
      <3>3. x2 = x + Bump(names, "calloc") /\ y2 = y + Bump(names, "malloc")
        BY <3>1, <3>2, <1>2, <1>3
      <3>4. lent \union freed # {} => x + y > 0
        BY <2>2, <3>2, <1>1 DEF Calls
      <3>5. lent' \union freed' # {} => x2 + y2 > 0
        <4>1. x2 >= x /\ y2 >= y /\ ("calloc" \in names => x2 > 0) /\ ("malloc" \in names => y2 > 0)
          BY <3>2, <3>3 DEF Bump
        <4> QED
          BY <3>2, <3>4, <4>1
      <3> QED
        BY <3>2, <3>5 DEF Calls
    <2> QED
      BY <2>1, <2>2
  <1> QED
    BY <1>1, <1>2, <1>9, <1>10 DEF Tallied

LEMMA TalliedSame ==
    ASSUME Tallied, UNCHANGED <<using, initialized, early, counters>>, IsFiniteSet(lent'),
           Cardinality(lent') = Cardinality(lent), lent' \union freed' # {} => lent \union freed # {}
    PROVE  Tallied'
  <1>1. Accounted' /\ Calls' = Calls
    <2>1. kit_memory_allocations' = kit_memory_allocations /\ Calls' = Calls
      BY DEF kit_memory_allocations, Calls
    <2>2. PICK k : k = Cardinality(lent)
      OBVIOUS
    <2> QED
      BY <2>1, <2>2 DEF Tallied, Accounted
  <1> QED
    BY <1>1 DEF Tallied

(* A call that fails is counted, or aborts. *)
LEMMA FailsTallied ==
    ASSUME Tallied, UNCHANGED <<using, initialized, lent, freed>>, NEW names,
           names \in {{}, {"calloc"}, {"malloc"}, {"realloc"}}, Fails(names)
    PROVE  Tallied' /\ aborted' # "corrupt"
  <1>1. IsFiniteSet(lent') /\ Cardinality(lent') = Cardinality(lent) + 0
    <2>1. IsFiniteSet(lent)
      BY DEF Tallied
    <2>2. Cardinality(lent) \in Nat
      BY <2>1, FS_CardinalityType
    <2> QED
      BY <2>1, <2>2
  <1>2. CASE "ABORT" \in flags
    <2>1. aborted' = "enomem" /\ UNCHANGED <<early, counters>>
      BY <1>2 DEF Fails, counts
    <2>2. Cardinality(lent') = Cardinality(lent)
      OBVIOUS
    <2>3. Tallied'
      BY <2>1, <2>2, <1>1, TalliedSame
    <2> QED
      BY <2>1, <2>3
  <1>3. CASE "ABORT" \notin flags
    <2>1. PICK all : all = names \union {"fail"}
      OBVIOUS
    <2>2. aborted' = "no" /\ Count(all)
      BY <2>1, <1>3 DEF Fails
    <2>3. CountsFor(all, 0)
      <3>1. Bump(all, "fail") = 1 /\ Bump(all, "free") = 0
        BY <2>1 DEF Bump
      <3>2. \/ Bump(all, "calloc") = 0 /\ Bump(all, "malloc") = 0
            \/ Bump(all, "calloc") = 1 /\ Bump(all, "malloc") = 0
            \/ Bump(all, "calloc") = 0 /\ Bump(all, "malloc") = 1
        BY <2>1 DEF Bump
      <3> QED
        BY <3>1, <3>2 DEF CountsFor
    <2>4. Tallied'
      BY <2>2, <2>3, <1>1, TalliedUp
    <2> QED
      BY <2>2, <2>4
  <1> QED
    BY <1>2, <1>3

LEMMA SizeOf ==
    ASSUME AllocAssumption, NEW size \in Nat, size + 9 <= SIZE_MAX, NEW alignment \in Int,
           Offset(alignment) \in Offsets
    PROVE  kit_memory_size(size, alignment) = IF Checking THEN Offset(alignment) + size + 1 ELSE size
  <1>1. PICK o \in {2, 4, 8} : o = Offset(alignment)
    BY DEF Offsets
  <1>2. PICK top \in Nat : top = SIZE_MAX
    BY DEF AllocAssumption
  <1>3. o + size + 1 \in 0 .. top
    BY <1>2
  <1>4. \A x \in 0 .. top : x % (top + 1) = x
    BY <1>2
  <1>5. (o + size + 1) % (top + 1) = o + size + 1
    BY <1>3, <1>4
  <1> QED
    BY <1>1, <1>2, <1>5 DEF kit_memory_size

(* A call that leaves the flags alone and does not find a stamp wrong. *)
LEMMA CallKeeps ==
    ASSUME AllocInv, UNCHANGED rest, unsafe' = FALSE, aborted' # "corrupt",
           Memory(mem', heap', Checking, lent', freed'), Tallied'
    PROVE  AllocInv'
  <1>1. Checking' = Checking /\ UNCHANGED <<allocated_max, logged_max>>
    BY DEF rest, Checking
  <1>2. Maxima' /\ Refused'
    BY <1>1 DEF AllocInv, Maxima, Refused
  <1> QED
    BY <1>1, <1>2 DEF AllocInv

(* One that does, or changes nothing but who may write where. *)
LEMMA RestUnchanged ==
    ASSUME UNCHANGED rest
    PROVE  UNCHANGED <<flags, using, initialized, allocated_max, logged_max>>
  BY DEF rest

LEMMA CorruptKeeps ==
    ASSUME AllocInv, Corrupt, (\E b \in lent : b.abused = TRUE \/ Misaligned(b)) \/ freed # {}
    PROVE  AllocInv'
  <1>1. UNCHANGED <<flags, initialized, using, allocated_max, logged_max, early, counters, mem, heap, lent, freed, unsafe>>
    BY DEF Corrupt, rest, counts, blocks
  <1>2. Tallied'
    BY <1>1, TalliedSame DEF AllocInv, Tallied
  <1>3. Checking' = Checking
    BY <1>1 DEF Checking
  <1>4. Memory(mem, heap, Checking, lent, freed)' 
    BY <1>1, <1>3 DEF AllocInv
  <1>5. Refused' /\ Maxima'
    BY <1>1 DEF AllocInv, Refused, Maxima, Misaligned
  <1> QED
    BY <1>1, <1>2, <1>4, <1>5 DEF AllocInv

LEMMA memory_alloc_keeps ==
    ASSUME AllocInv, NEW size \in Nat, size + 9 <= SIZE_MAX, NEW alignment \in Int,
           Offset(alignment) \in Offsets, NEW a, NEW zero, NEW names,
           names \in {{"calloc"}, {"malloc"}} \/ (a = NULL /\ names = {"realloc"}),
           memory_alloc(size, alignment, a, zero, names)
    PROVE  AllocInv'
  <1>0. /\ AllocAssumption /\ Memory(mem, heap, Checking, lent, freed) /\ Tallied
        /\ unsafe = FALSE /\ IsFiniteSet(lent)
    BY DEF AllocInv, Tallied
  <1>1. PICK n : n = kit_memory_size(size, alignment)
    OBVIOUS
  <1>2. n = IF Checking THEN Offset(alignment) + size + 1 ELSE size
    BY <1>0, <1>1, SizeOf
  <1>3. UNCHANGED rest /\ unsafe' = FALSE /\ UNCHANGED <<flags, using, initialized>>
    BY <1>0, RestUnchanged DEF memory_alloc
  <1>4. CASE a = NULL
    <2>1. Fails(names) /\ UNCHANGED <<mem, heap, lent, freed>>
      BY <1>4 DEF memory_alloc, blocks
    <2>2. names \in {{}, {"calloc"}, {"malloc"}, {"realloc"}}
      OBVIOUS
    <2>3. Tallied' /\ aborted' # "corrupt"
      BY <2>1, <2>2, <1>0, <1>3, FailsTallied
    <2>4. Memory(mem', heap', Checking, lent', freed')
      BY <2>1, <1>0
    <2> QED
      BY <2>3, <2>4, <1>3, CallKeeps
  <1>5. CASE a # NULL
    <2>1. a \in Slots /\ heap[a] = 0 /\ n \in 1 .. SlotWords
      BY <1>1, <1>5 DEF memory_alloc, Place
    <2>2. PICK m : m = IF zero THEN [w \in Words |-> IF w \in a .. a + n - 1 THEN 0 ELSE mem[w]] ELSE mem
      OBVIOUS
    <2>3. PICK b : b = Block(Given(a, alignment), a, size)
      OBVIOUS
    <2>4. /\ heap' = [heap EXCEPT ![a] = n] /\ mem' = guard_initialize(m, a, n, alignment)
          /\ lent' = lent \union {b} /\ freed' = {f \in freed : f.at # a}
          /\ Count(names) /\ aborted' = "no"
      BY <2>2, <2>3, <1>1, <1>5 DEF memory_alloc
    <2>5. PICK m2, h2, H2, F2 : m2 = mem' /\ h2 = heap' /\ H2 = lent' /\ F2 = freed'
      OBVIOUS
    <2>6. /\ h2 = [heap EXCEPT ![a] = n] /\ m2 = guard_initialize(m, a, n, alignment)
          /\ H2 = lent \union {Block(Given(a, alignment), a, size)} /\ F2 = {f \in freed : f.at # a}
      BY <2>3, <2>4, <2>5
    <2>7. Memory(m2, h2, Checking, H2, F2) /\ b \notin lent
      BY <2>1, <2>2, <2>3, <2>6, <1>0, <1>2, AllocatedMemory
    <2>8. IsFiniteSet(lent') /\ Cardinality(lent') = Cardinality(lent) + 1
      BY <2>4, <2>7, <1>0, FS_AddElement
    <2>9. names \in {{"calloc"}, {"malloc"}}
      BY <1>5
    <2>10. CountsFor(names, 1) /\ ("calloc" \in names \/ "malloc" \in names)
      <3>1. Bump(names, "fail") = 0 /\ Bump(names, "free") = 0
        BY <2>9 DEF Bump
      <3>2. \/ Bump(names, "calloc") = 1 /\ Bump(names, "malloc") = 0
            \/ Bump(names, "calloc") = 0 /\ Bump(names, "malloc") = 1
        BY <2>9 DEF Bump
      <3> QED
        BY <2>9, <3>1, <3>2 DEF CountsFor
    <2>11. Tallied'
      BY <2>4, <2>8, <2>10, <1>0, <1>3, TalliedUp
    <2> QED
      BY <2>4, <2>5, <2>7, <2>11, <1>3, CallKeeps
  <1> QED
    BY <1>4, <1>5

(* A block is given back: kit_free_diag, and kit_realloc_diag to no size. *)
LEMMA ReleaseKeeps ==
    ASSUME AllocInv, NEW b \in lent, kit_memory_check(b.ptr).ok,
           Release(b, kit_memory_check(b.ptr).at, FALSE), Count({"free"}), UNCHANGED rest
    PROVE  AllocInv'
  <1>0. /\ AllocAssumption /\ Memory(mem, heap, Checking, lent, freed) /\ Tallied
        /\ unsafe = FALSE /\ IsFiniteSet(lent)
    BY DEF AllocInv, Tallied
  <1>1. Memory(mem', heap', Checking, lent', freed') /\ b.abused = FALSE
    BY <1>0, ReleasedMemory
  <1>2. lent' = lent \ {b} /\ unsafe' = FALSE /\ aborted' = "no"
    BY <1>0, <1>1 DEF Release
  <1>3. IsFiniteSet(lent') /\ Cardinality(lent') = Cardinality(lent) + (-1)
    <2>1. IsFiniteSet(lent \ {b}) /\ Cardinality(lent \ {b}) = Cardinality(lent) - 1
      BY <1>0, FS_RemoveElement
    <2>2. Cardinality(lent) \in Nat
      BY <1>0, FS_CardinalityType
    <2> QED
      BY <2>1, <2>2, <1>2
  <1>4. CountsFor({"free"}, -1)
    <2>1. PICK names : names = {"free"}
      OBVIOUS
    <2>2. Bump(names, "fail") = 0 /\ Bump(names, "free") = 1 /\ Bump(names, "calloc") = 0 /\ Bump(names, "malloc") = 0
      BY <2>1 DEF Bump
    <2>3. CountsFor(names, -1)
      BY <2>2 DEF CountsFor
    <2> QED
      BY <2>1, <2>3
  <1>5. UNCHANGED <<using, initialized>> /\ -1 \in Int
    BY RestUnchanged
  <1>6. Tallied'
    BY <1>0, <1>3, <1>4, <1>5, TalliedUp
  <1> QED
    BY <1>1, <1>2, <1>6, CallKeeps

(* What a failed check of a held block says. *)
LEMMA CheckRefuses ==
    ASSUME AllocInv, NEW b \in lent, ~ kit_memory_check(b.ptr).ok, Corrupt
    PROVE  AllocInv'
  <1>1. AllocAssumption /\ HeldOK(mem, heap, Checking, b)
    BY DEF AllocInv, Memory
  <1>2. b.abused \in BOOLEAN
    BY <1>1, BlockTypes DEF HeldOK
  <1>3. b.abused = TRUE \/ Misaligned(b)
    BY <1>1, <1>2, CheckHeld
  <1> QED
    BY <1>3, CorruptKeeps

LEMMA kit_free_diag_keeps ==
    ASSUME AllocInv, NEW b \in lent, kit_free_diag(b)
    PROVE  AllocInv'
  <1>1. CASE kit_memory_check(b.ptr).ok
    <2>1. Release(b, kit_memory_check(b.ptr).at, b \in freed) /\ Count({"free"}) /\ UNCHANGED rest
      BY <1>1 DEF kit_free_diag
    <2>2. b \notin freed
      <3>1. HeldOK(mem, heap, Checking, b) /\ (b \in freed => FreedOK(mem, heap, Checking, b))
        BY DEF AllocInv, Memory
      <3> QED
        BY <3>1 DEF HeldOK, FreedOK
    <2>3. Release(b, kit_memory_check(b.ptr).at, FALSE)
      BY <2>1, <2>2 DEF Release
    <2> QED
      BY <1>1, <2>1, <2>3, ReleaseKeeps
  <1>2. CASE ~ kit_memory_check(b.ptr).ok
    <2>1. Corrupt
      BY <1>2 DEF kit_free_diag
    <2> QED
      BY <1>2, <2>1, CheckRefuses
  <1> QED
    BY <1>1, <1>2

LEMMA ReallocToNothing_keeps ==
    ASSUME AllocInv, NEW b \in lent, ReallocToNothing(b)
    PROVE  AllocInv'
  <1>1. CASE kit_memory_check(b.ptr).ok
    <2>1. Release(b, kit_memory_check(b.ptr).at, FALSE) /\ Count({"free"}) /\ UNCHANGED rest
      BY <1>1 DEF ReallocToNothing
    <2> QED
      BY <1>1, <2>1, ReleaseKeeps
  <1>2. CASE ~ kit_memory_check(b.ptr).ok
    <2>1. Corrupt
      BY <1>2 DEF ReallocToNothing
    <2> QED
      BY <1>2, <2>1, CheckRefuses
  <1> QED
    BY <1>1, <1>2

LEMMA kit_realloc_diag_keeps ==
    ASSUME AllocInv, NEW b \in lent, NEW size \in Nat, size + 9 <= SIZE_MAX,
           NEW a \in Slots \union {NULL}, NEW undo, kit_realloc_diag(b, size, a, undo)
    PROVE  AllocInv'
  <1>0. /\ AllocAssumption /\ Memory(mem, heap, Checking, lent, freed) /\ Tallied
        /\ unsafe = FALSE /\ IsFiniteSet(lent)
    BY DEF AllocInv, Tallied
  <1>1. PICK found : found = kit_memory_check(b.ptr)
    OBVIOUS
  <1>2. CASE ~ found.ok
    <2>1. Corrupt
      BY <1>1, <1>2 DEF kit_realloc_diag
    <2> QED
      BY <1>1, <1>2, <2>1, CheckRefuses
  <1>3. CASE found.ok /\ a = NULL
    <2>1. PICK names : names = IF undo THEN {} ELSE {"realloc"}
      OBVIOUS
    <2>2. Fails(names) /\ UNCHANGED <<rest, blocks, unsafe>>
      BY <1>1, <1>3, <2>1 DEF kit_realloc_diag
    <2>3. UNCHANGED <<using, initialized, mem, heap, lent, freed>>
      BY <2>2, RestUnchanged DEF blocks
    <2>4. names \in {{}, {"calloc"}, {"malloc"}, {"realloc"}}
      BY <2>1
    <2>5. Tallied' /\ aborted' # "corrupt"
      BY <2>2, <2>3, <2>4, <1>0, FailsTallied
    <2>6. Memory(mem', heap', Checking, lent', freed')
      BY <2>3, <1>0
    <2> QED
      BY <2>2, <2>5, <2>6, <1>0, CallKeeps
  <1>4. CASE found.ok /\ a # NULL
    <2>0. HeldOK(mem, heap, Checking, b)
      BY <1>0 DEF Memory
    <2>1. found.at = b.at /\ b.abused = FALSE /\ b.ptr \in Nat /\ b.at \in Nat
      BY <2>0, <1>0, <1>1, <1>4, CheckHeld, BlockTypes DEF HeldOK
    <2>2. PICK alignment \in Int : alignment = b.ptr - b.at
      BY <2>1
    <2>3. Offset(alignment) \in Offsets
      <3>1. alignment \in {0, 2, 4, 8}
        <4>1. CASE Checking
          BY <4>1, <2>0, <2>2 DEF HeldOK
        <4>2. CASE ~ Checking
          BY <4>2, <2>0, <2>1, <2>2 DEF HeldOK
        <4> QED
          BY <4>1, <4>2
      <3> QED
        BY <3>1 DEF Offset, Offsets
    <2>4. PICK n : n = kit_memory_size(size, alignment)
      OBVIOUS
    <2>5. n = IF Checking THEN Offset(alignment) + size + 1 ELSE size
      BY <2>3, <2>4, <1>0, SizeOf
    <2>6. /\ n \in 1 .. SlotWords /\ (a = b.at \/ a \in Place(n, 0))
          /\ MoveBlock(b, b.at, a, n, alignment, size)
          /\ Count({"realloc"}) /\ aborted' = "no"
          /\ unsafe' = (unsafe \/ b.abused) /\ UNCHANGED rest
      BY <2>1, <2>2, <2>4, <1>1, <1>4 DEF kit_realloc_diag
    <2>7. a \in Slots /\ (a = b.at \/ heap[a] = 0)
      BY <2>6, <1>4 DEF Place
    <2>8. PICK c : c = Block(Given(a, alignment), a, size)
      OBVIOUS
    <2>9. /\ Memory(mem', heap', Checking, lent', freed')
          /\ lent' = (lent \ {b}) \union {c} /\ c \notin lent \ {b}
      BY <2>3, <2>5, <2>6, <2>7, <2>8, <1>0, MovedMemory
    <2>10. IsFiniteSet(lent') /\ Cardinality(lent') = Cardinality(lent) + 0
      <3>1. PICK H : H = lent \ {b}
        OBVIOUS
      <3>2. IsFiniteSet(H) /\ Cardinality(H) = Cardinality(lent) - 1
        BY <3>1, <1>0, FS_RemoveElement
      <3>3. IsFiniteSet(lent') /\ Cardinality(lent') = Cardinality(H) + 1
        BY <2>9, <3>1, <3>2, FS_AddElement
      <3>4. Cardinality(lent) \in Nat
        BY <1>0, FS_CardinalityType
      <3> QED
        BY <3>2, <3>3, <3>4
    <2>11. PICK names : names = {"realloc"}
      OBVIOUS
    <2>12. CountsFor(names, 0) /\ Count(names)
      <3>1. Bump(names, "fail") = 0 /\ Bump(names, "free") = 0 /\ Bump(names, "calloc") = 0 /\ Bump(names, "malloc") = 0
        BY <2>11 DEF Bump
      <3> QED
        BY <2>6, <2>11, <3>1 DEF CountsFor
    <2>13. UNCHANGED <<using, initialized>> /\ lent \union freed # {}
      BY <2>6, RestUnchanged
    <2>14. Tallied'
      BY <2>10, <2>12, <2>13, <1>0, TalliedUp
    <2>15. unsafe' = FALSE
      BY <2>1, <2>6, <1>0
    <2> QED
      BY <2>6, <2>9, <2>14, <2>15, CallKeeps
  <1> QED
    BY <1>2, <1>3, <1>4

LEMMA Mistake_keeps ==
    ASSUME AllocInv, Mistake
    PROVE  AllocInv'
  <1>0. /\ AllocAssumption /\ Memory(mem, heap, Checking, lent, freed) /\ Tallied
        /\ unsafe = FALSE /\ IsFiniteSet(lent)
    BY DEF AllocInv, Tallied
  <1>1. ASSUME NEW b \in lent, NEW w, w = b.ptr + b.size \/ w = b.ptr - 1, Overrun(b, w)
        PROVE  AllocInv'
    <2>1. /\ Memory(mem', heap', Checking, lent', freed')
          /\ \E c : c.abused = TRUE /\ lent' = (lent \ {b}) \union {c} /\ c \notin lent
      BY <1>0, <1>1, OverrunMemory
    <2>2. PICK c : c.abused = TRUE /\ lent' = (lent \ {b}) \union {c} /\ c \notin lent
      BY <2>1
    <2>3. UNCHANGED <<rest, counts, heap, freed, aborted, unsafe>>
      BY <1>1 DEF Overrun
    <2>4. UNCHANGED <<using, initialized, early, counters>>
      BY <2>3, RestUnchanged DEF counts
    <2>5. IsFiniteSet(lent') /\ Cardinality(lent') = Cardinality(lent)
      <3>1. PICK H : H = lent \ {b}
        OBVIOUS
      <3>2. IsFiniteSet(H) /\ Cardinality(H) = Cardinality(lent) - 1
        BY <3>1, <1>0, <1>1, FS_RemoveElement
      <3>3. IsFiniteSet(lent') /\ Cardinality(lent') = Cardinality(H) + 1
        BY <2>2, <3>1, <3>2, FS_AddElement
      <3>4. Cardinality(lent) \in Nat
        BY <1>0, FS_CardinalityType
      <3> QED
        BY <3>2, <3>3, <3>4
    <2>6. Tallied'
      BY <2>4, <2>5, <1>0, <1>1, TalliedSame
    <2>7. Checking' = Checking /\ UNCHANGED <<allocated_max, logged_max>>
      BY <2>3, RestUnchanged DEF Checking
    <2>8. Refused'
      BY <2>2, <2>3 DEF Refused
    <2>9. Maxima'
      BY <2>7 DEF AllocInv, Maxima
    <2> QED
      BY <2>1, <2>3, <2>6, <2>7, <2>8, <2>9, <1>0 DEF AllocInv
  <1>2. ASSUME Checking, NEW b \in freed, kit_free_diag(b) PROVE AllocInv'
    <2>1. FreedOK(mem, heap, Checking, b)
      BY <1>0 DEF Memory
    <2>2. ~ kit_memory_check(b.ptr).ok
      BY <2>1, <1>0, <1>2, CheckFreed
    <2>3. Corrupt
      BY <2>2, <1>2 DEF kit_free_diag
    <2> QED
      BY <2>3, CorruptKeeps
  <1> QED
    BY <1>1, <1>2 DEF Mistake

(* The sum over the slots is a number: the fold is a function on their subsets,
   which exists by induction on how many slots there are in one. *)
Adding(D, it) ==
    it = [s \in D |-> IF s = {} THEN 0 ELSE heap[CHOOSE x \in s : TRUE] + it[s \ {CHOOSE x \in s : TRUE}]]

LEMMA SumIsNumber ==
    ASSUME IsFiniteSet(Slots), heap \in [Slots -> Int]
    PROVE  AllocatedBytes \in Int
  <1> DEFINE Upto(k) == {s \in SUBSET Slots : Cardinality(s) <= k}
             Sums(k) == \E it \in [Upto(k) -> Int] : Adding(Upto(k), it)
             Bad == {k \in Nat : ~ Sums(k)}
  <1>1. \A s \in SUBSET Slots : IsFiniteSet(s) /\ Cardinality(s) \in Nat
    BY FS_Subset, FS_CardinalityType
  <1>2. ASSUME NEW s \in SUBSET Slots, s # {}, NEW x, x = CHOOSE y \in s : TRUE
        PROVE  x \in s /\ s \ {x} \in SUBSET Slots /\ Cardinality(s \ {x}) = Cardinality(s) - 1 /\ heap[x] \in Int
    <2>1. x \in s
      BY <1>2
    <2>2. Cardinality(s \ {x}) = Cardinality(s) - 1
      BY <2>1, <1>1, FS_RemoveElement
    <2> QED
      BY <2>1, <2>2
  <1>3. Sums(0)
    <2>1. Upto(0) = {{}}
      <3>1. ASSUME NEW s \in SUBSET Slots PROVE Cardinality(s) <= 0 <=> s = {}
        BY <1>1, FS_EmptySet
      <3> QED
        BY <3>1
    <2>2. PICK it : it = [s \in {{}} |-> 0]
      OBVIOUS
    <2>3. it \in [{{}} -> Int] /\ Adding({{}}, it)
      BY <2>2 DEF Adding
    <2> QED
      BY <2>1, <2>3
  <1>4. ASSUME NEW k \in Nat, Sums(k) PROVE Sums(k + 1)
    <2>1. PICK D, E : D = Upto(k) /\ E = Upto(k + 1)
      OBVIOUS
    <2>2. PICK it \in [D -> Int] : Adding(D, it)
      BY <2>1, <1>4
    <2>3. PICK more : more = [s \in E |-> IF s = {} THEN 0 ELSE heap[CHOOSE x \in s : TRUE] + it[s \ {CHOOSE x \in s : TRUE}]]
      OBVIOUS
    <2>4. ASSUME NEW s \in E, s # {}, NEW x, x = CHOOSE y \in s : TRUE
          PROVE  s \ {x} \in D /\ heap[x] \in Int
      <3>1. s \in SUBSET Slots /\ Cardinality(s) <= k + 1
        BY <2>1
      <3>2. s \ {x} \in SUBSET Slots /\ Cardinality(s \ {x}) = Cardinality(s) - 1 /\ heap[x] \in Int
        BY <3>1, <2>4, <1>2
      <3>3. Cardinality(s \ {x}) <= k
        BY <3>1, <3>2, <1>1
      <3> QED
        BY <3>2, <3>3, <2>1
    <2>5. more \in [E -> Int]
      <3>1. ASSUME NEW s \in E PROVE more[s] \in Int
        <4>1. CASE s = {}
          BY <4>1, <2>3
        <4>2. CASE s # {}
          <5>1. PICK x : x = CHOOSE y \in s : TRUE
            OBVIOUS
          <5>2. s \ {x} \in D /\ heap[x] \in Int
            BY <4>2, <5>1, <2>4
          <5>3. more[s] = heap[x] + it[s \ {x}]
            BY <4>2, <5>1, <2>3
          <5>4. it[s \ {x}] \in Int
            BY <5>2, <2>2
          <5> QED
            BY <5>2, <5>3, <5>4
        <4> QED
          BY <4>1, <4>2
      <3> QED
        BY <3>1, <2>3
    <2>6. ASSUME NEW s \in D PROVE s \in E /\ more[s] = it[s]
      <3>1. s \in E
        BY <2>1, <1>1
      <3>2. it[s] = IF s = {} THEN 0 ELSE heap[CHOOSE x \in s : TRUE] + it[s \ {CHOOSE x \in s : TRUE}]
        BY <2>2 DEF Adding
      <3> QED
        BY <3>1, <3>2, <2>3
    <2>7. Adding(E, more)
      <3>1. ASSUME NEW s \in E
            PROVE  more[s] = IF s = {} THEN 0 ELSE heap[CHOOSE x \in s : TRUE] + more[s \ {CHOOSE x \in s : TRUE}]
        <4>1. CASE s = {}
          BY <4>1, <2>3
        <4>2. CASE s # {}
          <5>1. PICK x : x = CHOOSE y \in s : TRUE
            OBVIOUS
          <5>2. s \ {x} \in D
            BY <4>2, <5>1, <2>4
          <5>3. more[s] = heap[x] + it[s \ {x}]
            BY <4>2, <5>1, <2>3
          <5>4. more[s \ {x}] = it[s \ {x}]
            BY <5>2, <2>6
          <5> QED
            BY <4>2, <5>1, <5>3, <5>4
        <4> QED
          BY <4>1, <4>2
      <3>2. PICK whole : whole = [s \in E |-> IF s = {} THEN 0 ELSE heap[CHOOSE x \in s : TRUE] + more[s \ {CHOOSE x \in s : TRUE}]]
        OBVIOUS
      <3>3. \A s \in E : whole[s] = more[s]
        BY <3>1, <3>2
      <3>4. whole = more
        BY <3>2, <3>3, <2>3
      <3> QED
        BY <3>2, <3>4 DEF Adding
    <2> QED
      BY <2>1, <2>5, <2>7
  <1>5. ASSUME NEW k \in Nat PROVE Sums(k)
    <2> HIDE DEF Sums
    <2>1. CASE Bad = {}
      BY <2>1
    <2>2. CASE Bad # {}
      <3>1. Bad \in SUBSET Nat
        OBVIOUS
      <3>2. PICK j \in Bad : \A i \in Bad : j <= i
        BY <2>2, <3>1, Least
      <3>3. j \in Nat /\ ~ Sums(j)
        OBVIOUS
      <3>4. j # 0
        BY <3>3, <1>3
      <3>5. j - 1 \in Nat /\ ~ (j <= j - 1) /\ (j - 1) + 1 = j
        BY <3>3, <3>4
      <3>6. Sums(j - 1)
        BY <3>2, <3>5
      <3>7. Sums((j - 1) + 1)
        BY <3>5, <3>6, <1>4
      <3> QED
        BY <3>3, <3>5, <3>7
    <2> QED
      BY <2>1, <2>2
  <1>6. PICK N \in Nat : N = Cardinality(Slots)
    BY FS_CardinalityType
  <1>7. Upto(N) = SUBSET Slots
    <2>1. ASSUME NEW s \in SUBSET Slots PROVE Cardinality(s) <= N
      BY <1>6, FS_Subset
    <2> QED
      BY <2>1
  <1>8. PICK it \in [SUBSET Slots -> Int] : Adding(SUBSET Slots, it)
    BY <1>5, <1>7
  <1>9. PICK f : f = CHOOSE it2 : Adding(SUBSET Slots, it2)
    OBVIOUS
  <1>10. Adding(SUBSET Slots, f)
    BY <1>8, <1>9
  <1>11. f = it
    <2>1. ASSUME NEW s \in SUBSET Slots
          PROVE  /\ f[s] = IF s = {} THEN 0 ELSE heap[CHOOSE x \in s : TRUE] + f[s \ {CHOOSE x \in s : TRUE}]
                 /\ it[s] = IF s = {} THEN 0 ELSE heap[CHOOSE x \in s : TRUE] + it[s \ {CHOOSE x \in s : TRUE}]
      BY <1>8, <1>10 DEF Adding
    <2> DEFINE Off == {k \in Nat : \E s \in SUBSET Slots : Cardinality(s) = k /\ f[s] # it[s]}
    <2>2. CASE Off # {}
      <3>1. Off \in SUBSET Nat
        OBVIOUS
      <3>2. PICK k \in Off : \A j \in Off : k <= j
        BY <2>2, <3>1, Least
      <3>3. PICK s \in SUBSET Slots : Cardinality(s) = k /\ f[s] # it[s]
        OBVIOUS
      <3>4. s # {}
        BY <3>3, <2>1
      <3>5. PICK x : x = CHOOSE y \in s : TRUE
        OBVIOUS
      <3>6. x \in s /\ s \ {x} \in SUBSET Slots /\ Cardinality(s \ {x}) = k - 1
        BY <3>3, <3>4, <3>5, <1>2
      <3>7. k - 1 \in Nat /\ ~ (k <= k - 1)
        <4>1. Cardinality(s \ {x}) \in Nat /\ k \in Nat
          BY <3>6, <1>1
        <4> QED
          BY <4>1, <3>6
      <3>8. f[s \ {x}] = it[s \ {x}]
        BY <3>2, <3>6, <3>7
      <3>9. f[s] = heap[x] + f[s \ {x}] /\ it[s] = heap[x] + it[s \ {x}]
        BY <3>4, <3>5, <2>1
      <3> QED
        BY <3>3, <3>8, <3>9
    <2>3. CASE Off = {}
      <3>1. \A s \in SUBSET Slots : f[s] = it[s]
        BY <2>3, <1>1
      <3>2. PICK D : D = SUBSET Slots
        OBVIOUS
      <3>3. PICK g : g = [s \in D |-> f[s]]
        OBVIOUS
      <3>4. f = g
        <4>1. DOMAIN f = D /\ f = [s \in D |-> f[s]]
          BY <3>2, <1>10 DEF Adding
        <4> QED
          BY <4>1, <3>3
      <3> QED
        BY <3>1, <3>2, <3>3, <3>4
    <2> QED
      BY <2>2, <2>3
  <1>12. AllocatedBytes = f[Slots]
    BY <1>9 DEF AllocatedBytes, MapThenSumSet, MapThenFoldSet, Adding
  <1>13. it[Slots] \in Int
    BY <1>8
  <1> QED
    BY <1>11, <1>12, <1>13

(* The flags change only before anything is allocated. *)
LEMMA FlagsKeep ==
    ASSUME AllocInv, Calls = 0, ~ initialized, initialized' \in BOOLEAN,
           UNCHANGED <<using, allocated_max, logged_max, counts, blocks, aborted, unsafe>>
    PROVE  AllocInv'
  <1>1. UNCHANGED <<early, counters, mem, heap, lent, freed>>
    BY DEF counts, blocks
  <1>2. lent = {} /\ freed = {} /\ ~ using
    BY DEF AllocInv, Tallied
  <1>3. Memory(mem', heap', Checking', lent', freed')
    BY <1>1, <1>2 DEF AllocInv, Memory
  <1>4. Tallied'
    <2>1. Accounted'
      <3>1. kit_memory_allocations' = kit_memory_allocations
        BY <1>1 DEF kit_memory_allocations
      <3>2. PICK k : k = Cardinality(lent)
        OBVIOUS
      <3> QED
        BY <3>1, <3>2, <1>1 DEF AllocInv, Tallied, Accounted
    <2> QED
      BY <2>1, <1>1, <1>2 DEF AllocInv, Tallied
  <1>5. Refused' /\ Maxima'
    BY <1>1 DEF AllocInv, Refused, Maxima, Misaligned
  <1> QED
    BY <1>3, <1>4, <1>5 DEF AllocInv

LEMMA kit_memory_set_assert_on_enomem_keeps ==
    ASSUME AllocInv, NEW on, kit_memory_set_assert_on_enomem(on)
    PROVE  AllocInv'
  <1>1. UNCHANGED <<initialized, using, allocated_max, logged_max, early, counters, mem, heap, lent, freed, aborted, unsafe>>
    BY DEF kit_memory_set_assert_on_enomem, counts, blocks
  <1>2. Checking' = Checking
    BY DEF kit_memory_set_assert_on_enomem, Checking
  <1>3. Tallied'
    BY <1>1, TalliedSame DEF AllocInv, Tallied
  <1>4. Memory(mem', heap', Checking', lent', freed')
    BY <1>1, <1>2 DEF AllocInv
  <1>5. Refused' /\ Maxima'
    BY <1>1 DEF AllocInv, Refused, Maxima, Misaligned
  <1> QED
    BY <1>1, <1>3, <1>4, <1>5 DEF AllocInv

LEMMA kit_memory_initialize_counters_keeps ==
    ASSUME AllocInv, kit_memory_initialize_counters
    PROVE  AllocInv'
  <1>0. Tallied /\ ~ initialized /\ initialized' = TRUE /\ using' = TRUE
    BY DEF AllocInv, kit_memory_initialize_counters
  <1>1. UNCHANGED <<flags, allocated_max, logged_max, early, mem, heap, lent, freed, aborted, unsafe>>
    BY DEF kit_memory_initialize_counters, blocks
  <1>2. /\ ~ using /\ early \in [Counted -> Nat] /\ counters = [c \in Counted |-> 0]
        /\ IsFiniteSet(lent) /\ Accounted
    BY <1>0 DEF Tallied
  <1>3. counters' = early
    <2>1. counters' = [c \in Counted |-> counters[c] + early[c]]
      BY DEF kit_memory_initialize_counters
    <2>2. \A c \in Counted : counters[c] = 0 /\ early[c] \in Nat
      BY <1>2
    <2>3. \A c \in Counted : counters[c] + early[c] = early[c]
      BY <2>2
    <2>4. \A c \in Counted : counters'[c] = early[c]
      BY <2>1, <2>3
    <2> QED
      BY <2>1, <2>4, <1>2
  <1>4. Accounted'
    <2>1. kit_memory_allocations' = kit_memory_allocations
      BY <1>0, <1>2, <1>3 DEF kit_memory_allocations
    <2>2. (IF using' THEN counters' ELSE early')["fail"] = (IF using THEN counters ELSE early)["fail"]
      BY <1>0, <1>2, <1>3
    <2>3. PICK k : k = Cardinality(lent)
      OBVIOUS
    <2> QED
      BY <2>1, <2>2, <2>3, <1>1, <1>2 DEF Accounted
  <1>5. Tallied'
    BY <1>0, <1>1, <1>2, <1>3, <1>4 DEF Tallied
  <1>6. Checking' = Checking
    BY <1>1 DEF Checking
  <1>7. Memory(mem', heap', Checking', lent', freed')
    BY <1>1, <1>6 DEF AllocInv
  <1>8. Refused' /\ Maxima'
    BY <1>1 DEF AllocInv, Refused, Maxima, Misaligned
  <1> QED
    BY <1>1, <1>5, <1>7, <1>8 DEF AllocInv

LEMMA GreaterOf ==
    ASSUME NEW x \in Int, NEW y \in Int, NEW z, z = Max({x, y})
    PROVE  z \in Int /\ z >= x /\ z >= y /\ (z = x \/ z = y)
  <1>1. \E u \in {x, y} : \A v \in {x, y} : u >= v
    <2>1. CASE x >= y
      <3>1. \A v \in {x, y} : x >= v
        BY <2>1
      <3> QED
        BY <3>1
    <2>2. CASE ~ (x >= y)
      <3>1. \A v \in {x, y} : y >= v
        BY <2>2
      <3> QED
        BY <3>1
    <2> QED
      BY <2>1, <2>2
  <1>2. z \in {x, y} /\ \A v \in {x, y} : z >= v
    BY <1>1 DEF Max
  <1> QED
    BY <1>2

LEMMA ReportKeeps ==
    ASSUME AllocInv, kit_allocated_bytes \/ kit_memory_log_growth
    PROVE  AllocInv'
  <1>1. UNCHANGED <<flags, initialized, using, early, counters, mem, heap, lent, freed, aborted, unsafe>>
    BY DEF kit_allocated_bytes, kit_memory_log_growth, counts, blocks
  <1>2. PICK x \in Int : x = AllocatedBytes
    <2>1. IsFiniteSet(Slots) /\ heap \in [Slots -> 0 .. SlotWords] /\ SlotWords \in Nat
      BY DEF AllocInv, Memory, AllocAssumption
    <2>2. \A s \in Slots : heap[s] \in Int
      BY <2>1
    <2>3. heap \in [Slots -> Int]
      BY <2>1, <2>2
    <2> QED
      BY <2>1, <2>3, SumIsNumber
  <1>3. allocated_max \in Int /\ logged_max \in Int /\ logged_max <= allocated_max
    BY DEF AllocInv, Maxima
  <1>4. Maxima'
    <2>1. PICK a2 : a2 = Max({allocated_max, x})
      OBVIOUS
    <2>2. a2 \in Int /\ a2 >= allocated_max /\ a2 >= x
      BY <2>1, <1>3, GreaterOf
    <2>3. CASE kit_allocated_bytes
      <3>1. allocated_max' = a2 /\ logged_max' = logged_max
        BY <2>1, <2>3, <1>2 DEF kit_allocated_bytes
      <3>2. logged_max <= a2
        BY <2>2, <1>3
      <3> QED
        BY <3>1, <3>2, <2>2, <1>3 DEF Maxima
    <2>4. CASE kit_memory_log_growth
      <3>1. PICK l2 : l2 = Max({logged_max, x})
        OBVIOUS
      <3>2. l2 \in Int /\ (l2 = logged_max \/ l2 = x)
        BY <3>1, <1>3, GreaterOf
      <3>3. l2 <= a2
        BY <3>2, <2>2, <1>3
      <3>4. allocated_max' = a2 /\ logged_max' = l2
        BY <2>1, <2>4, <3>1, <1>2 DEF kit_memory_log_growth
      <3> QED
        BY <3>2, <3>3, <3>4, <2>2 DEF Maxima
    <2> QED
      BY <2>3, <2>4
  <1>5. Tallied'
    BY <1>1, TalliedSame DEF AllocInv, Tallied
  <1>6. Checking' = Checking
    BY <1>1 DEF Checking
  <1>7. Memory(mem', heap', Checking', lent', freed')
    BY <1>1, <1>6 DEF AllocInv
  <1>8. Refused'
    BY <1>1 DEF AllocInv, Refused, Misaligned
  <1> QED
    BY <1>1, <1>4, <1>5, <1>7, <1>8 DEF AllocInv

LEMMA AllocInvInit ==
    ASSUME AllocInit
    PROVE  AllocInv
  <1>1. AllocAssumption /\ Slots \subseteq Nat /\ SlotWords \in Nat
    BY DEF AllocInit, AllocAssumption
  <1>2. lent = {} /\ freed = {} /\ unsafe = FALSE /\ aborted = "no" /\ allocated_max = 0 /\ logged_max = 0
    BY DEF AllocInit
  <1>3. mem \in [Words -> Int] /\ heap \in [Slots -> 0 .. SlotWords]
    BY <1>1 DEF AllocInit
  <1>4. Memory(mem, heap, Checking, lent, freed)
    BY <1>2, <1>3 DEF Memory
  <1>5. /\ using = FALSE /\ initialized = FALSE /\ early = [c \in Counted |-> 0] /\ counters = [c \in Counted |-> 0]
    BY DEF AllocInit
  <1>6. Accounted
    <2>1. Cardinality(lent) = 0
      BY <1>2, FS_EmptySet
    <2>2. {"calloc", "malloc", "free", "fail"} \subseteq Counted
      BY DEF Counted
    <2>3. early["calloc"] = 0 /\ early["malloc"] = 0 /\ early["free"] = 0 /\ early["fail"] = 0
      BY <2>2, <1>5
    <2>4. kit_memory_allocations = 0 /\ (IF using THEN counters ELSE early)["fail"] = 0
      BY <2>3, <1>5 DEF kit_memory_allocations
    <2> QED
      BY <2>1, <2>4 DEF Accounted
  <1>7. Tallied
    <2>1. IsFiniteSet(lent)
      BY <1>2, FS_EmptySet
    <2>2. early \in [Counted -> Nat] /\ counters \in [Counted -> Nat]
      BY <1>5
    <2> QED
      BY <2>1, <2>2, <1>2, <1>5, <1>6 DEF Tallied
  <1>8. Refused /\ Maxima
    BY <1>2 DEF Refused, Maxima
  <1> QED
    BY <1>1, <1>2, <1>4, <1>7, <1>8 DEF AllocInv

(* What the invariant says of the blocks is what the interface promises. *)
LEMMA AllocInvSound ==
    ASSUME AllocInv
    PROVE  AllocSound
  <1>1. AllocAssumption /\ Memory(mem, heap, Checking, lent, freed)
    BY DEF AllocInv
  <1>2. Guarded
    <2>1. ASSUME NEW b \in lent
          PROVE  /\ b.size <= heap[b.at] - (b.ptr - b.at) - (IF Checking THEN 1 ELSE 0)
                 /\ \A c \in lent : c.at = b.at => c = b
                 /\ Checking /\ ~ b.abused /\ ~ Misaligned(b) =>
                       LET found == kit_memory_check(b.ptr) IN
                       found.ok /\ found.at = b.at /\ found.size = b.size
      <3>1. HeldOK(mem, heap, Checking, b)
        BY <1>1 DEF Memory
      <3>2. b.ptr \in Nat /\ b.at \in Nat /\ b.size \in Nat /\ b.abused \in BOOLEAN
        BY <3>1, <1>1, BlockTypes DEF HeldOK
      <3>3. b.size <= heap[b.at] - (b.ptr - b.at) - (IF Checking THEN 1 ELSE 0)
        <4>1. PICK s, p, a, n : s = b.size /\ p = b.ptr /\ a = b.at /\ n = heap[b.at]
          OBVIOUS
        <4>2. s \in Nat /\ p \in Nat /\ a \in Nat
          BY <3>2, <4>1
        <4>3. CASE Checking
          <5>1. n = (p - a) + s + 1
            BY <3>1, <4>1, <4>3 DEF HeldOK
          <5>2. s <= n - (p - a) - 1
            BY <4>2, <5>1
          <5> QED
            BY <4>1, <4>3, <5>2
        <4>4. CASE ~ Checking
          <5>1. p = a /\ n = s
            BY <3>1, <4>1, <4>4 DEF HeldOK
          <5>2. s <= n - (p - a) - 0
            BY <4>2, <5>1
          <5> QED
            BY <4>1, <4>4, <5>2
        <4> QED
          BY <4>3, <4>4
      <3>4. \A c \in lent : c.at = b.at => c = b
        BY <1>1 DEF Memory
      <3>5. ASSUME Checking, ~ b.abused, ~ Misaligned(b)
            PROVE  kit_memory_check(b.ptr).ok /\ kit_memory_check(b.ptr).at = b.at /\ kit_memory_check(b.ptr).size = b.size
        <4>1. b.abused = FALSE
          BY <3>2, <3>5
        <4> QED
          BY <4>1, <3>1, <3>5, <1>1, CheckHeld
      <3> QED
        BY <3>3, <3>4, <3>5
    <2> QED
      BY <2>1 DEF Guarded
  <1>3. Accounted /\ ~ unsafe /\ logged_max <= allocated_max
    BY DEF AllocInv, Tallied, Maxima
  <1>4. aborted = "corrupt" => \/ \E b \in lent : b.abused \/ Misaligned(b)
                               \/ freed # {}
    BY DEF AllocInv, Refused
  <1> QED
    BY <1>2, <1>3, <1>4 DEF AllocSound

LEMMA AllocStep ==
    ASSUME SizesFit, AllocInv, [AllocNext]_allocVars
    PROVE  AllocInv'
  <1>1. CASE UNCHANGED allocVars
    <2>1. UNCHANGED <<flags, initialized, using, allocated_max, logged_max, early, counters, mem, heap, lent, freed, aborted, unsafe>>
      BY <1>1 DEF allocVars, rest, counts, blocks
    <2>2. Tallied'
      BY <2>1, TalliedSame DEF AllocInv, Tallied
    <2>3. Checking' = Checking
      BY <2>1 DEF Checking
    <2>4. Memory(mem', heap', Checking', lent', freed')
      BY <2>1, <2>3 DEF AllocInv
    <2>5. Refused' /\ Maxima'
      BY <2>1 DEF AllocInv, Refused, Maxima, Misaligned
    <2> QED
      BY <2>1, <2>2, <2>4, <2>5 DEF AllocInv
  <1>2. CASE AllocNext
    <2>0. AllocAssumption /\ SIZE_MAX \in Nat
      BY DEF AllocInv, AllocAssumption
    <2>1. \A size \in Sizes : size \in Nat /\ size + 9 <= SIZE_MAX /\ size + 1 \in Nat /\ (size + 1) + 9 <= SIZE_MAX
      BY <2>0 DEF SizesFit
    <2>2. 0 \in Int /\ Offset(0) \in Offsets /\ \A alignment \in Aligns : alignment \in Int /\ Offset(alignment) \in Offsets
      <3>1. \A alignment \in {0, 1, 2, 4, 8} : alignment \in Int /\ Offset(alignment) \in Offsets
        BY DEF Offset, Offsets
      <3> QED
        BY <3>1, <2>0 DEF AllocAssumption
    <2>3. ASSUME NEW f \in FlagSets, kit_memory_set_flags(f) \/ kit_memory_initialize(f) PROVE AllocInv'
      <3>1. initialized \in BOOLEAN
        BY DEF AllocInv, Tallied
      <3> QED
        BY <3>1, <2>3, FlagsKeep DEF kit_memory_set_flags, kit_memory_initialize
    <2>4. ASSUME NEW a, NEW size \in Sizes, kit_malloc_diag(size, a) PROVE AllocInv'
      BY <2>1, <2>2, <2>4, memory_alloc_keeps DEF kit_malloc_diag
    <2>5. ASSUME NEW a, NEW size \in Sizes, kit_strdup_diag(size, a) PROVE AllocInv'
      BY <2>1, <2>2, <2>5, memory_alloc_keeps DEF kit_strdup_diag
    <2>6. ASSUME NEW a, NEW size \in Sizes, ReallocOfNothing(size, a) PROVE AllocInv'
      <3>1. PICK names : names = IF a = NULL THEN {"realloc"} ELSE {"malloc"}
        OBVIOUS
      <3>2. memory_alloc(size, 0, a, FALSE, names)
        BY <2>6, <3>1 DEF ReallocOfNothing
      <3>3. names \in {{"calloc"}, {"malloc"}} \/ (a = NULL /\ names = {"realloc"})
        BY <3>1
      <3> QED
        BY <3>2, <3>3, <2>1, <2>2, memory_alloc_keeps
    <2>7. ASSUME NEW a, NEW len \in Sizes, NEW size \in Sizes, kit_strndup_diag(len, size, a) PROVE AllocInv'
      <3>1. PICK s \in Sizes : s = IF len < size THEN len ELSE size
        OBVIOUS
      <3>2. memory_alloc(s + 1, 0, a, FALSE, {"malloc"})
        BY <2>7, <3>1 DEF kit_strndup_diag
      <3> QED
        BY <3>2, <2>1, <2>2, memory_alloc_keeps
    <2>8. ASSUME NEW a, NEW size \in Sizes, NEW alignment \in Aligns, kit_memalign_diag(alignment, size, a) PROVE AllocInv'
      BY <2>1, <2>2, <2>8, memory_alloc_keeps DEF kit_memalign_diag
    <2>9. ASSUME NEW a, NEW p \in CallocArgs, kit_calloc_diag(p[1], p[2], a) PROVE AllocInv'
      <3>1. PICK total : total = (p[1] * p[2]) % (SIZE_MAX + 1)
        OBVIOUS
      <3>2. total \in Nat /\ total + 9 <= SIZE_MAX
        <4>1. p[1] \in Nat /\ p[2] \in Nat /\ total + 10 <= SIZE_MAX
          BY <3>1 DEF SizesFit
        <4>2. PICK x \in Nat : x = p[1] * p[2]
          BY <4>1
        <4>3. total = x % (SIZE_MAX + 1)
          BY <3>1, <4>2
        <4>4. total \in Nat
          BY <4>3, <2>0
        <4> QED
          BY <4>1, <4>4, <2>0
      <3>3. CASE p[1] # 0 /\ p[2] # 0 /\ (total < p[1] \/ total < p[2])
        <4>1. Fails({"calloc"}) /\ UNCHANGED <<rest, blocks, unsafe>>
          BY <3>1, <3>3, <2>9 DEF kit_calloc_diag
        <4>2. UNCHANGED <<using, initialized, mem, heap, lent, freed>>
          BY <4>1, RestUnchanged DEF blocks
        <4>3. PICK names : names = {"calloc"}
          OBVIOUS
        <4>4. names \in {{}, {"calloc"}, {"malloc"}, {"realloc"}} /\ Fails(names)
          BY <4>1, <4>3
        <4>5. Tallied' /\ aborted' # "corrupt"
          BY <4>2, <4>4, FailsTallied DEF AllocInv
        <4>6. Memory(mem', heap', Checking, lent', freed') /\ unsafe' = FALSE
          BY <4>1, <4>2 DEF AllocInv
        <4> QED
          BY <4>1, <4>5, <4>6, CallKeeps
      <3>4. CASE ~ (p[1] # 0 /\ p[2] # 0 /\ (total < p[1] \/ total < p[2]))
        <4>1. memory_alloc(total, 0, a, TRUE, {"calloc"})
          BY <3>1, <3>4, <2>9 DEF kit_calloc_diag
        <4> QED
          BY <4>1, <3>2, <2>2, memory_alloc_keeps
      <3> QED
        BY <3>3, <3>4
    <2>10. ASSUME NEW a \in Slots \union {NULL}, NEW size \in Sizes, NEW b \in lent, NEW undo,
                  kit_realloc_diag(b, size, a, undo)
           PROVE  AllocInv'
      BY <2>1, <2>10, kit_realloc_diag_keeps
    <2>11. ASSUME NEW a \in Slots \union {NULL}, NEW b \in lent, NEW size \in Sizes \union {0},
                  kit_reduce_diag(b, size, a)
           PROVE  AllocInv'
      <3>1. CASE size = 0
        BY <2>11, <3>1, ReallocToNothing_keeps DEF kit_reduce_diag
      <3>2. CASE size # 0
        <4>1. size \in Sizes /\ kit_realloc_diag(b, size, a, using)
          BY <2>11, <3>2 DEF kit_reduce_diag
        <4> QED
          BY <4>1, <2>10
      <3> QED
        BY <3>1, <3>2
    <2> QED
      BY <1>2, <2>3, <2>4, <2>5, <2>6, <2>7, <2>8, <2>9, <2>10, <2>11,
         kit_memory_set_assert_on_enomem_keeps, kit_memory_initialize_counters_keeps,
         kit_free_diag_keeps, ReallocToNothing_keeps, ReportKeeps, Mistake_keeps DEF AllocNext
  <1> QED
    BY <1>1, <1>2

(* kit-alloc.c does what its interface says, for any slots, sizes, flags, mistakes of the
   caller and sequence of calls: blocks accounted for and guarded across the change to
   kit-counters, no overrun or freed block released, no other refused. *)
THEOREM AllocationsSound == SizesFit => (AllocSpec => []AllocSound)
  <1> SUFFICES ASSUME SizesFit PROVE AllocSpec => []AllocSound
    OBVIOUS
  <1>1. AllocInit => AllocInv
    BY AllocInvInit
  <1>2. AllocInv /\ [AllocNext]_allocVars => AllocInv'
    BY AllocStep
  <1>3. AllocInv => AllocSound
    BY AllocInvSound
  <1> QED
    BY <1>1, <1>2, <1>3, PTL DEF AllocSpec
=============================================================================
