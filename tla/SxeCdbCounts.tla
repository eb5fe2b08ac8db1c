---------------------------- MODULE SxeCdbCounts -----------------------------
(***************************************************************************)
(* The counters of an sxe-cdb instance (lib-sxe-cdb/sxe-cdb.c), down to    *)
(* their links.  A counter is a key whose value is an SXE_CDB_HKV_LIST: it *)
(* names the SXE_CDB_COUNT with the key's count, and links the keys that   *)
(* have that count.  The SXE_CDB_COUNTs of one counts_list are linked from *)
(* the lowest to the highest, so that incrementing a key keeps all sorted. *)
(* The position of a key's hkv stands for the key.                         *)
(***************************************************************************)
EXTENDS Integers, FiniteSets, Sequences

CONSTANTS
    Keys,       \* the keys are 1 .. Keys
    List,       \* the counts_lists in use
    PageCounts, \* SXE_CDB_COUNTs in a page
    MixLists,   \* is a key ever incremented under two counts_lists?
    MaxCount    \* bound on a key's count

NONE    == 0    \* SXE_CDB_COUNT_NONE and SXE_CDB_HKV_POS_NONE
Counter == 1 .. Keys

ASSUME CountsAssumption ==
    Keys \in Nat /\ PageCounts \in Nat \ {0, 1} /\ MaxCount \in Nat /\ MixLists \in BOOLEAN

VARIABLES
    inst,       \* the members of SXE_CDB_INSTANCE that counters use, with
                \* val[k], the SXE_CDB_HKV_LIST of key k once it is there
    plain,      \* keys put with a value that is not a counter's
    tally,      \* how often each key was incremented
    listOf,     \* the counts_list each key was first incremented under
    walk        \* the walk under way, or NoWalk

countVars == <<inst, plain, tally, listOf, walk>>

NoWalk == <<>>

(* sxe_cdb_instance_new_init *)
Fresh == [counts |-> << >>, counts_size |-> 0, counts_next_free |-> 1, counts_free |-> 0,
          counts_used |-> 0, counts_lo |-> [l \in List |-> NONE], counts_hi |-> [l \in List |-> NONE],
          val |-> [k \in {} |-> 0], impossible |-> FALSE]

CountsInit ==
    /\ inst = Fresh
    /\ plain = {} /\ tally = [k \in Counter |-> 0] /\ listOf = [k \in {} |-> 0]
    /\ walk = NoWalk
-----------------------------------------------------------------------------
(* The free list.  Its last entry links to whatever was free before: only
   counts_free says where it ends. *)

FreeCountPush(m, from, to) ==
    [m EXCEPT !.counts = [c \in DOMAIN @ \union (from .. to) |->
                            IF c \notin from .. to THEN @[c]
                            ELSE [(IF c \in DOMAIN @ THEN @[c]
                                   ELSE [count |-> 0, next |-> NONE, last |-> NONE, hkv1 |-> NONE])
                                  EXCEPT !.next = IF c = to THEN m.counts_next_free ELSE c + 1]],
              !.counts_next_free = from,
              !.counts_free = @ + to - from + 1]

(* A page more; entry 0 of the first one is never used. *)
Grow(m) ==
    LET from == IF m.counts_size = 0 THEN 1 ELSE m.counts_size
        size == IF m.counts_size = 0 THEN PageCounts ELSE m.counts_size + PageCounts
    IN  [FreeCountPush(m, from, size - 1) EXCEPT !.counts_size = size]

(* sxe_cdb_instance_free_count_pop: the instance after it, and the count. *)
FreeCountPop(m) ==
    LET g == IF m.counts_free = 0 THEN Grow(m) ELSE m
        c == g.counts_next_free
    IN  [c |-> c,
         m |-> [g EXCEPT !.counts_next_free = g.counts[c].next,
                         !.counts_free = @ - 1, !.counts_used = @ + 1]]
-----------------------------------------------------------------------------
(* Putting key k under a count. *)

SetVal(m, k, c, next) ==
    [m EXCEPT !.val = [j \in DOMAIN @ \union {k} |->
                         IF j = k THEN [count_to_use |-> c, next |-> next, last |-> NONE]
                         ELSE IF j = next THEN [@[j] EXCEPT !.last = k]
                         ELSE @[j]],
              !.counts[c].hkv1 = k]

(* First in the chain of a count that is there. *)
Join(m, k, c) == SetVal(m, k, c, m.counts[c].hkv1)

(* Alone under a new count n, between the counts last and next. *)
NewCount(k, n, last, next) ==
    LET p == FreeCountPop(inst)
    IN  [SetVal(p.m, k, p.c, NONE) EXCEPT !.counts[p.c] = [count |-> n, next |-> next, last |-> last, hkv1 |-> k]]

(* A key that is not there yet: count 1 is the lowest of all. *)
IncNew(k, l) ==
    LET lo == inst.counts_lo[l]
        m  == FreeCountPop(inst)
        n  == NewCount(k, 1, NONE, lo)
    IN  IF lo = NONE
          THEN [n EXCEPT !.counts_lo[l] = m.c, !.counts_hi[l] = m.c]
        ELSE IF inst.counts[lo].count > 1
          THEN [n EXCEPT !.counts_lo[l] = m.c, !.counts[lo].last = m.c]
        ELSE Join(inst, k, lo)

(* Take k out of the chain of its count. *)
Unlink(m, k) ==
    LET v  == m.val[k]
        m1 == IF v.next # NONE THEN [m EXCEPT !.val[v.next].last = v.last] ELSE m
        m2 == IF v.last # NONE THEN [m1 EXCEPT !.val[v.last].next = v.next] ELSE m1
    IN  IF m2.counts[v.count_to_use].hkv1 = k
          THEN [m2 EXCEPT !.counts[v.count_to_use].hkv1 = v.next] ELSE m2

(* A count without keys goes back to the free list.  That it is the highest one
   is noted: the code says it is impossible. *)
DropIfEmpty(m, l, c) ==
    LET next == m.counts[c].next
        last == m.counts[c].last
        f    == [FreeCountPush(m, c, c) EXCEPT !.counts_used = @ - 1]
        n    == IF next # NONE THEN [f EXCEPT !.counts[next].last = last]
                ELSE [f EXCEPT !.impossible = TRUE, !.counts_hi[l] = IF @ = c THEN last ELSE @]
    IN  IF m.counts[c].hkv1 # NONE THEN m
        ELSE IF last # NONE THEN [n EXCEPT !.counts[last].next = next]
        ELSE [n EXCEPT !.counts_lo[l] = IF @ = c THEN next ELSE @]

(* Alone under a new count above c; next is the one that was above it. *)
InsertAbove(m, k, l, c, next, count) ==
    LET p == FreeCountPop(m)
        q == [SetVal(p.m, k, p.c, NONE) EXCEPT
                !.counts[p.c] = [count |-> count, last |-> c, hkv1 |-> k,
                                 next |-> IF next = NONE THEN NONE ELSE p.m.counts[c].next]]
        r == [q EXCEPT !.counts[c].next = p.c]
    IN  IF next = NONE THEN [r EXCEPT !.counts_hi[l] = p.c] ELSE [r EXCEPT !.counts[next].last = p.c]

(* Mutants of Climbs: a key that is not alone; a count that is there already;
   not the key with the highest count. *)
ClimbsInCompany(k) ==
    LET c == inst.val[k].count_to_use
        next == inst.counts[c].next
    IN  /\ inst.counts[c].hkv1 = k
        /\ next = NONE \/ inst.counts[next].count > inst.counts[c].count + 1

ClimbsAnyway(k) == inst.counts[inst.val[k].count_to_use].hkv1 = k /\ inst.val[k].next = NONE

ClimbsUnlessHighest(k) ==
    LET c == inst.val[k].count_to_use
        next == inst.counts[c].next
    IN  /\ inst.counts[c].hkv1 = k /\ inst.val[k].next = NONE
        /\ next # NONE /\ inst.counts[next].count > inst.counts[c].count + 1

(* k is the only key with its count and the next count is not the one it needs. *)
Climbs(k) ==
    LET c == inst.val[k].count_to_use
        next == inst.counts[c].next
    IN  /\ inst.counts[c].hkv1 = k /\ inst.val[k].next = NONE
        /\ next = NONE \/ inst.counts[next].count > inst.counts[c].count + 1

(* A key that is there: "opportunistically" its lone count is incremented, else
   the key goes to the next count, which may have to be made. *)
IncOld(k, l) ==
    LET c    == inst.val[k].count_to_use
        next == inst.counts[c].next
        new  == inst.counts[c].count + 1
        m    == DropIfEmpty(Unlink(inst, k), l, c)
    IN  IF Climbs(k) THEN [inst EXCEPT !.counts[c].count = new]
        ELSE IF next # NONE /\ m.counts[next].count = new THEN Join(m, k, next)
        ELSE InsertAbove(m, k, l, c, next, new)

(* sxe_cdb_instance_inc.  Nothing changes, and there is no step, for a key that could
   not be appended and for one whose value is not a counter's: plain values have
   another length, or name a count at counts_size or above.  Values of just the length
   of an SXE_CDB_HKV_LIST that name a count below it are taken for counters by the
   code, and are not put here. *)
Inc(k, l) ==
    /\ walk = NoWalk /\ k \notin plain /\ tally[k] < MaxCount
    /\ k \in DOMAIN listOf => MixLists \/ listOf[k] = l
    /\ inst' = IF k \in DOMAIN inst.val THEN IncOld(k, l) ELSE IncNew(k, l)
    /\ tally' = [tally EXCEPT ![k] = @ + 1]
    /\ listOf' = [j \in DOMAIN listOf \union {k} |-> IF j \in DOMAIN listOf THEN listOf[j] ELSE l]
    /\ UNCHANGED <<plain, walk>>

PutPlain(k) ==
    /\ walk = NoWalk /\ k \notin plain \union DOMAIN inst.val
    /\ plain' = plain \union {k}
    /\ UNCHANGED <<inst, tally, listOf, walk>>

CountsReboot ==
    /\ walk = NoWalk
    /\ inst' = Fresh
    /\ plain' = {} /\ tally' = [k \in Counter |-> 0] /\ listOf' = [k \in {} |-> 0]
    /\ UNCHANGED walk
-----------------------------------------------------------------------------
(* sxe_cdb_instance_walk, called again and again with the positions it left in
   sxe_cdb_tls_walk_cnt_pos and sxe_cdb_tls_walk_hkv_pos. *)

PosIsBad(c, p) ==
    /\ c # NONE /\ p # NONE
    /\ \/ c > inst.counts_size
       \/ p \notin DOMAIN inst.val \union plain
       \/ p \in DOMAIN inst.val /\ inst.val[p].count_to_use # c

StartOf(dir, l) == IF dir = "hi2lo" THEN inst.counts_hi[l] ELSE inst.counts_lo[l]

(* Mutant of Beyond: the direction is ignored. *)
BeyondUpwards(dir, c) == inst.counts[c].next

Beyond(dir, c) == IF dir = "hi2lo" THEN inst.counts[c].last ELSE inst.counts[c].next

FirstOf(c) == IF c = NONE THEN NONE ELSE inst.counts[c].hkv1

WalkStart(dir, l) ==
    /\ walk = NoWalk
    /\ walk' = [dir |-> dir, list |-> l, cnt |-> StartOf(dir, l), hkv |-> FirstOf(StartOf(dir, l)),
                seen |-> << >>]
    /\ UNCHANGED <<inst, plain, tally, listOf>>

WalkStep ==
    /\ walk # NoWalk /\ walk.cnt # NONE
    /\ LET c == walk.cnt
           p == walk.hkv
           q == inst.val[p].next
       IN  IF PosIsBad(c, p) \/ PosIsBad(c, q)
             THEN walk' = [walk EXCEPT !.cnt = NONE, !.hkv = NONE]
           ELSE LET to == IF q = NONE THEN Beyond(walk.dir, c) ELSE c
                IN  walk' = [walk EXCEPT !.cnt = to, !.hkv = IF q = NONE THEN FirstOf(to) ELSE q,
                                         !.seen = Append(@, <<p, inst.counts[c].count>>)]
    /\ UNCHANGED <<inst, plain, tally, listOf>>

WalkEnd ==
    /\ walk # NoWalk /\ walk.cnt = NONE
    /\ walk' = NoWalk
    /\ UNCHANGED <<inst, plain, tally, listOf>>

CountsNext ==
    \/ \E k \in Counter, l \in List : Inc(k, l)
    \/ \E k \in Counter : PutPlain(k)
    \/ CountsReboot
    \/ \E dir \in {"hi2lo", "lo2hi"}, l \in List : WalkStart(dir, l)
    \/ WalkStep \/ WalkEnd

CountsSpec == CountsInit /\ [][CountsNext]_countVars
-----------------------------------------------------------------------------
(* The counts reached from c, by next, in order: at[0], at[1] ... then NONE. *)
Reach(c) ==
    LET at[n \in 0 .. inst.counts_size] ==
            IF n = 0 THEN c ELSE IF at[n - 1] = NONE THEN NONE ELSE inst.counts[at[n - 1]].next
    IN  at

(* Every key's count is the number of times it was incremented, although keys
   share counts, climb alone, and counts are freed and used again. *)
CountsRight ==
    /\ DOMAIN inst.val = {k \in Counter : tally[k] > 0}
    /\ \A k \in DOMAIN inst.val : inst.counts[inst.val[k].count_to_use].count = tally[k]

(* The chain of the keys with one count is linked both ways and starts at hkv1. *)
ChainsLinked ==
    \A k \in DOMAIN inst.val :
       LET v == inst.val[k] IN
       /\ v.next # NONE => inst.val[v.next].last = k /\ inst.val[v.next].count_to_use = v.count_to_use
       /\ v.last # NONE => inst.val[v.last].next = k
       /\ v.last = NONE <=> inst.counts[v.count_to_use].hkv1 = k

(* "counters get automatically sorted on the fly": each list runs from counts_lo
   to counts_hi ("lowest" and "highest count in particular double linked *counts*
   list"), strictly upwards, the same both ways, and no count on it is without
   keys. *)
ListsSorted ==
    /\ ChainsLinked
    /\ \A l \in List :
       LET at == Reach(inst.counts_lo[l]) IN
       /\ inst.counts_lo[l] = NONE <=> inst.counts_hi[l] = NONE
       /\ at[inst.counts_size] = NONE
       /\ \A n \in DOMAIN at : at[n] # NONE =>
             LET c == inst.counts[at[n]] IN
             /\ c.last = IF n = 0 THEN NONE ELSE at[n - 1]
             /\ c.next = NONE => at[n] = inst.counts_hi[l]
             /\ c.next # NONE => c.count < inst.counts[c.next].count
             /\ c.hkv1 # NONE

(* The first counts_free entries of the free list are the counts no key uses: a
   count is never given out twice and none leaks. *)
FreeListSound ==
    LET at   == Reach(inst.counts_next_free)
        free == {at[n] : n \in 0 .. inst.counts_free - 1}
        used == {inst.val[k].count_to_use : k \in DOMAIN inst.val}
    IN  /\ Cardinality(free) = inst.counts_free /\ Cardinality(used) = inst.counts_used
        /\ free \intersect used = {} /\ free \union used = DOMAIN inst.counts

(* "impossible code path due to opportunistic increment" *)
NeverImpossible == ~ inst.impossible

(* The counters stay right, sorted and linked, and no SXE_CDB_COUNT is lost. *)
CountsSound == CountsRight /\ ListsSorted /\ FreeListSound /\ NeverImpossible

(* A walk with no increment in between returns every key of its list once, in
   the order of the counts, each with its count. *)
WalkComplete ==
    walk # NoWalk /\ walk.cnt = NONE =>
       LET ks == {k \in DOMAIN listOf : listOf[k] = walk.list} IN
       /\ Len(walk.seen) = Cardinality(ks)
       /\ {walk.seen[i] : i \in DOMAIN walk.seen} = {<<k, tally[k]>> : k \in ks}
       /\ \A i, j \in DOMAIN walk.seen : i < j =>
             IF walk.dir = "hi2lo" THEN walk.seen[i][2] >= walk.seen[j][2]
                                   ELSE walk.seen[i][2] <= walk.seen[j][2]
=============================================================================
