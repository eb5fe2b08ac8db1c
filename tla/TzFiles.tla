------------------------------- MODULE TzFiles -------------------------------
(***************************************************************************)
(* Loading a zone (lib-tzcode/localtime.c) from what a TZif file holds,    *)
(* and the zone that the whole program shares, which follows the           *)
(* environment variable TZ.                                                *)
(*                                                                         *)
(* A file is [version, blocks, footer]: the block with times of 4 bytes    *)
(* and, unless the version is 0, the one with times of 8; a block is       *)
(* [ats, types, ttis, chars, leaps, cut], where cut says that the file     *)
(* ends before the block does.                                             *)
(***************************************************************************)
EXTENDS TzZones

(* The counts of a block's header are in range and its data are all there. *)
HeaderOk(b) ==
    /\ Len(b.leaps) < TZ_MAX_LEAPS /\ Len(b.ttis) < TZ_MAX_TYPES
    /\ Len(b.ats) < TZ_MAX_TIMES /\ Len(b.chars) < TZ_MAX_CHARS
    /\ ~b.cut

(* Reads the transitions: what is after the last time_t is left out, what is before
   the first is moved to it, and of two at the same time the second counts. *)
ReadTimes(b) ==
    LET read[i \in 0 .. Len(b.ats)] ==
          IF i = 0 THEN [ok |-> TRUE, ats |-> <<>>, types |-> <<>>]
          ELSE LET r == read[i - 1]
                   at == IF b.ats[i] < TIME_T_MIN THEN TIME_T_MIN ELSE b.ats[i]
                   n == Len(r.ats)
               IN  IF b.ats[i] > TIME_T_MAX THEN r
                   ELSE IF n > 0 /\ at <= r.ats[n]
                   THEN [ok |-> r.ok /\ at = r.ats[n], ats |-> r.ats, types |-> Append(SubSeq(r.types, 1, n - 1), b.types[i])]
                   ELSE [ok |-> r.ok, ats |-> Append(r.ats, at), types |-> Append(r.types, b.types[i])]
    IN  read[Len(b.ats)]

(* Leap seconds are in order, not before the Epoch, and change the correction by at
   most one second each. *)
LeapsOk(b) ==
    \A i \in 1 .. Len(b.leaps) :
        /\ b.leaps[i].trans > IF i = 1 THEN -1 ELSE b.leaps[i - 1].trans
        /\ i > 1 => b.leaps[i].corr - b.leaps[i - 1].corr \in {-1, 0, 1}

ReadBlock(sp, b) ==
    LET r == ReadTimes(b)
        ok == /\ r.ok /\ LeapsOk(b)
              /\ \A i \in 1 .. Len(b.types) : b.types[i] \in 1 .. Len(b.ttis)
              /\ \A i \in 1 .. Len(b.ttis) : \E j \in 1 .. Len(b.chars) : b.chars[j] = b.ttis[i].abbr
    IN  [ok |-> ok, sp |-> [sp EXCEPT !.ats = r.ats, !.types = r.types, !.ttis = b.ttis, !.chars = b.chars,
                                      !.leaps = SelectSeq(b.leaps, LAMBDA l : l.trans <= TIME_T_MAX)]]

(* The abbreviations of the footer are those of the file, or are added. *)
AddAbbrs(chars, ttis) ==
    LET add[i \in 0 .. Len(ttis)] ==
          IF i = 0 THEN [chars |-> chars, got |-> 0]
          ELSE LET a == add[i - 1] IN
               IF \E j \in 1 .. Len(a.chars) : a.chars[j] = ttis[i].abbr THEN [a EXCEPT !.got = @ + 1]
               ELSE IF Len(a.chars) < TZ_MAX_CHARS THEN [chars |-> Append(a.chars, ttis[i].abbr), got |-> a.got + 1]
               ELSE a
    IN  add[Len(ttis)]

(* The transitions of the footer's zone ts are put behind those of the file, whose
   last ones are dropped first if they change nothing. *)
Extended(sp, ts) ==
    LET abbrs == AddAbbrs(sp.chars, ts.ttis)
        keep[n \in Nat] == IF n > 1 /\ sp.types[n] = sp.types[n - 1] THEN keep[n - 1] ELSE n
        n == keep[Len(sp.ats)]
        ats == SubSeq(sp.ats, 1, n)
        types == SubSeq(sp.types, 1, n)
        ltime == IF n = 0 THEN TIME_T_MIN - 1 ELSE ats[n]
        T(i) == ts.ats[i] + leapcorr(sp, ts.ats[i])
        \* ts.ats is in ascending order, and so are the times with leap seconds
        new == SelectSeq([i \in 1 .. Len(ts.ats) |-> i], LAMBDA i : FitsTime(T(i)) /\ T(i) > ltime)
        room == SubSeq(new, 1, IF TZ_MAX_TIMES - n < Len(new) THEN TZ_MAX_TIMES - n ELSE Len(new))
    IN  IF abbrs.got # Len(ts.ttis) THEN sp
        ELSE [sp EXCEPT !.chars = abbrs.chars, !.ttis = @ \o ts.ttis,
                        !.ats = ats \o [k \in DOMAIN room |-> T(room[k])],
                        !.types = types \o [k \in DOMAIN room |-> Len(sp.ttis) + ts.types[room[k]]]]

(* Does the table come back to its first, or its last, transition after 400 years? *)
Repeats(sp) ==
    LET n == Len(sp.ats)
        Again(i, at) == \E j \in 1 .. n : sp.ats[j] = at /\ typesequiv(sp, sp.types[j], sp.types[i])
    IN  [sp EXCEPT !.goback  = n > 1 /\ Again(1, sp.ats[1] + SECSPERREPEAT),
                   !.goahead = n > 1 /\ Again(n, sp.ats[n] - SECSPERREPEAT)]

(* The type for times before the first transition *)
DefaultType(sp) ==
    LET used == \E i \in 1 .. Len(sp.types) : sp.types[i] = 1
        std(S) == {i \in S : sp.ttis[i].isdst = 0}
        below == std(1 .. sp.types[1] - 1)
        all == std(1 .. Len(sp.ttis))
    IN  IF ~used \/ sp.ttis[1].abbr = Unspecified THEN 1
        ELSE IF sp.ttis[sp.types[1]].isdst = 1 /\ below # {} THEN CHOOSE i \in below : \A j \in below : j <= i
        ELSE IF all # {} THEN CHOOSE i \in all : \A j \in all : i <= j
        ELSE 1

ExtendedBy(sp, ts) == IF ts.ok THEN Extended(sp, ts.sp) ELSE sp

Settled(sp) == IF sp.ttis = <<>> THEN NoZone ELSE [ok |-> TRUE, sp |-> [sp EXCEPT !.defaulttype = DefaultType(sp)]]

(* The rest of tzload, once the block has been read *)
LoadFooter(b, footer, doextend) ==
    IF ~b.ok THEN NoZone
    ELSE Settled(Repeats(IF doextend /\ footer # <<>> /\ Len(b.sp.ttis) + 2 <= TZ_MAX_TYPES
                         THEN ExtendedBy(b.sp, tzparse(footer, [ok |-> TRUE, sp |-> b.sp], NoZone))
                         ELSE b.sp))

(* tzload: a file that cannot be read or is not as it should be gives no zone. *)
tzload(file, doextend) ==
    LET last == file.blocks[Len(file.blocks)] IN
    IF file.blocks = <<>> THEN NoZone
    ELSE IF ~HeaderOk(file.blocks[1]) \/ ~HeaderOk(last) THEN NoZone
    ELSE LoadFooter(ReadBlock(EmptyState, last), file.footer, doextend)

(* zoneinit for the empty name: quick and always right *)
FastZone == [EmptyState EXCEPT !.ttis = <<init_ttinfo(0, FALSE, UTC)>>, !.chars = <<UTC>>]

(* zoneinit: a name is [file, string, colon]: what the file of that name holds, the
   name as a TZ string, and whether it begins with a colon. *)
FileOrString(f, name, def) == IF f.ok \/ name.colon THEN f ELSE tzparse(name.string, NoZone, def)

zoneinit(name, def) == FileOrString(tzload(name.file, TRUE), name, def)
-----------------------------------------------------------------------------
CONSTANTS
    Zone,       \* the values that TZ may have, beside "" and being unset
    Content,    \* Content[z]: what zoneinit finds for z, files and all
    DefContent, \* the file of TZDEFRULES
    Long,       \* the names longer than TZ_STRLEN_MAX
    Times,      \* the times that localtime and mktime convert
    RTimes,     \* the times that localtime_r converts
    Rules       \* Rules[z]: what the TZ string of z says, [start, end, std, dst, from]

ZoneOf == LET def == tzload(DefContent, FALSE) IN [z \in Zone |-> zoneinit(Content[z], def)]

VARIABLES
    env,        \* the environment's TZ: a zone, "" or "unset"
    lclptr,     \* the zone loaded in lclptr: a zone, or "" for FastZone
    lcl_TZname, \* the name it was loaded for
    lcl_is_set, \* -1 for an unset TZ, 1 when lcl_TZname says for which, else 0
    asked,      \* the last conversion: the zone and the time
    seen        \* what TZ was when the zone was last to follow it

tzVars == <<env, lclptr, lcl_TZname, lcl_is_set, asked, seen>>

NotAsked == [now |-> FALSE, z |-> "", t |-> 0]

TzInit ==
    /\ env = "unset" /\ lclptr = "none" /\ lcl_TZname = "" /\ lcl_is_set = 0
    /\ asked = NotAsked /\ seen = "never"

(* The program changes TZ. *)
SetEnv(z) == z # env /\ env' = z /\ asked' = NotAsked /\ UNCHANGED <<lclptr, lcl_TZname, lcl_is_set, seen>>

(* The zone for a value of TZ; that of an unset TZ is in TZDEFAULT, which is not
   there.  A zone that cannot be loaded is replaced by UTC. *)
Loaded(e) == IF e \notin Zone THEN "" ELSE IF ZoneOf[e].ok THEN e ELSE ""

(* tzset_unlocked: nothing is done for the name that was loaded last. *)
tzset_unlocked ==
    LET lcl == IF env = "unset" THEN -1 ELSE IF env \in Long THEN 0 ELSE 1
        same == IF lcl < 0 THEN lcl_is_set < 0 ELSE lcl_is_set > 0 /\ lcl_TZname = env
    IN  IF same THEN UNCHANGED <<lclptr, lcl_TZname, lcl_is_set>>
        ELSE /\ lclptr' = Loaded(env)
             /\ lcl_TZname' = IF 0 < lcl THEN env ELSE lcl_TZname
             /\ lcl_is_set' = lcl

Zoned(z) == IF z = "" THEN FastZone ELSE ZoneOf[z].sp

(* localtime or mktime (setname), or localtime_r, for the time t: what they return is
   in the property.  Only the first two look at TZ every time. *)
Convert(t, setname) ==
    /\ IF setname \/ lcl_is_set = 0 THEN tzset_unlocked ELSE UNCHANGED <<lclptr, lcl_TZname, lcl_is_set>>
    /\ seen' = IF setname \/ seen \in Long \union {"never"} THEN env ELSE seen
    /\ asked' = [now |-> TRUE, z |-> lclptr', t |-> t]
    /\ UNCHANGED env

TzNext ==
    \/ \E z \in Zone \union {"", "unset"} : SetEnv(z)
    \/ \E t \in Times : Convert(t, TRUE)
    \/ \E t \in RTimes : Convert(t, FALSE)

TzSpec == TzInit /\ [][TzNext]_tzVars
-----------------------------------------------------------------------------
(* Days since the Epoch of a date, by counting *)
Days(y, mon, mday) ==
    LET leaps(n) == (n \div 4) - (n \div 100) + (n \div 400)
    IN  365 * (y - 1970) + leaps(y - 1) - leaps(1969) + DaysBefore(y, mon + 1) + mday - 1

Seconds(tm) == Days(tm.year + 1900, tm.mon, tm.mday) * SECSPERDAY + tm.hour * SECSPERHOUR + tm.min * SECSPERMIN + tm.sec

(* tm is the date and the time of day at t: a positive leap second is the last of its
   minute, one more than there are. *)
IsDate(sp, t, tm) ==
    LET late == Seconds(tm) - (t + tm.gmtoff - leapcorr(sp, t))
        y == tm.year + 1900
    IN  /\ late \in {0, 1}
        /\ late = 1 => \E i \in 1 .. Len(sp.leaps) :
                /\ t \in sp.leaps[i].trans .. sp.leaps[i].trans + tm.sec - 1
                /\ sp.leaps[i].corr = 1 + IF i = 1 THEN 0 ELSE sp.leaps[i - 1].corr
        /\ tm.mon \in 0 .. 11 /\ tm.mday \in 1 .. mon_lengths(y)[tm.mon + 1]
        /\ tm.hour \in 0 .. HOURSPERDAY - 1 /\ tm.min \in 0 .. MINSPERHOUR - 1 /\ tm.sec \in 0 .. SECSPERMIN - 1 + late
        /\ tm.yday = Days(y, tm.mon, tm.mday) - Days(y, 0, 1)
        /\ tm.wday = (Days(y, tm.mon, tm.mday) + 4) % 7

(* The day a rule means, as POSIX has it *)
RuleDay(y, r) ==
    LET month == {d \in 1 .. mon_lengths(y)[r.mon] : (Days(y, r.mon - 1, d) + 4) % 7 = r.day}
        nth == {d \in month : (d - 1) \div 7 = r.week - 1}
        day == IF nth # {} THEN CHOOSE d \in nth : TRUE ELSE CHOOSE d \in month : \A e \in month : e <= d
    IN  CASE r.type = "JULIAN_DAY"  -> Days(y, 0, 1) + r.day - 1 + Bool(isleap(y) /\ r.day >= 60)
          [] r.type = "DAY_OF_YEAR" -> Days(y, 0, 1) + r.day
          [] OTHER -> Days(y, r.mon - 1, day)

(* Is daylight saving time in effect at t?  The last change before t says. *)
InDst(rules, t) ==
    LET y0 == EPOCH_YEAR + (t \div (SECSPERDAY * 365 + SECSPERDAY \div 4))
        ch == {<<RuleDay(y, rules.start) * SECSPERDAY + rules.start.time + rules.std, 1>> : y \in y0 - 2 .. y0 + 2}
              \union {<<RuleDay(y, rules.end) * SECSPERDAY + rules.end.time + rules.dst, 0>> : y \in y0 - 2 .. y0 + 2}
        past == {c \in ch : c[1] <= t}
    IN  (CHOOSE c \in past : \A d \in past : d[1] <= c[1])[2]

(* mktime undoes localtime: given the kind of time it finds the same time, whatever
   zone, leap second or repeated hour it is in; not given it, a time that is the
   same date and time of day; given the other kind, a time that the offsets of the two
   kinds make of it. *)
Undone(sp, t, tm) ==
    \A made \in {[isdst \in {-1, 0, 1} |-> mktime_z(sp, [tm EXCEPT !.isdst = isdst])]} :
        LET back == made[tm.isdst]  any == made[-1]  other == made[1 - tm.isdst] IN
        /\ back.okay /\ back.t = t
        /\ any.okay /\ tmcomp(localsub(sp, any.t), tm) = 0
        /\ other.okay => \E i, j \in 1 .. Len(sp.ttis) : /\ sp.ttis[i].isdst # tm.isdst /\ sp.ttis[j].isdst = tm.isdst
                                                         /\ other.t = t + sp.ttis[j].utoff - sp.ttis[i].utoff

(* The same in UTC: days, months and minutes out of range are carried over. *)
Carried(utc, t) ==
    \A u \in {timesub(t, 0, utc)} :
    \A gm \in {time1(utc, [u EXCEPT !.mday = @ + 400, !.mon = @ - 13, !.min = @ - 100, !.isdst = 0], 0)} :
        LET m == normalize(u.year + 1900, u.mon - 13, 12) IN
        gm.okay => gm.t = (Days(m.tens, m.units, 1) + u.mday + 399) * SECSPERDAY
                          + u.hour * SECSPERHOUR + (u.min - 100) * SECSPERMIN + u.sec

(* The zone of the program is that of the environment's TZ at every call of localtime
   and mktime, however TZ was changed, made invalid or too long before, and at a call of
   localtime_r that of the last such call, unless TZ was too long to be remembered then
   or there was none; a zone's transitions are
   in order and its types exist; the date, the time of day, the day of the week and
   of the year are those of the calendar, before the Epoch and beyond the tables; the
   kind of time is the one that the rules of the zone say, also 400 years and more
   after the table's end; and mktime undoes it all. *)
TimesAsSpecified ==
    asked.now =>
        LET t == asked.t IN
        \A sp \in {Zoned(asked.z)} : \A tm \in {localsub(sp, t)} :
            /\ asked.z = Loaded(seen)
            /\ \A i \in 1 .. Len(sp.ats) : sp.types[i] \in 1 .. Len(sp.ttis) /\ (i > 1 => sp.ats[i - 1] < sp.ats[i])
            /\ tm.ok => /\ IsDate(sp, t, tm)
                        /\ (asked.z \in DOMAIN Rules /\ t >= Rules[asked.z].from) => tm.isdst = InDst(Rules[asked.z], t)
                        /\ Undone(sp, t, tm)
                        /\ sp.leaps = <<>> => Carried([sp EXCEPT !.gmt = TRUE], t)
            /\ ~tm.ok => ~FitsInt((t \div (365 * SECSPERDAY)) + EPOCH_YEAR - TM_YEAR_BASE)
=============================================================================
