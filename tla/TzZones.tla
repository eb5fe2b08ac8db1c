------------------------------- MODULE TzZones -------------------------------
(***************************************************************************)
(* Times and dates (lib-tzcode/localtime.c): from a time_t to a struct tm  *)
(* in a zone that is already loaded, and back (mktime).  The calendar is   *)
(* the real one; the clock may be scaled down, so that 400 years fit in    *)
(* small integers: the units of the clock and the limits of time_t and of  *)
(* int are constants.                                                      *)
(***************************************************************************)
EXTENDS Integers, Sequences

CONSTANTS
    SECSPERMIN, MINSPERHOUR, HOURSPERDAY,
    TIME_T_MIN, TIME_T_MAX,
    INT_MIN, INT_MAX,
    Unspecified                 \* the abbreviation "-00"

SECSPERHOUR     == SECSPERMIN * MINSPERHOUR
SECSPERDAY      == SECSPERHOUR * HOURSPERDAY
EPOCH_YEAR      == 1970
TM_YEAR_BASE    == 1900
TM_WDAY_BASE    == 1
YEARSPERREPEAT  == 400
DAYSPERREPEAT   == 400 * 365 + 100 - 4 + 1
SECSPERREPEAT   == DAYSPERREPEAT * SECSPERDAY
AVGSECSPERYEAR  == SECSPERREPEAT \div YEARSPERREPEAT

(* localsub counts on the average year being a whole number of seconds. *)
ASSUME YearAssumption == SECSPERREPEAT % YEARSPERREPEAT = 0

(* Division and remainder as C has them, towards zero *)
Quot(a, b) == IF a >= 0 THEN a \div b ELSE -((-a) \div b)
Rem(a, b)  == a - b * Quot(a, b)

isleap(y) == (y % 4 = 0 /\ y % 100 # 0) \/ y % 400 = 0

mon_lengths(y) == <<31, IF isleap(y) THEN 29 ELSE 28, 31, 30, 31, 30, 31, 31, 30, 31, 30, 31>>
year_lengths(y) == IF isleap(y) THEN 366 ELSE 365

leaps_thru_end_of_nonneg(y) == Quot(y, 4) - Quot(y, 100) + Quot(y, 400)
leaps_thru_end_of(y) ==
    IF y < 0 THEN -1 - leaps_thru_end_of_nonneg(-1 - y) ELSE leaps_thru_end_of_nonneg(y)

(* The additions of increment_overflow and increment_overflow_time *)
FitsInt(i)  == INT_MIN <= i /\ i <= INT_MAX
FitsTime(t) == TIME_T_MIN <= t /\ t <= TIME_T_MAX

NoTm == [ok |-> FALSE]

(* The last leap second at or before t, 0 if there is none *)
LeapAt(sp, t) ==
    LET past == {i \in 1 .. Len(sp.leaps) : t >= sp.leaps[i].trans}
    IN  IF past = {} THEN 0 ELSE CHOOSE i \in past : \A j \in past : j <= i

leapcorr(sp, t) == IF LeapAt(sp, t) = 0 THEN 0 ELSE sp.leaps[LeapAt(sp, t)].corr

(* y is increased and idays decreased until idays is a day of the year y. *)
FindYear(y0, idays0) ==
    LET find[y \in Int, idays \in Int] ==
          IF idays < year_lengths(y) THEN <<y, idays>>
          ELSE LET tdelta == Quot(idays, 366)
                   newy == y + IF tdelta = 0 THEN 1 ELSE tdelta
                   leapdays == leaps_thru_end_of(newy - 1) - leaps_thru_end_of(y - 1)
               IN  find[newy, idays - (newy - y) * 365 - leapdays]
    IN  find[y0, idays0]

(* The month (from 0) and the day in it (from 0) of a day of the year *)
FindMonth(y, idays0) ==
    LET find[mon \in 0 .. 11, idays \in 0 .. 366] ==
          IF idays < mon_lengths(y)[mon + 1] THEN <<mon, idays>>
          ELSE find[mon + 1, idays - mon_lengths(y)[mon + 1]]
    IN  find[0, idays0]

(* Seconds since the last leap second that was inserted, at t *)
SincePosLeap(sp, t, lp, corr) ==
    LET positive == lp # 0 /\ (IF lp = 1 THEN 0 ELSE sp.leaps[lp - 1].corr) < corr
    IN  IF positive THEN t - sp.leaps[lp].trans ELSE SECSPERMIN

(* The year, and the day in it, of the day dayoff days after tdays *)
YearDay(tdays, dayoff) ==
    LET dayrem == Rem(tdays, DAYSPERREPEAT) + Rem(dayoff, DAYSPERREPEAT) IN
    FindYear(EPOCH_YEAR - YEARSPERREPEAT
               + (1 + Quot(dayoff, DAYSPERREPEAT) + Quot(dayrem, DAYSPERREPEAT)
                  - (IF Rem(dayrem, DAYSPERREPEAT) < 0 THEN 1 ELSE 0) + Quot(tdays, DAYSPERREPEAT))
                 * YEARSPERREPEAT,
             Rem(Rem(tdays, DAYSPERREPEAT) + Rem(dayoff, DAYSPERREPEAT) + 2 * DAYSPERREPEAT, DAYSPERREPEAT))

(* What C leaves of a division by 7 that may be negative *)
InWeek(d) == IF d < 0 THEN d + 7 ELSE d

(* The struct tm of the day yd[2] of the year yd[1], rem seconds after midnight *)
BrokenDown(yd, rem, offset, secs_since_posleap) ==
    LET year == yd[1] - TM_YEAR_BASE
        md   == FindMonth(yd[1], yd[2])
        sec  == (rem % SECSPERHOUR) % SECSPERMIN
    IN  IF ~FitsInt(year) THEN NoTm
        ELSE [ok |-> TRUE, year |-> year, mon |-> md[1], mday |-> md[2] + 1, yday |-> yd[2],
              wday |-> InWeek(Rem(TM_WDAY_BASE + Rem(year, 7) * (365 % 7) + leaps_thru_end_of(yd[1] - 1)
                                  - leaps_thru_end_of(TM_YEAR_BASE - 1) + yd[2], 7)),
              hour |-> rem \div SECSPERHOUR, min |-> (rem % SECSPERHOUR) \div SECSPERMIN,
              sec |-> sec + IF secs_since_posleap <= sec THEN 1 ELSE 0,
              isdst |-> 0, gmtoff |-> offset, zone |-> Unspecified]

(* rem0 is the seconds of the day, which may be those of another day. *)
timesub_rem(t, rem0, offset, corr, secs_since_posleap) ==
    BrokenDown(YearDay(Quot(t, SECSPERDAY),
                       Quot(offset, SECSPERDAY) - Quot(corr, SECSPERDAY) + Quot(rem0, SECSPERDAY) - 3),
               Rem(rem0, SECSPERDAY), offset, secs_since_posleap)

timesub(t, offset, sp) ==
    LET corr == leapcorr(sp, t) IN
    timesub_rem(t, Rem(t, SECSPERDAY) + Rem(offset, SECSPERDAY) - Rem(corr, SECSPERDAY) + 3 * SECSPERDAY,
                offset, corr, SincePosLeap(sp, t, LeapAt(sp, t), corr))

(* The binary search for the time type in effect at t *)
TypeAt(sp, t) ==
    LET n == Len(sp.ats)
        find[lo \in 1 .. n, hi \in 1 .. n] ==
          IF lo >= hi THEN sp.types[lo]
          ELSE LET mid == (lo + hi) \div 2
               IN  IF t < sp.ats[mid + 1] THEN find[lo, mid] ELSE find[mid + 1, hi]
    IN  IF n = 0 \/ t < sp.ats[1] THEN sp.defaulttype ELSE find[1, n]

(* localsub for a time within the table, or outside of one that does not repeat *)
OfType(r, ttisp) == IF r.ok THEN [r EXCEPT !.isdst = ttisp.isdst, !.zone = ttisp.abbr] ELSE r

LocalSubHere(sp, t) ==
    LET ttisp == sp.ttis[TypeAt(sp, t)] IN OfType(timesub(t, ttisp.utoff, sp), ttisp)

YearsLater(r, years) ==
    IF ~r.ok THEN NoTm ELSE IF ~FitsInt(r.year + years) THEN NoTm ELSE [r EXCEPT !.year = @ + years]

(* localsub for a time outside of a table that repeats: for the time a number of
   cycles of 400 years earlier, or later, that is in the table *)
LocalSubThere(sp, t, years) ==
    LET newt == t - years * AVGSECSPERYEAR IN
    IF newt < sp.ats[1] \/ newt > sp.ats[Len(sp.ats)] THEN NoTm
    ELSE YearsLater(LocalSubHere(sp, newt), years)

localsub(sp, t) ==
    LET first == sp.ats[1]
        last  == sp.ats[Len(sp.ats)]
        Years(seconds) == Quot(seconds, SECSPERREPEAT) * YEARSPERREPEAT + YEARSPERREPEAT
    IN  IF sp.goback /\ t < first THEN LocalSubThere(sp, t, -Years(first - t - 1))
        ELSE IF sp.goahead /\ t > last THEN LocalSubThere(sp, t, Years(t - last - 1))
        ELSE LocalSubHere(sp, t)

InUtc(r, sp, offset) == IF r.ok /\ offset = 0 THEN [r EXCEPT !.zone = sp.chars[1]] ELSE r
gmtsub(sp, t, offset) == InUtc(timesub(t, offset, sp), sp, offset)

(* The function given to time1: localsub of a zone, or gmtsub with an offset *)
funcp(sp, t, offset) == IF sp.gmt THEN gmtsub(sp, t, offset) ELSE localsub(sp, t)
-----------------------------------------------------------------------------
(* normalize_overflow *)
normalize(tens, units, base) == [tens |-> tens + units \div base, units |-> units % base]

(* tmcomp: compares the fields in their order, the most significant first *)
tmcomp(a, b) ==
    LET fa == <<a.year, a.mon, a.mday, a.hour, a.min, a.sec>>
        fb == <<b.year, b.mon, b.mday, b.hour, b.min, b.sec>>
        differ == {i \in 1 .. 6 : fa[i] # fb[i]}
        i == CHOOSE i \in differ : \A j \in differ : i <= j
    IN  IF differ = {} THEN 0 ELSE IF fa[i] < fb[i] THEN -1 ELSE 1

(* The loops that bring a day of the month that is out of range to a day of the
   calendar; y is the year, mon the month from 0. *)
NormalDay(y0, mon0, mday0) ==
    LET li(y, mon) == y + IF 1 < mon THEN 1 ELSE 0
        up[y \in Int, mday \in Int] ==
          IF mday > 0 THEN <<y, mday>> ELSE up[y - 1, mday + year_lengths(li(y - 1, mon0))]
        down[y \in Int, mday \in Int] ==
          IF mday <= 366 THEN <<y, mday>> ELSE down[y + 1, mday - year_lengths(li(y, mon0))]
        month[y \in Int, mon \in 0 .. 11, mday \in Int] ==
          LET i == mon_lengths(y)[mon + 1] IN
          IF mday <= i THEN [y |-> y, mon |-> mon, mday |-> mday]
          ELSE month[IF mon = 11 THEN y + 1 ELSE y, (mon + 1) % 12, mday - i]
        u == up[y0, mday0]
        d == down[u[1], u[2]]
    IN  month[d[1], mon0, d[2]]

Wrong(tm) == [okay |-> FALSE, t |-> -1, tm |-> tm]

(* Which way to go from t on, whose struct tm is mytm *)
Direction(mytm, t, yourtm) ==
    [dir |-> IF ~mytm.ok THEN IF t > 0 THEN 1 ELSE -1 ELSE tmcomp(mytm, yourtm), tm |-> mytm]

(* time2sub: the binary search for a time whose struct tm is yourtm *)
SearchTm(sp, yourtm, offset) ==
    LET search[lo \in Int, hi \in Int] ==
          LET mid == Quot(lo, 2) + Quot(hi, 2)
              t == IF mid < lo THEN lo ELSE IF mid > hi THEN hi ELSE mid
              probe == Direction(funcp(sp, t, offset), t, yourtm)
              atlo == t = lo
              athi == ~atlo /\ t = hi
              t2 == IF atlo THEN t + 1 ELSE IF athi THEN t - 1 ELSE t
              lo2 == IF atlo THEN lo + 1 ELSE lo
              hi2 == IF athi THEN hi - 1 ELSE hi
          IN  IF probe.dir = 0 THEN [found |-> TRUE, t |-> t, tm |-> probe.tm]
              ELSE IF \/ atlo /\ t = TIME_T_MAX
                      \/ athi /\ t = TIME_T_MIN
                      \/ lo2 > hi2
                   THEN [found |-> FALSE]
              ELSE IF probe.dir > 0 THEN search[lo2, t2] ELSE search[t2, hi2]
    IN  search[TIME_T_MIN, TIME_T_MAX]

(* The same date and time is looked for with the caller's offset, when that is
   plausible. *)
BetterHit(hit, altt, alttm, yourtm) ==
    IF alttm.ok /\ alttm.isdst = hit.tm.isdst /\ alttm.gmtoff = yourtm.gmtoff /\ tmcomp(alttm, yourtm) = 0
    THEN [hit EXCEPT !.t = altt, !.tm = alttm] ELSE hit

OtherOffset(sp, hit, yourtm, offset) ==
    LET altt == hit.t + hit.tm.gmtoff - yourtm.gmtoff
        plausible == /\ hit.tm.gmtoff # yourtm.gmtoff
                     /\ IF yourtm.gmtoff < 0 THEN -SECSPERDAY <= yourtm.gmtoff ELSE yourtm.gmtoff <= SECSPERDAY
    IN  IF plausible /\ FitsTime(altt)
        THEN BetterHit(hit, altt, funcp(sp, altt, offset), yourtm)
        ELSE hit

SameTm(r, yourtm) == r.ok /\ tmcomp(r, yourtm) = 0 /\ r.isdst = yourtm.isdst

TypeShift(sp, p) == sp.ttis[p[2]].utoff - sp.ttis[p[1]].utoff

(* The pair of types that is tried first: the last one, with the last one *)
FirstTried(sp, t, hits) ==
    IF hits = {} THEN [found |-> FALSE]
    ELSE [found |-> TRUE, t |-> t + TypeShift(sp, CHOOSE p \in hits : \A q \in hits :
                                                     q[1] < p[1] \/ (q[1] = p[1] /\ q[2] <= p[2]))]

(* Right time, wrong type: the times at which types of the right kind would be
   in effect, in the order they are tried; the first that is right is taken. *)
RightType(sp, t, yourtm, offset) ==
    LET n == Len(sp.ttis) IN
    FirstTried(sp, t, {p \in (1 .. n) \X (1 .. n) :
        /\ sp.ttis[p[1]].isdst = yourtm.isdst
        /\ sp.ttis[p[2]].isdst # yourtm.isdst
        /\ sp.ttis[p[2]].abbr # Unspecified
        /\ SameTm(funcp(sp, t + TypeShift(sp, p), offset), yourtm)})

OfRightType(sp, alt, yourtm, offset) ==
    IF yourtm.isdst < 0 \/ alt.tm.isdst = yourtm.isdst THEN alt ELSE RightType(sp, alt.t, yourtm, offset)

Converted(final, newt, tm) == [okay |-> final.ok, t |-> newt, tm |-> IF final.ok THEN final ELSE tm]

(* The end of time2sub: the seconds that were saved are put back. *)
WithSeconds(sp, tm, typed, saved_seconds, offset) ==
    IF ~typed.found THEN Wrong(tm)
    ELSE IF ~FitsTime(typed.t + saved_seconds) THEN Wrong(tm)
    ELSE Converted(funcp(sp, typed.t + saved_seconds, offset), typed.t + saved_seconds, tm)

Chosen(sp, tm, hit, yourtm, saved_seconds, offset) ==
    IF ~hit.found THEN Wrong(tm)
    ELSE WithSeconds(sp, tm, OfRightType(sp, OtherOffset(sp, hit, yourtm, offset), yourtm, offset),
                     saved_seconds, offset)

(* time2sub once the fields are in range: s, h and mi are the seconds, hours and
   minutes with what they carried, d the date. *)
SearchFields(sp, tm, s, mi, h, d, offset) ==
    LET year == d.y - TM_YEAR_BASE
        keep == s.units >= 0 /\ s.units < SECSPERMIN
        early == year < EPOCH_YEAR - TM_YEAR_BASE
        yourtm == [tm EXCEPT !.year = year, !.mon = d.mon, !.mday = d.mday, !.hour = h.units, !.min = mi.units,
                             !.sec = IF keep THEN s.units ELSE IF early THEN SECSPERMIN - 1 ELSE 0]
    IN  IF \/ ~FitsInt(s.tens) \/ ~FitsInt(mi.tens) \/ ~FitsInt(h.tens) \/ ~FitsInt(year)
           \/ (~keep /\ early /\ ~FitsInt(s.units + 1 - SECSPERMIN))
        THEN Wrong(tm)
        ELSE Chosen(sp, tm, SearchTm(sp, yourtm, offset), yourtm,
                    IF keep THEN 0 ELSE IF early THEN s.units + 1 - SECSPERMIN ELSE s.units, offset)

time2sub(sp, tm, offset, do_norm_secs) ==
    LET s  == IF do_norm_secs THEN normalize(tm.min, tm.sec, SECSPERMIN) ELSE [tens |-> tm.min, units |-> tm.sec]
        mi == normalize(tm.hour, s.tens, MINSPERHOUR)
        h  == normalize(tm.mday, mi.tens, HOURSPERDAY)
        mo == normalize(tm.year, tm.mon, 12)
    IN  SearchFields(sp, tm, s, mi, h, NormalDay(mo.tens + TM_YEAR_BASE, mo.units, h.tens), offset)

NormSecs(r, sp, offset) == IF r.okay THEN r ELSE time2sub(sp, r.tm, offset, TRUE)
time2(sp, tm, offset) == NormSecs(time2sub(sp, tm, offset, FALSE), sp, offset)

(* The result for the types tried first: the most recently used ones *)
MostRecent(sp, tm, attempts) ==
    LET Latest(i) == CHOOSE k \in 1 .. Len(sp.types) : sp.types[k] = i /\ \A l \in k + 1 .. Len(sp.types) : sp.types[l] # i
        okay == {a \in attempts : a.r.okay}
    IN  IF okay = {} THEN Wrong(tm)
        ELSE (CHOOSE a \in okay : \A b \in okay : \/ Latest(b.p[1]) < Latest(a.p[1])
                                                  \/ b.p[1] = a.p[1] /\ Latest(b.p[2]) <= Latest(a.p[2])).r

(* time1: if there is no such time, the types used in the zone are tried, the most
   recent first, as if the time had been computed from one of the other kind. *)
OtherTypes(r, sp, tm, offset) ==
    LET used == {i \in 1 .. Len(sp.ttis) : \E k \in 1 .. Len(sp.types) : sp.types[k] = i /\ sp.ttis[i].abbr # Unspecified}
        pairs == {p \in used \X used : sp.ttis[p[1]].isdst = tm.isdst /\ sp.ttis[p[2]].isdst # tm.isdst}
    IN  IF r.okay \/ tm.isdst < 0 THEN r
        ELSE MostRecent(sp, tm, {[p |-> p, r |-> time2(sp, [tm EXCEPT !.sec = @ + TypeShift(sp, p), !.isdst = 1 - @], offset)]
                                 : p \in pairs})

time1(sp, tm0, offset) ==
    LET tm == [tm0 EXCEPT !.isdst = IF @ > 1 THEN 1 ELSE @] IN
    OtherTypes(time2(sp, tm, offset), sp, tm, offset)

mktime_z(sp, tm) == time1(sp, tm, 0)

localtime_rz(sp, t) == localsub(sp, t)
-----------------------------------------------------------------------------
(***************************************************************************)
(* Zones (lib-tzcode/localtime.c): read from a TZif file, or made from a   *)
(* POSIX TZ string.  A TZ string is a sequence of tokens: names, numbers   *)
(* and punctuation.  A file is its blocks of data and the TZ string in     *)
(* its footer.  Time types and transitions are numbered from 1; an         *)
(* abbreviation stands for its place in chars, and abbreviations are       *)
(* counted where the code counts their characters.                         *)
(***************************************************************************)

CONSTANTS
    TZ_MAX_TIMES, TZ_MAX_TYPES, TZ_MAX_CHARS, TZ_MAX_LEAPS,
    UTC                         \* the abbreviation "UTC"

Name(n)  == [k |-> "name", v |-> n]
Num(n)   == [k |-> "num", v |-> n]
Punct(p) == [k |-> p, v |-> 0]
At(s, i) == IF i <= Len(s) THEN s[i] ELSE [k |-> "", v |-> 0]

(* A parser returns where it stopped, 0 for an error, and what it read. *)
Fail == [i |-> 0, v |-> 0]
Bool(b) == IF b THEN 1 ELSE 0

init_ttinfo(utoff, isdst, abbr) == [utoff |-> utoff, isdst |-> Bool(isdst), abbr |-> abbr, isstd |-> FALSE, isut |-> FALSE]

EmptyState == [leaps |-> <<>>, ats |-> <<>>, types |-> <<>>, ttis |-> <<>>, chars |-> <<>>,
               goback |-> FALSE, goahead |-> FALSE, defaulttype |-> 1, gmt |-> FALSE]

typesequiv(sp, a, b) ==
    /\ sp.ttis[a].utoff = sp.ttis[b].utoff
    /\ sp.ttis[a].isdst = sp.ttis[b].isdst
    /\ sp.ttis[a].abbr = sp.ttis[b].abbr
-----------------------------------------------------------------------------
getnum(s, i, min, max) ==
    IF At(s, i).k = "num" /\ min <= s[i].v /\ s[i].v <= max THEN [i |-> i + 1, v |-> s[i].v] ELSE Fail

getsecs(s, i) ==
    LET h == getnum(s, i, 0, HOURSPERDAY * 7 - 1)
        m == getnum(s, h.i + 1, 0, MINSPERHOUR - 1)
        c == getnum(s, m.i + 1, 0, SECSPERMIN)
    IN  IF h.i = 0 \/ At(s, h.i).k # ":" THEN [h EXCEPT !.v = @ * SECSPERHOUR]
        ELSE IF m.i = 0 \/ At(s, m.i).k # ":" THEN [m EXCEPT !.v = h.v * SECSPERHOUR + @ * SECSPERMIN]
        ELSE [c EXCEPT !.v = h.v * SECSPERHOUR + m.v * SECSPERMIN + @]

Negated(r) == [r EXCEPT !.v = -@]
getoffset(s, i) ==
    IF At(s, i).k = "-" THEN Negated(getsecs(s, i + 1))
    ELSE getsecs(s, IF At(s, i).k = "+" THEN i + 1 ELSE i)

(* getzname and getqzname: an abbreviation, possibly between < and > *)
getname(s, i) ==
    LET j == IF At(s, i).k = "<" THEN i + 1 ELSE i
    IN  IF At(s, j).k # "name" \/ (j # i /\ At(s, j + 1).k # ">") THEN Fail
        ELSE [i |-> IF j # i THEN j + 2 ELSE j + 1, v |-> s[j].v]

Rule(type, mon, week, day) == [type |-> type, mon |-> mon, week |-> week, day |-> day, time |-> 0]

Timed(time, r) == IF time.i = 0 THEN [i |-> 0, v |-> r] ELSE [i |-> time.i, v |-> [r EXCEPT !.time = time.v]]

(* The time of day of a rule, after its day *)
RuleTime(s, form, mon, week, day) ==
    LET r == CASE form = "J" -> Rule("JULIAN_DAY", 0, 0, day.v)
               [] form = "M" -> Rule("MONTH_NTH_DAY_OF_WEEK", mon.v, week.v, day.v)
               [] OTHER      -> Rule("DAY_OF_YEAR", 0, 0, day.v)
    IN  IF day.i = 0 THEN [i |-> 0, v |-> r]
        ELSE Timed(IF At(s, day.i).k = "/" THEN getoffset(s, day.i + 1) ELSE [i |-> day.i, v |-> 2 * SECSPERHOUR], r)

getrule(s, i) ==
    LET form == At(s, i).k
        mon  == getnum(s, i + 1, 1, 12)
        week == IF mon.i # 0 /\ At(s, mon.i).k = "." THEN getnum(s, mon.i + 1, 1, 5) ELSE Fail
        dow  == IF week.i # 0 /\ At(s, week.i).k = "." THEN getnum(s, week.i + 1, 0, 6) ELSE Fail
    IN  RuleTime(s, form, mon, week,
                 CASE form = "J"   -> getnum(s, i + 1, 1, 365)
                   [] form = "M"   -> dow
                   [] form = "num" -> getnum(s, i, 0, 365)
                   [] OTHER        -> Fail)

(* The day of the week of the first of a month, by Zeller's congruence *)
FirstDow(year, mon) ==
    LET m1 == ((mon + 9) % 12) + 1
        yy0 == IF mon <= 2 THEN year - 1 ELSE year
        yy1 == Quot(yy0, 100)
        yy2 == Rem(yy0, 100)
    IN  InWeek(Rem(Quot(26 * m1 - 2, 10) + 1 + yy2 + Quot(yy2, 4) + Quot(yy1, 4) - 2 * yy1, 7))

(* Mutant of MonthDay: the fifth week is always counted out. *)
MonthDayUnbounded(year, rule) ==
    (IF rule.day < FirstDow(year, rule.mon) THEN 7 ELSE 0) + rule.day - FirstDow(year, rule.mon) + 7 * (rule.week - 1)

(* The day of the month, from 0, of the week-th given day of the week, or the last
   such day if there are not so many *)
MonthDay(year, rule) ==
    LET later[i \in 1 .. 5, d \in 0 .. 40] ==
          IF i >= rule.week \/ d + 7 >= mon_lengths(year)[rule.mon] THEN d ELSE later[i + 1, d + 7]
    IN  later[1, InWeek(rule.day - FirstDow(year, rule.mon))]

DaysBefore(year, mon) ==
    LET sum[i \in 0 .. 12] == IF i = 0 THEN 0 ELSE sum[i - 1] + mon_lengths(year)[i] IN sum[mon - 1]

transtime(year, rule, offset) ==
    LET days == CASE rule.type = "JULIAN_DAY" -> rule.day - 1 + Bool(isleap(year) /\ rule.day >= 60)
                  [] rule.type = "DAY_OF_YEAR" -> rule.day
                  [] OTHER -> MonthDay(year, rule) + DaysBefore(year, rule.mon)
    IN  days * SECSPERDAY + rule.time + offset
-----------------------------------------------------------------------------
(* The year in which the transitions of a rule begin: from 1970 back until
   before atlo, but not by more than half a cycle, and then forward to atlo.
   janoffset is set if the first of January of that year is no time_t. *)
FirstYear(atlo) ==
    LET back[y \in Int, jan \in Int] ==
          LET secs == year_lengths(y - 1) * SECSPERDAY IN
          IF jan - secs < TIME_T_MIN THEN [y |-> y - 1, jan |-> jan, off |-> -secs]
          ELSE IF atlo < jan - secs /\ EPOCH_YEAR - YEARSPERREPEAT \div 2 < y - 1 THEN back[y - 1, jan - secs]
          ELSE [y |-> y - 1, jan |-> jan - secs, off |-> 0]
        ahead[y \in Int, jan \in Int] ==
          LET secs == year_lengths(y) * SECSPERDAY IN
          IF jan + secs > TIME_T_MAX \/ y + 1 > INT_MAX \/ atlo <= jan + secs THEN [y |-> y, jan |-> jan]
          ELSE ahead[y + 1, jan + secs]
        b == back[EPOCH_YEAR, 0]
        a == ahead[b.y, b.jan]
    IN  [y |-> a.y, jan |-> a.jan, off |-> b.off]

YearLimit(y) == IF y + YEARSPERREPEAT + 1 > INT_MAX THEN INT_MAX ELSE y + YEARSPERREPEAT + 1

(* The transitions of one year that are no earlier than atlo; t1 and t2 are when
   daylight saving time begins and ends in it. *)
YearTransitions(year, jan, t1, t2, atlo) ==
    LET both == IF t2 < t1 THEN <<[at |-> jan + t2, type |-> 1], [at |-> jan + t1, type |-> 2]>>
                ELSE IF t1 < t2 /\ t2 - t1 < year_lengths(year) * SECSPERDAY
                THEN <<[at |-> jan + t1, type |-> 2], [at |-> jan + t2, type |-> 1]>>
                ELSE <<>>
    IN  SelectSeq(both, LAMBDA tr : FitsTime(tr.at) /\ atlo <= tr.at)

(* One turn of the loop over the years, which ends when the table is full, when a
   cycle of 400 years and one is done after the last leap second, or at the end of
   time_t *)
NextYear(st, t1, t2, atlo, leaplo) ==
    LET secs == year_lengths(st.year) * SECSPERDAY
        changes == t2 < t1 \/ (t1 < t2 /\ t2 - t1 < secs)
        last == st.jan + secs > TIME_T_MAX
    IN  IF st.done \/ st.year >= st.lim \/ (changes /\ TZ_MAX_TIMES - 2 < Len(st.trs)) THEN [st EXCEPT !.done = TRUE]
        ELSE [st EXCEPT !.trs = @ \o YearTransitions(st.year, st.jan, t1, t2, atlo),
                        !.done = last,
                        !.year = IF last THEN @ ELSE @ + 1, !.jan = IF last THEN @ ELSE @ + secs,
                        !.lim = IF ~last /\ (IF t1 < t2 THEN t2 ELSE t1) < leaplo THEN YearLimit(st.year) ELSE @]

(* The loop, in halves: no more turns than there are years up to INT_MAX *)
YearsFrom(begin, start, end, stdoffset, dstoffset, atlo, leaplo) ==
    LET Turns == INT_MAX - begin.y + 1
        State == [year : Int, lim : Int, jan : Int, trs : Seq([at : Int, type : {1, 2}]), done : BOOLEAN]
        turns[n \in 1 .. Turns, st \in State] ==
          IF st.done THEN st
          ELSE IF n = 1
          THEN NextYear(st, transtime(st.year, start, stdoffset), transtime(st.year, end, dstoffset), atlo, leaplo)
          ELSE turns[n - (n \div 2), turns[n \div 2, st]]
    IN  turns[Turns, [year |-> begin.y, lim |-> YearLimit(begin.y), jan |-> begin.jan + begin.off,
                      trs |-> <<>>, done |-> FALSE]]

(* Transitions loaded from TZDEFRULES, moved to the offsets of the TZ string *)
Juggled(sp, stdoffset, dstoffset) ==
    LET First(dst) ==
          LET is == {i \in 1 .. Len(sp.types) : sp.ttis[sp.types[i]].isdst = Bool(dst)}
          IN  IF is = {} THEN 0 ELSE -sp.ttis[sp.types[CHOOSE i \in is : \A j \in is : i <= j]].utoff
        move[i \in 0 .. Len(sp.ats)] ==
          IF i = 0 THEN [std |-> First(FALSE), dst |-> First(TRUE), ats |-> <<>>, types |-> <<>>]
          ELSE LET m == move[i - 1]
                   tti == sp.ttis[sp.types[i]]
                   by == IF tti.isut THEN 0 ELSE stdoffset - m.std
               IN  [std |-> IF tti.isdst = 0 THEN -tti.utoff ELSE m.std,
                    dst |-> IF tti.isdst = 1 THEN -tti.utoff ELSE m.dst,
                    ats |-> Append(m.ats, sp.ats[i] + by), types |-> Append(m.types, 1 + tti.isdst)]
    IN  move[Len(sp.ats)]

(* TZDEFRULESTRING, ",M3.2.0,M11.1.0" *)
DefRules == <<Punct(","), Punct("M"), Num(3), Punct("."), Num(2), Punct("."), Num(0),
              Punct(","), Punct("M"), Num(11), Punct("."), Num(1), Punct("."), Num(0)>>

NoZone == [ok |-> FALSE, sp |-> EmptyState]

(* The zone of the years of a rule: one type if daylight saving time is always in
   effect, and a table that repeats if there is a cycle of 400 years of it *)
RuledZone(zone, begin, after) ==
    LET all == YEARSPERREPEAT < after.year - begin.y
        trs == after.trs
    IN  IF trs = <<>> THEN [ok |-> TRUE, sp |-> [zone EXCEPT !.ttis = <<@[2]>>, !.ats = <<>>, !.types = <<>>]]
        ELSE [ok |-> TRUE, sp |-> [zone EXCEPT !.ats = [n \in DOMAIN trs |-> trs[n].at],
                                               !.types = [n \in DOMAIN trs |-> trs[n].type],
                                               !.goback = all \/ @, !.goahead = all \/ @]]

ParseRules(str, start, end, zone, stdoffset, dstoffset, atlo, begin) ==
    LET leaplo == IF zone.leaps = <<>> THEN TIME_T_MIN ELSE zone.leaps[Len(zone.leaps)].trans IN
    IF end.i = 0 \/ At(str, end.i).k # "" THEN NoZone
    ELSE RuledZone(zone, begin, YearsFrom(begin, start.v, end.v, stdoffset, dstoffset, atlo, leaplo))

ParseStart(str, start, zone, stdoffset, dstoffset, atlo) ==
    ParseRules(str, start,
               IF start.i # 0 /\ At(str, start.i).k = "," THEN getrule(str, start.i + 1) ELSE Fail,
               zone, stdoffset, dstoffset, atlo, FirstYear(atlo))

(* What tzparse does once the names and the offsets are read *)
MakeZone(s, i, std, stdoffset, dst, dstoffset, base, atlo, def) ==
    LET str  == IF At(s, i).k = "" /\ ~def.ok THEN DefRules ELSE SubSeq(s, i, Len(s))
        j    == Juggled(def.sp, stdoffset, dstoffset)
        zone == [base EXCEPT !.chars = <<std, dst>>, !.defaulttype = 1,
                             !.ttis = <<init_ttinfo(-stdoffset, FALSE, std), init_ttinfo(-dstoffset, TRUE, dst)>>]
    IN  IF str # <<>> /\ str[1].k \in {",", ";"} THEN ParseStart(str, getrule(str, 2), zone, stdoffset, dstoffset, atlo)
        ELSE IF str # <<>> THEN NoZone
        ELSE [ok |-> TRUE, sp |-> [zone EXCEPT !.ats = j.ats, !.types = j.types]]

(* The offset of daylight saving time, and the rules *)
ParseDst(s, std, so, dst, base, def, start) ==
    LET has  == dst.i # 0 /\ At(s, dst.i).k \notin {"", ",", ";"}
        do   == IF has THEN getoffset(s, dst.i) ELSE [i |-> dst.i, v |-> so.v - SECSPERHOUR]
        atlo == IF base.ok /\ base.sp.ats # <<>> THEN base.sp.ats[Len(base.sp.ats)] ELSE TIME_T_MIN
    IN  IF dst.i = 0 \/ do.i = 0 THEN NoZone
        ELSE MakeZone(s, do.i, std.v, so.v, dst.v, do.v, start, atlo, def)

(* What follows the offset of standard time: nothing, or daylight saving time *)
ParseStd(s, std, so, base, def) ==
    LET start == IF base.ok THEN [EmptyState EXCEPT !.leaps = base.sp.leaps]
                 ELSE IF def.ok THEN def.sp ELSE EmptyState
    IN  IF std.i = 0 \/ so.i = 0 THEN NoZone
        ELSE IF At(s, so.i).k = ""
        THEN [ok |-> TRUE, sp |-> [start EXCEPT !.ats = <<>>, !.types = <<>>, !.chars = <<std.v>>, !.defaulttype = 1,
                                                !.ttis = <<init_ttinfo(-so.v, FALSE, std.v)>>]]
        ELSE ParseDst(s, std, so, getname(s, so.i), base, def, start)

(* tzparse: base is the zone whose footer the string is, or no zone; def is what
   loading TZDEFRULES gave. *)
tzparse(s, base, def) ==
    LET std == getname(s, 1) IN
    ParseStd(s, std, IF std.i = 0 THEN Fail ELSE getoffset(s, std.i), base, IF base.ok THEN NoZone ELSE def)
=============================================================================
