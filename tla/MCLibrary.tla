------------------------------ MODULE MCLibrary ------------------------------
(***************************************************************************)
(* The library's lists, times, texts and tensors, for TLC.  A behaviour is *)
(* about one of: the rings of lib-sxe-list, the queues of kit-queue.h, the *)
(* zones of lib-tzcode (below), a text or a row of answers that grows by   *)
(* one piece a step and is read or written at every length, or tensors.    *)
(***************************************************************************)
EXTENDS SxeList, TzFiles, TLC

(***************************************************************************)
(* Zones, with days of 24 hours, of 10 minutes, of 5 seconds.              *)
(***************************************************************************)
MCTimeMin == -1000000000
MCIntMin  == -2000

MCZone == {"east", "south", "file", "leap", "always", "norules", "bad", "early"}
MCLong == {"always"}

M(mon, week, day) == <<Punct("M"), Num(mon), Punct("."), Num(week), Punct("."), Num(day)>>
Comma == <<Punct(",")>>
Hours(h) == <<Punct("/"), Num(h)>>

EastString  == <<Name("EST"), Num(5), Name("EDT")>> \o Comma \o M(3, 2, 0) \o Comma \o M(11, 1, 0)
SouthString == <<Name("NZST"), Punct("-"), Num(12), Name("NZDT")>> \o Comma \o M(9, 5, 0) \o Comma \o M(4, 1, 0) \o Hours(3)
CetString   == <<Name("CET"), Punct("-"), Num(1), Name("CEST")>> \o Comma \o M(3, 5, 0) \o Comma \o M(10, 5, 0) \o Hours(3)
AlwaysString == <<Punct("<"), Name("-03"), Punct(">"), Num(3), Punct("<"), Name("-02"), Punct(">"), Num(2)>>
                \o <<Punct(","), Num(0), Punct("/"), Num(0), Punct(","), Punct("J"), Num(365), Punct("/"), Num(25)>>

NoFile == [blocks |-> <<>>, footer |-> <<>>]
T(utoff, dst, abbr) == init_ttinfo(utoff * SECSPERHOUR, dst, abbr)
Block(ats, types, ttis, chars, leaps) ==
    [ats |-> ats, types |-> types, ttis |-> ttis, chars |-> chars, leaps |-> leaps, cut |-> FALSE]
Empty4 == Block(<<>>, <<>>, <<>>, <<>>, <<>>)
Year(y) == Days(y, 0, 1) * SECSPERDAY

(* A file as zic writes it: the first change by the rules of the footer is its last. *)
Spring == RuleDay(1947, getrule(M(3, 5, 0), 1).v) * SECSPERDAY + SECSPERHOUR
CetFile ==
    LET ttis == <<T(0, FALSE, "LMT"), T(1, TRUE, "WEST"), T(1, FALSE, "CET"), T(2, TRUE, "CEST")>>
    IN  [footer |-> CetString,
         blocks |-> <<Empty4, Block(<<TIME_T_MIN - 5, Year(1891), Year(1940), Year(1945), Year(1946), Spring, Spring + 100 * SECSPERDAY, TIME_T_MAX + 5>>,
                                    <<1, 1, 2, 4, 3, 4, 4, 2>>, ttis, <<"LMT", "WEST", "CET", "CEST">>, <<>>)>>]

LeapFile == [footer |-> <<>>,
             blocks |-> <<Block(<<Year(1980) + 500>>, <<2>>, <<T(0, FALSE, "GMT"), T(1, TRUE, "BST")>>, <<"GMT", "BST">>,
                                <<[trans |-> Year(1972), corr |-> 1], [trans |-> Year(1973) + 1, corr |-> 2],
                                  [trans |-> Year(1990) + 2, corr |-> 1]>>)>>]

BadFile == [footer |-> CetString,
            blocks |-> <<Empty4, Block(<<Year(1980), Year(1975)>>, <<1, 1>>, <<T(0, FALSE, "GMT")>>, <<"GMT">>, <<>>)>>]

EarlyFile == [footer |-> <<>>,
              blocks |-> <<Block(<<Year(1950), Year(1951), Year(2350)>>, <<2, 1, 2>>, <<T(3, TRUE, "XDT"), T(2, FALSE, "XST"), T(9, FALSE, "YST")>>,
                                 <<"XDT", "XST", "YST">>, <<>>)>>]

Named(file, string) == [file |-> file, string |-> string, colon |-> FALSE]
MCContent ==
    "east" :> Named(NoFile, EastString) @@ "south" :> Named(NoFile, SouthString) @@ "file" :> Named(CetFile, <<>>)
    @@ "leap" :> Named(LeapFile, <<>>) @@ "always" :> Named(NoFile, AlwaysString)
    @@ "norules" :> Named(NoFile, SubSeq(EastString, 1, 3)) @@ "bad" :> [file |-> BadFile, string |-> EastString, colon |-> TRUE]
    @@ "early" :> Named(EarlyFile, <<>>)

R(start, end, std, dst, from) ==
    [start |-> getrule(start, 1).v, end |-> getrule(end, 1).v, std |-> std * SECSPERHOUR, dst |-> dst * SECSPERHOUR, from |-> from]
MCRules ==
    LET us == R(M(3, 2, 0), M(11, 1, 0), 5, 4, TIME_T_MIN)
    IN  "east" :> us @@ "norules" :> us @@ "south" :> R(M(9, 5, 0), M(4, 1, 0) \o Hours(3), -12, -13, TIME_T_MIN)
        @@ "file" :> R(M(3, 5, 0), M(10, 5, 0) \o Hours(3), -1, -2, Spring)

(* Times next to changes: of years, of leap seconds, and of daylight saving time now,
   and before and after the tables of transitions; and the limits of time_t. *)
Change(z, y) ==
    {RuleDay(y, MCRules[z].start) * SECSPERDAY + MCRules[z].start.time + MCRules[z].std,
     RuleDay(y, MCRules[z].end) * SECSPERDAY + MCRules[z].end.time + MCRules[z].dst}
MCTimes ==
    {TIME_T_MIN, TIME_T_MIN + 1, -1, 0, TIME_T_MAX, TIME_T_MAX - 1}
    \union {t + d : d \in {-1, 0},
                    t \in UNION {Change(c[1], c[2]) : c \in {<<"east", 1600>>, <<"east", 2023>>, <<"south", 2024>>, <<"south", 2900>>,
                                                             <<"file", 2024>>, <<"file", 2371>>}}}
    \union {Year(y) + d : y \in {1891, 1945, 2000, 2100}, d \in {-1, 0}}
    \union {Year(1972) + d : d \in -1 .. 2} \union {Year(1973) + d : d \in 0 .. 3} \union {Year(1990) + d : d \in 0 .. 3}
-----------------------------------------------------------------------------

VARIABLES
    focus,              \* what the behaviour is about
    kind, mem, want,    \* the variables of KitQueue
    input               \* a sequence of pieces of text, or two shapes

Q == INSTANCE KitQueue WITH Queue <- List, Elem <- {"e1", "e2", "e3"}, Null <- NULL
B == INSTANCE KitFunctions
J == INSTANCE SxeJitsonSource WITH TOKEN_SIZE <- 4, STRING_SIZE <- 2
G == INSTANCE SxeLogLine

queueVars == <<kind, mem, want>>
listVars  == <<next, prev, id, length>>

(* What each kind of input is made of, and how many of it there may be.  Characters
   are - 0 1 . e + x and , in numbers; a, escapes, a surrogate and the quote in
   strings; a " newline blank , 0 in lines; blank - 0 1 9 x . f for strtol and the
   like; ( \ a, blank, carriage return and a byte above 127 in messages.  *)
Piece ==
    [numbers |-> {45, 48, 49, 46, 101, 43, 120, 44},
     strings |-> {<<97>>, <<34>>, <<92, 110>>, <<92, 117, 50, 48, 65, 99>>, <<92, 117, 48, 48, 69, 57>>, <<92>>},
     lines   |-> {97, 34, 10, 32, 44, 48},
     bytes   |-> {0, 1, 61, 80, 171, 255},
     strto   |-> {32, 45, 48, 49, 57, 120, 46, 102},
     answers |-> B!Answer,
     message |-> {40, 92, 97, 32, 13, 200},
     shapes  |-> (1 .. 2) \X (1 .. 3) \X (1 .. 3)]
Longest == [numbers |-> 4, strings |-> 5, lines |-> 5, bytes |-> 3, strto |-> 4, answers |-> 4, message |-> 5, shapes |-> 2]

Encodings == {B!base16cfg, B!BASE16CFG, B!base32cfg, B!base32hexcfg, B!base64cfg, B!base64urlcfg}

MCInit ==
    /\ Init /\ Q!QueueInit /\ TzInit
    /\ focus \in {"rings", "queues", "times"} \union DOMAIN Piece
    /\ focus # "queues" => kind = "SLIST"
    /\ focus # "rings" => \A o \in Object : id[o] = CHOOSE l \in List : TRUE
    /\ input = <<>>

MCNext ==
    \/ focus = "rings" /\ Next /\ UNCHANGED <<focus, queueVars, tzVars, input>>
    \/ focus = "queues" /\ Q!QueueNext /\ UNCHANGED <<focus, listVars, tzVars, input>>
    \/ focus = "times" /\ TzNext /\ UNCHANGED <<focus, listVars, queueVars, input>>
    \/ /\ focus \in DOMAIN Piece /\ Len(input) < Longest[focus]
       /\ \E p \in Piece[focus] : input' = Append(input, p)
       /\ UNCHANGED <<focus, listVars, queueVars, tzVars>>

MCSpec == MCInit /\ [][MCNext]_<<vars, focus, queueVars, tzVars, input>>

(* The queues of kit-queue.h hold the elements that were put on them, in their
   order, by every path of pointers (QueuesAsSequences of KitQueue). *)
QueuesAsSequences == focus = "queues" => Q!QueuesAsSequences

(* Times of lib-tzcode are those of the calendar and of the zone (TimesAsSpecified of
   TzFiles). *)
ZonesAsSpecified == focus = "times" => TimesAsSpecified

(* What is computed is what it should be: the numbers, strings and lines read by
   sxe-jitson-source.c, the encodings of kit-base-encode.c, the numbers of kit-strto.c,
   what kit-safe-rw.c makes of the answers of read and write, the lines of sxe-log.c,
   and the operations of kit-tensor.c on tensors of two shapes. *)
ResultsAsSpecified ==
    CASE focus = "numbers" -> J!NumberRight(input, {}) /\ J!NumberRight(input, {"ALLOW_HEX"})
      [] focus = "strings" -> J!StringRight(J!FlattenSeq(input))
      [] focus = "lines"   -> J!LinesRight(input)
      [] focus = "bytes"   -> \A c \in Encodings : B!EncodedRight(input, c) /\ B!DecodedRight(input, c)
      [] focus = "strto"   -> \A base \in {0, 8, 10, 16}, ask \in BOOLEAN : B!StrtoRight(input, base, ask)
      [] focus = "answers" -> \A errno \in {"", "EINTR", "EAGAIN"} : B!SafeRight(input, 3, errno)
      [] focus = "message" -> /\ \A n \in 0 .. 1 : G!LogLineRight(<<50, 32>>, n, input, 11)
                              /\ G!DumpRight(input, 2) /\ \A n \in 2 .. 8 : G!EncodeRight(input, n, 4)
      [] focus = "shapes"  -> Len(input) = 2 => B!TensorRight(input[1], input[2])
      [] OTHER -> TRUE
=============================================================================
