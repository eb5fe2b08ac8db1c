-------------------------------- MODULE SxeLog --------------------------------
(***************************************************************************)
(* The levels and the stacks of lib-sxe-log/sxe-log.c.  Every source file  *)
(* has a control with the level its lines are logged at, learned when it   *)
(* logs for the first time: the control is linked into a list that has no  *)
(* lock, and its level is looked for in the environment.  A change of the  *)
(* global level walks the list and makes every file forget what it has     *)
(* learned.  Every thread has a stack of the functions it has entered,     *)
(* from which the indent of a line comes.  A read or write of memory that  *)
(* threads share is a step.  Entries and returns are those of the macros   *)
(* SXEE6, SXEE7, SXER6 and SXER7; text is in SxeLogLine.                   *)
(***************************************************************************)
EXTENDS Integers, SequencesExt, FiniteSetsExt

CONSTANTS
    Thread, Control, NULL,
    Maximum,        \* SXE_LOG_LEVEL_MAXIMUM, and the default level
    Names,          \* Names[c]: the variables for c's file, package and component
    Environments,   \* what the environment may be: a level for every variable; 0 is not set
    Uses,           \* which thread logs in which file at which level
    Setters,        \* the threads that change the level
    Races,          \* may a call begin while another one is at work on the same controls?
    MaxCalls, MaxDepth

OverMaximum == Maximum + 1  \* SXE_LOG_LEVEL_OVER_MAXIMUM: not known
Global      == "SXE_LOG_LEVEL"
Level       == 1 .. Maximum

VARIABLES
    env,
    level, list, era,   \* sxe_log_level, sxe_log_control_list, sxe_log_setting_era
    next, known,        \* the members next and level of every control
    pc, job,            \* where each thread is, and what it was called for
    got,                \* control_head, level, the era read or the control that is walked to
    stack, stackEra,    \* the frames of each thread's stack, and the era of their indents
    crooked,            \* was a line written with an indent that it should not have?
    lowered,            \* since the last sxe_log_set_level, was the level decreased?
    calls

logVars == <<env, level, list, era, next, known, pc, job, got, stack, stackEra, crooked, lowered, calls>>

LogInit ==
    /\ env \in Environments
    /\ level = OverMaximum /\ list = NULL /\ era = 0
    /\ next = [c \in Control |-> NULL] /\ known = [c \in Control |-> OverMaximum]
    /\ pc = [t \in Thread |-> "idle"] /\ job = [t \in Thread |-> NULL] /\ got = [t \in Thread |-> NULL]
    /\ stack = [t \in Thread |-> <<>>] /\ stackEra = [t \in Thread |-> 0]
    /\ crooked = FALSE /\ lowered = FALSE /\ calls = 0

Goto(t, p) == pc' = [pc EXCEPT ![t] = p]
Get(t, x)  == got' = [got EXCEPT ![t] = x]

(* A call goes on, or is over. *)
GoOn(t, p) ==
    /\ Goto(t, p)
    /\ job' = [job EXCEPT ![t] = IF p = "idle" THEN NULL ELSE @]
    /\ got' = [got EXCEPT ![t] = IF p = "idle" THEN NULL ELSE @]
-----------------------------------------------------------------------------
(* sxe_log_level_getenv: a level that is out of range is not there. *)
sxe_log_level_getenv(name) == env[name] \in Level

(* The variables for a file, most specific first: the first one that is set. *)
Specific(c) == {i \in DOMAIN Names[c] : sxe_log_level_getenv(Names[c][i])}

(* What sxe_log_control_learn_level comes to if it is not disturbed. *)
Current(c) ==
    IF Specific(c) # {} THEN env[Names[c][Min(Specific(c))]]
    ELSE IF level \in Level THEN level
    ELSE IF sxe_log_level_getenv(Global) THEN env[Global]
    ELSE Maximum
-----------------------------------------------------------------------------
(* sxe_log_frame_push and sxe_log_frame_pop: the caller's indent, and one more for a
   frame that shows. *)
Indent(s) == IF s = <<>> THEN 0 ELSE Last(s).indent
sxe_log_frame_push(t, visible) ==
    stack' = [stack EXCEPT ![t] = Append(@, [ctl |-> job[t].ctl, level |-> job[t].level,
                                             indent |-> Indent(@) + (IF visible THEN 1 ELSE 0)])]
sxe_log_frame_pop(t) == stack' = [stack EXCEPT ![t] = Front(@)]

(* How many frames of s show at level l. *)
Shown(s, l) == Cardinality({i \in DOMAIN s : s[i].level <= l})

(* sxe_log_get_indent: after a change of the level, the frames are counted anew, all
   with the level l of the file that logs.  (The loop is one step.) *)
sxe_log_get_indent(t, l) ==
    IF stackEra[t] >= era THEN stack[t]
    ELSE [i \in DOMAIN stack[t] |-> [stack[t][i] EXCEPT !.indent = Shown(SubSeq(stack[t], 1, i), l)]]
-----------------------------------------------------------------------------
(* Does a call disturb another?  A change of the level is disturbed by every other
   call, the first use of a control by another use of it. *)
Others(t)         == {u \in Thread \ {t} : pc[u] # "idle"}
Alone(t)          == Races \/ Others(t) = {}
Undisturbed(t, c) ==
    Races \/ \A u \in Others(t) : job[u].ctl # NULL /\ (next[c] = NULL => job[u].ctl # c)

Called(t, j, p) ==
    /\ pc[t] = "idle" /\ calls < MaxCalls
    /\ job' = [job EXCEPT ![t] = j] /\ Goto(t, p) /\ calls' = calls + 1

(* The macro's test, and the call of sxe_log. *)
Log(t, c, l) ==
    /\ l <= known[c] /\ Undisturbed(t, c)
    /\ Called(t, [kind |-> "log", ctl |-> c, level |-> l], "link")
    /\ UNCHANGED <<env, level, list, era, next, known, got, stack, stackEra, crooked, lowered>>

(* SXEE6 and SXEE7: sxe_log_entry, or just a frame. *)
Enter(t, c, l) ==
    /\ Len(stack[t]) < MaxDepth /\ Undisturbed(t, c)
    /\ Called(t, [kind |-> "entry", ctl |-> c, level |-> l], IF l <= known[c] THEN "link" ELSE "hide")
    /\ UNCHANGED <<env, level, list, era, next, known, got, stack, stackEra, crooked, lowered>>

(* SXER6 and SXER7: a line, then sxe_log_return; or just the frame's end. *)
Return(t) ==
    /\ stack[t] # <<>> /\ Undisturbed(t, Last(stack[t]).ctl)
    /\ LET f == Last(stack[t]) IN
       Called(t, [kind |-> "return line", ctl |-> f.ctl, level |-> f.level],
              IF f.level <= known[f.ctl] THEN "link" ELSE "leave")
    /\ UNCHANGED <<env, level, list, era, next, known, got, stack, stackEra, crooked, lowered>>

(* An entry that does not show, and a return from one. *)
Hide(t) ==
    /\ pc[t] = "hide"
    /\ sxe_log_frame_push(t, FALSE) /\ GoOn(t, "idle")
    /\ UNCHANGED <<env, level, list, era, next, known, stackEra, crooked, lowered, calls>>

Leave(t) ==
    /\ pc[t] = "leave"
    /\ sxe_log_frame_pop(t) /\ GoOn(t, "idle")
    /\ UNCHANGED <<env, level, list, era, next, known, stackEra, crooked, lowered, calls>>
-----------------------------------------------------------------------------
(* sxe_log_control_learn_level.  A control that is not on the list is put at its head
   by compare and swap, and gets its next afterwards. *)
Link(t) ==
    /\ pc[t] = "link"
    /\ IF next[job[t].ctl] = NULL THEN Get(t, list) /\ Goto(t, "swap") ELSE Goto(t, "learn") /\ UNCHANGED got
    /\ UNCHANGED <<env, level, list, era, next, known, job, stack, stackEra, crooked, lowered, calls>>

(* Mutant of Swap: the head is overwritten, whatever it has become. *)
SwapBlindly(t) ==
    /\ pc[t] = "swap"
    /\ list' = job[t].ctl /\ Goto(t, "join") /\ UNCHANGED got
    /\ UNCHANGED <<env, level, era, next, known, job, stack, stackEra, crooked, lowered, calls>>

Swap(t) ==
    /\ pc[t] = "swap"
    /\ IF list = got[t] THEN list' = job[t].ctl /\ Goto(t, "join") /\ UNCHANGED got
                        ELSE Get(t, list) /\ UNCHANGED <<list, pc>>
    /\ UNCHANGED <<env, level, era, next, known, job, stack, stackEra, crooked, lowered, calls>>

(* The last of the list is its own next. *)
Join(t) ==
    /\ pc[t] = "join"
    /\ next' = [next EXCEPT ![job[t].ctl] = IF got[t] = NULL THEN job[t].ctl ELSE got[t]]
    /\ Goto(t, "learn")
    /\ UNCHANGED <<env, level, list, era, known, job, got, stack, stackEra, crooked, lowered, calls>>

(* Has the level been learned already? *)
Learn(t) ==
    /\ pc[t] = "learn"
    /\ LET c == job[t].ctl IN
       IF known[c] <= Maximum THEN Get(t, known[c]) /\ Goto(t, "decide") ELSE Goto(t, "look") /\ UNCHANGED got
    /\ UNCHANGED <<env, level, list, era, next, known, job, stack, stackEra, crooked, lowered, calls>>

(* One of the environment's for the file, the package or the component; the global
   level; that of the environment, which becomes the global one; the default. *)
Look(t) ==
    /\ pc[t] = "look"
    /\ LET c == job[t].ctl IN
       /\ Get(t, Current(c))
       /\ Goto(t, IF Specific(c) = {} /\ level > Maximum /\ sxe_log_level_getenv(Global) THEN "adopt" ELSE "keep")
    /\ UNCHANGED <<env, level, list, era, next, known, job, stack, stackEra, crooked, lowered, calls>>

Adopt(t) ==
    /\ pc[t] = "adopt"
    /\ level' = got[t] /\ Goto(t, "keep")
    /\ UNCHANGED <<env, list, era, next, known, job, got, stack, stackEra, crooked, lowered, calls>>

Keep(t) ==
    /\ pc[t] = "keep"
    /\ known' = [known EXCEPT ![job[t].ctl] = got[t]] /\ Goto(t, "decide")
    /\ UNCHANGED <<env, level, list, era, next, job, got, stack, stackEra, crooked, lowered, calls>>

(* The level of the line against what was learned: nothing more, or the line. *)
Decide(t) ==
    /\ pc[t] = "decide"
    /\ LET visible == job[t].level <= got[t] IN
       /\ IF job[t].kind = "entry" THEN sxe_log_frame_push(t, visible) ELSE UNCHANGED stack
       /\ GoOn(t, IF visible THEN "write" ELSE IF job[t].kind = "return line" THEN "return" ELSE "idle")
    /\ UNCHANGED <<env, level, list, era, next, known, stackEra, crooked, lowered, calls>>

(* The line, unless the stack is of a later era than the level, which is an assertion
   that fails.  Its column: an entry's plus is at its caller's indent, a return's brace at
   that of the function it ends. *)
Column(s, kind) == Indent(s) + (CASE kind = "entry" -> -1 [] kind = "return" -> 1 [] OTHER -> 0)

(* What it should be: one for every function around the line that shows at level l. *)
Wanted(s, kind, l) ==
    CASE kind = "entry" -> Shown(Front(s), l) [] kind = "return" -> Shown(s, l) + 1 [] OTHER -> Shown(s, l)

Write(t) ==
    /\ pc[t] = "write"
    /\ LET s == sxe_log_get_indent(t, got[t]) IN
       IF stackEra[t] > era THEN GoOn(t, "era exceeded") /\ UNCHANGED <<stack, stackEra, crooked>>
       ELSE /\ stack' = [stack EXCEPT ![t] = s] /\ stackEra' = [stackEra EXCEPT ![t] = era]
            /\ crooked' = (crooked \/ (~ lowered /\ Column(s, job[t].kind) # Wanted(s, job[t].kind, got[t])))
            /\ GoOn(t, IF job[t].kind = "return line" THEN "return" ELSE "idle")
    /\ UNCHANGED <<env, level, list, era, next, known, lowered, calls>>

(* sxe_log_return: the frame is popped before the level is looked at. *)
Returning(t) ==
    /\ pc[t] = "return"
    /\ sxe_log_frame_pop(t)
    /\ job' = [job EXCEPT ![t].kind = "return"] /\ Goto(t, "link")
    /\ UNCHANGED <<env, level, list, era, next, known, got, stackEra, crooked, lowered, calls>>
-----------------------------------------------------------------------------
(* sxe_log_set_level: the level, the era (not atomically), and what is forgotten. *)
SetLevel(t, l) ==
    /\ Alone(t)
    /\ Called(t, [kind |-> "set", ctl |-> NULL, level |-> l], "era")
    /\ level' = l /\ lowered' = FALSE
    /\ UNCHANGED <<env, list, era, next, known, got, stack, stackEra, crooked>>

ReadEra(t) ==
    /\ pc[t] = "era"
    /\ Get(t, era) /\ Goto(t, "next era")
    /\ UNCHANGED <<env, level, list, era, next, known, job, stack, stackEra, crooked, lowered, calls>>

NextEra(t) ==
    /\ pc[t] = "next era"
    /\ era' = got[t] + 1 /\ Goto(t, "forget")
    /\ UNCHANGED <<env, level, list, next, known, job, got, stack, stackEra, crooked, lowered, calls>>

(* sxe_log_decrease_level: only downwards, and in the same era. *)
DecreaseLevel(t, l) ==
    /\ l <= Maximum /\ l < level /\ Alone(t)
    /\ Called(t, [kind |-> "decrease", ctl |-> NULL, level |-> l], "forget")
    /\ level' = l /\ lowered' = TRUE
    /\ UNCHANGED <<env, list, era, next, known, got, stack, stackEra, crooked>>

(* sxe_log_control_forget_all_levels: from the head to the control that is its own
   next; one that has none is an assertion that fails. *)
Forget(t) ==
    /\ pc[t] = "forget"
    /\ IF list = NULL THEN GoOn(t, "idle") ELSE Goto(t, "forget one") /\ Get(t, list) /\ UNCHANGED job
    /\ UNCHANGED <<env, level, list, era, next, known, stack, stackEra, crooked, lowered, calls>>

ForgetOne(t) ==
    /\ pc[t] = "forget one"
    /\ LET c == got[t] IN
       IF next[c] = NULL THEN GoOn(t, "not initialized") /\ UNCHANGED known
       ELSE /\ known' = [known EXCEPT ![c] = OverMaximum]
            /\ IF next[c] = c THEN GoOn(t, "idle") ELSE Get(t, next[c]) /\ UNCHANGED <<pc, job>>
    /\ UNCHANGED <<env, level, list, era, next, stack, stackEra, crooked, lowered, calls>>
-----------------------------------------------------------------------------
LogStep(t) ==
    \/ Hide(t) \/ Leave(t) \/ Link(t) \/ Swap(t) \/ Join(t) \/ Learn(t) \/ Look(t) \/ Adopt(t) \/ Keep(t)
    \/ Decide(t) \/ Write(t) \/ Returning(t) \/ ReadEra(t) \/ NextEra(t) \/ Forget(t) \/ ForgetOne(t)

(* An assertion that fails is the end of the program. *)
Aborted == {"not initialized", "era exceeded"}

LogNext ==
    /\ \A t \in Thread : pc[t] \notin Aborted
    /\ \E t \in Thread :
        \/ LogStep(t)
        \/ \E c \in Control, l \in Level : <<t, c, l>> \in Uses /\ (Log(t, c, l) \/ Enter(t, c, l))
        \/ Return(t)
        \/ t \in Setters /\ \E l \in 1 .. OverMaximum : SetLevel(t, l) \/ DecreaseLevel(t, l)
-----------------------------------------------------------------------------
(* "Can't happen": sxe_log_control_forget_all_levels finds every control on the list
   fully initialized. *)
FullyInitialized == \A t \in Thread : pc[t] # "not initialized"

(* The controls a walk from c passes. *)
OnList ==
    LET reach[n \in Nat] ==
            IF n = 0 THEN {list} \ {NULL} ELSE reach[n - 1] \union ({next[c] : c \in reach[n - 1]} \ {NULL})
    IN  reach[Cardinality(Control)]

(* Threads log for the first time and lines follow, levels are set and decreased: every
   file that has learned a level has the one that is in force, unless a change of it is
   on its way; whatever is linked can be reached by the next change; and a line is
   indented by the functions around it that show at its level, but for what a decrease
   of the level leaves behind and where files have levels of their own. *)
LevelsSound ==
    /\ \A t \in Thread : pc[t] \notin Aborted
    /\ (\A t \in Thread : pc[t] \notin {"era", "next era", "forget", "forget one"}) =>
            \A c \in Control : known[c] <= Maximum => known[c] = Current(c)
    /\ \A c \in Control : next[c] # NULL /\ (\A t \in Thread : pc[t] # "join") => c \in OnList
    /\ (\A c \in Control : Specific(c) = {}) => ~ crooked
=============================================================================
