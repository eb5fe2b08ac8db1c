------------------------------ MODULE MCThreads ------------------------------
(***************************************************************************)
(* The loops of the library that must end, and its logs, for TLC.  A       *)
(* behaviour is about one of: the scan of pools for timeouts, the calls of *)
(* two threads on a locked pool, sxe_thread_memory_free while threads come *)
(* and go, the thread of kit-graphitelog, or the levels of sxe-log.        *)
(***************************************************************************)
EXTENDS SxePoolTimeouts, SxeThreadMemory

(* State 0 has a timeout, like that of the pool whose callback puts its element back
   in state 0 in test-sxe-pool.c, state 1 none, and state 2 a longer one. *)
MCTimeout == [s \in 0 .. 2 |-> <<1, 0, 2>>[s + 1]]

CONSTANTS
    t1, t2, NoThread, c1, c2,
    Focuses,    \* what behaviours are about
    Races       \* of SxeLog

(* The environment sets nothing, the global level, or one for a package next to one
   for its file that is out of range. *)
MCNames == [c \in {c1, c2} |-> IF c = c1 THEN <<"file1", "package1", "component">> ELSE <<"file2", "package2", "component">>]
MCEnvironments ==
    {[v \in {"file1", "package1", "file2", "package2", "component", "SXE_LOG_LEVEL"} |->
        IF v \in DOMAIN set THEN set[v] ELSE 0]
     : set \in {[file1 |-> 0], [SXE_LOG_LEVEL |-> 1], [file2 |-> 3, package2 |-> 1, component |-> 2]}}
MCUses == {<<t1, c1, 1>>, <<t1, c1, 2>>, <<t1, c2, 2>>, <<t2, c2, 2>>}

(* A counter that does not fit if two others are in the same object. *)
MCWidth == <<1, 1, 3, 1>>

VARIABLES
    focus,                                                              \* what the behaviour is about
    pqueue, stateOf, plast, nextCount,                                  \* the pool of the calls
    lock, ppc, call, spin, res, lost, force,                            \* of SxePool
    json_limit, interval, option, timetodie, graphitelog_fd, lpc, buffer, lnext, log, changed, overflow, updates, \* of KitGraphitelog
    env, level, list, era, cnext, known, gpc, job, got, stack, stackEra, crooked, lowered, calls \* of SxeLog

P == INSTANCE SxePool WITH Number <- 1, States <- 2, Thread <- {t1, t2}, SpinMax <- 2, MaxCount <- 2,
                           queue <- pqueue, last <- plast, pc <- ppc

L == INSTANCE KitGraphitelog WITH
        Width <- MCWidth, Size <- 7, Limits <- 1 .. 4, MaxUpdates <- 3, pc <- lpc, next <- lnext
G == INSTANCE SxeLog WITH
        Thread <- {t1, t2}, Control <- {c1, c2}, Maximum <- 2, Names <- MCNames, Environments <- MCEnvironments,
        Uses <- MCUses, Setters <- {t1}, MaxCalls <- 4, MaxDepth <- 2, next <- cnext, pc <- gpc

lockVars == <<lock, ppc, call, spin, res, lost, force>>
callVars == <<pqueue, stateOf, plast, nextCount, lockVars>>
logVars  == <<json_limit, interval, option, timetodie, graphitelog_fd, lpc, buffer, lnext, log, changed, overflow, updates>>
levelVars == <<env, level, list, era, cnext, known, gpc, job, got, stack, stackEra, crooked, lowered, calls>>

MCInit ==
    /\ Init /\ P!Init /\ MemoryInit /\ L!LogInit /\ G!LogInit
    /\ focus \in Focuses
    /\ focus # "levels" => env = [v \in DOMAIN env |-> 0]

MCNext ==
    \/ focus = "timeouts" /\ Next /\ UNCHANGED <<focus, callVars, memVars, logVars, levelVars>>
    \/ focus = "calls" /\ P!Next /\ UNCHANGED <<focus, vars, memVars, logVars, levelVars>>
    \/ focus = "memory" /\ MemoryNext /\ UNCHANGED <<focus, vars, callVars, logVars, levelVars>>
    \/ focus = "log" /\ L!LogNext /\ UNCHANGED <<focus, vars, callVars, memVars, levelVars>>
    \/ focus = "levels" /\ G!LogNext /\ UNCHANGED <<focus, vars, callVars, memVars, logVars>>

(* The fairness of the scan, of the threads' calls, of sxe_thread_memory_free and of
   the thread that logs: that of each component's own specification. *)
MCSpec ==
    /\ MCInit /\ [][MCNext]_<<focus, vars, callVars, memVars, logVars, levelVars>>
    /\ WF_vars(Scanning)
    /\ \A t \in {t1, t2} : WF_callVars(P!Step(t))
    /\ WF_memVars(MainStep)
    /\ WF_logVars(focus = "log" /\ L!Run)

(* What is logged is what should be: a round of kit-graphitelog.c writes every counter,
   and files log at the level in force, with the right indent (LevelsSound of SxeLog). *)
LogsSound == L!LogComplete /\ G!LevelsSound

(* "Can't happen": a change of the level meets a control that is not fully initialized. *)
FullyInitialized == G!FullyInitialized

(* What is at work in the behaviour's component; of the two threads with calls, which
   are alike, it is enough to watch one. *)
Busy == InOrderlyScan \/ P!InCall(t1) \/ Freeing \/ L!Dying

(* Every loop ends.  sxe_pool_check_timeouts returns although its callbacks change the
   queues and the list of pools it walks, unless it calls one for an element stamped
   after it began (then callbacks that put such elements back keep it for ever); every
   call on a locked pool returns although the lock's owner may be dead;
   sxe_thread_memory_free returns although threads push trackers all the time; the
   thread of kit-graphitelog.c ends when it is told to. *)
LoopsEnd == Busy ~> ~ Busy
=============================================================================
