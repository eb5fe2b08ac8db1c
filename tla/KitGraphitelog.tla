---------------------------- MODULE KitGraphitelog ----------------------------
(***************************************************************************)
(* The thread of lib-kit/kit-graphitelog.c that writes all counters to the *)
(* log, as objects of at most json_limit counters, while another thread    *)
(* changes the options, one after the other.  A counter is its place in    *)
(* the order kit_counters_mib_text passes them; lengths are in units.      *)
(***************************************************************************)
EXTENDS Integers, SequencesExt

CONSTANTS
    Width,          \* Width[c]: the length of counter c's name and value in the object
    Size,           \* sizeof(buffer->buf)
    Limits,         \* what json_limit is set to
    MaxUpdates      \* bound on the changes of the options

Header  == 1        \* the length of the object's timestamp
Closing == 1        \* and of its end

VARIABLES
    json_limit, interval, option,   \* the options; which of them is set next
    timetodie,
    graphitelog_fd,     \* where the thread writes; negative if it shall not
    pc, buffer, next,   \* the thread: where it is, its buffer, the next counter
    log,                \* the objects written in this round
    changed, overflow,  \* in this round: were the options changed, was the buffer too small?
    updates

logVars == <<json_limit, interval, option, timetodie, graphitelog_fd, pc, buffer, next, log, changed, overflow, updates>>
options == <<json_limit, interval, option, timetodie, graphitelog_fd, updates>>

LogInit ==
    /\ json_limit = 0 /\ interval = 0 /\ option = "json_limit" /\ timetodie = FALSE
    /\ graphitelog_fd = -1 /\ pc = "off" /\ next = 1 /\ log = <<>> /\ changed = FALSE /\ overflow = FALSE /\ updates = 0
    /\ buffer = [pos |-> 0, counter |-> 0, json_complete |-> TRUE, items |-> <<>>]
-----------------------------------------------------------------------------
(* kit_graphitelog_update_set_options: json_limit, then the rest. *)
SetLimit(limit) ==
    /\ option = "json_limit" /\ updates < MaxUpdates
    /\ json_limit' = limit /\ option' = "interval" /\ updates' = updates + 1 /\ changed' = TRUE
    /\ UNCHANGED <<interval, timetodie, graphitelog_fd, pc, buffer, next, log, overflow>>

SetInterval ==
    /\ option = "interval"
    /\ interval' = 1 /\ option' = "json_limit"
    /\ UNCHANGED <<json_limit, timetodie, graphitelog_fd, pc, buffer, next, log, changed, overflow, updates>>

kit_graphitelog_terminate ==
    /\ timetodie' = TRUE
    /\ UNCHANGED <<json_limit, interval, option, graphitelog_fd, pc, buffer, next, log, changed, overflow, updates>>
-----------------------------------------------------------------------------
(* kit_safe_write sends all of it, or less if it fails or times out. *)
kit_graphitelog_complete(b) ==
    LET pos == IF b.pos < Size THEN b.pos + Closing ELSE b.pos IN
    IF b.json_complete THEN buffer' = b /\ UNCHANGED <<log, overflow>>
    ELSE /\ buffer' = [b EXCEPT !.pos = pos, !.json_complete = TRUE]
         /\ overflow' = (overflow \/ pos >= Size)
         /\ \E n \in {0, pos} : log' = Append(log, [items |-> b.items, pos |-> pos, sent |-> n])

(* kit_graphitelog_counter_callback up to where it reads the limit again.  A
   remainder by zero would end the process. *)
CallbackAdd ==
    /\ pc = "counters" /\ next <= Len(Width) /\ json_limit # 0
    /\ LET b == IF buffer.counter % json_limit = 0
                THEN [buffer EXCEPT !.pos = Header, !.json_complete = FALSE, !.items = <<>>] ELSE buffer
       IN  buffer' = IF b.pos < Size
                     THEN [b EXCEPT !.pos = @ + Width[next], !.counter = @ + 1, !.items = Append(@, next)]
                     ELSE b
    /\ pc' = "added"
    /\ UNCHANGED <<options, next, log, changed, overflow>>

CallbackSend ==
    /\ pc = "added" /\ json_limit # 0
    /\ IF buffer.counter % json_limit = 0 \/ buffer.pos >= Size
       THEN kit_graphitelog_complete(buffer) ELSE UNCHANGED <<buffer, log, overflow>>
    /\ next' = next + 1 /\ pc' = "counters"
    /\ UNCHANGED <<options, changed>>

-----------------------------------------------------------------------------
(* kit_graphitelog_start_routine: the thread starts, with a file or without; every
   round begins with the check that there is a configuration. *)
Start ==
    /\ pc = "off" /\ pc' = "top"
    /\ graphitelog_fd' \in {-1, 1}
    /\ UNCHANGED <<json_limit, interval, option, timetodie, updates, buffer, next, log, changed, overflow>>

Round ==
    /\ pc = "top"
    /\ IF interval = 0 \/ graphitelog_fd < 0
       THEN pc' = (IF interval = 0 THEN "aborted" ELSE "sleep") /\ UNCHANGED <<buffer, next, log, changed, overflow>>
       ELSE /\ pc' = "counters" /\ next' = 1 /\ log' = <<>> /\ changed' = FALSE /\ overflow' = FALSE
            /\ buffer' = [buffer EXCEPT !.counter = 0]
    /\ UNCHANGED options

RoundEnd ==
    /\ pc = "counters" /\ next > Len(Width)
    /\ kit_graphitelog_complete(buffer)
    /\ pc' = "sleep"
    /\ UNCHANGED <<options, next, changed>>

(* It naps until less than a second is left, and sleeps that; it looks whether it
   is time to die before, not after. *)
Sleep ==
    /\ \/ pc = "sleep" /\ ~ timetodie /\ pc' = "last"
       \/ pc = "sleep" /\ timetodie /\ pc' = "done"
       \/ pc = "last" /\ pc' = "top"
    /\ UNCHANGED <<options, buffer, next, log, changed, overflow>>

Run == Start \/ Round \/ CallbackAdd \/ CallbackSend \/ RoundEnd \/ Sleep

LogNext ==
    \/ \E l \in Limits : SetLimit(l)
    \/ SetInterval \/ kit_graphitelog_terminate
    \/ Run

LogSpec == LogInit /\ [][LogNext]_logVars /\ WF_logVars(Run)
-----------------------------------------------------------------------------
Logged == FlattenSeq([i \in DOMAIN log |-> log[i].items])

(* A round writes every counter once and in order, in objects of no more than the
   limit, if the buffer is large enough and nobody changes the limit meanwhile; if
   somebody does, counters may be left out of the round but none is written twice.
   Nothing is written from behind the buffer unless it was too small.  The limit
   has been set when it is divided by.  Without a file nothing is written. *)
LogComplete ==
    /\ pc \in {"counters", "added"} => json_limit # 0
    /\ \A i, j \in DOMAIN Logged : i < j => Logged[i] < Logged[j]
    /\ ~ overflow => \A i \in DOMAIN log : log[i].pos <= Size
    /\ graphitelog_fd < 0 => log = <<>>
    /\ pc = "sleep" /\ graphitelog_fd >= 0 /\ ~ changed /\ ~ overflow =>
          /\ Logged = [c \in 1 .. Len(Width) |-> c]
          /\ \A i \in DOMAIN log : Len(log[i].items) \in 1 .. json_limit

(* It is time to die, and the thread runs on.  It ends. *)
Dying == timetodie /\ pc \notin {"done", "aborted"}
=============================================================================
