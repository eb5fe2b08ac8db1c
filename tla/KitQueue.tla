------------------------------ MODULE KitQueue -------------------------------
(***************************************************************************)
(* The queue macros of lib-kit/kit-queue.h, pointer by pointer: singly     *)
(* linked lists (SLIST), singly linked tail queues (STAILQ), lists (LIST)  *)
(* and tail queues (TAILQ).  All keep pointers to pointers: the address    *)
(* of the next field of an element, or of the first field of a head, is    *)
(* written as that element or head, so that next[h] is the first of h.     *)
(* Beside the pointers, want is what the operations promise: a sequence    *)
(* of elements for every head.                                             *)
(***************************************************************************)
EXTENDS Integers, Sequences, SequencesExt

CONSTANTS Queue, Elem, Null

VARIABLES
    kind,   \* which of the four kinds of queue the heads are
    mem,    \* the fields next (and first), prev and last
    want    \* want[h]: the elements of h, first to last

queueVars == <<kind, mem, want>>

Kinds == {"SLIST", "STAILQ", "LIST", "TAILQ"}
HasLast(k) == k \in {"STAILQ", "TAILQ"}
HasPrev(k) == k \in {"LIST", "TAILQ"}

(***************************************************************************)
(* SLIST                                                                   *)
(***************************************************************************)
SLIST_INIT(m, h)           == [m EXCEPT !.next[h] = Null]
SLIST_INSERT_AFTER(m, x, e) == [m EXCEPT !.next[e] = m.next[x], !.next[x] = e]
SLIST_INSERT_HEAD(m, h, e) == [m EXCEPT !.next[e] = m.next[h], !.next[h] = e]
SLIST_REMOVE_AFTER(m, x)   == [m EXCEPT !.next[x] = m.next[m.next[x]]]
SLIST_REMOVE_HEAD(m, h)    == [m EXCEPT !.next[h] = m.next[m.next[h]]]
SLIST_REMOVE_PREVPTR(m, prevp, e) == [m EXCEPT !.next[prevp] = m.next[e]]

(* The loops that look for the element before e, or for the last one *)
Before(m, h, e) ==
    LET walk[x \in Elem] == IF m.next[x] = e THEN x ELSE walk[m.next[x]]
    IN  walk[m.next[h]]

SLIST_REMOVE(m, h, e) ==
    IF m.next[h] = e THEN SLIST_REMOVE_HEAD(m, h) ELSE SLIST_REMOVE_AFTER(m, Before(m, h, e))

SLIST_CONCAT(m, h1, h2) ==
    IF m.next[h2] = Null THEN m
    ELSE LET x == IF m.next[h1] = Null THEN h1 ELSE Before(m, h1, Null)
         IN  SLIST_INIT([m EXCEPT !.next[x] = m.next[h2]], h2)

SLIST_SWAP(m, h1, h2) == [m EXCEPT !.next[h1] = m.next[h2], !.next[h2] = m.next[h1]]

(***************************************************************************)
(* STAILQ                                                                  *)
(***************************************************************************)
STAILQ_INIT(m, h) == [m EXCEPT !.next[h] = Null, !.last[h] = h]

STAILQ_CONCAT(m, h1, h2) ==
    IF m.next[h2] = Null THEN m
    ELSE STAILQ_INIT([m EXCEPT !.next[m.last[h1]] = m.next[h2], !.last[h1] = m.last[h2]], h2)

STAILQ_INSERT_AFTER(m, h, x, e) ==
    [SLIST_INSERT_AFTER(m, x, e) EXCEPT !.last[h] = IF m.next[x] = Null THEN e ELSE @]

STAILQ_INSERT_HEAD(m, h, e) ==
    [SLIST_INSERT_HEAD(m, h, e) EXCEPT !.last[h] = IF m.next[h] = Null THEN e ELSE @]

STAILQ_INSERT_TAIL(m, h, e) ==
    [m EXCEPT !.next = [[@ EXCEPT ![e] = Null] EXCEPT ![m.last[h]] = e], !.last[h] = e]

STAILQ_LAST(m, h) == IF m.next[h] = Null THEN Null ELSE m.last[h]

(* Mutant of STAILQ_REMOVE_AFTER: the last element may still be the one removed. *)
STAILQ_REMOVE_AFTER_STALE(m, h, x) == SLIST_REMOVE_AFTER(m, x)

STAILQ_REMOVE_AFTER(m, h, x) ==
    LET r == SLIST_REMOVE_AFTER(m, x) IN [r EXCEPT !.last[h] = IF r.next[x] = Null THEN x ELSE @]

STAILQ_REMOVE_HEAD(m, h) ==
    LET r == SLIST_REMOVE_HEAD(m, h) IN [r EXCEPT !.last[h] = IF r.next[h] = Null THEN h ELSE @]

STAILQ_REMOVE(m, h, e) ==
    IF m.next[h] = e THEN STAILQ_REMOVE_HEAD(m, h) ELSE STAILQ_REMOVE_AFTER(m, h, Before(m, h, e))

STAILQ_SWAP(m, h1, h2) ==
    LET s == SLIST_SWAP(m, h1, h2)
    IN  [s EXCEPT !.last[h1] = IF s.next[h1] = Null THEN h1 ELSE m.last[h2],
                  !.last[h2] = IF s.next[h2] = Null THEN h2 ELSE m.last[h1]]

(***************************************************************************)
(* LIST                                                                    *)
(***************************************************************************)

(* An element that may not be there is made to point back. *)
PointBack(m, e, x) == IF e = Null THEN m ELSE [m EXCEPT !.prev[e] = x]

LIST_CONCAT(m, h1, h2) ==
    IF m.next[h2] = Null THEN m
    ELSE LET x == IF m.next[h1] = Null THEN h1 ELSE Before(m, h1, Null)
         IN  [m EXCEPT !.next[x] = m.next[h2], !.prev[m.next[h2]] = x, !.next[h2] = Null]

LIST_INSERT_AFTER(m, x, e) ==
    PointBack(PointBack(SLIST_INSERT_AFTER(m, x, e), m.next[x], e), e, x)

LIST_INSERT_BEFORE(m, x, e) ==
    [m EXCEPT !.next = [[@ EXCEPT ![e] = x] EXCEPT ![m.prev[x]] = e],
              !.prev = [[@ EXCEPT ![e] = m.prev[x]] EXCEPT ![x] = e]]

LIST_INSERT_HEAD(m, h, e) ==
    PointBack(PointBack(SLIST_INSERT_HEAD(m, h, e), m.next[h], e), e, h)

LIST_PREV(m, e, h) == IF m.prev[e] = h THEN Null ELSE m.prev[e]

LIST_REMOVE(m, e) ==
    [PointBack(m, m.next[e], m.prev[e]) EXCEPT !.next[m.prev[e]] = m.next[e]]

LIST_SWAP(m, h1, h2) ==
    LET s == SLIST_SWAP(m, h1, h2) IN PointBack(PointBack(s, s.next[h1], h1), s.next[h2], h2)

(***************************************************************************)
(* TAILQ                                                                   *)
(***************************************************************************)
TAILQ_INIT(m, h) == STAILQ_INIT(m, h)

TAILQ_CONCAT(m, h1, h2) ==
    IF m.next[h2] = Null THEN m
    ELSE STAILQ_CONCAT([m EXCEPT !.prev[m.next[h2]] = m.last[h1]], h1, h2)

TAILQ_INSERT_AFTER(m, h, x, e) ==
    [LIST_INSERT_AFTER(m, x, e) EXCEPT !.last[h] = IF m.next[x] = Null THEN e ELSE @]

TAILQ_INSERT_BEFORE(m, x, e) == LIST_INSERT_BEFORE(m, x, e)

TAILQ_INSERT_HEAD(m, h, e) ==
    [LIST_INSERT_HEAD(m, h, e) EXCEPT !.last[h] = IF m.next[h] = Null THEN e ELSE @]

TAILQ_INSERT_TAIL(m, h, e) == STAILQ_INSERT_TAIL([m EXCEPT !.prev[e] = m.last[h]], h, e)

(* An address taken for that of a head: the field behind a next or first field is
   prev in an element and last in a head. *)
Behind(m, x) == IF x \in Queue THEN m.last[x] ELSE m.prev[x]

TAILQ_LAST(m, h)      == m.next[Behind(m, m.last[h])]
TAILQ_LAST_FAST(m, h) == IF m.next[h] = Null THEN Null ELSE m.last[h]
TAILQ_PREV(m, e)      == m.next[Behind(m, m.prev[e])]
TAILQ_PREV_FAST(m, e, h) == IF m.prev[e] = h THEN Null ELSE m.prev[e]

TAILQ_REMOVE(m, h, e) ==
    [LIST_REMOVE(m, e) EXCEPT !.last[h] = IF m.next[e] = Null THEN m.prev[e] ELSE @]

TAILQ_SWAP(m, h1, h2) ==
    LET s == LIST_SWAP(m, h1, h2)
    IN  [s EXCEPT !.last[h1] = IF s.next[h1] = Null THEN h1 ELSE m.last[h2],
                  !.last[h2] = IF s.next[h2] = Null THEN h2 ELSE m.last[h1]]

(***************************************************************************)
(* The macros by kind, and loops                                           *)
(***************************************************************************)
Removed(m, h, e) ==
    CASE kind = "SLIST"  -> SLIST_REMOVE(m, h, e)
      [] kind = "STAILQ" -> STAILQ_REMOVE(m, h, e)
      [] kind = "LIST"   -> LIST_REMOVE(m, e)
      [] OTHER           -> TAILQ_REMOVE(m, h, e)

(* The elements that a FOREACH loop visits, as far as there are elements *)
Foreach(m, h) ==
    LET walk[n \in 0 .. 9, x \in Elem \union {Null}] ==
          IF x = Null \/ n = 9 THEN <<>> ELSE <<x>> \o walk[n + 1, m.next[x]]
    IN  walk[0, m.next[h]]

(* TAILQ_FOREACH_REVERSE *)
ForeachReverse(m, h) ==
    LET walk[n \in 0 .. 9, x \in Elem \union {Null}] ==
          IF x = Null \/ n = 9 THEN <<>> ELSE <<x>> \o walk[n + 1, TAILQ_PREV(m, x)]
    IN  walk[0, TAILQ_LAST(m, h)]

(* A FOREACH_SAFE loop whose body removes the elements of gone: the element after
   the one visited is read before the body runs. *)
ForeachSafe(m0, h, gone) ==
    LET loop[n \in 0 .. Len(Foreach(m0, h))] ==
          IF n = 0 THEN [m |-> m0, var |-> m0.next[h]]
          ELSE LET s == loop[n - 1] IN
               [m |-> IF s.var \in gone THEN Removed(s.m, h, s.var) ELSE s.m, var |-> s.m.next[s.var]]
    IN  loop[Len(Foreach(m0, h))].m

(***************************************************************************)
(* A program that uses two heads of one kind                               *)
(***************************************************************************)
QueueInit ==
    /\ kind \in Kinds
    /\ mem = [next |-> [x \in Queue \union Elem |-> Null], prev |-> [e \in Elem |-> Null], last |-> [h \in Queue |-> h]]
    /\ want = [h \in Queue |-> <<>>]

Free(e) == \A h \in Queue : e \notin Range(want[h])
At(h, x) == CHOOSE i \in DOMAIN want[h] : want[h][i] = x

InsertHead(h, e) ==
    /\ Free(e)
    /\ mem' = CASE kind = "SLIST"  -> SLIST_INSERT_HEAD(mem, h, e)
                [] kind = "STAILQ" -> STAILQ_INSERT_HEAD(mem, h, e)
                [] kind = "LIST"   -> LIST_INSERT_HEAD(mem, h, e)
                [] OTHER           -> TAILQ_INSERT_HEAD(mem, h, e)
    /\ want' = [want EXCEPT ![h] = <<e>> \o @]
    /\ UNCHANGED kind

InsertTail(h, e) ==
    /\ Free(e) /\ HasLast(kind)
    /\ mem' = IF kind = "STAILQ" THEN STAILQ_INSERT_TAIL(mem, h, e) ELSE TAILQ_INSERT_TAIL(mem, h, e)
    /\ want' = [want EXCEPT ![h] = Append(@, e)]
    /\ UNCHANGED kind

InsertAfter(h, x, e) ==
    /\ Free(e) /\ x \in Range(want[h])
    /\ mem' = CASE kind = "SLIST"  -> SLIST_INSERT_AFTER(mem, x, e)
                [] kind = "STAILQ" -> STAILQ_INSERT_AFTER(mem, h, x, e)
                [] kind = "LIST"   -> LIST_INSERT_AFTER(mem, x, e)
                [] OTHER           -> TAILQ_INSERT_AFTER(mem, h, x, e)
    /\ want' = [want EXCEPT ![h] = InsertAt(@, At(h, x) + 1, e)]
    /\ UNCHANGED kind

InsertBefore(h, x, e) ==
    /\ Free(e) /\ HasPrev(kind) /\ x \in Range(want[h])
    /\ mem' = IF kind = "LIST" THEN LIST_INSERT_BEFORE(mem, x, e) ELSE TAILQ_INSERT_BEFORE(mem, x, e)
    /\ want' = [want EXCEPT ![h] = InsertAt(@, At(h, x), e)]
    /\ UNCHANGED kind

RemoveOne(h, e) ==
    /\ e \in Range(want[h])
    /\ \/ mem' = Removed(mem, h, e)
       \/ /\ kind = "SLIST"
          /\ mem' = SLIST_REMOVE_PREVPTR(mem, IF At(h, e) = 1 THEN h ELSE want[h][At(h, e) - 1], e)
    /\ want' = [want EXCEPT ![h] = RemoveAt(@, At(h, e))]
    /\ UNCHANGED kind

RemoveHead(h) ==
    /\ kind \in {"SLIST", "STAILQ"} /\ want[h] # <<>>
    /\ mem' = IF kind = "SLIST" THEN SLIST_REMOVE_HEAD(mem, h) ELSE STAILQ_REMOVE_HEAD(mem, h)
    /\ want' = [want EXCEPT ![h] = Tail(@)]
    /\ UNCHANGED kind

RemoveAll(h, gone) ==
    /\ want[h] # <<>>
    /\ mem' = ForeachSafe(mem, h, gone)
    /\ want' = [want EXCEPT ![h] = SelectSeq(@, LAMBDA e : e \notin gone)]
    /\ UNCHANGED kind

Concat(h1, h2) ==
    /\ h1 # h2
    /\ mem' = CASE kind = "SLIST"  -> SLIST_CONCAT(mem, h1, h2)
                [] kind = "STAILQ" -> STAILQ_CONCAT(mem, h1, h2)
                [] kind = "LIST"   -> LIST_CONCAT(mem, h1, h2)
                [] OTHER           -> TAILQ_CONCAT(mem, h1, h2)
    /\ want' = [want EXCEPT ![h1] = @ \o want[h2], ![h2] = <<>>]
    /\ UNCHANGED kind

SwapWith(h1, h2) ==
    /\ h1 # h2
    /\ mem' = CASE kind = "SLIST"  -> SLIST_SWAP(mem, h1, h2)
                [] kind = "STAILQ" -> STAILQ_SWAP(mem, h1, h2)
                [] kind = "LIST"   -> LIST_SWAP(mem, h1, h2)
                [] OTHER           -> TAILQ_SWAP(mem, h1, h2)
    /\ want' = [want EXCEPT ![h1] = want[h2], ![h2] = want[h1]]
    /\ UNCHANGED kind

QueueNext ==
    \/ \E h \in Queue, e \in Elem : InsertHead(h, e) \/ InsertTail(h, e) \/ RemoveOne(h, e)
    \/ \E h \in Queue, e, x \in Elem : InsertAfter(h, x, e) \/ InsertBefore(h, x, e)
    \/ \E h \in Queue : RemoveHead(h)
    \/ \E h \in Queue, gone \in SUBSET Elem : RemoveAll(h, gone)
    \/ \E h1, h2 \in Queue : Concat(h1, h2) \/ SwapWith(h1, h2)

QueueSpec == QueueInit /\ [][QueueNext]_queueVars
-----------------------------------------------------------------------------
(* QMD_LIST_CHECK_HEAD and _NEXT, QMD_TAILQ_CHECK_HEAD and _NEXT: what comes after
   a head or an element points back to it; QMD_TAILQ_CHECK_TAIL *)
ChecksNext(m, x) == m.next[x] = Null \/ m.prev[m.next[x]] = x
ChecksPrev(m, e) == m.next[m.prev[e]] = e
ChecksTail(m, h) == m.next[m.last[h]] = Null

(* Whatever is inserted, removed, moved from one head to another or swapped, the
   pointers of every queue run through the elements that it should have, in their
   order and, where there are pointers back, in the opposite one; the last element
   is found at the end of both kinds of tail queue by all of the macros that look
   for it; and none of the checks of a debug build would panic. *)
QueuesAsSequences ==
    \A h \in Queue :
        LET n == Len(want[h]) IN
        /\ Foreach(mem, h) = want[h]
        /\ HasLast(kind) => ChecksTail(mem, h) /\ STAILQ_LAST(mem, h) = IF n = 0 THEN Null ELSE want[h][n]
        /\ HasPrev(kind) => /\ ChecksNext(mem, h)
                            /\ \A i \in 1 .. n : /\ ChecksNext(mem, want[h][i]) /\ ChecksPrev(mem, want[h][i])
                                                 /\ LIST_PREV(mem, want[h][i], h) = IF i = 1 THEN Null ELSE want[h][i - 1]
        /\ kind = "TAILQ" => /\ ForeachReverse(mem, h) = Reverse(want[h])
                             /\ TAILQ_LAST_FAST(mem, h) = TAILQ_LAST(mem, h)
                             /\ \A i \in 1 .. n : TAILQ_PREV_FAST(mem, want[h][i], h) = TAILQ_PREV(mem, want[h][i])
=============================================================================
