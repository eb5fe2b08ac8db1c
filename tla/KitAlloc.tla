------------------------------- MODULE KitAlloc -------------------------------
(***************************************************************************)
(* The memory interface of lib-kit-alloc/kit-alloc.c, down to the words of *)
(* memory: the guards around a block and their checks, the ways to         *)
(* allocate, resize and free, and the counts, which move to kit-counters   *)
(* once those are initialized.  A size is in units of sizeof(void * ), so a *)
(* guard takes 2 and the rear stamp 1.  jemalloc is external: it gives a   *)
(* slot that is free and aligned as asked for, or nothing.                 *)
(***************************************************************************)
EXTENDS Integers, FiniteSetsExt

CONSTANTS
    Slots,      \* addresses of the areas jemalloc can give, even numbers
    SlotWords,  \* the size of each
    SIZE_MAX,   \* the largest size_t
    Sizes, Aligns, CallocArgs,  \* sizes asked for, alignments, pairs <<num, size>>
    FlagSets,   \* what the flags may be set to
    Faults,     \* "over", "under", "twice": mistakes of the caller
    MaxCalls    \* bound on the calls counted

NULL == 0
FREE == -1      \* the stamp KIT_MEMORY_FREE
JUNK == 3       \* what a caller writes

AllocAssumption ==
    /\ IsFiniteSet(Slots) /\ Slots \subseteq Nat /\ SlotWords \in Nat /\ SIZE_MAX \in Nat
    /\ \A a \in Slots : a % 2 = 0 /\ a > 2 /\ \A b \in Slots : a < b => a + SlotWords <= b
    /\ Aligns \subseteq {1, 2, 4, 8}        \* "Alignment is not a power of 2" aborts

(* The sizes asked for leave room for the largest guards below SIZE_MAX, which
   kit_memory_size does not check: AllocSound holds for such callers. *)
SizesFit ==
    /\ \A size \in Sizes : size \in Nat /\ size + 10 <= SIZE_MAX
    /\ \A p \in CallocArgs : p[1] \in Nat /\ p[2] \in Nat /\ ((p[1] * p[2]) % (SIZE_MAX + 1)) + 10 <= SIZE_MAX

VARIABLES
    flags, initialized, using,  \* kit_memory_flags, _initialized, _using_counters
    early, counters,    \* the static counts, the registered counters
    mem,                \* the words
    heap,               \* jemalloc's: how long the block in each slot is, or 0
    lent,               \* the blocks the caller has: [ptr, at, size, abused]
    freed,              \* those it gave back, until their slot is used again
    aborted,            \* "no", or why an assertion failed
    unsafe,             \* was a block released that was overrun, or twice?
    allocated_max, logged_max   \* kit_memory_allocated_max, jemalloc_allocated_max

counts == <<early, counters>>
blocks == <<mem, heap, lent, freed>>
rest   == <<flags, initialized, using, allocated_max, logged_max>>
allocVars == <<rest, counts, blocks, aborted, unsafe>>

Counted == {"calloc", "fail", "free", "malloc", "realloc"}
Words   == 0 .. Max(Slots) + SlotWords

AllocInit ==
    /\ AllocAssumption
    /\ flags \in FlagSets /\ initialized = FALSE /\ using = FALSE
    /\ early = [c \in Counted |-> 0] /\ counters = [c \in Counted |-> 0]
    /\ mem = [w \in Words |-> 0] /\ heap = [a \in Slots |-> 0]
    /\ lent = {} /\ freed = {}
    /\ aborted = "no" /\ unsafe = FALSE
    /\ allocated_max = 0 /\ logged_max = 0
-----------------------------------------------------------------------------
(* Setting up *)

Checking == "CHECK" \in flags
Calls    == early["calloc"] + early["malloc"]

kit_memory_set_flags(f) ==
    /\ ~ initialized /\ Calls = 0
    /\ flags' = f
    /\ UNCHANGED <<initialized, using, allocated_max, logged_max, counts, blocks, aborted, unsafe>>

kit_memory_set_assert_on_enomem(on) ==
    /\ flags' = IF on THEN flags \union {"ABORT"} ELSE flags \ {"ABORT"}
    /\ UNCHANGED <<initialized, using, allocated_max, logged_max, counts, blocks, aborted, unsafe>>

kit_memory_initialize(f) ==
    /\ ~ initialized /\ Calls = 0
    /\ flags' = f /\ initialized' = TRUE
    /\ UNCHANGED <<using, allocated_max, logged_max, counts, blocks, aborted, unsafe>>

(* Called by kit_counters_initialize, after kit_memory_initialize(~0U). *)
kit_memory_initialize_counters ==
    /\ ~ initialized
    /\ initialized' = TRUE /\ using' = TRUE
    /\ counters' = [c \in Counted |-> counters[c] + early[c]]
    /\ UNCHANGED <<flags, allocated_max, logged_max, early, blocks, aborted, unsafe>>

Count(names) ==
    LET more(f) == [c \in Counted |-> f[c] + IF c \in names THEN 1 ELSE 0] IN
    IF using THEN counters' = more(counters) /\ UNCHANGED early
             ELSE early' = more(early) /\ UNCHANGED counters

kit_memory_allocations ==
    LET f == IF using THEN counters ELSE early IN f["calloc"] + f["malloc"] - f["free"]
-----------------------------------------------------------------------------
(* Guards *)

Offset(alignment) == IF alignment > 2 THEN alignment ELSE 2

kit_memory_size(size, alignment) ==
    IF Checking THEN (Offset(alignment) + size + 1) % (SIZE_MAX + 1) ELSE size

(* The stamps written, and the pointer the caller is given. *)
guard_initialize(m, a, size, alignment) ==
    LET stamped == [m EXCEPT ![a] = size, ![a + 1] = a, ![a + size - 1] = a] IN
    IF ~ Checking THEN m
    ELSE IF alignment > 2
         THEN [stamped EXCEPT ![a + alignment - 2] = stamped[a], ![a + alignment - 1] = stamped[a + 1]]
         ELSE stamped
Given(a, alignment) == IF Checking THEN a + Offset(alignment) ELSE a

(* The guard at the beginning of the memory of ptr.  The one right before ptr may
   be a copy; a stamp that leads nowhere is read, and so no better than a wrong one. *)
ForeGuard(ptr) ==
    IF mem[ptr - 1] = ptr - 2 THEN ptr - 2 ELSE mem[ptr - 1]
ForeStamped(ptr) ==
    LET guard == ForeGuard(ptr) IN
    /\ guard # ptr - 2 => guard % 4 = 0 /\ guard < ptr - 2 /\ guard \in Slots
    /\ mem[guard + 1] = guard
RearStamped(guard) == mem[guard] \in 1 .. SlotWords /\ mem[guard + mem[guard] - 1] = guard

(* Mutant of kit_memory_check: the rear stamp is not looked at. *)
kit_memory_check_fore(ptr) ==
    LET guard == ForeGuard(ptr) IN
    IF ~ Checking THEN [ok |-> TRUE, at |-> ptr, size |-> 0]
    ELSE IF ForeStamped(ptr)
         THEN [ok |-> TRUE, at |-> guard, size |-> mem[guard] - (ptr - guard) - 1]
         ELSE [ok |-> FALSE, at |-> NULL, size |-> 0]

(* Where the memory of ptr begins and how much the caller has of it, or that a
   stamp is wrong. *)
kit_memory_check(ptr) ==
    LET guard == ForeGuard(ptr) IN
    IF ~ Checking THEN [ok |-> TRUE, at |-> ptr, size |-> 0]
    ELSE IF ForeStamped(ptr) /\ RearStamped(guard)
         THEN [ok |-> TRUE, at |-> guard, size |-> mem[guard] - (ptr - guard) - 1]
         ELSE [ok |-> FALSE, at |-> NULL, size |-> 0]

(* mallocx and rallocx: a slot that can be had, or NULL. *)
Place(n, alignment) ==
    {NULL} \union {a \in Slots : heap[a] = 0 /\ n \in 1 .. SlotWords /\ a % Offset(alignment) = 0}
-----------------------------------------------------------------------------
(* Allocating *)

Block(ptr, a, size) == [ptr |-> ptr, at |-> a, size |-> size, abused |-> FALSE]

(* Failing aborts if that is asked for. *)
Fails(names) ==
    IF "ABORT" \in flags THEN aborted' = "enomem" /\ UNCHANGED counts
                         ELSE aborted' = "no" /\ Count(names \union {"fail"})

memory_alloc(size, alignment, a, zero, names) ==
    LET n == kit_memory_size(size, alignment)
        m == IF zero THEN [w \in Words |-> IF w \in a .. a + n - 1 THEN 0 ELSE mem[w]] ELSE mem
    IN
    /\ a \in Place(n, alignment)
    /\ IF a = NULL
       THEN Fails(names) /\ UNCHANGED blocks
       ELSE /\ heap' = [heap EXCEPT ![a] = n]
            /\ mem' = guard_initialize(m, a, n, alignment)
            /\ lent' = lent \union {Block(Given(a, alignment), a, size)}
            /\ freed' = {b \in freed : b.at # a}
            /\ Count(names) /\ aborted' = "no"
    /\ UNCHANGED <<rest, unsafe>>

kit_malloc_diag(size, a) == memory_alloc(size, 0, a, FALSE, {"malloc"})

kit_memalign_diag(alignment, size, a) == memory_alloc(size, alignment, a, FALSE, {"malloc"})

kit_calloc_diag(num, size, a) ==
    LET total_size == (num * size) % (SIZE_MAX + 1) IN
    IF num # 0 /\ size # 0 /\ (total_size < num \/ total_size < size)
    THEN a = NULL /\ Fails({"calloc"}) /\ UNCHANGED <<rest, blocks, unsafe>>
    ELSE memory_alloc(total_size, 0, a, TRUE, {"calloc"})

kit_strdup_diag(len, a) == memory_alloc(len + 1, 0, a, FALSE, {"malloc"})

kit_strndup_diag(len, size, a) ==
    memory_alloc((IF len < size THEN len ELSE size) + 1, 0, a, FALSE, {"malloc"})
-----------------------------------------------------------------------------
(* Freeing and resizing *)

(* The check before a block is released or resized failed. *)
Corrupt == aborted' = "corrupt" /\ UNCHANGED <<rest, counts, blocks, unsafe>>

(* The fore guard is invalidated and the memory given back; again: it was already. *)
Release(b, at, again) ==
    /\ mem' = IF Checking THEN [mem EXCEPT ![at + 1] = FREE] ELSE mem
    /\ heap' = [heap EXCEPT ![at] = 0]
    /\ lent' = lent \ {b} /\ freed' = freed \union {b}
    /\ unsafe' = (unsafe \/ b.abused \/ again)
    /\ aborted' = "no"

kit_free_diag(b) ==
    LET checked == kit_memory_check(b.ptr) IN
    IF checked.ok THEN Release(b, checked.at, b \in freed) /\ Count({"free"}) /\ UNCHANGED rest
                  ELSE Corrupt

(* kit_realloc_diag(ptr, 0) *)
ReallocToNothing(b) ==
    LET checked == kit_memory_check(b.ptr) IN
    IF checked.ok THEN Release(b, checked.at, FALSE) /\ Count({"free"}) /\ UNCHANGED rest
                  ELSE Corrupt

(* kit_realloc_diag(NULL, size): one that fails is counted as resized. *)
ReallocOfNothing(size, a) ==
    memory_alloc(size, 0, a, FALSE, IF a = NULL THEN {"realloc"} ELSE {"malloc"})

(* A block of n words is moved to a, which may be where it is; the caller's
   alignment is padding kept from the old place, not asked of jemalloc again. *)
MoveBlock(b, from, a, n, alignment, size) ==
    LET kept == Min({heap[from], n})
        m == [w \in Words |-> IF w \in a .. a + kept - 1 THEN mem[from + (w - a)] ELSE mem[w]]
    IN  /\ heap' = [heap EXCEPT ![from] = 0, ![a] = n]
        /\ mem' = guard_initialize(m, a, n, alignment)
        /\ lent' = (lent \ {b}) \union {Block(Given(a, alignment), a, size)}
        /\ freed' = {f \in freed : f.at # a}

(* kit_realloc_diag of a block to a size; undo: what kit_reduce_diag takes back of
   the counts if it fails, and only of the registered ones. *)
kit_realloc_diag(b, size, a, undo) ==
    LET checked   == kit_memory_check(b.ptr)
        alignment == b.ptr - checked.at
        n         == kit_memory_size(size, alignment)
    IN
    IF ~ checked.ok THEN a = NULL /\ Corrupt
    ELSE IF a = NULL THEN Fails(IF undo THEN {} ELSE {"realloc"}) /\ UNCHANGED <<rest, blocks, unsafe>>
    ELSE /\ n \in 1 .. SlotWords /\ (a = checked.at \/ a \in Place(n, 0))
         /\ MoveBlock(b, checked.at, a, n, alignment, size)
         /\ Count({"realloc"}) /\ aborted' = "no"
         /\ unsafe' = (unsafe \/ b.abused) /\ UNCHANGED rest

(* A block that cannot be made smaller stays as it is. *)
kit_reduce_diag(b, size, a) ==
    IF size = 0 THEN a = NULL /\ ReallocToNothing(b) ELSE kit_realloc_diag(b, size, a, using)
-----------------------------------------------------------------------------
(* Reporting *)

AllocatedBytes == MapThenSumSet(LAMBDA a : heap[a], Slots)

kit_allocated_bytes ==
    /\ allocated_max' = Max({allocated_max, AllocatedBytes})
    /\ UNCHANGED <<flags, initialized, using, logged_max, counts, blocks, aborted, unsafe>>

kit_memory_log_growth ==
    /\ allocated_max' = Max({allocated_max, AllocatedBytes})
    /\ logged_max' = Max({logged_max, AllocatedBytes})
    /\ UNCHANGED <<flags, initialized, using, counts, blocks, aborted, unsafe>>
-----------------------------------------------------------------------------
(* Mistakes that the guards are for: a word past the end or before the
   beginning is written, or a block is freed again. *)
Overrun(b, w) ==
    /\ Checking /\ ~ b.abused
    /\ mem' = [mem EXCEPT ![w] = JUNK]
    /\ lent' = (lent \ {b}) \union {[b EXCEPT !.abused = TRUE]}
    /\ UNCHANGED <<rest, counts, heap, freed, aborted, unsafe>>

Mistake ==
    \/ \E b \in lent : \/ "over" \in Faults /\ Overrun(b, b.ptr + b.size)
                       \/ "under" \in Faults /\ Overrun(b, b.ptr - 1)
    \/ "twice" \in Faults /\ Checking /\ \E b \in freed : kit_free_diag(b)

CallsSoFar == MapThenSumSet(LAMBDA c : IF using THEN counters[c] ELSE early[c], Counted)

AllocNext ==
    /\ aborted = "no" /\ CallsSoFar < MaxCalls
    /\ \/ \E f \in FlagSets : kit_memory_set_flags(f) \/ kit_memory_initialize(f)
       \/ \E on \in BOOLEAN : kit_memory_set_assert_on_enomem(on)
       \/ kit_memory_initialize_counters
       \/ \E a \in Slots \union {NULL} :
             \/ \E size \in Sizes :
                   \/ kit_malloc_diag(size, a) \/ kit_strdup_diag(size, a) \/ ReallocOfNothing(size, a)
                   \/ \E n \in Sizes : kit_strndup_diag(size, n, a)
                   \/ \E alignment \in Aligns : kit_memalign_diag(alignment, size, a)
                   \/ \E b \in lent : kit_realloc_diag(b, size, a, FALSE)
             \/ \E p \in CallocArgs : kit_calloc_diag(p[1], p[2], a)
             \/ \E b \in lent, size \in Sizes \union {0} :
                   size < b.size /\ kit_reduce_diag(b, size, a)
       \/ \E b \in lent : kit_free_diag(b) \/ ReallocToNothing(b)
       \/ kit_allocated_bytes \/ kit_memory_log_growth
       \/ Mistake

AllocSpec == AllocInit /\ [][AllocNext]_allocVars
-----------------------------------------------------------------------------
(* kit_realloc_diag moved an aligned block to a place that is not. *)
Misaligned(b) == b.ptr - b.at > 2 /\ b.at % 4 # 0

(* "The number of memory allocations less the number of frees": what is reported
   is the blocks lent, and at most the failed calls more, before, across and after
   the change to kit-counters. *)
Accounted ==
    kit_memory_allocations \in
        Cardinality(lent) .. Cardinality(lent) + (IF using THEN counters ELSE early)["fail"]

(* A block is as long as was asked for and nobody else's; its guards are in place
   and give its size back. *)
Guarded ==
    \A b \in lent :
        /\ b.size <= heap[b.at] - (b.ptr - b.at) - (IF Checking THEN 1 ELSE 0)
        /\ \A c \in lent : c.at = b.at => c = b
        /\ Checking /\ ~ b.abused /\ ~ Misaligned(b) =>
              LET checked == kit_memory_check(b.ptr) IN
              checked.ok /\ checked.at = b.at /\ checked.size = b.size

(* kit-alloc does what its interface says under any sequence of calls: the blocks
   are accounted for and guarded; a block that was overrun, or was freed before,
   is never released ("Aborts if the guard stamps before or after the memory have
   been overwritten"), and no other is refused, but for one that realloc misaligned. *)
AllocSound ==
    /\ Accounted /\ Guarded
    /\ ~ unsafe
    /\ aborted = "corrupt" =>
          \/ \E b \in lent : b.abused \/ Misaligned(b)
          \/ freed # {}
    /\ logged_max <= allocated_max
=============================================================================
