# Verification of libkit

libkit is a C library: pools and hash tables in shared memory, a counting database
(sxe-cdb), per thread counters and memory, a JSON representation (sxe-jitson), time
zones, logging and many smaller helpers. This directory holds TLA+ modules for its
stateful core and its algorithms, the TLC configurations that check them on small
instances, and proofs, checked by TLAPS, of the main safety properties of the pool, its
walkers and timeouts, the hash table, the lists, the database with its counters and
ensembles, the memory and the counters of threads, the random numbers, the time zones and
jitson's indexing, for instances of any size.

Names in the modules are those of the code where TLA+ allows it. `PROJECT.json` lists
the components, the runs, one mutant per property, the lines of the source each
definition stands for, the hazards the properties are aimed at, and the theorems.

    tlc -workers 2 -config SxePool_safety.cfg MCSxePool
    tlapm SxePoolProofs.tla

## 1. Inventory

### Pools, lists and hash tables

**sxe-pool** (`lib-sxe-pool/sxe-pool.c`). An array of elements, each in one of a few
states; a list per state, oldest element first; a stamp (time or insertion count) on
each element. Operations move one named element, or the oldest of a state, to the tail
of another state's list, touch an element, and ask for the oldest one. A pool may have a
spinlock (`SXE_POOL_OPTION_LOCKED`) and may lie in a memory mapped file used by several
processes. *Hard:* a thread may die holding the lock or in the middle of a move; the
lock gives up after a number of spins; an operator may force it. *Correct if:* the lock
excludes, no element is lost or on two lists, the head is always the oldest, callers
see atomic operations, calls return.

**sxe-spinlock** (`lib-sxe-mmap/sxe-spinlock.h`). A word that holds the owner's tid,
taken by compare and swap, given back with a check, forced with two interlocked
operations. Used by the pool (modelled there) and by sxe-cdb ensembles.

**sxe-pool-walker** (`sxe-pool-walker.c`, on `sxe-list-walker.c`). Walks the list of one
state; the lock is free between steps, so it must find its place again when its node has
moved. *Correct if:* the walk goes forward, and passes over no element that was there all
the time.

**Timed pools** (`sxe_pool_new_with_timeouts`, `sxe_pool_check_timeouts`). A global list
of pools whose states have timeouts; a scan calls a callback for every element that is
due; the callback moves elements, and may create and delete pools. *Hard:* the callback
changes the lists being scanned, time passes during the scan, timestamps are unsigned.
*Correct if:* callbacks are called only for elements that are due, none is left over,
the scan's assertion holds, the scan ends.

**sxe-hash** (`lib-sxe-hash/sxe-hash.c`). A pool whose states are the free elements, the
elements in hand and the buckets. Lookups walk a bucket and compare keys after each step
has given the lock back. *Correct if:* a key in the table all along is found, and a
lookup returns an index or that there is none.

**sxe-list** (`lib-sxe-list`), doubly linked rings with a sentinel, ids and lengths, and
**kit-queue** (`kit-queue.h`), the four kinds of BSD queue built of pointers to pointers.
*Correct if:* any sequence of operations on several lists leaves closed rings, right ids
and lengths, and does what the same operations on sequences do.

### What threads and processes share

**sxe-thread-memory** (`lib-sxe-thread`). Per thread allocations are tracked on a lock
free list; the main thread takes the list, frees what dead threads left and puts the
rest back. *Hard:* pushes race the taking and the putting back; threads exit at any time.
*Correct if:* nothing is freed twice or forgotten, the number returned is right, the
call returns.

**kit-counters** (`lib-kit-alloc`). Each thread counts in the block of its slot without a
lock; totals are summed over slots, dead threads and threads without a slot. *Hard:*
slots are taken, given back and added while others count and sum. *Correct if:* no
increment is lost or counted twice, and a total lies between two real values.

**kit-alloc** (`lib-kit-alloc/kit-alloc.c`). Allocation with counting and, if asked for,
guards before and after each block that are checked when it is resized or freed; the
counts begin in a static variable and move to kit-counters. *Correct if:* what is counted
is what is held, writes of a correct caller hit no guard, and only a mistake aborts.

**kit-timezone**. A cache of zones, each with a lock of its own and reloaded when its file
changes. *Correct if:* no caller holds data that were freed, none are lost, and the data
are those of the file as it was when it was last looked at.

**kit-random, kit-arc4random**. A buffer of keystream whose key is replaced each time it
is filled, and reseeded after so many bytes or a fork. *Correct if:* no byte is handed out
twice, by a process or its child, and the bounded numbers are uniform.

**kit-graphitelog**. A thread that writes the counters in objects of limited length while
another thread changes its options. *Correct if:* a round writes every counter once; it
ends when told to.

**sxe-log**. A control per source file with its level, learned from the environment when
the file first logs and linked into a list without a lock; changes of the level walk the
list; a stack of entered functions per thread gives the indent of lines; lines are put
together in a buffer of fixed size, cut off and escaped. *Correct if:* a file logs at the
level in force, whatever is linked is reached by the next change, lines fit and read
back.

### Data

**sxe-cdb** (`lib-sxe-cdb`). A database in memory. An *instance* has sheets of rows of
cells, a `sheets_index`, and `kvdata` that holds header, key and value (hkv); a full
sheet is split; a UID names a cell for ever. Keys can be *counters*: keys with the same
count share an `SXE_CDB_COUNT`, and the counts are linked in sorted order. An *ensemble*
is an array of instances with a lock each. *Hard:* long sequences of puts and splits
before a wrong cell shows; 32 bit sizes; bit fields of headers; pointers read before a
lock; several locks held at once.

**sxe-jitson** (`lib-sxe-jitson`). JSON values as arrays of tokens with types and flags,
built call by call on a stack or parsed from text; collections are indexed when they are
first looked into, also by several threads at once; flags set while an array is built
(ordered, uniform, homogeneous) choose how it is searched later. Operators IN and
INTERSECT, ranges, named constants and identifiers. *Hard:* the flags must be right after
any sequence of elements; every allocation can fail in the middle of a collection;
references, copies and owned strings differ in who frees them; texts of all lengths.
*Correct if:* the value is the one asked for or written, what is in it is found, copies
are freed, and a failure leaves what was there before.

**Containers below it**: **sxe-dict** (chained hash table that grows), **kit-sortedarray**
(binary search, insertion, intersection), **sxe-factory** (a growing string). *Correct
if:* they hold what was put in, whatever allocations were refused.

**tzcode localtime** (`lib-tzcode/localtime.c`, which kit-timezone links). Zones from TZif
files and TZ strings, times to dates and back. *Hard:* leap seconds, the limits of
`time_t` and `int`, repetition every 400 years, the cached name of the zone. *Correct if:*
a date is that of the calendar at the offset the rules give, and `mktime` undoes
`localtime`.

**Texts and numbers**: **kit-base-encode**, **kit-strto**, **kit-safe-rw**, **kit-tensor**,
**sxe-unicode**, `sxe_strn_encode`. Algorithms over short inputs with many edges.

How they meet: the pool works on lists under its spinlock; the walker and the timeout
scan work on the pool's lists between other threads' moves; sxe-hash is a pool with a
state per bucket, looked up with a walker; sxe-cdb ensembles use spinlocks; thread memory
and the counters are called by every thread, the counters also from kit-alloc and
kit-graphitelog; jitson's symbol tables are dictionaries, its ordered arrays sorted
arrays.

## 2. Modules

| Module | Models | Uses |
|---|---|---|
| `SxePoolQueues` | the lists of a pool as sequences, and a move in its two halves | |
| `SxePool` | a locked pool with threads that spin, work, die and are replaced | `SxePoolQueues`; refines `SxePoolSpec` |
| `SxePoolSpec` | what callers are promised: atomic operations | |
| `SxePoolWalker` | a walker while other threads move elements | `SxePoolQueues` |
| `SxeHash` | a hash table and a lookup in it | `SxePoolWalker` |
| `SxePoolTimeouts` | timed pools, the scan and its callbacks | |
| `SxeList`, `SxeListSpec` | the rings, pointer by pointer; lists as sequences | the first refines the second |
| `KitQueue` | SLIST, STAILQ, LIST and TAILQ, pointer by pointer, beside sequences | |
| `SxeThreadMemory` | trackers, one compare and swap at a time | |
| `KitCounters` | one counter over slots | |
| `KitAlloc` | blocks, guards and counts, word by word | |
| `KitTimezone` | the cache of zones | |
| `KitRandom` | keystream, reseeding and forks | |
| `KitGraphitelog` | the logging thread | |
| `SxeLog`, `SxeLogLine` | levels, controls and stacks; lines as text | |
| `SxeCdbSheets` | header formats; an instance: index, sheets, kvdata | |
| `SxeCdbCounts` | counters of an instance and their walks, link by link | |
| `SxeCdbEnsemble` | ensembles, lock by lock | |
| `SxeJitson` | values as tokens: sizes, elements, members, copies | |
| `SxeJitsonStack` | the stack: growth, builders, open collections | `SxeJitson`, `ContainerOps` |
| `SxeJitsonLoad` | the parser, symbols, identifiers, casts | `SxeJitsonStack` |
| `SxeJitsonOper` | the registry, IN, INTERSECT, ranges | `SxeJitsonLoad` |
| `SxeJitsonApi` | a program that builds and parses values, beside a record of what it asked for | `SxeJitsonOper` |
| `SxeJitsonSource` | characters: numbers, strings, white space, UTF-8 | |
| `SxeJitsonIndex` | threads that index shared values | |
| `ContainerOps` | sxe-dict and kit-sortedarray as operators | |
| `Containers` | string factories, and a program that uses all the containers with refused allocations | `SxeJitsonOper` |
| `TzZones`, `TzFiles` | times, dates, TZ strings and rules; TZif files and the shared zone | the second extends the first |
| `KitFunctions` | functions without state: encodings, numbers, `kit-safe-rw.c`, tensors | |
| `SxePoolProofs`, `SxePoolTimeoutsProofs`, `SxeListProofs`, `SxeThreadMemoryProofs`, `SxeJitsonIndexProofs` | theorems | the module each is named after |
| `SxeHashProofs` | theorems | `SxePoolWalker`, `SxeHash` |
| `SxeCdbProofs` | theorems | `SxeCdbSheets`, `SxeCdbCounts`, `SxeCdbEnsemble` |
| `KitProofs` | theorems | `KitTimezone`, `KitCounters`, `KitRandom`, `KitAlloc` |
| `MCSxePool`, `MCThreads`, `MCShared`, `MCSxeCdb`, `MCLibrary`, `MCSxeJitson` | instances for TLC | |

An operator whose comment begins with "Mutant of" is a wrong variant of a definition,
used to see that a property notices the bug it stands for; no specification uses one.

### How state and actions correspond to the code

* **SxePool.** `queue`, `stateOf`, `last`, `nextCount` are the lists, the ids in the list
  nodes, `last.count` and `next_count`. `pc` is where a thread is: `take` (in
  `sxe_spinlock_take`), `body`, `push` (between `sxe_list_remove` and `sxe_list_push`),
  `give`, `return`. One compare and swap is one action. The work under the lock is two
  actions because a thread may die between them: `Crash` is a death between two steps of a
  call, and `CrashStamped` one after the element got its new stamp (`sxe-pool.c:414`) and
  before it is pushed (417). A tid is used again (`Reuse`), and an operator forces the lock
  (`ForceRead`, `ForceSwap`): one operator, who does so only when the owner is not inside an
  operation, as the note on `sxe_pool_override_locked` demands. Not modelled are a death
  between two stores of one list operation (`sxe-list.c:66-71`, 113-117), which can leave a
  ring half linked, and two operators at once. Release assertions that fail are the death of the
  thread (`Abort`). Counted pools are modelled; timed ones differ in the stamp only.
* **SxePoolWalker, SxeHash.** A step of the walker and a move each hold the lock, so each
  is an action; a step may fail to take the lock. The comparison of the key in a lookup
  is an action after the step. `visited`, `stayed`, `returned` and `present` are history
  variables for the properties.
* **SxePoolTimeouts.** A scan is `CheckTimeouts`, then `NextState`, `Fire`,
  `CallbackReturns` and `PoolDone` steps; between `Fire` and `CallbackReturns` the
  callback may create pools and delete others, and touch or move any element, in the end
  its own, to any state, the one it is in included. Time is modulo `TimeMod`, and the
  difference of two times is never negative, as in the code.
* **SxeThreadMemory.** `next` and `tid` are fields of trackers at addresses that are used
  again after a free. A failed compare and swap that changes nothing is not a step. A
  tracker of a dead thread may be kept too (`MayKeep`), since `stat` of its task may fail
  with another error than `ENOENT` (133, 144).
  `old` remembers what was tracked at the call.
* **KitCounters.** `val[s]` is one counter in the block of slot s. What `counter_lock`
  covers is one action or holds `lock`; what it does not cover is separate steps, a load
  and the store that goes with it too (`InitThread` and `InitStore`, `LateRead` and
  `LateWrite`, `FiniLoad` and `FiniStore`). `state[g]` are the generations of the array
  `counter_state`, which `kit_counters_prepare_dynamic_threads` replaces. `count` is the true
  number of increments less those that `kit_counter_zero` took back; `collided`, `torn` and
  `clear` note which unlocked steps have met. Counters with handlers of their own for
  combining (327, 398 to 402) and the value of a single slot are left out.
* **KitAlloc.** `mem` is memory in units of a pointer; a guard is two words and the rear
  stamp one. Each call is an action; `Faults` are writes outside of a block and second
  frees by the caller. jemalloc gives an aligned free slot or nothing.
* **KitTimezone.** What touches the file or the zone's members is a step; `pc` says where
  in `kit_timezone_load` or `kit_timezone_lock` a thread is. `raced` remembers that a
  load and a reload were at work at once.
* **KitRandom.** A byte of the keystream is a pair of its key and its place; a key is its
  seed and the number of times it was replaced. `Fork` copies `rs`, as fork copies memory
  that is thread local.
* **KitGraphitelog.** One call of the counters' callback is a step, so that the options
  can change between two counters; a round with no file descriptor (135) writes nothing.
* **SxeLog.** A read or write of the list, a control's `next` or `level`, the global level
  and the era is a step. `crooked` remembers a line with the wrong indent.
* **SxeCdbSheets.** A put is `PutVal`, any number of `SplitSheet`, then `AppendHkv`, or
  `CannotSplit`. kvdata is the set of hkvs that are intact: a write drops those it
  overlaps, and a growth those that do not lie below the old size that `mremap` is told
  (`Remapped`). Sizes are modulo `KvMod`. `given` remembers every UID that was handed out.
* **SxeCdbCounts.** `inst` has the members of `SXE_CDB_INSTANCE` by name; `Inc` is all of
  `sxe_cdb_instance_inc`, put together from the branches of the code.
* **SxeCdbEnsemble.** Every lock that is taken is a step, and so is the load of the
  pointer before it. What is done to the instance is the time spent at `work`.
* **SxeJitson\*.** A value is a sequence of tokens, each a record of type, flags, length
  and value; strings are numbers with a length that says how many tokens they take. A
  function of the code is an operator from the stack before the call to the stack after
  it; `k` is the number of allocations that still succeed. In `SxeJitsonApi` a call is an
  action, and a text grows by one lexeme a step and is parsed at every length.
  A name in an object is found by the hash of as many bytes as its length word says
  (`Hashed`), which is a link in what was copied from an indexed object. `clone` looks
  elements up in the value and in its copy, which indexes both; a refused index makes it go
  on with NULL, the end of the program (`"null"`). Indexes that a lookup of the program itself
  makes are granted in these modules; `SxeJitsonIndex`, where they may be refused
  (`Recheck`), takes the reads of flag and word, the lock, and the stores of index
  and flag apart, for values that are not flagged LOCAL (those take no lock:
  `sxe-jitson.c:187`).
* **Containers.** Every allocation may be refused, the copy of a key of a dictionary
  included; the code does not test that one, and the program ends there (`crash`).
* **TzFiles.** `TZ` is set and times are asked for in any order; the shared zone and its
  cached name are the state, everything else are operators. `localtime` and `mktime` read
  `TZ` anew, `localtime_r` only if no zone was set before (`localtime.c:1644`); `seen` is
  what `TZ` was when the zone last followed it. The zone itself is static: `ALL_STATE`, with
  which it would be allocated, is not defined by the library's makefile. The clock has small units
  (days of 24 hours, of 10 minutes, of 5 seconds), the calendar is the real one.
* **Texts.** In `MCLibrary` a text, a row of answers of the system, or a pair of shapes
  grows by one piece a step, and the operators are compared with a reference definition at
  every length. An answer of the system to `kit-safe-rw.c` is what `read` or `write`
  returned, with its `errno` and what `poll` said then. Loops of the code are recursive
  functions of the turns made.

## 3. Runs

A configuration checks several components; the variable `focus`, chosen at the start,
says what a behaviour is about, and the other components stay as initialized, so that
the state spaces add up and do not multiply.

| Run | Bounds | Shows |
|---|---|---|
| `SxePool_safety` | 2 elements, 2 states, 2 threads, 1 spin, counter up to 4 | `MutualExclusion`, `Conserved`, `OldestFirst`, and that the pool implements `SxePoolSpec` |
| `Threads` | 2 timed pools of 2 elements and 3 states with timeouts 1, none and 2, clock up to 2; calls with 2 spins; 2 threads and 3 trackers, one pass; 4 counters, limits 1 to 4; 2 files, 2 threads, 3 levels, 4 calls | `TimeoutsSound`, `NoneOverdue`, `KeepersNotFreed`, `NoneForgotten`, `LogsSound`, `LoopsEnd` |
| `Shared` | 2 threads, 2 static slots and one dynamic, 3 increments and zeroings; 2 areas of memory, 3 calls; 2 versions of a file, 3 loads; 2 processes, 3 seeds, 8 bytes; 3 elements in 5 states, walked while up to 3 moves are made, or as a table of 3 keys and 3 buckets with up to 5 moves; 2 values, 4 lookups | `CountersExact`, `AllocSound`, `ZoneSound`, `RandomOnce`, `NothingSkipped`, `WalksForward`, `KeyFound`, `IndexedOnce` |
| `SxeCdb` | 5 keys, up to 4 sheets of 2 rows of 2 cells, 5 puts, headers of all four kinds; 4 keys in 2 lists, counts up to 3; 3 threads, 2 ensembles of 2 instances | `UidStable`, `FoundIfPut`, `DebugValidate`, `RoundTrip`, `CountsSound`, `WalkComplete`, `EnsembleSound`, `NoDeadlock` |
| `Library` | 2 lists, 4 objects; 2 queues of each kind, 3 elements; 8 zones, about 60 times; texts of up to 5 pieces; tensors up to 2 x 3 x 3 | `RingsClosed`, `LengthRight`, implements `SxeListSpec`, `QueuesAsSequences`, `ZonesAsSpecified`, `ResultsAsSpecified` |
| `SxeJitson` | values of up to 4 tokens and 2 open collections, 12 calls, 1 or all allocations granted; texts of up to 5 of 16 lexemes; 5 additions to a container | `BuiltAsAsked`, `FoundAsAsked`, `ReadsBack`, `InFindsAll`, `IntersectsAsSets`, `CopiesFreed`, `LoadedAsWritten`, `ContainersAsSpecified` |
| `SxeThreadMemory_keepers` | 2 threads, 2 trackers, two passes | **violated:** a kept tracker is freed (section 6) |
| `SxeCdbSheets_wrap` | 2 keys, sizes modulo 64, no maximum | **violated:** a UID no longer names its key, once kvdata has grown beyond its 32 bit size |
| `SxeJitson_nested` | texts of up to 7 brackets, commas and numbers | **violated:** an array is wrongly flagged uniform |
| `KitTimezone` | as in `Shared` | **violated:** zone data are lost or stale for ever |
| `SxeHash` | as in `Shared` | **violated:** a lookup returns neither an index nor not found |
| `SxeLog` | as in `Threads`, with races | **violated:** a change of the level meets a control that is not linked |

Why the bounds are enough for the cases that matter:

* A pool of two elements has the head, the tail, the last element and the empty list; two
  threads are an owner and a waiter, and with deaths and reused tids also the successor
  of either. Three elements give a walker a node, the node behind it and one ahead. Two of
  three keys share a bucket.
* Two pools, three states of which the first and the last have timeouts: a callback can
  send an element back, on, or to the tail of its own state, touch the other, and create or
  delete the pool that comes next; a stamp can be later than the time the scan began.
* Three trackers: one kept, one freed and one being pushed. Three increments cover one
  before, one during and one after a thread's change of slot, or one that is zeroed and one
  that is not; the garbage that a block
  may hold (5) is not a value the counter can reach.
* Two areas of memory, one aligned to four words: a block that moves when it is resized,
  one whose guard is away from its beginning, and an area used again after a free.
* A zone's file that is there, changed and gone; a cache that is fresh or too old. Three
  seeds: one of the parent before the fork, one of the parent and one of the child after.
* Four counters of which one does not fit beside two others: objects that are full by
  number and by length.
* Two rows of two cells with five keys: splits that move some cells, all, or none; two of
  the keys share all halfwords that matter, so that no split can separate them.
* Four keys and counts up to three: a count alone and shared, climbing in place, joining,
  inserting, freeing, and a second page of counts.
* Strings of one and of nine characters: tokens of one and of two. Values of four tokens:
  a collection with a collection in it and something behind that. Texts of five lexemes
  after an empty beginning, or after the beginning of a range, have every production.
* Tokens of 4 characters with room for 2: strings that fill a token exactly, and by one
  less or more. Times next to every change: of years, leap seconds, rules on both
  hemispheres, the ends of the table and of `time_t`.

Symmetry is used over threads in runs that check no liveness. `CHECK_DEADLOCK FALSE` is
set where the system may stop: programs that end after a bounded number of calls, all
ensembles destroyed, a program that has aborted, a text of its full length. Deadlock
among the threads of an ensemble is `NoDeadlock`.

### Restrictions that a run makes

Where the code departs from what it promises only in one situation, the passing run
either leaves that situation out by a constant, or reaches it and the property excepts what
follows from it; section 6 tells how to bring it back. A fault of the code in such a
situation is not caught by the passing run, and the hazard's note says so.

Left out by a constant:

* `MaxTries = 1`: one pass of `sxe_thread_memory_free`, which is all that
  `SXE_THREAD_MEMORY_UNUSED` ever makes.
* `KvMaximum > 0`: the caller has set a maximum for kvdata.
* `MixLists = FALSE`: a key is always incremented under the same counts_list.
* Swaps of ensembles are made in one direction, so that `NoDeadlock` cannot see two that
  wait for each other.
* `Races = FALSE`: no level is changed while another call is in progress, and no two
  threads log for the first time from the same file at once.

Reached and excepted:

* `NothingSkipped` and `KeyFound` speak of walks during which nothing that was visited
  comes back.
* `Wrapped` in `TimeoutsSound`: a callback for an element that was stamped after the scan
  began may be called early, and the scan's assertion may then fail; nothing else may. For the
  same reason `LoopsEnd` speaks of scans that have not called one early (`InOrderlyScan`):
  callbacks that keep restamping their element in its state could keep a scan busy for ever.
* `collided`, `torn` and `clear` in `CountersExact`: two threads change the counts of the dead
  at once, slots are added between a load of `counter_state` and its store, a total is read
  while a thread starts or finishes or a counter is zeroed.
* `EnsembleSound` speaks of threads whose pointer is still in its slot.
* `raced` in `ZoneSound`, `overlap` in `IndexedOnce`, `changed` and `overflow` in
  `LogComplete`, `leftovers` in `RandomOnce`: what follows one named race is excepted.
* `KeyFound` is about keys that are not found; a found element whose key was replaced after
  the comparison is returned all the same.
* `FoundAsAsked` does not ask for names that were copied out of an indexed object (`Linked`).
* `ReadsBack` compares with the value rounded to 16 digits (`Rounded`), and with `OPTIMIZE`
  speaks of arrays without collections in them.
* `CopiesFreed` excepts what elements without the flag ALLOCED own when a copy fails.

### Fairness

Each is the fairness of one component's own thread; `MCThreads!MCSpec` joins them.

* A thread inside a call on a pool goes on (it spins, yields and never blocks). Nothing
  is assumed of the lock's owner: it may die.
* The scan for timeouts is a loop of its own thread, callbacks return.
* The main thread in `sxe_thread_memory_free` is scheduled again. Nothing is assumed of
  the threads it races; they can delay it only by pushing, and each push uses an
  allocation.
* The thread of kit-graphitelog is scheduled again and wakes from its sleep; nothing is
  assumed of the one that sets options.

## 4. Proofs

All theorems hold for every value of the constants that the named assumptions allow.

**SxePoolProofs** (`PoolAssumption`, `ThreadAssumption`, `BoundAssumption`).
`PoolTyped`, `PoolMutualExclusion`, `PoolConserved`, `PoolOldestFirst`,
`PoolImplementsSpec`.

`MutualExclusion` is not inductive: the operator may have read the lock word and be about
to swap it. The invariant adds `ForceSound`: as long as the operator holds a tid, the lock
word still is that tid and its thread is not inside an operation. That rests on
`FailToLock`: a new thread with the dead owner's tid cannot get the lock, since a lock
word that is its own tid counts as a failure. `Conserved` and `OldestFirst` need each
other (a queue in strict order of age holds nothing twice, so that removing the first
occurrence removes the element) and `FlightSound`: elements in the hands of a thread are
those of the one thread that has the lock. The refinement is proved step by step: the push
is the atomic move of `SxePoolSpec`, everything else stutters or forgets an element that a
dead thread had in its hands, with its old stamp or the new one. It needs `PushSound`: the
element a thread is about to push is not younger than those left in its state if the
oldest was asked for, and goes back to its own state if it is touched.

**SxeHashProofs** (`PoolAssumption`; for the hash table `HashAssumption`, a conjunct of
`HashInit`). `WalkersGoForward`, `WalkersSkipNothing` and, for lookups, `LookupsFind`. All
that a walker remembers (its node, the node before, the stamp of its node when it got
there) may be out of date at its next step. `WalkPlace` says what is true all the same: no
element now in the state has the remembered stamp but the node itself, and none that is
younger than the node before is older than that stamp. From it each of the three ways to
go on (`DestinationAhead`) leads to the first element that is younger than the stamp.
`WalkMemory` holds until something that was visited comes back: what is not younger than
the stamp was visited. A lookup adds that elements in the table are in the bucket of their
key and that an element being filled in is not in the table, so that what was there from
the beginning keeps its key and its bucket, and is found by the comparison that follows its
visit.

**SxePoolTimeoutsProofs** (`TimeoutsAssumption`). `ScansSound` and `ScansComplete`, for any
pools, timeouts (of state 0 too) and callbacks that update their own element, to whatever
state: a callback that is called before its time is called for an element that was stamped
after the scan began, and the scan's assertion fails for no other; and no element of any
listed pool is overdue when the scan returns, whatever was restamped. The invariant: the
queues of every pool are disjoint, hold nothing twice and are ordered by stamp (`Lists`); the
element whose callback ran last has another stamp now, unless it wrapped (`Place`); behind the
scan nothing is overdue (`ScanSound`), for what comes there is stamped now, and now is not
before the scan began. All of it also when callbacks create or delete pools. That an
unsigned difference below the timeout is a real one (`ReachedMeans`) needs only that timeouts
and times are below `TimeMod`.

**SxeListProofs** (`ListAssumption`). `ListTyped`, `ListRingsClosed`, `ListIdsAgree`,
`ListLengthRight`, `ListImplementsSpec`. Closed rings and agreeing ids are inductive
together: pop and shift find the object by a pointer, and only the ids say that it is on
this list. Insertion at either end is one lemma with the place as its parameter. Length is
the cardinality of the set of nodes with the list's id that are linked. For the refinement
the invariant gives each list a sequence of objects such that the pointers lead from the
sentinel through it and back (`IsRing`). `Contents`, a recursive function of the pointers,
is that sequence, and no longer than there are objects: a least place where the two differ
would have one before it. Push and unshift then are one insertion at a place
(`InsertRing`), pop, shift and remove one cut (`CutRing`), and the rings of other lists
have no node that is written to.

**SxeCdbProofs, the sheets** (`CdbAssumption`, `HkvAssumption`). `SheetsTyped`, `SheetsValid`,
`HeadersRoundTrip`, `UidsStable`, `KeysFound`. `SheetsValid` is what
`sxe_cdb_instance_debug_validate` tests in debug builds: a split must move exactly the
cells whose index now names the new sheet. Types and validity are inductive together.
`HeadersRoundTrip` holds for any widths that are multiples of four: the largest length
accepted for a field fits the field, and the first byte tells the four kinds apart.
`UidsStable` and `KeysFound` have the hypothesis `NoWrap`: the caller has set a maximum for
kvdata, and it is so far below the range of `uint32_t` that a growth by two pages does not
wrap. Otherwise they are false (run `SxeCdbSheets_wrap`). They add to the invariant that
hkvs lie one behind the other below `kvdata_used` (`LaidOut`), that every cell in use has a
UID and no two UIDs lead to the same hkv (`OneUidEach`), and that the cell of a UID is where
its key's hash leads to, with its hkv intact (`Stored`).

**SxeCdbProofs, the counters** (`CountsAssumption`). `CountersSorted` and `WalksComplete`, for any
keys, counts_lists and sizes of a page, if no key is incremented on two lists (`~ MixLists`;
otherwise they are false, section 6). `CountsSound` follows the links with `Reach`, which says
nothing of what one increment does to them: it takes a key out of the chain of one count and
puts it into another's, with the count inserted, raised or given back on the way. So the invariant
(`Good`) says that there is an order: which list every count in use is on (`own`), a rank
of every key in its chain (`rk`), and the free counts in the order they are given out
(`F`); next and last are the neighbours in that order, lo and hi its ends (`Shape`). An
increment is a taking out and a putting in of that order (`TakenOut`, `PutIn`), or a rise in
place that passes nobody, and each half keeps all but the key that is on its way (`GoodBut`).
What `Reach` gives then follows by its least counterexample, and that it comes to an end by
the pigeonhole principle. A walk has seen exactly the keys that come before its place, in
their order (`WalkInv`), so that none are left when it has no place any more.

**SxeCdbProofs, the ensembles** (`EnsembleAssumption`, a conjunct of `Init`).
`EnsemblesSound`, if all ensembles are locked ones (the others are the caller's to
protect): no two threads work on one instance at a time, nor on a destroyed one, while
their pointers are in their slots; swaps and reboots neither lose an instance nor
duplicate one; for any number of ensembles, slots and threads, and with swaps in both
directions. The invariant says for every lock where in its call its owner is (`Locks`),
and that the slots, each seen as it will be when a swap that is half done is over, hold
every instance once (`ViewSound`). Absence of deadlock is a matter of ENABLED and stays
with TLC.

**KitProofs, the time zones** (`ZoneAssumption`, a conjunct of `ZoneInit`).
`TimezonesSound`, for any number of threads: no thread has data that were freed, none are
lost, and the data are those of the file as it was last looked at, but for what follows
the one race that `raced` names. While there was none, `Calm` says which of the two locks
protects each member.

**KitProofs, the counters** (`CountersAssumption`). `CountersAreExact`, for any number of
threads, static slots and slots added, with every unlocked load and store a step.
`CountersExact` speaks of the moments when nobody is on the way; in between, a block holds
garbage (a thread has the slot and has not cleared it yet) or what the dead threads' block
already has. `Credit` is what a slot counts for at each moment, and `AllCounted` that the
credits, the dead and the shared together are all increments made. That rests on who owns
what: slots (`SlotsOwned`) and the word that is being added to the dead (`DeadOwned`). Both hold
until two threads have the dead in their hands at once, or the array of states is replaced
under a thread that has loaded it, and `Spoiled` then stays true: the theorem says that these
two meetings are the only ones after which a total can be wrong for good. A total that is
being summed up lies between what there was when it was begun and what there is now, split at
the slot it has reached (`ReadSound`), if nobody was starting or finishing when it was begun.

**KitProofs, the random numbers** (`RandomAssumption`). `RandomGivenOnce`, for any number of
processes, sizes of the buffer and widths of an integer. The property looks back; the invariant
looks ahead: what a process can still hand out is of a seed nobody else has (`SeedsOwned`)
and was not handed out (`AheadNew`), and what is in two hands is what a fork has left there
(`HandsLeft`). That `kit_arc4random_uniform` is uniform is a bijection between the accepted
numbers of a remainder and the quotients.

**KitProofs, memory** (`AllocAssumption`, a conjunct of `AllocInit`). `AllocationsSound`, for any
slots, flags, mistakes of the caller and sequence of calls, if the sizes asked for leave room
for the guards (`SizesFit`; `kit_memory_size` adds the guards without looking for overflow, so
that a block of nearly `SIZE_MAX` would be shorter than asked for). The invariant says what
the words of each block hold: of one that is held and was not overrun, its size, its
address, the copy of it before an aligned pointer and the rear stamp; of one that was
overrun, where (`HeldOK`); of one that was freed, the mark over its fore guard (`FreedOK`).
`kit_memory_check` reads no other word (`CheckHeld`, `CheckFreed`), and what is written into one
slot leaves every other block as it was (`HeldElsewhere`). That the checks can be believed also
needs that their flag cannot change once there is a block, which `Tallied` has from the
counts.

**SxeThreadMemoryProofs** (`ThreadMemoryAssumption`). `KeepersAreNotFreed` and
`TrackersNotForgotten`, if a call makes one pass (`OnePass`; the run `SxeThreadMemory_keepers`
shows the second). The invariant names three sets: what is on the shared list, what is
still to be looked at and what is kept, and says which of them each pointer leads to in each
step of the function (`Lists`); what a thread is pushing is its own (`Pushing`). The keepers end
at the last one whatever its next is, since that already is the shared list by the time of
the swap. A list is a numbering of its cells from its end, so that a push adds a number and
renumbers nothing.

**SxeJitsonIndexProofs** (`IndexAssumption`, a conjunct of `IndexInit`). `JitsonIndexedOnce`, for
any number of threads and values: every index belongs to a value or to the one thread that
is building it, so that none is left over; a value that is flagged has a complete and right
index; what is looked up is right, and so are sizes, but for those read in the race that
`overlap` names.

Only model checked, and why:

* Liveness (`LoopsEnd`) and `NoDeadlock`, which is about ENABLED.
* `QueuesAsSequences`: the loops of `SLIST_REMOVE` and of `FOREACH_SAFE` are recursive
  functions of the memory they change, and what a filtered sequence holds is induction
  over data.
* `LogsSound`: lines and records put together by folds over sequences.
* The parser and the operators of jitson, containers, zones of tzcode, texts, numbers and
  tensors: what recursive definitions compute.

## 5. Plan

Modelling has reached the parts that carry the library's own logic; what is left is
listed under "Not modelled". What is left to prove is in the list above: most of all the parts
of `LogsSound` that hold in spite of the races, and `QueuesAsSequences` for queues whose memory is
given as a sequence, as the refinement of sxe-list does it.

### Not modelled

* Wrappers of system calls without state of their own: sxe-mmap, sxe-thread, kit-udp,
  kit-fsevent, kit-infolog, reads of the clock (kit-time, kit-timestamp).
* Digests, ciphers and hash functions: arithmetic on bytes with no property TLC could
  check; where the model needs one it is a constant function, or external.
* Floating point in kit-tensor: values are integers, batch normalisation a tuple.
* `zic`, `zdump`, `date`, `strftime`, `asctime`, `difftime` of tzcode: vendored command
  line programs and formatting. Of `localtime.c`: the bytes of a file's header, the lock
  around the shared zone, and the interfaces for leap second correction and fixed
  offsets (`offtime`, `timeoff`, `timelocal`, `timegm`, `time2posix`, `posix2time`).
* Short conversions without state (kit-basename, kit-bits, kit-bool, kit-deviceid,
  kit-guid, kit-hostname, sxe-util) and support for tests (kit-mock, sxe-test).
* Of modelled components: deaths inside a list operation of a pool, and two operators that
  force its lock at once; handlers that combine counters; relocation of pools and pools
  without a lock; `sxe_thread_realloc`; registration and text of counters, and their
  decrements; the statistics of kit-alloc; the copies of cdb instances to thread local
  buffers; error texts of jitson and the layout of its JSON; the prefix of log lines,
  syslog, hooks and the traceback of assertions; everything that is compiled for Windows
  only.
* Strings with a NUL in them, in jitson and in logs.

## 6. Where the code departs from its comments

Six departures are runs of their own:

* `SxeThreadMemory_keepers`: `sxe-thread-memory.c` resets neither `keepers` ("List of
  tackers not freed", line 109) nor `last` between the passes made for
  `SXE_THREAD_MEMORY_ALL` (line 147). A tracker kept in the first pass whose thread has
  exited is freed in the second, is still on `keepers`, and is put back on the list.
* `SxeCdbSheets_wrap`: the test at `sxe-cdb.c:411` ("avoiding 4GB kvdata wrap", 412) adds a
  `uint32_t` and a `size_t` and never sees an overflow; the `uint32_t` it is stored to (419)
  wraps. The put at which it does still works, since `mremap` was given the full size; the
  next growth tells `mremap` the wrapped one as the old size (417), so that all that was
  mapped beyond it is no longer there, and writes the new hkv behind the end, although a UID
  "will always reference the hkv" (`sxe-cdb.h:108`).
* `SxeJitson_nested`: the parser compares the size of an element with that of the token
  loaded last (`sxe-jitson-stack.c:507` and 526), which lies inside the element before if
  that is a collection. `[[2],6]` is flagged as having "uniformly sized elements"
  (`sxe-jitson.h:56`), and its elements are looked for in the wrong places.
* `KitTimezone`: `kit_timezone_load` writes a zone under `cache_lock`,
  `kit_timezone_lock` reloads it under the zone's own lock (137 to 147): "a thread-safe
  cache" (24) loses data or keeps stale ones.
* `SxeHash`: `sxe_hash_look` takes `SXE_POOL_LOCK_NOT_TAKEN` for an index (160); it promises
  an "Index of the element found or SXE_HASH_KEY_NOT_FOUND" (145).
* `SxeLog`: a control is linked at `sxe-log.c:524` and its `next` set at 526; a change of the
  level in between aborts where "Can't happen" is written (388).

These show when a constant or an exception of a passing run is changed:

* `MaxTries = 3`, `ExitDuringFree = FALSE`, `Modes = {"ALL"}`, two trackers:
  `NoneForgotten` fails. The keepers of the first pass are linked behind themselves, and
  the number returned (documented at line 99) is wrong.
* In `TimeoutsSound`, without `Wrapped` (`NeverAborts` is the assertion's own words, "callback
  failed to update state"): a callback that leaves its element in its state, or sends it to a
  later one, stamps it later than `time_now`; the unsigned difference at `sxe-pool.c:364` is
  then larger than any timeout and the callback is called at once. If the clock has not moved
  on since, the element is as it was and the assertion (360) fails. The repository's test
  restamps in a state 0 with a timeout (`test-sxe-pool.c:93`, 135).
* `ThreadSafeCounters` in place of `CountersExact` ("fast thread safe counters",
  `kit-counters.c:25`): two finished threads count in `dead_thread_counters` (351) without an
  atomic instruction, or one counts while another is combined; a slot is in use before its
  block is cleared (462), and still in use after its block was merged (349), so that a total
  read then counts garbage or counts twice; a thread that starts or finishes stores its state
  in the array that was just replaced (339 and 530 against 503-510), and its slot is not in use
  though it counts, or stays in use for ever.
* `MixLists = TRUE`: `CountsSound` fails. `sxe_cdb_instance_inc` changes the ends of the
  list its argument names (863) and the links of the list the key is on.
* In `NothingSkipped`, without `~ returned`: a walker whose node was touched goes on from
  the tail and skips the elements in between, although "the state queue is rewalked"
  (`sxe-pool-walker.c:62`; the comments at 83 and 92 say "TODO: Check for touching"). In
  `KeyFound` the same hides a key of a hash table.
* In `Working` of `SxeCdbEnsemble`, without the test of the pointer: `EnsembleSound` fails.
  Operations of an ensemble read `cdb_instances[instance]` before they take its lock
  (`sxe-cdb.c:1158` and 1160), so that a swap ("in a locked way", 1361) leaves them with the
  old instance. With swaps in both directions `NoDeadlock` fails.
* `Races = TRUE` in `Threads`: `LogsSound` fails. Besides the abort above, two threads that
  first log from one file both link its control, which cuts the list or closes it to a
  cycle; a level that was looked up before a change is stored after it; the era is
  incremented without an atomic instruction (419).
* In `IndexedOnce`, without `overlap`: `sxe_jitson_size_indexed` reads the flag and the word
  without the lock (`sxe-jitson-type.c:422`), while indexing stores the word and then the
  flag: a pointer may be taken for the size.
* In `LogComplete`, without `changed`: options changed within a round drop counters
  (`kit-graphitelog.c:74`); without `overflow`: a counter that does not fit ends the round,
  and more is written than the buffer holds ("Not possible to overflow with current
  stats", 61).
* In `RandomOnce`, without `leftovers`: the spare bytes of `kit_random8` and `kit_random16`
  (`kit-random.c:49`, 64) are not reset at a fork.

The models follow the code also in these, which the properties are worded around:

* `sxe_pool_get_oldest_element_index` returns `SXE_POOL_NO_INDEX` "if none"
  (`sxe-pool.c:578`), and also when the lock was not taken (591).
* The unlock of a raw access to an ensemble computes the instance from the thread's
  current hash (`sxe-cdb.c:1175`); keys that no split can separate use up sheets (385); a
  position equal to `counts_size` passes the range check of a walk (920).
* jitson: a lookup says "Only time it's safe to use vol_memb->len" (`sxe-jitson.c:201`),
  and hashes a link where a name was copied from an indexed object
  (`sxe-jitson-stack.c:1132`), so that the name is not found; numbers are written with 16
  digits under a comment that says 17 keep the precision (`sxe-jitson-type.c:241-250`);
  the builder leaves an array of one element ordered, the parser does not
  (`sxe-jitson-stack.c:543`); an intersection that fails does not return the borrowed
  stack (`sxe-jitson-intersect.c:193`), and that of ordered arrays of different types
  fails; a copy that fails ("On error, free any allocations done",
  `sxe-jitson-type.c:520`) leaks what elements without the flag ALLOCED own, and cannot
  report an index that was refused: the NULL of `sxe_jitson_array_get_element` is passed
  on (517 to 519); a failed `add_string` in an object leaves the name of the member, a
  failed `open_collection` the parent's length.
* sxe-dict does not test the allocation of a copied key (`sxe-dict.c:52`, 56), and its load is
  computed in 32 bits (251). kit-sortedarray adds the key's offset twice when an intersection
  recurses (`kit-sortedarray.c:275`): `ContainersAsSpecified` compares results of elements
  whose key is at offset 0, and of others as far as no key was misread.
* tzcode: `localtime_r` keeps the zone that was set before, whatever `TZ` is now; the
  footer of a file whose last transition is not one of the rule's is repeated for 400
  years only.
* kit-alloc: failed allocations are counted; resizing an aligned block may lose its
  alignment, on which a later check aborts.
* kit-base-encode: the table for base 16 takes `P` for 15 (`kit-base-encode.c:54`).
* kit-strto: `kit_strtod(".0")` is an error. kit-safe-rw: a write of 0 bytes looks at an
  old `errno` and leaves or goes on by that (`kit-safe-rw.c:42`); a read gives up at `EAGAIN`
  (72), and an error of a read forgets the bytes read before.
* kit-tensor: the third dimension in `DIMS:` is never read (`kit-tensor.c:46`), and some
  operations change dimensions but not the strides.
* sxe-log: a decrease of the level leaves indents as they are (445 to 459); backslashes are
  escaped only behind the first unprintable character (333 to 341); `sxe_strn_encode`
  returns NULL when the encoding just fits (`sxe-str-encode.c:53`); a dump of a multiple of
  16 bytes has an empty row.
