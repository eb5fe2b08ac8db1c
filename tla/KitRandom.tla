------------------------------ MODULE KitRandom ------------------------------
(***************************************************************************)
(* The random numbers of lib-kit: kit-arc4random.c and, on top of it,      *)
(* kit-random.c, in a process that forks.  A byte of the keystream is      *)
(* named by the key it comes from and its place; a key by the seed it was  *)
(* read with and how often it was replaced since.                          *)
(***************************************************************************)
EXTENDS Integers, FiniteSets, Sequences, Functions

CONSTANTS
    Process,        \* 1 and its children
    UINTS,          \* how many numbers a uint32_t can be
    RSBUFSZ,        \* bytes of keystream in the buffer
    KEYIV,          \* KEYSZ + IVSZ, the bytes of them that become the next key
    WORD,           \* sizeof(uint32_t)
    RESEED,         \* the 1600000 bytes until the next seed is read
    Lengths,        \* what kit_arc4random_buf is asked for
    MaxSeeds,       \* bound on the seeds read
    MaxOut          \* bound on the bytes handed out

ASSUME RandomAssumption ==
    /\ 1 \in Process
    /\ {RSBUFSZ, KEYIV, RESEED} \subseteq Nat /\ {UINTS, WORD} \subseteq Nat \ {0}
    /\ KEYIV + WORD <= RSBUFSZ
    /\ Lengths \subseteq Nat

VARIABLES
    fd,             \* has kit_arc4random_init been called?
    rs,             \* rs[p]: the state of process p (its thread)
    alive, seeds,   \* the processes there are; the seeds read
    out, again,     \* the bytes handed out; those handed out once more
    leftovers       \* bytes both sides of a fork had in hand

randomVars == <<fd, rs, alive, seeds, out, again, leftovers>>

Zero == <<0, 0, 0>>
Zeros == [i \in 1 .. RSBUFSZ |-> Zero]

(* half, byte: what is left of the number kit_random16 and kit_random8 have drawn *)
RandomInit ==
    /\ fd = FALSE /\ alive = {1} /\ seeds = 0
    /\ rs = [p \in Process |-> [initialized |-> FALSE, key |-> <<0, 0>>, buf |-> Zeros, have |-> 0,
                                count |-> 0, half |-> <<>>, byte |-> <<>>]]
    /\ out = {} /\ again = {} /\ leftovers = {}
-----------------------------------------------------------------------------
(* The buffer is filled from the key, and its first bytes become the next key. *)
_rs_rekey(s) ==
    [s EXCEPT !.buf  = [i \in 1 .. RSBUFSZ |-> IF i <= KEYIV THEN Zero ELSE <<s.key[1], s.key[2], i>>],
              !.key  = <<s.key[1], s.key[2] + 1>>,
              !.have = RSBUFSZ - KEYIV]

(* The key is the seed just read, or that and the old one mixed: new in either case.
   kit_safe_read of a random device reads all it is asked for. *)
kit_arc4random_stir(s) ==
    [s EXCEPT !.key = <<seeds + 1, 0>>, !.initialized = TRUE, !.have = 0, !.buf = Zeros, !.count = RESEED]

Stirs(s, len) == s.count <= len \/ ~ s.initialized

_rs_stir_if_needed(s, len) ==
    IF Stirs(s, len) THEN kit_arc4random_stir(s) ELSE [s EXCEPT !.count = @ - len]

(* n bytes of the buffer, which are cleared. *)
Taken(s, n) == [i \in 1 .. n |-> s.buf[RSBUFSZ - s.have + i]]
Cleared(s, n) ==
    [s EXCEPT !.buf  = [i \in 1 .. RSBUFSZ |-> IF i - (RSBUFSZ - s.have) \in 1 .. n THEN Zero ELSE s.buf[i]],
              !.have = @ - n]

Replenished(s) == IF s.have = 0 THEN _rs_rekey(s) ELSE s

(* Byte by byte, as much as the buffer has before it is filled again. *)
BufBytes(s, n) ==
    LET after[i \in 0 .. n] ==
            IF i = 0 THEN [got |-> <<>>, s |-> Replenished(_rs_stir_if_needed(s, n))]
            ELSE LET r == after[i - 1] IN
                 [got |-> r.got \o Taken(r.s, 1), s |-> Replenished(Cleared(r.s, 1))]
    IN  after[n]

(* What is left in the buffer is lost if it is less than a word. *)
Word(s) ==
    LET t == _rs_stir_if_needed(s, WORD)
        u == IF t.have < WORD THEN _rs_rekey(t) ELSE t
    IN  [got |-> Taken(u, WORD), s |-> Cleared(u, WORD)]

(* Process p hands out these bytes and is in state s. *)
HandOut(p, bytes, s, stirred) ==
    /\ rs' = [rs EXCEPT ![p] = s]
    /\ seeds' = IF stirred THEN seeds + 1 ELSE seeds
    /\ out' = out \union Range(bytes)
    /\ seeds' <= MaxSeeds /\ Cardinality(out') <= MaxOut
    /\ again' = again \union (out \intersect Range(bytes))
                      \union {bytes[i] : i \in {j \in DOMAIN bytes : \E k \in 1 .. j - 1 : bytes[k] = bytes[j]}}
    /\ UNCHANGED <<fd, alive, leftovers>>

Ready(p) == fd /\ p \in alive

kit_arc4random_buf(p, n) ==
    /\ Ready(p)
    /\ LET r == BufBytes(rs[p], n) IN HandOut(p, r.got, r.s, Stirs(rs[p], n))

(* kit_arc4random, and kit_random32 *)
kit_arc4random(p) ==
    /\ Ready(p)
    /\ LET r == Word(rs[p]) IN HandOut(p, r.got, r.s, Stirs(rs[p], WORD))

(* The high half of a number first, the low one with the next call. *)
kit_random16(p) ==
    /\ Ready(p)
    /\ IF rs[p].half = <<>>
       THEN LET r == Word(rs[p]) IN
            HandOut(p, SubSeq(r.got, 1, WORD \div 2), [r.s EXCEPT !.half = SubSeq(r.got, WORD \div 2 + 1, WORD)],
                    Stirs(rs[p], WORD))
       ELSE HandOut(p, rs[p].half, [rs[p] EXCEPT !.half = <<>>], FALSE)

kit_random8(p) ==
    /\ Ready(p)
    /\ IF rs[p].byte = <<>>
       THEN LET r == Word(rs[p]) IN
            HandOut(p, <<r.got[1]>>, [r.s EXCEPT !.byte = Tail(r.got)], Stirs(rs[p], WORD))
       ELSE HandOut(p, <<rs[p].byte[1]>>, [rs[p] EXCEPT !.byte = Tail(@)], FALSE)

kit_arc4random_init ==
    /\ ~ fd /\ fd' = TRUE
    /\ UNCHANGED <<rs, alive, seeds, out, again, leftovers>>

(* Mutant of _rs_need_init: the child goes on with the parent's buffer. *)
_rs_keep(s) == s

(* The handler kit_arc4random_init has for the child of a fork. *)
_rs_need_init(s) == [s EXCEPT !.initialized = FALSE]

fork(p, child) ==
    /\ fd /\ p \in alive /\ child \notin alive
    /\ alive' = alive \union {child}
    /\ rs' = [rs EXCEPT ![child] = _rs_need_init(rs[p])]
    /\ leftovers' = leftovers \union Range(rs[p].half) \union Range(rs[p].byte)
    /\ UNCHANGED <<fd, seeds, out, again>>

RandomNext ==
    \/ kit_arc4random_init
    \/ \E p \in Process :
          \/ kit_arc4random(p) \/ kit_random16(p) \/ kit_random8(p)
          \/ \E n \in Lengths : kit_arc4random_buf(p, n)
          \/ \E c \in Process : fork(p, c)

RandomSpec == RandomInit /\ [][RandomNext]_randomVars
-----------------------------------------------------------------------------
(* kit_arc4random_uniform: from which r on one is accepted.  The unsigned
   - (int32_t)upper_bound is UINTS - upper_bound. *)
UniformMin(upper_bound) == (UINTS - upper_bound) % upper_bound

(* Every number below the bound is the result of as many of the accepted ones. *)
Uniform ==
    \A ub \in 2 .. UINTS - 1 : \A v \in 0 .. ub - 1 :
        Cardinality({r \in UniformMin(ub) .. UINTS - 1 : r % ub = v}) = UINTS \div ub

(* No byte of the keystream is handed out twice, in one process or in two, and none
   that was cleared - but for what kit_random8 and kit_random16 have left of a
   number when the process forks: parent and child both hand that out. *)
RandomOnce ==
    /\ again \subseteq leftovers
    /\ Zero \notin out
    /\ Uniform
=============================================================================
