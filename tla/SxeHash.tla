------------------------------- MODULE SxeHash -------------------------------
(***************************************************************************)
(* The hash table of lib-sxe-hash: a pool whose states are the unused      *)
(* elements, the new ones and one bucket per element.  A lookup is a       *)
(* walker over a bucket (SxePoolWalker); it compares the key after the     *)
(* step has given the pool's lock back, while other threads take, fill,    *)
(* add and give elements.  Any call may fail to get the lock.              *)
(***************************************************************************)
EXTENDS SxePoolWalker

CONSTANTS
    Writer,
    Key,
    HashOf      \* HashOf[k]: what hash_key computes for the key k

Unused   == 0
New      == 1
Reserved == 2

HashAssumption ==
    /\ States = Number + Reserved
    /\ Key # {} /\ NoIndex \notin Key /\ HashOf \in [Key -> Nat]

VARIABLES
    key,        \* key[e]: the key stored in element e
    held,       \* what a writer got from sxe_hash_take
    giving,     \* the element a writer gives and the state it has read
    looking,    \* the key being looked for, or NoIndex
    cand,       \* the id to compare, or NoIndex when the next step is due
    found,      \* what the last lookup returned
    present     \* elements that have been in the table with that key all along

lookVars == <<looking, cand, found>>
hashVars == <<key, held, giving, lookVars, present>>

Bucket(k) == (HashOf[k] % Number) + Reserved

HashInit ==
    /\ Init /\ HashAssumption
    /\ key = [e \in Element |-> CHOOSE k \in Key : TRUE]
    /\ held = [w \in Writer |-> NoIndex]
    /\ giving = [w \in Writer |-> <<NoIndex, 0>>]
    /\ looking = NoIndex /\ cand = NoIndex /\ found = NoIndex /\ present = {}

(* The pool's move; an element that leaves the table is not there all along. *)
Move(e, new) ==
    /\ MoveElement(e, new)
    /\ present' = present \ {e}
-----------------------------------------------------------------------------
(* SXE_HASH_FULL and a lock not taken are returned as they are, and the caller may
   try again. *)
sxe_hash_take(w) ==
    /\ held[w] \notin Element
    /\ \/ /\ PeekHead(Unused) # NoIndex
          /\ Move(PeekHead(Unused), New)
          /\ held' = [held EXCEPT ![w] = PeekHead(Unused)]
       \/ /\ held' = [held EXCEPT ![w] = LockNotTaken]
          /\ UNCHANGED <<vars, present>>
    /\ UNCHANGED <<key, giving, lookVars>>

(* The caller, or sxe_hash_set, fills the element in. *)
Fill(w, k) ==
    /\ held[w] \in Element
    /\ key' = [key EXCEPT ![held[w]] = k]
    /\ UNCHANGED <<vars, held, giving, lookVars, present>>

(* Mutant of sxe_hash_add: the bucket is computed modulo one less. *)
sxe_hash_add_modulo(w) ==
    /\ held[w] \in Element
    /\ \/ Move(held[w], (HashOf[key[held[w]]] % (Number - 1)) + Reserved)
       \/ UNCHANGED <<vars, present>>
    /\ held' = [held EXCEPT ![w] = NoIndex]
    /\ UNCHANGED <<key, giving, lookVars>>

(* Without the lock nothing is added, and nobody is told. *)
sxe_hash_add(w) ==
    /\ held[w] \in Element
    /\ \/ Move(held[w], Bucket(key[held[w]]))
       \/ UNCHANGED <<vars, present>>
    /\ held' = [held EXCEPT ![w] = NoIndex]
    /\ UNCHANGED <<key, giving, lookVars>>

(* sxe_hash_give: the state is read, then the element moved if it is still in it. *)
GiveRead(w, e) ==
    /\ giving[w][1] = NoIndex /\ stateOf[e] >= Reserved
    /\ giving' = [giving EXCEPT ![w] = <<e, stateOf[e]>>]
    /\ UNCHANGED <<vars, key, held, lookVars, present>>

sxe_hash_give(w) ==
    /\ giving[w][1] # NoIndex
    /\ \/ stateOf[giving[w][1]] = giving[w][2] /\ Move(giving[w][1], Unused)
       \/ UNCHANGED <<vars, present>>
    /\ giving' = [giving EXCEPT ![w] = <<NoIndex, 0>>]
    /\ UNCHANGED <<key, held, lookVars>>
-----------------------------------------------------------------------------
(* sxe_hash_look *)

LookStart(k) ==
    /\ looking = NoIndex
    /\ WalkerConstruct(Bucket(k))
    /\ looking' = k /\ cand' = NoIndex /\ found' = NoIndex
    /\ present' = {e \in Element : stateOf[e] >= Reserved /\ key[e] = k}
    /\ UNCHANGED <<key, held, giving>>

(* The id of the next element in the bucket, of the end, or of a lock not taken. *)
LookStep ==
    /\ looking # NoIndex /\ cand = NoIndex
    /\ \/ /\ WalkerStep
          /\ cand' = result'
          /\ looking' = IF result' = NoIndex THEN NoIndex ELSE looking
       \/ cand' = LockNotTaken /\ UNCHANGED <<vars, looking>>
    /\ UNCHANGED <<key, held, giving, found, present>>

(* memcmp with the element's key, or with what lies where there is no element. *)
LookCompare ==
    /\ looking # NoIndex /\ cand # NoIndex
    /\ \E equal \in BOOLEAN :
          /\ cand \in Element => (equal <=> key[cand] = looking)
          /\ found'   = IF equal THEN cand ELSE NoIndex
          /\ looking' = IF equal THEN NoIndex ELSE looking
          /\ cand'    = IF equal THEN cand ELSE NoIndex
    /\ UNCHANGED <<vars, key, held, giving, present>>

(* With nobody at work, all elements become unused again. *)
sxe_hash_reconstruct ==
    /\ looking = NoIndex /\ \A w \in Writer : held[w] \notin Element /\ giving[w][1] = NoIndex
    /\ queue'     = [s \in State |-> IF s = 0 THEN [i \in 1 .. Number |-> Number - i] ELSE <<>>]
    /\ stateOf'   = [e \in Element |-> 0]
    /\ last'      = [e \in Element |-> Number - e]
    /\ nextCount' = Number
    /\ present' = {}
    /\ UNCHANGED <<walkVars, key, held, giving, lookVars>>

HashNext ==
    \/ \E w \in Writer :
          \/ sxe_hash_take(w) \/ sxe_hash_add(w) \/ sxe_hash_give(w)
          \/ \E k \in Key : Fill(w, k)
          \/ \E e \in Element : GiveRead(w, e)
    \/ \E k \in Key : LookStart(k)
    \/ LookStep \/ LookCompare \/ sxe_hash_reconstruct

HashSpec == HashInit /\ [][HashNext]_<<vars, hashVars>>
-----------------------------------------------------------------------------
(* A key that is in the table from the beginning of a lookup to its end is found,
   whatever is taken, added and given meanwhile, and however often the lock is not
   taken.  Only another element of the bucket that was passed and is given, taken
   and added to it again can hide it: the walk goes on from its new place. *)
KeyFound ==
    [][LookStep /\ looking' = NoIndex /\ ~ returned => present = {}]_<<vars, hashVars>>

(* "@return Index of the element found or SXE_HASH_KEY_NOT_FOUND" *)
IndexOrNotFound == found \in Element \union {NoIndex}
=============================================================================
