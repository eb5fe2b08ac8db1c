--------------------------- MODULE SxeJitsonIndex ----------------------------
(***************************************************************************)
(* Threads that share jitson values and look into them.  A collection is   *)
(* indexed by the first thread that asks for an element or a member        *)
(* (sxe_jitson_array_get_element, sxe_jitson_object_get_member): the word  *)
(* that held its size then points to the index, which has the size as its  *)
(* last entry.  Readers look at the flag and at the word without the lock. *)
(* The first thing in a collection may be a collection, which others ask   *)
(* about too.                                                              *)
(***************************************************************************)
EXTENDS Integers, Sequences

CONSTANTS
    Reader,
    NoReader,
    Size,       \* Size[v]: how many tokens the value v takes, what is in it too
    Inner,      \* Inner[v]: the collection that is the first thing in v, or 0
    MaxAllocs,  \* bound on the allocations
    MaxGets     \* bound on the calls

Value == DOMAIN Size

(* A value takes at least the token it starts with; what lies in it is a value too. *)
IndexAssumption ==
    /\ NoReader \notin Reader
    /\ Size \in Seq(Nat \ {0}) /\ Size # <<>>
    /\ \A v \in Value : Inner[v] \in Value \union {0}

VARIABLES
    indexed,        \* SXE_JITSON_TYPE_INDEXED of each value
    word,           \* integer or index of each value: <<"size", n>> or <<"index", a>>
    index,          \* index[a]: allocation a: the offset of the second thing, and the size
    type_indexing,  \* the mutex: its owner, or NoReader
    ipc,            \* where each thread is
    of,             \* the value it asks about
    new,            \* the index it has allocated
    answer,         \* the size, element or member that it was given last
    overlap,        \* a size was asked for while the index of the value was being stored
    gets            \* how many calls were made

indexVars == <<indexed, word, index, type_indexing, ipc, of, new, answer, overlap, gets>>

IndexInit ==
    /\ IndexAssumption
    /\ indexed = [v \in Value |-> FALSE]
    /\ word = [v \in Value |-> <<"size", Size[v]>>]
    /\ index = <<>>
    /\ type_indexing = NoReader
    /\ ipc = [t \in Reader |-> "idle"] /\ of = [t \in Reader |-> 1] /\ new = [t \in Reader |-> 0]
    /\ answer = [t \in Reader |-> <<"none">>]
    /\ overlap = FALSE /\ gets = 0

Goto(t, l) == ipc' = [ipc EXCEPT ![t] = l]

NoEntries == <<0, 0>>

(* What sxe_jitson_size_indexed makes of the word of a value when its flag is set, and
   when it is not: a word that is not what the flag says is taken for it. *)
Entry(w)   == IF w[1] = "index" THEN index[w[2]][2] ELSE -1
Integer(w) == IF w[1] = "size" THEN w[2] ELSE -1

(* sxe_jitson_size_indexed: the flag is read, and then the word as the flag says. *)
AskSize(t, v) ==
    /\ ipc[t] = "idle" /\ gets < MaxGets /\ gets' = gets + 1
    /\ of' = [of EXCEPT ![t] = v]
    /\ Goto(t, IF indexed[v] THEN "entry" ELSE "integer")
    /\ overlap' = (overlap \/ \E u \in Reader : ipc[u] = "flag" /\ of[u] = v)
    /\ UNCHANGED <<indexed, word, index, type_indexing, new, answer>>

ReadSize(t) ==
    LET w == word[of[t]] IN
    /\ ipc[t] \in {"entry", "integer"}
    /\ answer' = [answer EXCEPT ![t] = <<"size", of[t], IF ipc[t] = "entry" THEN Entry(w) ELSE Integer(w)>>]
    /\ Goto(t, "idle")
    /\ UNCHANGED <<indexed, word, index, type_indexing, of, new, overlap, gets>>

(* sxe_jitson_array_get_element and sxe_jitson_object_get_member: "If not already, index
   thread safely" *)
Get(t, v) ==
    /\ ipc[t] = "idle" /\ gets < MaxGets /\ gets' = gets + 1
    /\ of' = [of EXCEPT ![t] = v]
    /\ Goto(t, IF indexed[v] THEN "use" ELSE "lock")
    /\ UNCHANGED <<indexed, word, index, type_indexing, new, answer, overlap>>

LockIndexing(t) ==
    /\ ipc[t] = "lock" /\ type_indexing = NoReader
    /\ type_indexing' = t
    /\ Goto(t, "check")
    /\ UNCHANGED <<indexed, word, index, of, new, answer, overlap, gets>>

(* Mutant of Recheck: the flag that was read before the lock was taken is believed. *)
BelieveIt(t, granted) ==
    /\ ipc[t] = "check" /\ Len(index) < MaxAllocs
    /\ granted
    /\ index' = Append(index, NoEntries) /\ new' = [new EXCEPT ![t] = Len(index) + 1] /\ Goto(t, "fill")
    /\ UNCHANGED <<indexed, word, type_indexing, of, answer, overlap, gets>>

(* "Recheck under the lock in case of a race"; an index that cannot be allocated is an
   error *)
Recheck(t, granted) ==
    LET race == indexed[of[t]] IN
    /\ ipc[t] = "check" /\ (granted /\ ~race => Len(index) < MaxAllocs)
    /\ IF race THEN Goto(t, "unlock") /\ UNCHANGED <<index, new, answer>>
       ELSE IF granted
       THEN index' = Append(index, NoEntries) /\ new' = [new EXCEPT ![t] = Len(index) + 1] /\ Goto(t, "fill") /\ UNCHANGED answer
       ELSE answer' = [answer EXCEPT ![t] = <<"none">>] /\ Goto(t, "fail") /\ UNCHANGED <<index, new>>
    /\ UNCHANGED <<indexed, word, type_indexing, of, overlap, gets>>

(* The sizes of what lies in the value are found, and its own is stored at the end:
   "Must save vol_jit->integer before overwriting it". *)
FillIndex(t) ==
    LET in == Inner[of[t]]
        past == IF in = 0 THEN 1 ELSE IF indexed[in] THEN Entry(word[in]) ELSE Integer(word[in])
    IN
    /\ ipc[t] = "fill"
    /\ index' = [index EXCEPT ![new[t]] = <<1 + past, Integer(word[of[t]])>>]
    /\ Goto(t, "store")
    /\ UNCHANGED <<indexed, word, type_indexing, of, new, answer, overlap, gets>>

StoreIndex(t) ==
    /\ ipc[t] = "store"
    /\ word' = [word EXCEPT ![of[t]] = <<"index", new[t]>>]
    /\ overlap' = (overlap \/ \E u \in Reader : ipc[u] = "integer" /\ of[u] = of[t])
    /\ Goto(t, "flag")
    /\ UNCHANGED <<indexed, index, type_indexing, of, new, answer, gets>>

(* "Must set the SXE_JITSON_TYPE_INDEXED flag last or another thread may use the index
   before it's there." *)
SetFlag(t) ==
    /\ ipc[t] = "flag"
    /\ indexed' = [indexed EXCEPT ![of[t]] = TRUE]
    /\ Goto(t, "unlock")
    /\ UNCHANGED <<word, index, type_indexing, of, new, answer, overlap, gets>>

UnlockIndexing(t) ==
    /\ ipc[t] \in {"unlock", "fail"}
    /\ type_indexing' = NoReader
    /\ Goto(t, IF ipc[t] = "unlock" THEN "use" ELSE "idle")
    /\ UNCHANGED <<indexed, word, index, of, new, answer, overlap, gets>>

(* The element or member is found through the index. *)
UseIndex(t) ==
    LET w == word[of[t]] IN
    /\ ipc[t] = "use"
    /\ answer' = [answer EXCEPT ![t] = <<"element", of[t], IF w[1] = "index" THEN index[w[2]][1] ELSE -1>>]
    /\ Goto(t, "idle")
    /\ UNCHANGED <<indexed, word, index, type_indexing, of, new, overlap, gets>>

IndexNext ==
    \E t \in Reader :
        \/ \E v \in Value : AskSize(t, v) \/ Get(t, v)
        \/ ReadSize(t) \/ LockIndexing(t)
        \/ \E granted \in BOOLEAN : Recheck(t, granted)
        \/ FillIndex(t) \/ StoreIndex(t) \/ SetFlag(t) \/ UnlockIndexing(t) \/ UseIndex(t)

IndexSpec == IndexInit /\ [][IndexNext]_indexVars
-----------------------------------------------------------------------------
Past(v) == 1 + (IF Inner[v] = 0 THEN 1 ELSE Size[Inner[v]])

(* Each value gets one index, however many threads look into it at once, and no index
   is left over; whoever uses an index finds it complete and right; and a size that is
   read is the size, unless it was asked for while the index was being stored: the flag
   and the word are two reads, of which the word may come after that. *)
IndexedOnce ==
    /\ \A a \in DOMAIN index :
          \/ \E v \in Value : word[v] = <<"index", a>>
          \/ \E t \in Reader : type_indexing = t /\ new[t] = a /\ ipc[t] \in {"fill", "store"}
    /\ \A v \in Value : indexed[v] => word[v][1] = "index" /\ index[word[v][2]] = <<Past(v), Size[v]>>
    /\ \A t \in Reader : LET n == answer[t] IN
          /\ n[1] = "element" => n[3] = Past(n[2])
          /\ n[1] = "size" => overlap \/ n[3] = Size[n[2]]
=============================================================================
