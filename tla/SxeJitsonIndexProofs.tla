------------------------ MODULE SxeJitsonIndexProofs -------------------------
(***************************************************************************)
(* The double-checked locking of sxe_jitson_array_get_element and          *)
(* sxe_jitson_object_get_member is right for any number of threads and     *)
(* values.                                                                 *)
(*                                                                         *)
(* IndexedOnce is not inductive alone.  What it leaves out is who may      *)
(* change a value: only the owner of type_indexing, who found the flag     *)
(* down under the lock (LockSound, OwnerSound); what the word of a value   *)
(* is while its flag is down (WordsRight); and what a thread still knows   *)
(* when it looks at the word after it has looked at the flag               *)
(* (ReadersSound).                                                         *)
(***************************************************************************)
EXTENDS SxeJitsonIndex, TLAPS

Locked == {"check", "fill", "store", "flag", "unlock", "fail"}

IndexTyped ==
    /\ indexed \in [Value -> BOOLEAN]
    /\ DOMAIN word = Value
    /\ index \in Seq(Nat \X Nat)
    /\ type_indexing \in Reader \union {NoReader}
    /\ ipc \in [Reader -> Locked \union {"idle", "entry", "integer", "lock", "use"}]
    /\ of \in [Reader -> Value]
    /\ new \in [Reader -> Nat]
    /\ DOMAIN answer = Reader
    /\ overlap \in BOOLEAN

(* Whoever is between the two calls of the mutex owns it. *)
LockSound == \A t \in Reader : ipc[t] \in Locked => type_indexing = t

(* The value v has its size in its word, or there the index a, which is right. *)
Sized(v)      == word[v] = <<"size", Size[v]>>
Pointed(v, a) == a \in DOMAIN index /\ word[v] = <<"index", a>> /\ index[a] = <<Past(v), Size[v]>>

(* A value whose flag is down still has its size, unless it is about to be flagged. *)
WordsRight == \A v \in Value :
    \/ ~indexed[v] /\ Sized(v)
    \/ \E a \in DOMAIN index : /\ Pointed(v, a)
                               /\ indexed[v] \/ \E t \in Reader : ipc[t] = "flag" /\ of[t] = v /\ new[t] = a

(* What the owner of the mutex has done so far: nobody else sees its index until it
   is stored, and the flag is still down. *)
OwnerSound == \A t \in Reader :
    /\ ipc[t] \in {"fill", "store", "flag"} => ~indexed[of[t]] /\ new[t] \in DOMAIN index
    /\ ipc[t] \in {"fill", "store"} => \A v \in Value : word[v] # <<"index", new[t]>>
    /\ ipc[t] = "store" => index[new[t]] = <<Past(of[t]), Size[of[t]]>>
    /\ ipc[t] = "flag" => Pointed(of[t], new[t])

(* What a thread has read from the flag of a value is true when it reads its word. *)
ReadersSound == \A t \in Reader :
    /\ ipc[t] \in {"entry", "use", "unlock"} => indexed[of[t]]
    /\ ipc[t] = "integer" => overlap \/ Sized(of[t])

(* Every index is in the word of a value, or in the hands of the thread that fills it. *)
NoneLeftOver == \A a \in DOMAIN index :
    \/ \E v \in Value : word[v] = <<"index", a>>
    \/ \E t \in Reader : new[t] = a /\ ipc[t] \in {"fill", "store"}

AnswersRight == \A t \in Reader :
    /\ answer[t][1] = "element" => answer[t][3] = Past(answer[t][2])
    /\ answer[t][1] = "size" => overlap \/ answer[t][3] = Size[answer[t][2]]

IndexInv == /\ IndexAssumption /\ IndexTyped /\ LockSound
            /\ WordsRight /\ OwnerSound /\ ReadersSound /\ NoneLeftOver /\ AnswersRight
-----------------------------------------------------------------------------
LEMMA Alone ==
    ASSUME IndexInv, NEW t \in Reader, ipc[t] \in Locked
    PROVE  \A u \in Reader : ipc[u] \in Locked => u = t
  BY DEF IndexInv, LockSound

(* A value whose flag is down has its size, to the owner of the mutex. *)
LEMMA SizedUnderLock ==
    ASSUME IndexInv, NEW t \in Reader, ipc[t] \in Locked \ {"flag"},
           NEW v \in Value, ~indexed[v]
    PROVE  Sized(v)
  <1>1. \A u \in Reader : ipc[u] # "flag"
    BY Alone DEF Locked
  <1> QED
    BY <1>1 DEF IndexInv, WordsRight

LEMMA FlaggedIsPointed ==
    ASSUME IndexInv, NEW v \in Value, indexed[v]
    PROVE  \E a \in DOMAIN index : Pointed(v, a)
  BY DEF IndexInv, WordsRight

LEMMA InvGivesIndexedOnce == IndexInv => IndexedOnce
  <1> SUFFICES ASSUME IndexInv PROVE IndexedOnce
    OBVIOUS
  <1>1. \A a \in DOMAIN index :
           \/ \E v \in Value : word[v] = <<"index", a>>
           \/ \E t \in Reader : type_indexing = t /\ new[t] = a /\ ipc[t] \in {"fill", "store"}
    BY DEF IndexInv, NoneLeftOver, LockSound, Locked
  <1>2. \A v \in Value : indexed[v] => word[v][1] = "index" /\ index[word[v][2]] = <<Past(v), Size[v]>>
    BY FlaggedIsPointed DEF Pointed
  <1> QED
    BY <1>1, <1>2 DEF IndexInv, AnswersRight, IndexedOnce

(* The step of a thread that has no index in its hands, before it and after it. *)
LEMMA QuietKeepsInv ==
    ASSUME IndexInv, NEW t \in Reader,
           NEW l \in {"idle", "entry", "integer", "lock", "use", "check", "unlock", "fail"},
           ipc[t] \notin {"fill", "store", "flag"}, Goto(t, l),
           UNCHANGED <<indexed, word, index, new>>,
           NEW v \in Value, of' = [of EXCEPT ![t] = v],
           l \in {"entry", "use", "unlock"} => indexed[v],
           l = "integer" => overlap' \/ Sized(v),
           overlap => overlap', overlap' \in BOOLEAN,
           type_indexing' \in Reader \union {NoReader}, LockSound',
           DOMAIN answer' = Reader, AnswersRight'
    PROVE  IndexInv'
  <1>1. \A u \in Reader : ipc'[u] = IF u = t THEN l ELSE ipc[u]
    BY DEF IndexInv, IndexTyped, Goto
  <1>2. \A u \in Reader : of'[u] = IF u = t THEN v ELSE of[u]
    BY DEF IndexInv, IndexTyped
  <1>3. IndexTyped'
    BY DEF IndexInv, IndexTyped, Goto, Locked
  <1>4. \A w, a : Sized(w)' = Sized(w) /\ Pointed(w, a)' = Pointed(w, a)
    BY DEF Sized, Pointed
  <1>5. \A u \in Reader : ipc[u] \in {"fill", "store", "flag"} =>
                              u # t /\ ipc'[u] = ipc[u] /\ of'[u] = of[u]
    BY <1>1, <1>2
  <1>6. \A u \in Reader : ipc'[u] \in {"fill", "store", "flag"} =>
                              u # t /\ ipc'[u] = ipc[u] /\ of'[u] = of[u]
    BY <1>1, <1>2
  <1>7. WordsRight'
    <2>1. ASSUME NEW w \in Value
          PROVE  \/ ~indexed'[w] /\ Sized(w)'
                 \/ \E a \in DOMAIN index' :
                       /\ Pointed(w, a)'
                       /\ indexed'[w] \/ \E u \in Reader : ipc'[u] = "flag" /\ of'[u] = w /\ new'[u] = a
      BY <1>4, <1>5 DEF IndexInv, WordsRight
    <2> QED
      BY <2>1 DEF WordsRight
  <1>8. OwnerSound'
    BY <1>4, <1>6 DEF IndexInv, OwnerSound
  <1>9. ReadersSound'
    <2>1. ASSUME NEW u \in Reader, ipc'[u] \in {"entry", "use", "unlock"} PROVE indexed'[of'[u]]
      BY <1>1, <1>2, <2>1 DEF IndexInv, ReadersSound
    <2>2. ASSUME NEW u \in Reader, ipc'[u] = "integer" PROVE (overlap \/ Sized(of[u]))'
      <3>1. CASE u = t
        BY <1>1, <1>2, <2>2, <3>1 DEF Sized
      <3>2. CASE u # t
        BY <1>1, <1>2, <2>2, <3>2 DEF Sized, IndexInv, ReadersSound
      <3> QED
        BY <3>1, <3>2
    <2> QED
      BY <2>1, <2>2 DEF ReadersSound, Sized
  <1>10. NoneLeftOver'
    BY <1>5 DEF IndexInv, NoneLeftOver
  <1>11. IndexAssumption'
    BY DEF IndexInv, IndexAssumption, Value
  <1> QED
    BY <1>3, <1>7, <1>8, <1>9, <1>10, <1>11 DEF IndexInv

LEMMA InitIndexInv == IndexInit => IndexInv
  <1> SUFFICES ASSUME IndexInit PROVE IndexInv
    OBVIOUS
  <1>1. 1 \in Value
    BY DEF IndexInit, IndexAssumption, Value
  <1>2. IndexTyped
    <2>1. index \in Seq(Nat \X Nat)
      BY DEF IndexInit
    <2>2. indexed \in [Value -> BOOLEAN] /\ DOMAIN word = Value
      BY DEF IndexInit
    <2>3. ipc \in [Reader -> Locked \union {"idle", "entry", "integer", "lock", "use"}]
      BY DEF IndexInit
    <2> QED
      BY <1>1, <2>1, <2>2, <2>3 DEF IndexInit, IndexTyped
  <1>3. index = <<>> /\ DOMAIN index = {}
    BY DEF IndexInit
  <1>4. WordsRight
    BY DEF IndexInit, WordsRight, Sized
  <1>5. \A t \in Reader : ipc[t] = "idle" /\ answer[t] = <<"none">>
    BY DEF IndexInit
  <1>6. LockSound /\ OwnerSound /\ ReadersSound /\ NoneLeftOver
    BY <1>3, <1>5 DEF LockSound, OwnerSound, ReadersSound, NoneLeftOver, Locked
  <1>7. AnswersRight
    <2>1. <<"none">>[1] = "none"
      OBVIOUS
    <2>2. \A t \in Reader : answer[t][1] = "none"
      BY <1>5, <2>1, Zenon
    <2> QED
      BY <2>2 DEF AnswersRight
  <1> QED
    BY <1>2, <1>4, <1>6, <1>7 DEF IndexInit, IndexInv

(* A thread that leaves the mutex and its answer alone. *)
LEMMA LockStays ==
    ASSUME IndexInv, NEW t \in Reader, NEW l, Goto(t, l), l \in Locked => ipc[t] \in Locked,
           UNCHANGED type_indexing
    PROVE  LockSound' /\ type_indexing' \in Reader \union {NoReader}
  <1>1. \A u \in Reader : ipc'[u] = IF u = t THEN l ELSE ipc[u]
    BY DEF IndexInv, IndexTyped, Goto
  <1> QED
    BY <1>1 DEF IndexInv, IndexTyped, LockSound

LEMMA AnswersStay ==
    ASSUME IndexInv, UNCHANGED answer, overlap => overlap'
    PROVE  DOMAIN answer' = Reader /\ AnswersRight'
  BY DEF IndexInv, IndexTyped, AnswersRight

LEMMA AskSizeKeepsInv ==
    ASSUME IndexInv, NEW t \in Reader, NEW v \in Value, AskSize(t, v)
    PROVE  IndexInv'
  <1> DEFINE l == IF indexed[v] THEN "entry" ELSE "integer"
  <1>1. Goto(t, l) /\ ipc[t] = "idle" /\ of' = [of EXCEPT ![t] = v]
    BY DEF AskSize
  <1>2. overlap' \in BOOLEAN /\ (overlap => overlap')
    BY DEF AskSize, IndexInv, IndexTyped
  <1>3. l = "integer" => overlap' \/ Sized(v)
    BY DEF AskSize, IndexInv, WordsRight, IndexTyped
  <1>4. LockSound' /\ type_indexing' \in Reader \union {NoReader}
    BY <1>1, LockStays DEF AskSize, Locked
  <1>5. DOMAIN answer' = Reader /\ AnswersRight'
    BY <1>2, AnswersStay DEF AskSize
  <1>6. l \in {"entry", "integer"} /\ (l = "entry" => indexed[v])
    OBVIOUS
  <1>7. UNCHANGED <<indexed, word, index, new>>
    BY DEF AskSize
  <1> HIDE DEF l
  <1> QED
    BY <1>1, <1>2, <1>3, <1>4, <1>5, <1>6, <1>7, QuietKeepsInv

LEMMA GetKeepsInv ==
    ASSUME IndexInv, NEW t \in Reader, NEW v \in Value, Get(t, v)
    PROVE  IndexInv'
  <1> DEFINE l == IF indexed[v] THEN "use" ELSE "lock"
  <1>1. Goto(t, l) /\ ipc[t] = "idle" /\ of' = [of EXCEPT ![t] = v]
    BY DEF Get
  <1>2. overlap' \in BOOLEAN /\ (overlap => overlap')
    BY DEF Get, IndexInv, IndexTyped
  <1>3. LockSound' /\ type_indexing' \in Reader \union {NoReader}
    BY <1>1, LockStays DEF Get, Locked
  <1>4. DOMAIN answer' = Reader /\ AnswersRight'
    BY <1>2, AnswersStay DEF Get
  <1>5. l \in {"use", "lock"} /\ (l = "use" => indexed[v])
    OBVIOUS
  <1>6. UNCHANGED <<indexed, word, index, new>>
    BY DEF Get
  <1> HIDE DEF l
  <1> QED
    BY <1>1, <1>2, <1>3, <1>4, <1>5, <1>6, QuietKeepsInv

(* of is left alone: it is what it is at t. *)
LEMMA OfStays ==
    ASSUME IndexInv, NEW t \in Reader, UNCHANGED of
    PROVE  of[t] \in Value /\ of' = [of EXCEPT ![t] = of[t]]
  BY DEF IndexInv, IndexTyped

LEMMA ReadSizeKeepsInv ==
    ASSUME IndexInv, NEW t \in Reader, ReadSize(t)
    PROVE  IndexInv'
  <1> DEFINE v == of[t]
             w == word[v]
             n == IF ipc[t] = "entry" THEN Entry(w) ELSE Integer(w)
  <1>1. /\ Goto(t, "idle") /\ ipc[t] \in {"entry", "integer"}
        /\ UNCHANGED <<indexed, word, index, new, of, overlap, type_indexing>>
        /\ answer' = [answer EXCEPT ![t] = <<"size", v, n>>]
    BY DEF ReadSize
  <1>2. v \in Value /\ of' = [of EXCEPT ![t] = v] /\ overlap' \in BOOLEAN
    BY <1>1, OfStays DEF IndexInv, IndexTyped
  <1>3. overlap \/ n = Size[v]
    <2>1. CASE ipc[t] = "entry"
      <3>1. indexed[v]
        BY <2>1 DEF IndexInv, ReadersSound
      <3>2. PICK a \in DOMAIN index : Pointed(v, a)
        BY <1>2, <3>1, FlaggedIsPointed
      <3> QED
        BY <2>1, <3>2 DEF Pointed, Entry
    <2>2. CASE ipc[t] = "integer"
      BY <2>2 DEF IndexInv, ReadersSound, Sized, Integer
    <2> QED
      BY <1>1, <2>1, <2>2
  <1> HIDE DEF n, v
  <1>4. DOMAIN answer' = Reader /\ AnswersRight'
    <2>1. /\ DOMAIN answer' = Reader /\ answer'[t] = <<"size", v, n>>
          /\ \A u \in Reader : u # t => answer'[u] = answer[u]
      BY <1>1 DEF IndexInv, IndexTyped
    <2> QED
      BY <1>1, <1>3, <2>1 DEF IndexInv, AnswersRight
  <1>5. LockSound' /\ type_indexing' \in Reader \union {NoReader}
    BY <1>1, LockStays DEF Locked
  <1> QED
    BY <1>1, <1>2, <1>4, <1>5, QuietKeepsInv

LEMMA UseIndexKeepsInv ==
    ASSUME IndexInv, NEW t \in Reader, UseIndex(t)
    PROVE  IndexInv'
  <1> DEFINE v == of[t]
             w == word[v]
             n == IF w[1] = "index" THEN index[w[2]][1] ELSE -1
  <1>1. /\ Goto(t, "idle") /\ ipc[t] = "use"
        /\ UNCHANGED <<indexed, word, index, new, of, overlap, type_indexing>>
        /\ answer' = [answer EXCEPT ![t] = <<"element", v, n>>]
    BY DEF UseIndex
  <1>2. v \in Value /\ of' = [of EXCEPT ![t] = v] /\ overlap' \in BOOLEAN
    BY <1>1, OfStays DEF IndexInv, IndexTyped
  <1>3. n = Past(v)
    <2>1. indexed[v]
      BY <1>1 DEF IndexInv, ReadersSound
    <2>2. PICK a \in DOMAIN index : Pointed(v, a)
      BY <1>2, <2>1, FlaggedIsPointed
    <2> QED
      BY <2>2 DEF Pointed
  <1> HIDE DEF n, v
  <1>4. DOMAIN answer' = Reader /\ AnswersRight'
    <2>1. /\ DOMAIN answer' = Reader /\ answer'[t] = <<"element", v, n>>
          /\ \A u \in Reader : u # t => answer'[u] = answer[u]
      BY <1>1 DEF IndexInv, IndexTyped
    <2> QED
      BY <1>1, <1>3, <2>1 DEF IndexInv, AnswersRight
  <1>5. LockSound' /\ type_indexing' \in Reader \union {NoReader}
    BY <1>1, LockStays DEF Locked
  <1> QED
    BY <1>1, <1>2, <1>4, <1>5, QuietKeepsInv

LEMMA MutexKeepsInv ==
    ASSUME IndexInv, NEW t \in Reader, LockIndexing(t) \/ UnlockIndexing(t)
    PROVE  IndexInv'
  <1> DEFINE l == IF ipc[t] = "lock" THEN "check" ELSE IF ipc[t] = "unlock" THEN "use" ELSE "idle"
             v == of[t]
  <1>1. /\ Goto(t, l) /\ ipc[t] \in {"lock", "unlock", "fail"}
        /\ type_indexing' = IF ipc[t] = "lock" THEN t ELSE NoReader
        /\ UNCHANGED <<indexed, word, index, new, of, overlap, answer>>
        /\ ipc[t] = "lock" => type_indexing = NoReader
    BY DEF LockIndexing, UnlockIndexing
  <1>2. v \in Value /\ of' = [of EXCEPT ![t] = v] /\ overlap' \in BOOLEAN
    BY <1>1, OfStays DEF IndexInv, IndexTyped
  <1>3. DOMAIN answer' = Reader /\ AnswersRight'
    BY <1>1, AnswersStay
  <1>4. l = "use" => indexed[v]
    BY DEF IndexInv, ReadersSound
  <1>5. \A u \in Reader : ipc'[u] = IF u = t THEN l ELSE ipc[u]
    BY <1>1 DEF IndexInv, IndexTyped, Goto
  <1>6. LockSound'
    <2>1. CASE ipc[t] = "lock"
      <3>1. \A u \in Reader : ipc[u] \notin Locked
        BY <1>1, <2>1 DEF IndexInv, LockSound, IndexAssumption
      <3> QED
        BY <1>1, <1>5, <2>1, <3>1 DEF LockSound
    <2>2. CASE ipc[t] # "lock"
      <3>1. \A u \in Reader : ipc[u] \in Locked => u = t
        BY <1>1, <2>2, Alone DEF Locked
      <3>2. l \notin Locked
        BY <2>2 DEF Locked
      <3> QED
        BY <1>5, <3>1, <3>2 DEF LockSound
    <2> QED
      BY <2>1, <2>2
  <1>7. l \in {"check", "use", "idle"}
    OBVIOUS
  <1>8. type_indexing' \in Reader \union {NoReader}
    BY <1>1
  <1> HIDE DEF l, v
  <1>9. /\ l \in {"idle", "entry", "integer", "lock", "use", "check", "unlock", "fail"}
        /\ ipc[t] \notin {"fill", "store", "flag"}
        /\ l \in {"entry", "use", "unlock"} => indexed[v]
        /\ l # "integer"
        /\ Goto(t, l) /\ UNCHANGED <<indexed, word, index, new>> /\ (overlap => overlap')
    BY <1>1, <1>4, <1>7
  <1> QED
    BY <1>2, <1>3, <1>6, <1>8, <1>9, QuietKeepsInv

(* Recheck without a new index: another thread has won the race, or there is no memory. *)
LEMMA NoNewIndexKeepsInv ==
    ASSUME IndexInv, NEW t \in Reader, Recheck(t, FALSE) \/ (Recheck(t, TRUE) /\ indexed[of[t]])
    PROVE  IndexInv'
  <1> DEFINE l == IF indexed[of[t]] THEN "unlock" ELSE "fail"
             v == of[t]
  <1>1. /\ Goto(t, l) /\ ipc[t] = "check"
        /\ UNCHANGED <<indexed, word, index, new, of, overlap, type_indexing>>
        /\ UNCHANGED answer \/ answer' = [answer EXCEPT ![t] = <<"none">>]
    BY DEF Recheck
  <1>2. v \in Value /\ of' = [of EXCEPT ![t] = v] /\ overlap' \in BOOLEAN
    BY <1>1, OfStays DEF IndexInv, IndexTyped
  <1>3. DOMAIN answer' = Reader /\ AnswersRight'
    <2>1. CASE UNCHANGED answer
      BY <1>1, <2>1, AnswersStay
    <2>2. CASE answer' = [answer EXCEPT ![t] = <<"none">>]
      <3>1. <<"none">>[1] = "none"
        OBVIOUS
      <3>2. DOMAIN answer' = Reader /\ answer'[t] = <<"none">>
        BY <2>2 DEF IndexInv, IndexTyped
      <3>3. answer'[t][1] = "none"
        BY <3>1, <3>2, Zenon
      <3>4. \A u \in Reader : u # t => answer'[u] = answer[u]
        BY <2>2 DEF IndexInv, IndexTyped
      <3> QED
        BY <1>1, <3>2, <3>3, <3>4 DEF IndexInv, AnswersRight
    <2> QED
      BY <1>1, <2>1, <2>2
  <1>4. LockSound' /\ type_indexing' \in Reader \union {NoReader}
    BY <1>1, LockStays DEF Locked
  <1>5. l \in {"unlock", "fail"} /\ (l = "unlock" => indexed[v])
    OBVIOUS
  <1> HIDE DEF l, v
  <1>6. /\ l \in {"idle", "entry", "integer", "lock", "use", "check", "unlock", "fail"}
        /\ ipc[t] \notin {"fill", "store", "flag"}
        /\ l \in {"entry", "use", "unlock"} => indexed[v]
        /\ l # "integer"
        /\ Goto(t, l) /\ UNCHANGED <<indexed, word, index, new>> /\ (overlap => overlap')
    BY <1>1, <1>5
  <1> QED
    BY <1>2, <1>3, <1>4, <1>6, QuietKeepsInv

(* Nothing refers to an index that was just allocated. *)
LEMMA NewIndexKeepsInv ==
    ASSUME IndexInv, NEW t \in Reader, Recheck(t, TRUE), ~indexed[of[t]]
    PROVE  IndexInv'
  <1> DEFINE b == Len(index) + 1
  <1>1. /\ Goto(t, "fill") /\ ipc[t] = "check"
        /\ index' = Append(index, NoEntries) /\ new' = [new EXCEPT ![t] = b]
        /\ UNCHANGED <<indexed, word, of, overlap, answer, type_indexing>>
    BY DEF Recheck
  <1>2. /\ b \in Nat /\ b \notin DOMAIN index /\ DOMAIN index' = DOMAIN index \union {b}
        /\ \A a \in DOMAIN index : index'[a] = index[a]
        /\ index' \in Seq(Nat \X Nat)
    BY <1>1 DEF IndexInv, IndexTyped, NoEntries
  <1>3. \A u \in Reader : /\ ipc'[u] = IF u = t THEN "fill" ELSE ipc[u]
                          /\ new'[u] = IF u = t THEN b ELSE new[u]
    BY <1>1 DEF IndexInv, IndexTyped, Goto
  <1>4. IndexTyped'
    BY <1>1, <1>2 DEF IndexInv, IndexTyped, Goto, Locked
  <1>5. LockSound'
    BY <1>1, LockStays DEF Locked
  <1>6. AnswersRight'
    BY <1>1, AnswersStay
  <1>7. \A v \in Value : \/ Sized(v) /\ ~indexed[v]
                         \/ indexed[v] /\ \E a \in DOMAIN index : Pointed(v, a)
    <2>1. ASSUME NEW v \in Value, indexed[v] PROVE \E a \in DOMAIN index : Pointed(v, a)
      BY <2>1, FlaggedIsPointed
    <2>2. ASSUME NEW v \in Value, ~indexed[v] PROVE Sized(v)
      BY <1>1, <2>2, SizedUnderLock DEF Locked
    <2> QED
      BY <2>1, <2>2
  <1>8. \A v \in Value : word[v] # <<"index", b>>
    BY <1>2, <1>7 DEF Sized, Pointed
  <1>9. \A v, a : /\ Sized(v)' = Sized(v)
                  /\ Pointed(v, a) => Pointed(v, a)'
    BY <1>1, <1>2 DEF Sized, Pointed
  <1>10. WordsRight'
    BY <1>1, <1>2, <1>7, <1>9 DEF WordsRight
  <1>11. \A u \in Reader : ipc'[u] \in {"fill", "store", "flag"} => u = t
    BY <1>1, <1>3, Alone DEF Locked
  <1>12. OwnerSound'
    BY <1>1, <1>2, <1>3, <1>8, <1>11 DEF OwnerSound
  <1>13. ReadersSound'
    BY <1>1, <1>3, <1>9 DEF IndexInv, ReadersSound, Sized
  <1>14. NoneLeftOver'
    <2>1. \A u \in Reader : ipc[u] \notin {"fill", "store"}
      BY <1>1, Alone DEF Locked
    <2> QED
      BY <1>1, <1>2, <1>3, <2>1 DEF IndexInv, NoneLeftOver
  <1>15. IndexAssumption'
    BY DEF IndexInv, IndexAssumption, Value
  <1> QED
    BY <1>4, <1>5, <1>6, <1>10, <1>12, <1>13, <1>14, <1>15 DEF IndexInv

(* The sizes that are found under the lock are right, and no reader sees the index. *)
LEMMA FillIndexKeepsInv ==
    ASSUME IndexInv, NEW t \in Reader, FillIndex(t)
    PROVE  IndexInv'
  <1> DEFINE v == of[t]
             in == Inner[v]
             past == IF in = 0 THEN 1 ELSE IF indexed[in] THEN Entry(word[in]) ELSE Integer(word[in])
             b == new[t]
  <1>1. /\ Goto(t, "store") /\ ipc[t] = "fill" /\ ipc[t] \in Locked /\ v \in Value
        /\ index' = [index EXCEPT ![b] = <<1 + past, Integer(word[v])>>]
        /\ UNCHANGED <<indexed, word, of, new, overlap, answer, type_indexing>>
    BY DEF FillIndex, Locked, IndexInv, IndexTyped
  <1>2. ~indexed[v] /\ b \in DOMAIN index /\ \A w \in Value : word[w] # <<"index", b>>
    BY <1>1 DEF IndexInv, OwnerSound
  <1>3. Integer(word[v]) = Size[v]
    <2>1. Sized(v)
      BY <1>1, <1>2, SizedUnderLock
    <2> QED
      BY <2>1 DEF Sized, Integer
  <1>4. 1 + past = Past(v)
    <2>1. CASE in = 0
      BY <2>1 DEF Past
    <2>2. CASE in # 0 /\ indexed[in]
      <3>1. in \in Value
        BY <1>1, <2>2 DEF IndexInv, IndexAssumption
      <3>2. PICK a \in DOMAIN index : Pointed(in, a)
        BY <2>2, <3>1, FlaggedIsPointed
      <3> QED
        BY <2>2, <3>2 DEF Pointed, Entry, Past
    <2>3. CASE in # 0 /\ ~indexed[in]
      <3>1. in \in Value
        BY <1>1, <2>3 DEF IndexInv, IndexAssumption
      <3>2. Sized(in)
        BY <1>1, <2>3, <3>1, SizedUnderLock
      <3> QED
        BY <2>3, <3>2 DEF Sized, Integer, Past
    <2> QED
      BY <2>1, <2>2, <2>3
  <1>5. Past(v) \in Nat /\ Size[v] \in Nat
    BY <1>1 DEF IndexInv, IndexAssumption, Past, Value
  <1> HIDE DEF past, v
  <1>6. /\ index' \in Seq(Nat \X Nat) /\ DOMAIN index' = DOMAIN index
        /\ index'[b] = <<Past(v), Size[v]>>
        /\ \A a \in DOMAIN index : a # b => index'[a] = index[a]
    BY <1>1, <1>2, <1>3, <1>4, <1>5 DEF IndexInv, IndexTyped
  <1>7. \A u \in Reader : ipc'[u] = IF u = t THEN "store" ELSE ipc[u]
    BY <1>1 DEF IndexInv, IndexTyped, Goto
  <1>8. IndexTyped'
    BY <1>1, <1>6 DEF IndexInv, IndexTyped, Goto, Locked
  <1>9. LockSound'
    BY <1>1, LockStays DEF Locked
  <1>10. AnswersRight'
    BY <1>1, AnswersStay
  <1>11. \A w \in Value, a \in DOMAIN index : Pointed(w, a) => Pointed(w, a)'
    BY <1>1, <1>2, <1>6 DEF Pointed
  <1>12. WordsRight'
    <2>1. \A u \in Reader : ipc[u] # "flag"
      BY <1>1, Alone DEF Locked
    <2>2. \A w \in Value : \/ ~indexed[w] /\ Sized(w)
                           \/ indexed[w] /\ \E a \in DOMAIN index : Pointed(w, a)
      <3>1. ASSUME NEW w \in Value, indexed[w] PROVE \E a \in DOMAIN index : Pointed(w, a)
        BY <3>1, FlaggedIsPointed
      <3>2. ASSUME NEW w \in Value, ~indexed[w] PROVE Sized(w)
        BY <1>1, <3>2, SizedUnderLock
      <3> QED
        BY <3>1, <3>2
    <2>3. \A w \in Value : Sized(w) => Sized(w)'
      BY <1>1 DEF Sized
    <2> QED
      BY <1>1, <1>6, <1>11, <2>2, <2>3 DEF WordsRight
  <1>13. \A u \in Reader : ipc'[u] \in {"fill", "store", "flag"} => u = t
    BY <1>1, <1>7, Alone DEF Locked
  <1>14. OwnerSound'
    BY <1>1, <1>2, <1>6, <1>7, <1>13 DEF OwnerSound, v
  <1>15. ReadersSound'
    BY <1>1, <1>7 DEF IndexInv, ReadersSound, Sized
  <1>16. NoneLeftOver'
    <2>1. ASSUME NEW a \in DOMAIN index, NEW u \in Reader, new[u] = a, ipc[u] \in {"fill", "store"}
          PROVE  new'[u] = a /\ ipc'[u] \in {"fill", "store"}
      BY <1>1, <1>7, <2>1
    <2> QED
      <3>1. ASSUME NEW a \in DOMAIN index
            PROVE  \/ \E w \in Value : word[w] = <<"index", a>>
                   \/ \E u \in Reader : new[u] = a /\ ipc[u] \in {"fill", "store"}
        BY DEF IndexInv, NoneLeftOver
      <3>2. UNCHANGED word /\ DOMAIN index' = DOMAIN index
        BY <1>1, <1>6
      <3> QED
        BY <2>1, <3>1, <3>2 DEF NoneLeftOver
  <1>17. IndexAssumption'
    BY DEF IndexInv, IndexAssumption, Value
  <1> QED
    BY <1>8, <1>9, <1>10, <1>12, <1>14, <1>15, <1>16, <1>17 DEF IndexInv

(* The index is published: whoever has read the flag of this value, down, and not yet
   its word, is one whose reading overlaps. *)
LEMMA StoreIndexKeepsInv ==
    ASSUME IndexInv, NEW t \in Reader, StoreIndex(t)
    PROVE  IndexInv'
  <1>0. PICK v \in Value, b \in Nat : v = of[t] /\ b = new[t]
    BY DEF IndexInv, IndexTyped
  <1>1. /\ Goto(t, "flag") /\ ipc[t] = "store" /\ ipc[t] \in Locked /\ v \in Value
        /\ word' = [word EXCEPT ![v] = <<"index", b>>]
        /\ UNCHANGED <<indexed, index, of, new, answer, type_indexing>>
    BY <1>0 DEF StoreIndex, Locked, IndexInv, IndexTyped
  <1>2. /\ overlap' \in BOOLEAN /\ (overlap => overlap')
        /\ \A u \in Reader : ipc[u] = "integer" /\ of[u] = v => overlap'
    BY <1>0 DEF StoreIndex, IndexInv, IndexTyped
  <1>3. /\ ~indexed[v] /\ b \in DOMAIN index /\ index[b] = <<Past(v), Size[v]>>
        /\ \A w \in Value : word[w] # <<"index", b>>
    BY <1>0, <1>1 DEF IndexInv, OwnerSound
  <1>4. Sized(v)
    BY <1>1, <1>3, SizedUnderLock
  <1>5. /\ DOMAIN word' = Value /\ word'[v] = <<"index", b>>
        /\ \A w \in Value : w # v => word'[w] = word[w]
    BY <1>1 DEF IndexInv, IndexTyped
  <1>6. \A u \in Reader : ipc'[u] = IF u = t THEN "flag" ELSE ipc[u]
    BY <1>1 DEF IndexInv, IndexTyped, Goto
  <1>7. IndexTyped'
    BY <1>1, <1>2, <1>5 DEF IndexInv, IndexTyped, Goto, Locked
  <1>8. LockSound'
    BY <1>1, LockStays DEF Locked
  <1>9. AnswersRight'
    BY <1>1, <1>2, AnswersStay
  <1>10. Pointed(v, b)'
    BY <1>1, <1>3, <1>5 DEF Pointed
  <1>11. \A w \in Value : w # v => /\ Sized(w) => Sized(w)'
                                   /\ \A a : Pointed(w, a) => Pointed(w, a)'
    BY <1>1, <1>5 DEF Sized, Pointed
  <1>12. WordsRight'
    <2>1. ASSUME NEW w \in Value, w # v, indexed[w] PROVE \E a \in DOMAIN index' : Pointed(w, a)'
      BY <1>1, <1>11, <2>1, FlaggedIsPointed
    <2>2. ASSUME NEW w \in Value, w # v, ~indexed[w] PROVE Sized(w)'
      BY <1>1, <1>11, <2>2, SizedUnderLock
    <2>3. b \in DOMAIN index' /\ Pointed(v, b)' /\ ipc'[t] = "flag" /\ of'[t] = v /\ new'[t] = b
      BY <1>0, <1>1, <1>3, <1>6, <1>10
    <2> QED
      BY <1>1, <2>1, <2>2, <2>3 DEF WordsRight
  <1>13. \A u \in Reader : ipc'[u] \in {"fill", "store", "flag"} => u = t
    BY <1>1, <1>6, Alone DEF Locked
  <1>14. OwnerSound'
    <2>1. ipc'[t] = "flag" /\ of'[t] = v /\ new'[t] = b /\ ~indexed'[v] /\ b \in DOMAIN index'
      BY <1>0, <1>1, <1>3, <1>6
    <2>2. Pointed(of[t], new[t])'
      BY <1>10, <2>1 DEF Pointed
    <2> QED
      BY <1>13, <2>1, <2>2 DEF OwnerSound
  <1>15. ReadersSound'
    <2>1. ASSUME NEW u \in Reader, ipc'[u] \in {"entry", "use", "unlock"} PROVE indexed'[of'[u]]
      BY <1>1, <1>6, <2>1 DEF IndexInv, ReadersSound
    <2>2. ASSUME NEW u \in Reader, ipc'[u] = "integer" PROVE (overlap \/ Sized(of[u]))'
      <3>1. ipc[u] = "integer" /\ of'[u] = of[u] /\ of[u] \in Value
        BY <1>1, <1>6, <2>2 DEF IndexInv, IndexTyped
      <3>2. CASE of[u] = v
        BY <1>2, <3>1, <3>2
      <3>3. CASE of[u] # v
        BY <1>2, <1>5, <3>1, <3>3 DEF IndexInv, ReadersSound, Sized
      <3> QED
        BY <3>2, <3>3
    <2> QED
      BY <2>1, <2>2 DEF ReadersSound, Sized
  <1>16. NoneLeftOver'
    <2>1. \A u \in Reader : ipc[u] \in {"fill", "store"} => u = t
      BY <1>1, Alone DEF Locked
    <2>2. ASSUME NEW a \in DOMAIN index PROVE \E w \in Value : word'[w] = <<"index", a>>
      <3>1. CASE a = b
        BY <1>1, <1>5, <3>1
      <3>2. CASE a # b
        <4>1. PICK w \in Value : word[w] = <<"index", a>>
          BY <1>0, <2>1, <3>2 DEF IndexInv, NoneLeftOver
        <4>2. w # v
          BY <1>4, <4>1 DEF Sized
        <4> QED
          BY <1>5, <4>1, <4>2
      <3> QED
        BY <3>1, <3>2
    <2> QED
      BY <1>1, <2>2 DEF NoneLeftOver
  <1>17. IndexAssumption'
    BY DEF IndexInv, IndexAssumption, Value
  <1> QED
    BY <1>7, <1>8, <1>9, <1>12, <1>14, <1>15, <1>16, <1>17 DEF IndexInv

LEMMA SetFlagKeepsInv ==
    ASSUME IndexInv, NEW t \in Reader, SetFlag(t)
    PROVE  IndexInv'
  <1>0. PICK v \in Value, b \in Nat : v = of[t] /\ b = new[t]
    BY DEF IndexInv, IndexTyped
  <1>1. /\ Goto(t, "unlock") /\ ipc[t] = "flag" /\ ipc[t] \in Locked /\ v \in Value
        /\ indexed' = [indexed EXCEPT ![v] = TRUE]
        /\ UNCHANGED <<word, index, of, new, answer, overlap, type_indexing>>
    BY <1>0 DEF SetFlag, Locked, IndexInv, IndexTyped
  <1>2. Pointed(v, b)
    BY <1>0, <1>1 DEF IndexInv, OwnerSound
  <1>3. /\ indexed' \in [Value -> BOOLEAN] /\ indexed'[v]
        /\ \A w \in Value : w # v => indexed'[w] = indexed[w]
        /\ \A w \in Value : indexed[w] => indexed'[w]
    BY <1>1 DEF IndexInv, IndexTyped
  <1>4. \A u \in Reader : ipc'[u] = IF u = t THEN "unlock" ELSE ipc[u]
    BY <1>1 DEF IndexInv, IndexTyped, Goto
  <1>5. IndexTyped'
    BY <1>1, <1>3 DEF IndexInv, IndexTyped, Goto, Locked
  <1>6. LockSound'
    BY <1>1, LockStays DEF Locked
  <1>7. AnswersRight'
    BY <1>1, AnswersStay
  <1>8. \A w, a : (Sized(w) => Sized(w)') /\ (Pointed(w, a) => Pointed(w, a)')
    BY <1>1 DEF Sized, Pointed
  <1>9. \A u \in Reader : ipc[u] = "flag" => u = t
    BY <1>1, Alone DEF Locked
  <1>10. WordsRight'
    <2>1. ASSUME NEW w \in Value, w # v, ~indexed[w] PROVE Sized(w)'
      BY <1>0, <1>8, <1>9, <2>1 DEF IndexInv, WordsRight
    <2>2. ASSUME NEW w \in Value, w # v, indexed[w] PROVE \E a \in DOMAIN index' : Pointed(w, a)'
      BY <1>1, <1>8, <2>2, FlaggedIsPointed
    <2>3. b \in DOMAIN index' /\ Pointed(v, b)' /\ indexed'[v]
      BY <1>1, <1>2, <1>3, <1>8 DEF Pointed
    <2> QED
      BY <1>3, <2>1, <2>2, <2>3 DEF WordsRight
  <1>11. \A u \in Reader : ipc'[u] \notin {"fill", "store", "flag"}
    BY <1>1, <1>4, Alone DEF Locked
  <1>12. OwnerSound'
    BY <1>11 DEF OwnerSound
  <1>13. ReadersSound'
    <2>1. ASSUME NEW u \in Reader, ipc'[u] \in {"entry", "use", "unlock"} PROVE indexed'[of'[u]]
      <3>1. of'[u] = of[u] /\ of[u] \in Value
        BY <1>1 DEF IndexInv, IndexTyped
      <3>2. CASE u = t
        BY <1>0, <1>3, <3>1, <3>2
      <3>3. CASE u # t
        BY <1>3, <1>4, <2>1, <3>1, <3>3 DEF IndexInv, ReadersSound
      <3> QED
        BY <3>2, <3>3
    <2>2. ASSUME NEW u \in Reader, ipc'[u] = "integer" PROVE (overlap \/ Sized(of[u]))'
      BY <1>1, <1>4, <2>2 DEF IndexInv, ReadersSound, Sized
    <2> QED
      BY <2>1, <2>2 DEF ReadersSound
  <1>14. NoneLeftOver'
    <2>1. \A u \in Reader : ipc[u] \notin {"fill", "store"}
      BY <1>1, Alone DEF Locked
    <2> QED
      BY <1>1, <2>1 DEF IndexInv, NoneLeftOver
  <1>15. IndexAssumption'
    BY DEF IndexInv, IndexAssumption, Value
  <1> QED
    BY <1>5, <1>6, <1>7, <1>10, <1>12, <1>13, <1>14, <1>15 DEF IndexInv

LEMMA NextKeepsIndexInv == IndexInv /\ [IndexNext]_indexVars => IndexInv'
  <1> SUFFICES ASSUME IndexInv, [IndexNext]_indexVars PROVE IndexInv'
    OBVIOUS
  <1>1. ASSUME NEW t \in Reader, NEW granted \in BOOLEAN, Recheck(t, granted) PROVE IndexInv'
    <2>1. CASE granted = TRUE /\ ~indexed[of[t]]
      BY <1>1, <2>1, NewIndexKeepsInv
    <2>2. CASE granted = TRUE /\ indexed[of[t]]
      BY <1>1, <2>2, NoNewIndexKeepsInv
    <2>3. CASE granted = FALSE
      BY <1>1, <2>3, NoNewIndexKeepsInv
    <2> QED
      BY <2>1, <2>2, <2>3
  <1>2. CASE UNCHANGED indexVars
    <2>1. /\ UNCHANGED <<indexed, word, index, type_indexing, ipc>>
          /\ UNCHANGED <<of, new, answer, overlap>>
      BY <1>2 DEF indexVars
    <2>2. IndexTyped' /\ LockSound' /\ IndexAssumption'
      BY <2>1 DEF IndexInv, IndexTyped, LockSound, IndexAssumption, Value
    <2>2a. NoneLeftOver' /\ AnswersRight'
      BY <2>1 DEF IndexInv, NoneLeftOver, AnswersRight
    <2>3. WordsRight' /\ OwnerSound' /\ ReadersSound'
      BY <2>1 DEF IndexInv, WordsRight, OwnerSound, ReadersSound, Sized, Pointed
    <2> QED
      BY <2>2, <2>2a, <2>3 DEF IndexInv
  <1> QED
    BY <1>1, <1>2, AskSizeKeepsInv, GetKeepsInv, ReadSizeKeepsInv, UseIndexKeepsInv, MutexKeepsInv,
       FillIndexKeepsInv, StoreIndexKeepsInv, SetFlagKeepsInv DEF IndexNext

(* For any number of threads and values, each value of sxe-jitson.c gets one index,
   whoever goes through it finds it complete and right, and a size that is read is the
   size, unless it was asked for while the index was being stored. *)
THEOREM JitsonIndexedOnce == IndexSpec => []IndexedOnce
  BY InitIndexInv, NextKeepsIndexInv, InvGivesIndexedOnce, PTL DEF IndexSpec
=============================================================================
