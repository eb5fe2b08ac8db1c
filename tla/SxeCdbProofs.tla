---------------------------- MODULE SxeCdbProofs ----------------------------
(***************************************************************************)
(* Proofs about lib-sxe-cdb: the sheets of an instance, the ensembles of   *)
(* instances that threads share, and the counters of an instance.          *)
(***************************************************************************)
EXTENDS SxeCdbSheets, SxeCdbCounts, SxeCdbEnsemble, FiniteSetTheorems, WellFoundedInduction, TLAPS
-----------------------------------------------------------------------------
(***************************************************************************)
(* Proofs about an sxe-cdb instance, for every number of sheets, rows and  *)
(* cells, all keys and hashes, and bit fields of every width: headers      *)
(* round trip, and every cell in use is on the sheet its hash leads to.    *)
(***************************************************************************)

(* The limits of the code are those of its bit fields. *)
LEMMA LenMaxIsLargest ==
    ASSUME NEW f \in Nat, f > 0, f % 4 = 0
    PROVE  LenMax(f) = f - 1
  <1>1. f = 4 * (f \div 4) + (f % 4)
    OBVIOUS
  <1> QED
    BY <1>1 DEF LenMax

(* A length within the limit is not cut off by its field. *)
LEMMA NotCut ==
    ASSUME NEW f \in Nat, f > 0, f % 4 = 0, NEW n \in Nat, n <= LenMax(f)
    PROVE  n % f = n /\ n < f
  BY LenMaxIsLargest

(* The fields, as HkvAssumption has them. *)
LEMMA Fields ==
    \A f \in {K1, V1, K3, V3, K5, V5, K8, V8} : f \in Nat /\ f >= 4 /\ f % 4 = 0
  <1> SUFFICES ASSUME NEW f \in Nat, f > 0, f % 4 = 0
               PROVE  f >= 4
    BY HkvAssumption
  <1>1. f = 4 * (f \div 4) + (f % 4)
    OBVIOUS
  <1> QED
    BY <1>1

(* Packing, one kind of header after the other. *)
LEMMA PackedFields ==
    ASSUME NEW k \in Nat, NEW v \in Nat, HeaderLen(k, v) # 0
    PROVE  /\ HeaderLen(k, v) = 1 => k # 0 /\ Pack(k, v) = [flag |-> 0, xxx |-> k, yyy |-> v, key |-> 0, val |-> 0]
                                     /\ k < K1 /\ v < V1
           /\ HeaderLen(k, v) = 3 => Pack(k, v) = [flag |-> 1, xxx |-> 0, yyy |-> 0, key |-> k, val |-> v]
           /\ HeaderLen(k, v) = 5 => Pack(k, v) = [flag |-> 0, xxx |-> 0, yyy |-> 0, key |-> k, val |-> v]
           /\ HeaderLen(k, v) = 8 => Pack(k, v) = [flag |-> 0, xxx |-> 0, yyy |-> 1, key |-> k, val |-> v]
           /\ HeaderLen(k, v) \in {1, 3, 5, 8}
  <1>1. CASE HeaderLen(k, v) = 1
    <2>1. k # 0 /\ Fits(k, v, K1, V1)
      BY <1>1 DEF HeaderLen
    <2>2. k % K1 = k /\ k < K1 /\ v % V1 = v /\ v < V1
      BY <2>1, NotCut, Fields DEF Fits
    <2> QED
      BY <1>1, <2>1, <2>2 DEF Pack
  <1>3. CASE HeaderLen(k, v) = 3
    <2>1. Fits(k, v, K3, V3)
      BY <1>3 DEF HeaderLen
    <2>2. k % K3 = k /\ v % V3 = v
      BY <2>1, NotCut, Fields DEF Fits
    <2> QED
      BY <1>3, <2>2 DEF Pack
  <1>5. CASE HeaderLen(k, v) = 5
    <2>1. Fits(k, v, K5, V5)
      BY <1>5 DEF HeaderLen
    <2>2. k % K5 = k /\ v % V5 = v
      BY <2>1, NotCut, Fields DEF Fits
    <2> QED
      BY <1>5, <2>2 DEF Pack
  <1>8. CASE HeaderLen(k, v) = 8
    <2>1. Fits(k, v, K8, V8)
      BY <1>8 DEF HeaderLen
    <2>2. k % K8 = k /\ v % V8 = v
      BY <2>1, NotCut, Fields DEF Fits
    <2> QED
      BY <1>8, <2>2 DEF Pack
  <1> QED
    BY <1>1, <1>3, <1>5, <1>8 DEF HeaderLen

(* The first byte of a packed header tells its kind, and its fields the lengths:
   sxe_cdb_hkv_unpack undoes what sxe_cdb_instance_put_val does. *)
LEMMA UnpackUndoesPack ==
    ASSUME NEW k \in Nat, NEW v \in Nat, HeaderLen(k, v) # 0
    PROVE  /\ HLen(Pack(k, v)) = HeaderLen(k, v)
           /\ Unpack(Pack(k, v)) = [key_len |-> k, val_len |-> v,
                                    hkv_len |-> HkvLen(HeaderLen(k, v), k, v)]
  <1> DEFINE h == Pack(k, v)
  <1>1. HLen(h) = HeaderLen(k, v)
    BY PackedFields DEF HLen
  <1>2. IF HLen(h) = 1 THEN h.xxx = k /\ h.yyy = v ELSE h.key = k /\ h.val = v
    BY <1>1, PackedFields
  <1> QED
    BY <1>1, <1>2 DEF Unpack

-----------------------------------------------------------------------------
(* Every hkv has the header of its key and value; a put under way has passed the
   tests of its lengths. *)
HkvOK(h) ==
    /\ h \in [pos : Nat, len : Nat, header : {Pack(k, v) : k, v \in Nat}, key : Key, val : Value]
    /\ HeaderLen(KeyLen[h.key], h.val[1]) # 0
    /\ h.header = Pack(KeyLen[h.key], h.val[1])
    /\ h.len = HkvSize(h.key, h.val)

JobOK == job # NoJob => /\ job \in [key : Key, val : Value]
                        /\ HeaderLen(KeyLen[job.key], job.val[1]) # 0

HkvInv == JobOK /\ \A h \in kvdata : HkvOK(h)

(* Lengths are numbers. *)
LEMMA Lengths == \A k \in Key, v \in Value : KeyLen[k] \in Nat /\ v[1] \in Nat
  BY CdbAssumption

LEMMA HkvInvRoundTrips == HkvInv => RoundTrip
  <1> SUFFICES ASSUME HkvInv, NEW h \in kvdata
               PROVE  Unpack(h.header) = [key_len |-> KeyLen[h.key], val_len |-> h.val[1],
                                          hkv_len |-> h.len % V8]
    BY DEF RoundTrip
  <1>1. HkvOK(h)
    BY DEF HkvInv
  <1>2. KeyLen[h.key] \in Nat /\ h.val[1] \in Nat
    BY <1>1, Lengths DEF HkvOK
  <1>3. HkvLen(HeaderLen(KeyLen[h.key], h.val[1]), KeyLen[h.key], h.val[1]) = h.len % V8
    BY <1>1 DEF HkvLen, HkvOK, HkvSize
  <1> QED
    BY <1>1, <1>2, <1>3, UnpackUndoesPack DEF HkvOK

Inv == TypeOK /\ DebugValidate /\ HkvInv
-----------------------------------------------------------------------------
(* Sizes, indexes and rows. *)

LEMMA Sizes ==
    /\ SheetsMax \in Nat /\ SheetsMax > 0 /\ Rows \in Nat /\ Rows > 0 /\ Cells \in Nat /\ Cells > 0
    /\ Page \in Nat /\ Page > 0 /\ KvMod \in Nat /\ KvMod > Page
    /\ SheetsAtStart \in 1 .. SheetsMax
  BY CdbAssumption

LEMMA IndexTyped ==
    ASSUME NEW k \in Key
    PROVE  /\ SheetIndex(k) \in Sheet /\ Row1(k) \in Row /\ Row2(k) \in Row
           /\ Hash[k][1] \in Nat /\ Hash[k][2] \in Nat
  BY CdbAssumption, Sizes DEF SheetIndex, Row1, Row2, Sheet, Row

LEMMA SheetTyped ==
    ASSUME TypeOK, NEW k \in Key
    PROVE  SheetOf(k) \in 0 .. sheets_size - 1 /\ SheetOf(k) \in Sheet
  BY IndexTyped, Sizes DEF TypeOK, SheetOf, Sheet

(* A nonempty set of cells has a first one. *)
LEMMA FirstIsOne ==
    ASSUME NEW cells \in SUBSET Cell, cells # {}
    PROVE  First(cells) \in cells
  <1> DEFINE R == OpToRel(<, Nat)
  <1>1. IsWellFoundedOn(R, Nat)
    BY NatLessThanWellFounded
  <1>2. \A x, y \in Nat : y < x => <<y, x>> \in R
    BY DEF OpToRel
  <1>3. cells \subseteq Nat
    BY DEF Cell
  <1> HIDE DEF R
  <1>4. PICK c \in cells : \A d \in cells : ~ (<<d, c>> \in R)
    BY <1>1, <1>3, WFMin
  <1>5. ASSUME NEW d \in cells PROVE c <= d
    <2>1. ~ (d < c)
      BY <1>2, <1>3, <1>4
    <2> QED
      BY <2>1, <1>3
  <1> QED
    BY <1>5 DEF First
-----------------------------------------------------------------------------
(* One lemma for each action. *)

CellType == [pos : 0 .. KvMod - 1, hi : Nat, lo : Nat]

LEMMA InitInv == Init => Inv
  <1> SUFFICES ASSUME Init PROVE Inv
    OBVIOUS
  <1>1. FreshIndex \in [Sheet -> 0 .. SheetsAtStart - 1]
    BY Sizes DEF FreshIndex, Sheet
  <1>2. NoCells \in [Row -> [Cell -> CellType]]
    BY Sizes DEF NoCells, Unused, CellType
  <1>3. TypeOK
    BY <1>1, <1>2, Sizes DEF Init, TypeOK, CellType
  <1>4. DebugValidate
    BY DEF Init, DebugValidate, NoCells, Unused
  <1>5. HkvInv
    BY DEF Init, HkvInv, JobOK
  <1> QED
    BY <1>3, <1>4, <1>5 DEF Inv

LEMMA PutValKeepsInv ==
    ASSUME Inv, NEW k \in Key, NEW v \in Value, PutVal(k, v)
    PROVE  Inv'
  <1>1. TypeOK'
    BY DEF Inv, TypeOK, PutVal
  <1>2. DebugValidate'
    BY DEF Inv, DebugValidate, PutVal
  <1>3. JobOK'
    BY DEF PutVal, JobOK
  <1>4. \A h \in kvdata' : HkvOK(h)
    BY DEF Inv, HkvInv, PutVal
  <1> QED
    BY <1>1, <1>2, <1>3, <1>4 DEF Inv, HkvInv, HkvOK

(* Where the indexes of a sheet go when it is split. *)
LEMMA SplitIndexTyped ==
    ASSUME TypeOK, NEW this \in Sheet, sheets_size < SheetsMax
    PROVE  /\ SplitIndex(this, sheets_size) \in [Sheet -> 0 .. sheets_size]
           /\ \A i \in Sheet :
                 \/ SplitIndex(this, sheets_size)[i] = sheets_index[i]
                 \/ sheets_index[i] = this /\ SplitIndex(this, sheets_size)[i] = sheets_size
  <1> DEFINE Odd(i) == Cardinality({j \in 0 .. i - 1 : sheets_index[j] = this}) % 2 = 1
  <1>1. SplitIndex(this, sheets_size) =
           [i \in Sheet |-> IF sheets_index[i] = this /\ Odd(i) THEN sheets_size ELSE sheets_index[i]]
    BY DEF SplitIndex
  <1>2. sheets_size \in Nat /\ \A i \in Sheet : sheets_index[i] \in 0 .. sheets_size - 1
    BY Sizes DEF TypeOK
  <1> HIDE DEF Odd
  <1>3. \A i \in Sheet : IF sheets_index[i] = this /\ Odd(i)
                         THEN SplitIndex(this, sheets_size)[i] = sheets_size
                         ELSE SplitIndex(this, sheets_size)[i] = sheets_index[i]
    BY <1>1
  <1>4. \A i \in Sheet : SplitIndex(this, sheets_size)[i] \in 0 .. sheets_size
    BY <1>2, <1>3
  <1> QED
    BY <1>1, <1>3, <1>4

LEMMA SplitSheetKeepsInv ==
    ASSUME Inv, SplitSheet
    PROVE  Inv'
  <1> DEFINE this == SheetOf(job.key)
             that == sheets_size
  <1> USE DEF Inv
  <1>1. job \in [key : Key, val : Value] /\ job.key \in Key
    BY DEF SplitSheet, TypeOK
  <1>2. /\ this \in 0 .. sheets_size - 1 /\ this \in Sheet
        /\ that \in Sheet /\ this # that /\ sheets_size < SheetsMax
        /\ sheets_size \in Nat /\ sheets_size' = sheets_size + 1
    <2>1. this \in 0 .. sheets_size - 1 /\ this \in Sheet
      BY <1>1, SheetTyped
    <2>2. sheets_size \in Nat /\ sheets_size < SheetsMax /\ sheets_size' = sheets_size + 1
      BY Sizes DEF SplitSheet, TypeOK
    <2> QED
      BY <2>1, <2>2, Sizes DEF Sheet
  <1>3. /\ sheets_index' \in [Sheet -> 0 .. sheets_size]
        /\ \A i \in Sheet :
              \/ sheets_index'[i] = sheets_index[i]
              \/ sheets_index[i] = this /\ sheets_index'[i] = that
    <2>1. sheets_index' = SplitIndex(this, sheets_size)
      BY DEF SplitSheet
    <2> QED
      BY <1>2, <2>1, SplitIndexTyped
  <1>4. \A s \in Sheet, r \in Row, c \in Cell : sheets[s][r][c] \in CellType
    BY DEF TypeOK, CellType
  <1>5. sheets' = SplitCells(this, that)
    BY DEF SplitSheet
  <1> HIDE DEF this, that
  <1>6. \A r \in Row, c \in Cell :
           /\ sheets'[that][r][c] = IF MovesTo(sheets[this][r][c], that) THEN sheets[this][r][c]
                                                                         ELSE sheets[that][r][c]
           /\ sheets'[this][r][c] = IF MovesTo(sheets[this][r][c], that)
                                       THEN [sheets[this][r][c] EXCEPT !.pos = 0]
                                       ELSE sheets[this][r][c]
           /\ \A s \in Sheet \ {this, that} : sheets'[s][r][c] = sheets[s][r][c]
    BY <1>2, <1>5 DEF SplitCells, TypeOK
  <1>7. sheets' \in [Sheet -> [Row -> [Cell -> CellType]]]
    <2>1. \A r \in Row, c \in Cell : [sheets[this][r][c] EXCEPT !.pos = 0] \in CellType
      BY <1>2, <1>4, Sizes DEF CellType
    <2>2. /\ [r \in Row |-> [c \in Cell |-> IF MovesTo(sheets[this][r][c], that)
                                            THEN sheets[this][r][c] ELSE sheets[that][r][c]]]
               \in [Row -> [Cell -> CellType]]
          /\ [r \in Row |-> [c \in Cell |-> IF MovesTo(sheets[this][r][c], that)
                                            THEN [sheets[this][r][c] EXCEPT !.pos = 0]
                                            ELSE sheets[this][r][c]]]
               \in [Row -> [Cell -> CellType]]
      BY <1>2, <1>4, <2>1
    <2> QED
      BY <1>2, <1>5, <2>2 DEF SplitCells, TypeOK, CellType
  <1>8. TypeOK'
    <2>1. sheets_size' \in SheetsAtStart .. SheetsMax
      BY <1>2, Sizes DEF TypeOK
    <2>2. sheets_index' \in [Sheet -> 0 .. sheets_size' - 1]
      BY <1>2, <1>3
    <2>3. UNCHANGED <<kvdata_size, kvdata_used, job, given>>
      BY DEF SplitSheet
    <2> QED
      BY <1>7, <2>1, <2>2, <2>3 DEF TypeOK, CellType
  <1>9. DebugValidate'
    <2> SUFFICES ASSUME NEW s \in Sheet, NEW r \in Row, NEW c \in Cell, sheets'[s][r][c].pos # 0
                 PROVE  sheets_index'[sheets'[s][r][c].hi % SheetsMax] = s
      BY DEF DebugValidate
    <2>1. \A cell \in CellType : cell.hi % SheetsMax \in Sheet
      BY Sizes DEF CellType, Sheet
    <2>2. \A t \in Sheet : sheets[t][r][c].pos # 0
             => sheets_index[sheets[t][r][c].hi % SheetsMax] = t
      BY DEF DebugValidate
    <2>3. sheets[that][r][c].pos = 0
      <3>1. sheets_index[sheets[that][r][c].hi % SheetsMax] # that
        <4>1. sheets[that][r][c].hi % SheetsMax \in Sheet
          BY <1>2, <1>4, <2>1
        <4>2. sheets_index[sheets[that][r][c].hi % SheetsMax] \in 0 .. sheets_size - 1
          BY <4>1 DEF TypeOK
        <4> QED
          BY <1>2, <4>2 DEF that
      <3> QED
        BY <1>2, <2>2, <3>1
    <2>4. CASE s = that
      <3>1. MovesTo(sheets[this][r][c], that)
        BY <1>6, <2>3, <2>4
      <3>2. sheets'[that][r][c] = sheets[this][r][c]
        BY <1>6, <3>1
      <3> QED
        BY <2>4, <3>1, <3>2 DEF MovesTo
    <2>5. CASE s = this
      <3>1. ~ MovesTo(sheets[this][r][c], that) /\ sheets'[this][r][c] = sheets[this][r][c]
        BY <1>2, <1>4, <1>6, <2>5 DEF CellType
      <3>2. sheets_index'[sheets[this][r][c].hi % SheetsMax] # that
        BY <3>1, <2>5 DEF MovesTo
      <3>3. sheets[this][r][c].hi % SheetsMax \in Sheet
        BY <1>2, <1>4, <2>1
      <3>4. sheets_index'[sheets[this][r][c].hi % SheetsMax]
               = sheets_index[sheets[this][r][c].hi % SheetsMax]
        BY <1>3, <3>2, <3>3
      <3> QED
        BY <1>2, <2>2, <2>5, <3>1, <3>4
    <2>6. CASE s \notin {this, that}
      <3>1. sheets'[s][r][c] = sheets[s][r][c]
        BY <1>6, <2>6
      <3>2. sheets_index[sheets[s][r][c].hi % SheetsMax] = s
        BY <2>2, <3>1
      <3>3. sheets[s][r][c].hi % SheetsMax \in Sheet
        BY <1>4, <2>1
      <3> QED
        BY <1>3, <2>6, <3>1, <3>2, <3>3
    <2> QED
      BY <2>4, <2>5, <2>6
  <1>10. HkvInv'
    BY DEF HkvInv, SplitSheet, JobOK, HkvOK
  <1> QED
    BY <1>8, <1>9, <1>10

LEMMA CannotSplitKeepsInv ==
    ASSUME Inv, CannotSplit
    PROVE  Inv'
  BY DEF Inv, CannotSplit, TypeOK, DebugValidate, HkvInv, JobOK, HkvOK

(* Where a key goes when one of its rows has room. *)
LEMMA PlaceTyped ==
    ASSUME TypeOK, NEW k \in Key, ~ Full(k)
    PROVE  /\ RowFor(k) \in Row /\ RowFor(k) \in {Row1(k), Row2(k)}
           /\ FirstFree(SheetOf(k), RowFor(k)) \in Cell \ Used(SheetOf(k), RowFor(k))
  <1> DEFINE s == SheetOf(k)
             u1 == Used(s, Row1(k))
             u2 == Used(s, Row2(k))
  <1>1. Used(s, RowFor(k)) # Cell
    <2>1. u1 \in SUBSET Cell /\ u2 \in SUBSET Cell
      BY DEF Used
    <2>2. IsFiniteSet(Cell)
      BY FS_Interval, Sizes DEF Cell
    <2>3. ~ (u1 = Cell /\ u2 = Cell)
      BY DEF Full
    <2> HIDE DEF u1, u2
    <2>4. /\ Cardinality(u1) \in Nat /\ Cardinality(u2) \in Nat /\ Cardinality(Cell) \in Nat
          /\ Cardinality(u1) <= Cardinality(Cell) /\ Cardinality(u2) <= Cardinality(Cell)
          /\ Cardinality(Cell) = Cardinality(u1) => Cell = u1
      BY <2>1, <2>2, FS_Subset, FS_CardinalityType
    <2>5. CASE Cardinality(u1) < Cardinality(u2)
      <3>1. u1 # Cell
        BY <2>4, <2>5
      <3> QED
        BY <2>5, <3>1 DEF RowFor, u1, u2
    <2>6. CASE ~ (Cardinality(u1) < Cardinality(u2))
      <3>1. u2 # Cell
        BY <2>3, <2>4, <2>6
      <3> QED
        BY <2>6, <3>1 DEF RowFor, u1, u2
    <2> QED
      BY <2>5, <2>6
  <1>2. Cell \ Used(s, RowFor(k)) # {}
    BY <1>1 DEF Used
  <1>3. RowFor(k) \in {Row1(k), Row2(k)}
    BY DEF RowFor
  <1> QED
    BY <1>2, <1>3, FirstIsOne, IndexTyped DEF FirstFree

(* The new hkv is as HkvOK wants it. *)
LEMMA NewHkvOK ==
    ASSUME Inv, job # NoJob
    PROVE  HkvOK([pos |-> kvdata_used, len |-> HkvSize(job.key, job.val),
                  header |-> Pack(KeyLen[job.key], job.val[1]), key |-> job.key, val |-> job.val])
  <1>1. job \in [key : Key, val : Value] /\ HeaderLen(KeyLen[job.key], job.val[1]) # 0
    BY DEF Inv, HkvInv, JobOK
  <1>2. KeyLen[job.key] \in Nat /\ job.val[1] \in Nat /\ job.key \in Key /\ job.val \in Value
    BY <1>1, Lengths
  <1>3. kvdata_used \in Nat
    BY Sizes DEF Inv, TypeOK
  <1>4. HkvSize(job.key, job.val) \in Nat
    BY <1>2 DEF HkvSize, HeaderLen
  <1> QED
    BY <1>1, <1>2, <1>3, <1>4 DEF HkvOK

(* Pages for an hkv of any length. *)
LEMMA EnoughPages ==
    ASSUME NEW w \in Nat
    PROVE  Pages(w) \in Nat /\ w + Page <= Pages(w) /\ Pages(w) < w + 2 * Page
  <1> DEFINE m == w + Page - 1
             q == m \div Page
             n == q * Page
  <1>1. m \in Nat
    BY Sizes
  <1>4. Pages(w) = n + Page
    BY DEF Pages
  <1> HIDE DEF m
  <1>2. q \in Nat /\ m % Page \in 0 .. Page - 1 /\ m = Page * q + (m % Page)
    BY <1>1, Sizes
  <1> HIDE DEF q
  <1>3. n = Page * q /\ n \in Nat
    BY <1>2, Sizes
  <1> HIDE DEF n
  <1>5. n = m - (m % Page)
    BY <1>1, <1>2, <1>3, Sizes
  <1> QED
    BY <1>1, <1>2, <1>3, <1>4, <1>5, Sizes DEF m

LEMMA AppendKeepsInv ==
    ASSUME Inv, AppendHkv
    PROVE  Inv'
  <1> DEFINE k == job.key
             s == SheetOf(k)
             r == RowFor(k)
             c == FirstFree(s, r)
             w == Want(k, job.val)
             new == [pos |-> kvdata_used, hi |-> Hash[k][1], lo |-> Hash[k][2]]
  <1>1. job # NoJob /\ job \in [key : Key, val : Value] /\ k \in Key /\ job.val \in Value
    BY DEF AppendHkv, Inv, TypeOK
  <1>2. s \in Sheet /\ r \in Row /\ c \in Cell
    BY <1>1, SheetTyped, PlaceTyped DEF AppendHkv, Inv
  <1>3. new \in CellType
    BY <1>1, IndexTyped DEF Inv, TypeOK, CellType
  <1>4. sheets' = [sheets EXCEPT ![s][r][c] = new]
    BY DEF AppendHkv
  <1>5. w \in Nat
    <2>1. HkvSize(k, job.val) \in Nat
      BY <1>1, Lengths DEF HkvSize, HeaderLen
    <2> QED
      BY <2>1, Sizes DEF Want
  <1> HIDE DEF k, s, r, c, w, new
  <1>6. TypeOK'
    <2>1. sheets' \in [Sheet -> [Row -> [Cell -> CellType]]]
      BY <1>2, <1>3, <1>4 DEF Inv, TypeOK, CellType
    <2>2. kvdata_size' \in 0 .. KvMod - 1
      <3>1. kvdata_size' = Grown(w)
        BY DEF AppendHkv, w, k
      <3>2. Pages(w) \in Nat
        BY <1>5, EnoughPages
      <3>3. kvdata_size \in 0 .. KvMod - 1
        BY DEF Inv, TypeOK
      <3>4. \A n \in Nat : n % KvMod \in 0 .. KvMod - 1
        BY Sizes
      <3>5. kvdata_size + Pages(w) \in Nat
        BY <3>2, <3>3, Sizes
      <3> QED
        BY <3>1, <3>3, <3>4, <3>5 DEF Grown
    <2>3. kvdata_used' \in 0 .. KvMod - 1
      <3>1. kvdata_used' = (kvdata_used + w) % KvMod
        BY DEF AppendHkv, w, k
      <3> QED
        BY <3>1, <1>5, Sizes DEF Inv, TypeOK
    <2>4. DOMAIN given' \subseteq Sheet \X Row \X Cell
      <3>1. DOMAIN given' = DOMAIN given \union {<<SheetIndex(k), r, c>>}
        BY DEF AppendHkv, c, r, s, k
      <3> QED
        BY <3>1, <1>1, <1>2, IndexTyped DEF Inv, TypeOK
    <2>5. job' = NoJob /\ UNCHANGED <<sheets_index, sheets_size>>
      BY DEF AppendHkv
    <2> QED
      BY <2>1, <2>2, <2>3, <2>4, <2>5 DEF Inv, TypeOK, CellType
  <1>7. DebugValidate'
    <2> SUFFICES ASSUME NEW t \in Sheet, NEW q \in Row, NEW d \in Cell, sheets'[t][q][d].pos # 0
                 PROVE  sheets_index'[sheets'[t][q][d].hi % SheetsMax] = t
      BY DEF DebugValidate
    <2>1. sheets_index' = sheets_index
      BY DEF AppendHkv
    <2>2. CASE t = s /\ q = r /\ d = c
      <3>1. sheets'[t][q][d] = new
        BY <1>2, <1>4, <2>2 DEF Inv, TypeOK
      <3> QED
        BY <2>1, <2>2, <3>1 DEF new, s, SheetOf, SheetIndex
    <2>3. CASE ~ (t = s /\ q = r /\ d = c)
      <3>1. sheets'[t][q][d] = sheets[t][q][d]
        BY <1>2, <1>4, <2>3 DEF Inv, TypeOK
      <3> QED
        BY <2>1, <3>1 DEF Inv, DebugValidate
    <2> QED
      BY <2>2, <2>3
  <1>8. HkvInv'
    <2>1. kvdata' \subseteq kvdata \union {[pos |-> kvdata_used, len |-> HkvSize(job.key, job.val),
                                           header |-> Pack(KeyLen[job.key], job.val[1]),
                                           key |-> job.key, val |-> job.val]}
      BY DEF AppendHkv, Remapped
    <2>2. \A h \in kvdata' : HkvOK(h)
      BY <1>1, <2>1, NewHkvOK DEF Inv, HkvInv
    <2> QED
      BY <2>2 DEF HkvInv, JobOK, HkvOK, AppendHkv
  <1> QED
    BY <1>6, <1>7, <1>8 DEF Inv

LEMMA SetUidHkvKeepsInv ==
    ASSUME Inv, NEW uid \in DOMAIN given, NEW v \in Value, SetUidHkv(uid, v)
    PROVE  Inv'
  <1> DEFINE h == GetUidHkv(uid)
             g == [h EXCEPT !.val = v]
  <1>1. h \in kvdata
    <2>1. h = HkvAt(PosOf(uid)) /\ h # NoHkv
      BY DEF SetUidHkv, GetUidHkv
    <2> QED
      BY <2>1 DEF HkvAt
  <1>2. HkvOK(h) /\ v[1] = h.val[1]
    BY <1>1 DEF Inv, HkvInv, SetUidHkv
  <1>3. HkvOK(g)
    <2> HIDE DEF h
    <2>1. /\ g \in [pos : Nat, len : Nat, header : {Pack(k, n) : k, n \in Nat}, key : Key, val : Value]
          /\ g.key = h.key /\ g.val = v /\ g.header = h.header /\ g.len = h.len
      BY <1>2 DEF HkvOK
    <2> QED
      BY <1>2, <2>1 DEF HkvOK, HkvSize
  <1>4. \A x \in kvdata' : HkvOK(x)
    BY <1>3 DEF SetUidHkv, Inv, HkvInv
  <1>5. TypeOK'
    <2>1. DOMAIN given' = DOMAIN given
      BY DEF SetUidHkv
    <2> QED
      BY <2>1 DEF SetUidHkv, Inv, TypeOK
  <1>6. DebugValidate'
    BY DEF SetUidHkv, Inv, DebugValidate
  <1> QED
    BY <1>4, <1>5, <1>6 DEF Inv, HkvInv, HkvOK, JobOK, SetUidHkv

LEMMA RebootKeepsInv ==
    ASSUME Inv, Reboot
    PROVE  Inv'
  <1>1. FreshIndex \in [Sheet -> 0 .. SheetsAtStart - 1]
    BY Sizes DEF FreshIndex, Sheet
  <1>2. NoCells \in [Row -> [Cell -> CellType]]
    BY Sizes DEF NoCells, Unused, CellType
  <1>3. TypeOK'
    BY <1>1, <1>2, Sizes DEF Reboot, TypeOK, CellType, Inv
  <1>4. DebugValidate'
    BY DEF Reboot, DebugValidate, NoCells, Unused
  <1>5. HkvInv'
    BY DEF Reboot, HkvInv, JobOK
  <1> QED
    BY <1>3, <1>4, <1>5 DEF Inv

LEMMA NextKeepsInv == Inv /\ [Next]_vars => Inv'
  <1> SUFFICES ASSUME Inv, [Next]_vars PROVE Inv'
    OBVIOUS
  <1>1. CASE UNCHANGED vars
    BY <1>1 DEF vars, Inv, TypeOK, DebugValidate, HkvInv, JobOK, HkvOK
  <1>2. CASE Next
    BY <1>2, PutValKeepsInv, SplitSheetKeepsInv, CannotSplitKeepsInv, AppendKeepsInv,
       SetUidHkvKeepsInv, RebootKeepsInv DEF Next
  <1> QED
    BY <1>1, <1>2
-----------------------------------------------------------------------------
(* Indexes name sheets that exist, and sizes stay within 32 bits (or how many
   there are), whatever is put, split, set and rebooted. *)
THEOREM SheetsTyped == Spec => []TypeOK
  <1>1. Inv => TypeOK
    BY DEF Inv
  <1> QED
    BY <1>1, InitInv, NextKeepsInv, PTL DEF Spec

(* What sxe_cdb_instance_debug_validate asserts is true of instances of any size,
   after any number of splits: a cell in use is on the sheet its hash leads to. *)
THEOREM SheetsValid == Spec => []DebugValidate
  <1>1. Inv => DebugValidate
    BY DEF Inv
  <1> QED
    BY <1>1, InitInv, NextKeepsInv, PTL DEF Spec

(* For bit fields of every width and lengths of every size, the header of every
   intact hkv unpacks to the lengths that sxe_cdb_instance_put_val was given. *)
THEOREM HeadersRoundTrip == Spec => []RoundTrip
  <1>1. Inv => RoundTrip
    BY HkvInvRoundTrips DEF Inv
  <1> QED
    BY <1>1, InitInv, NextKeepsInv, PTL DEF Spec
-----------------------------------------------------------------------------
(* UIDs.  kvdata_size does not wrap as long as kvdata_maximum leaves room for one more
   hkv of any length below 2^32: with no limit, or one too close, it may, and then the
   next growth tells mremap that kvdata is smaller than it is. *)
NoWrap ==
    /\ KvMaximum # 0
    /\ \A k \in Key, v \in Value :
          HeaderLen(KeyLen[k], v[1]) # 0 => KvMaximum + HkvSize(k, v) + 2 * Page <= KvMod

CellOf(uid) == sheets[sheets_index[uid[1]]][uid[2]][uid[3]]

(* The cell a UID names is that of the key it was given out for, and is on the sheet and
   in one of the rows that the key's hash leads to; its hkv is intact. *)
Stored(uid) ==
    \E k \in Key, v \in Value :
       /\ given[uid] = <<k, v>>
       /\ uid[1] = SheetIndex(k) /\ uid[2] \in {Row1(k), Row2(k)}
       /\ CellOf(uid).pos # 0 /\ CellOf(uid).hi = Hash[k][1] /\ CellOf(uid).lo = Hash[k][2]
       /\ \E h \in kvdata : h.pos = CellOf(uid).pos /\ h.key = k /\ h.val = v

(* No two UIDs share an hkv, and every cell in use has a UID. *)
OneUidEach ==
    /\ \A u, w \in DOMAIN given : CellOf(u).pos = CellOf(w).pos => u = w
    /\ \A s \in Sheet, r \in Row, c \in Cell :
          sheets[s][r][c].pos # 0 => <<sheets[s][r][c].hi % SheetsMax, r, c>> \in DOMAIN given

(* The hkvs are laid out one after the other, below what is used of what is mapped. *)
LaidOut ==
    /\ kvdata_used >= 1 /\ kvdata_used <= kvdata_size
    /\ \A h \in kvdata : h.pos >= 1 /\ h.pos + h.len <= kvdata_used
    /\ \A g, h \in kvdata : g.pos = h.pos => g = h
    /\ job # NoJob => kvdata_size <= KvMaximum

UidInv == Inv /\ LaidOut /\ OneUidEach /\ \A uid \in DOMAIN given : Stored(uid)
-----------------------------------------------------------------------------
LEMMA UidTyped ==
    ASSUME TypeOK, NEW uid \in DOMAIN given
    PROVE  /\ uid \in Sheet \X Row \X Cell /\ uid = <<uid[1], uid[2], uid[3]>>
           /\ uid[1] \in Sheet /\ uid[2] \in Row /\ uid[3] \in Cell
           /\ sheets_index[uid[1]] \in Sheet
  <1>1. uid \in Sheet \X Row \X Cell
    BY DEF TypeOK
  <1>2. uid[1] \in Sheet /\ uid[2] \in Row /\ uid[3] \in Cell /\ uid = <<uid[1], uid[2], uid[3]>>
    BY <1>1
  <1>3. sheets_index[uid[1]] \in Sheet
    BY <1>2, Sizes DEF TypeOK, Sheet
  <1> QED
    BY <1>1, <1>2, <1>3

(* An hkv takes space, and is not NoHkv. *)
LEMMA HkvTakesSpace ==
    ASSUME NEW h, HkvOK(h)
    PROVE  h.pos \in Nat /\ h.len \in Nat /\ h.len >= 1 /\ h # NoHkv
  <1>1. h \in [pos : Nat, len : Nat, header : {Pack(k, v) : k, v \in Nat}, key : Key, val : Value]
    BY DEF HkvOK
  <1>2. KeyLen[h.key] \in Nat /\ h.val[1] \in Nat
    BY <1>1, Lengths
  <1>3. h.len = HeaderLen(KeyLen[h.key], h.val[1]) + KeyLen[h.key] + h.val[1]
    BY DEF HkvOK, HkvSize
  <1>4. HeaderLen(KeyLen[h.key], h.val[1]) \in {1, 3, 5, 8}
    BY <1>2, PackedFields DEF HkvOK
  <1>5. h # NoHkv
    <2>1. DOMAIN h = {"pos", "len", "header", "key", "val"}
      BY <1>1
    <2>2. DOMAIN NoHkv = {}
      BY DEF NoHkv
    <2> QED
      BY <2>1, <2>2
  <1> QED
    BY <1>1, <1>2, <1>3, <1>4, <1>5

(* What is read where an hkv begins is that hkv. *)
LEMMA HkvAtItsPlace ==
    ASSUME Inv, LaidOut, NEW h \in kvdata
    PROVE  HkvAt(h.pos) = h /\ h # NoHkv
  <1>1. {g \in kvdata : g.pos = h.pos} = {h}
    BY DEF LaidOut
  <1>2. h # NoHkv
    BY HkvTakesSpace DEF Inv, HkvInv
  <1> QED
    BY <1>1, <1>2 DEF HkvAt

(* The hkv of a UID. *)
LEMMA UidHkv ==
    ASSUME UidInv, NEW uid \in DOMAIN given
    PROVE  /\ GetUidHkv(uid) \in kvdata /\ GetUidHkv(uid) # NoHkv
           /\ GetUidHkv(uid).pos = CellOf(uid).pos
           /\ given[uid] = <<GetUidHkv(uid).key, GetUidHkv(uid).val>>
  <1>1. PICK k \in Key, v \in Value :
           /\ given[uid] = <<k, v>> /\ CellOf(uid).pos # 0
           /\ \E h \in kvdata : h.pos = CellOf(uid).pos /\ h.key = k /\ h.val = v
    BY DEF UidInv, Stored
  <1>2. PICK h \in kvdata : h.pos = CellOf(uid).pos /\ h.key = k /\ h.val = v
    BY <1>1
  <1>3. PosOf(uid) = h.pos /\ PosOf(uid) # 0
    BY <1>1, <1>2 DEF PosOf, CellOf
  <1>4. HkvAt(h.pos) = h /\ h # NoHkv
    BY HkvAtItsPlace DEF UidInv
  <1>5. GetUidHkv(uid) = h
    BY <1>3, <1>4 DEF GetUidHkv
  <1> QED
    BY <1>1, <1>2, <1>4, <1>5

LEMMA UidInvStable == UidInv => UidStable
  BY UidHkv DEF UidStable

(* A cell that matches a key has a UID that was given out for that key. *)
LEMMA MatchIsGiven ==
    ASSUME UidInv, NEW k \in Key, NEW r \in {Row1(k), Row2(k)}, NEW c \in Cell,
           Matches(sheets[SheetOf(k)][r][c], k)
    PROVE  <<SheetIndex(k), r, c>> \in DOMAIN given /\ given[<<SheetIndex(k), r, c>>][1] = k
  <1> DEFINE cell == sheets[SheetOf(k)][r][c]
             uid  == <<SheetIndex(k), r, c>>
  <1>1. SheetOf(k) \in Sheet /\ r \in Row
    BY SheetTyped, IndexTyped DEF UidInv, Inv
  <1>2. cell.pos # 0 /\ cell.hi = Hash[k][1] /\ HkvAt(cell.pos).key = k
    BY DEF Matches
  <1>3. uid \in DOMAIN given
    BY <1>1, <1>2 DEF UidInv, OneUidEach, SheetIndex
  <1>4. PosOf(uid) = cell.pos
    BY DEF PosOf, SheetOf
  <1>5. GetUidHkv(uid).key = k
    BY <1>2, <1>4 DEF GetUidHkv
  <1> QED
    BY <1>3, <1>5, UidHkv

(* The cell of a UID matches the key that the UID was given out for. *)
LEMMA GivenMatches ==
    ASSUME UidInv, NEW uid \in DOMAIN given
    PROVE  /\ given[uid][1] \in Key
           /\ uid[2] \in {Row1(given[uid][1]), Row2(given[uid][1])} /\ uid[3] \in Cell
           /\ Matches(sheets[SheetOf(given[uid][1])][uid[2]][uid[3]], given[uid][1])
  <1>1. PICK k \in Key, v \in Value :
           /\ given[uid] = <<k, v>>
           /\ uid[1] = SheetIndex(k) /\ uid[2] \in {Row1(k), Row2(k)}
           /\ CellOf(uid).pos # 0 /\ CellOf(uid).hi = Hash[k][1] /\ CellOf(uid).lo = Hash[k][2]
    BY DEF UidInv, Stored
  <1>2. PICK h \in kvdata : h = GetUidHkv(uid) /\ h.pos = CellOf(uid).pos /\ h.key = k
    BY <1>1, UidHkv
  <1>3. HkvAt(CellOf(uid).pos) = h /\ h # NoHkv
    BY <1>2, HkvAtItsPlace DEF UidInv
  <1>4. CellOf(uid) = sheets[SheetOf(k)][uid[2]][uid[3]]
    BY <1>1 DEF CellOf, SheetOf
  <1>5. uid[3] \in Cell
    BY UidTyped DEF UidInv, Inv
  <1>6. Matches(CellOf(uid), k)
    BY <1>1, <1>2, <1>3 DEF Matches
  <1> QED
    BY <1>1, <1>4, <1>5, <1>6

LEMMA UidInvFinds == UidInv => FoundIfPut
  <1> SUFFICES ASSUME UidInv, NEW k \in Key
               PROVE  LET uids == {u \in DOMAIN given : given[u][1] = k}
                      IN  IF uids = {} THEN GetUid(k) = NoUid ELSE GetUid(k) \in uids
    BY DEF FoundIfPut
  <1> DEFINE uids  == {u \in DOMAIN given : given[u][1] = k}
             found == {c \in Cell : \E r \in {Row1(k), Row2(k)} : Matches(sheets[SheetOf(k)][r][c], k)}
             c     == First(found)
             r     == IF Matches(sheets[SheetOf(k)][Row1(k)][c], k) THEN Row1(k) ELSE Row2(k)
  <1>1. GetUid(k) = IF found = {} THEN NoUid ELSE <<SheetIndex(k), r, c>>
    BY DEF GetUid
  <1>2. ASSUME found # {} PROVE <<SheetIndex(k), r, c>> \in uids
    <2>1. c \in found
      BY <1>2, FirstIsOne
    <2>2. c \in Cell /\ r \in {Row1(k), Row2(k)} /\ Matches(sheets[SheetOf(k)][r][c], k)
      BY <2>1
    <2> HIDE DEF r, c
    <2> QED
      BY <2>2, MatchIsGiven
  <1>3. ASSUME NEW u \in uids PROVE found # {}
    BY <1>3, GivenMatches
  <1> HIDE DEF found, r, c
  <1> QED
    BY <1>1, <1>2, <1>3

LEMMA InitUidInv == Init => UidInv
  <1> SUFFICES ASSUME Init PROVE UidInv
    OBVIOUS
  <1>1. DOMAIN given = {} /\ kvdata = {} /\ job = NoJob
    BY DEF Init
  <1>2. LaidOut
    BY <1>1, Sizes DEF Init, LaidOut
  <1>3. OneUidEach
    BY <1>1 DEF Init, OneUidEach, NoCells, Unused
  <1> QED
    BY <1>1, <1>2, <1>3, InitInv DEF UidInv

(* A step that leaves cells, hkvs and UIDs alone. *)
LEMMA SameUids ==
    ASSUME UidInv, Inv', UNCHANGED <<sheets_index, sheets, kvdata, kvdata_size, kvdata_used, given>>,
           job' # NoJob => kvdata_size <= KvMaximum
    PROVE  UidInv'
  <1>1. \A uid \in DOMAIN given : CellOf(uid)' = CellOf(uid)
    BY DEF CellOf
  <1>2. LaidOut'
    BY DEF UidInv, LaidOut
  <1>3. OneUidEach'
    BY <1>1 DEF UidInv, OneUidEach
  <1>4. \A uid \in DOMAIN given' : Stored(uid)'
    BY <1>1 DEF UidInv, Stored
  <1> QED
    BY <1>2, <1>3, <1>4 DEF UidInv

(* A split moves the cells of UIDs to where their indexes then lead, unchanged. *)
LEMMA SplitMoves ==
    ASSUME UidInv, SplitSheet
    PROVE  /\ \A uid \in DOMAIN given : CellOf(uid)' = CellOf(uid)
           /\ \A s \in Sheet, r \in Row, c \in Cell :
                 sheets'[s][r][c].pos # 0 => \E t \in Sheet : sheets'[s][r][c] = sheets[t][r][c]
  <1> USE DEF UidInv, Inv
  <1>1. job.key \in Key /\ sheets_size < SheetsMax /\ sheets_size \in Nat
    BY Sizes DEF SplitSheet, TypeOK
  <1>2. PICK this \in Sheet : this = SheetOf(job.key) /\ this \in 0 .. sheets_size - 1
    BY <1>1, SheetTyped
  <1>3. PICK that \in Sheet : that = sheets_size
    BY <1>1, Sizes DEF Sheet
  <1>4. this # that
    BY <1>1, <1>2, <1>3
  <1>5. sheets_index' = SplitIndex(this, that) /\ sheets' = SplitCells(this, that)
    BY <1>2, <1>3 DEF SplitSheet
  <1>6. \A i \in Sheet : /\ sheets_index[i] \in Sheet /\ sheets_index[i] # that
                         /\ \/ sheets_index'[i] = sheets_index[i]
                            \/ sheets_index[i] = this /\ sheets_index'[i] = that
    <2>1. \A i \in Sheet : \/ sheets_index'[i] = sheets_index[i]
                           \/ sheets_index[i] = this /\ sheets_index'[i] = that
      <3>1. sheets_index' = SplitIndex(this, sheets_size)
        BY <1>3, <1>5
      <3> QED
        BY <1>1, <1>3, <3>1, SplitIndexTyped
    <2>2. \A i \in Sheet : sheets_index[i] \in 0 .. sheets_size - 1
      BY DEF TypeOK
    <2> QED
      BY <1>1, <1>3, <2>1, <2>2, Sizes DEF Sheet
  <1>7. \A r \in Row, c \in Cell :
           /\ sheets'[that][r][c] = IF MovesTo(sheets[this][r][c], that) THEN sheets[this][r][c]
                                                                         ELSE sheets[that][r][c]
           /\ sheets'[this][r][c] = IF MovesTo(sheets[this][r][c], that)
                                       THEN [sheets[this][r][c] EXCEPT !.pos = 0]
                                       ELSE sheets[this][r][c]
           /\ \A s \in Sheet \ {this, that} : sheets'[s][r][c] = sheets[s][r][c]
    BY <1>4, <1>5 DEF SplitCells, TypeOK
  <1>8. ASSUME NEW uid \in DOMAIN given PROVE CellOf(uid)' = CellOf(uid)
    <2>1. /\ uid[1] \in Sheet /\ uid[2] \in Row /\ uid[3] \in Cell /\ sheets_index[uid[1]] \in Sheet
      BY UidTyped
    <2>2. CellOf(uid).pos # 0 /\ CellOf(uid).hi % SheetsMax = uid[1]
      BY DEF Stored, SheetIndex
    <2>3. CellOf(uid)' = sheets'[sheets_index'[uid[1]]][uid[2]][uid[3]]
      BY DEF CellOf
    <2>4. CASE sheets_index[uid[1]] # this
      <3>1. sheets_index'[uid[1]] = sheets_index[uid[1]] /\ sheets_index[uid[1]] \in Sheet \ {this, that}
        BY <1>6, <2>1, <2>4
      <3>2. sheets'[sheets_index[uid[1]]][uid[2]][uid[3]] = CellOf(uid)
        BY <1>7, <2>1, <3>1 DEF CellOf
      <3> QED
        BY <2>3, <3>1, <3>2
    <2>5. CASE sheets_index[uid[1]] = this /\ sheets_index'[uid[1]] = this
      <3>1. CellOf(uid) = sheets[this][uid[2]][uid[3]]
        BY <2>5 DEF CellOf
      <3>2. ~ MovesTo(sheets[this][uid[2]][uid[3]], that)
        BY <1>4, <2>2, <2>5, <3>1 DEF MovesTo
      <3>3. sheets'[this][uid[2]][uid[3]] = sheets[this][uid[2]][uid[3]]
        BY <1>7, <2>1, <3>2
      <3> QED
        BY <2>3, <2>5, <3>1, <3>3
    <2>6. CASE sheets_index[uid[1]] = this /\ sheets_index'[uid[1]] = that
      <3>1. CellOf(uid) = sheets[this][uid[2]][uid[3]]
        BY <2>6 DEF CellOf
      <3>2. MovesTo(sheets[this][uid[2]][uid[3]], that)
        BY <2>2, <2>6, <3>1 DEF MovesTo
      <3> QED
        BY <1>7, <2>1, <2>3, <2>6, <3>1, <3>2
    <2> QED
      BY <1>6, <2>1, <2>4, <2>5, <2>6
  <1>9. ASSUME NEW s \in Sheet, NEW r \in Row, NEW c \in Cell, sheets'[s][r][c].pos # 0
        PROVE  \E t \in Sheet : sheets'[s][r][c] = sheets[t][r][c]
    <2>1. CASE s = this
      <3>1. sheets[this][r][c] \in CellType
        BY DEF TypeOK, CellType
      <3>2. [sheets[this][r][c] EXCEPT !.pos = 0].pos = 0
        BY <3>1 DEF CellType
      <3> QED
        BY <1>7, <1>9, <2>1, <3>2
    <2>2. CASE s # this
      BY <1>7, <2>2
    <2> QED
      BY <2>1, <2>2
  <1> QED
    BY <1>8, <1>9

LEMMA SplitSheetKeepsUidInv ==
    ASSUME UidInv, SplitSheet
    PROVE  UidInv'
  <1>1. UNCHANGED <<kvdata, kvdata_size, kvdata_used, job, given>>
    BY DEF SplitSheet
  <1>2. Inv'
    BY SplitSheetKeepsInv DEF UidInv
  <1>3. LaidOut'
    BY <1>1 DEF UidInv, LaidOut
  <1>4. OneUidEach'
    <2>1. \A u, w \in DOMAIN given' : CellOf(u)'.pos = CellOf(w)'.pos => u = w
      BY <1>1, SplitMoves DEF UidInv, OneUidEach
    <2>2. \A s \in Sheet, r \in Row, c \in Cell : sheets'[s][r][c].pos # 0
             => <<sheets'[s][r][c].hi % SheetsMax, r, c>> \in DOMAIN given'
      BY <1>1, SplitMoves DEF UidInv, OneUidEach
    <2> QED
      BY <2>1, <2>2 DEF OneUidEach
  <1>5. \A uid \in DOMAIN given' : Stored(uid)'
    BY <1>1, SplitMoves DEF UidInv, Stored
  <1> QED
    BY <1>2, <1>3, <1>4, <1>5 DEF UidInv

(* With kvdata_maximum far enough from 2^32, there is room for what is appended, and
   a growth of kvdata keeps all that is in it. *)
LEMMA RoomForAppend ==
    ASSUME NoWrap, UidInv, AppendHkv, NEW w \in Nat, w = HkvSize(job.key, job.val)
    PROVE  /\ kvdata_used' = kvdata_used + w /\ kvdata_used' <= kvdata_size'
           /\ Want(job.key, job.val) = w /\ Remapped(w) = kvdata /\ HasRoom(w, w)
  <1>1. /\ job # NoJob /\ job.key \in Key /\ job.val \in Value
        /\ HeaderLen(KeyLen[job.key], job.val[1]) # 0
    BY DEF AppendHkv, UidInv, Inv, HkvInv, JobOK
  <1>2. KvMaximum \in Nat /\ kvdata_size \in Nat /\ kvdata_used \in Nat /\ kvdata_size < KvMod
    BY CdbAssumption, Sizes DEF UidInv, Inv, TypeOK
  <1>3. kvdata_size <= KvMaximum /\ kvdata_used <= kvdata_size
    BY <1>1 DEF UidInv, LaidOut
  <1>4. KvMaximum + w + 2 * Page <= KvMod
    BY <1>1 DEF NoWrap
  <1>0. Want(job.key, job.val) = w
    <2>1. w < KvMod
      BY <1>2, <1>4, Sizes
    <2> QED
      BY <2>1, Sizes DEF Want
  <1>5. kvdata_size' = Grown(w) /\ kvdata_used' = (kvdata_used + w) % KvMod
    BY <1>0 DEF AppendHkv
  <1>6. PICK n \in Nat : n = Pages(w) /\ w + Page <= n /\ n < w + 2 * Page
    BY EnoughPages
  <1>7. (kvdata_size - kvdata_used) % KvMod = kvdata_size - kvdata_used
    BY <1>2, <1>3, Sizes
  <1>8. kvdata_used + w <= kvdata_size'
    <2>1. CASE w > kvdata_size - kvdata_used
      <3>1. kvdata_size' = (kvdata_size + n) % KvMod
        BY <1>5, <1>6, <1>7, <2>1 DEF Grown, Grows
      <3>2. kvdata_size + n < KvMod /\ kvdata_size + n \in Nat
        BY <1>2, <1>3, <1>4, <1>6, Sizes
      <3>3. kvdata_size' = kvdata_size + n
        BY <3>1, <3>2, Sizes
      <3> QED
        BY <1>2, <1>3, <1>6, <3>3, Sizes
    <2>2. CASE ~ (w > kvdata_size - kvdata_used)
      <3>1. kvdata_size' = kvdata_size
        BY <1>5, <1>7, <2>2 DEF Grown, Grows
      <3> QED
        BY <1>2, <2>2, <3>1
    <2> QED
      BY <2>1, <2>2
  <1>9. kvdata_size' < KvMod /\ kvdata_size' \in Nat
    BY AppendKeepsInv, Sizes DEF UidInv, Inv, TypeOK
  <1>10. kvdata_used + w < KvMod /\ kvdata_used + w \in Nat
    BY <1>2, <1>8, <1>9, Sizes
  <1>11. \A m \in Nat : m < KvMod => m % KvMod = m
    BY Sizes
  <1>12. kvdata_used' = kvdata_used + w
    BY <1>5, <1>10, <1>11
  <1>13. Remapped(w) = kvdata
    <2>1. \A h \in kvdata : h.pos \in Nat /\ h.len \in Nat /\ h.pos + h.len <= kvdata_used
      BY HkvTakesSpace DEF UidInv, LaidOut, Inv, HkvInv
    <2>2. \A h \in kvdata : h.pos + h.len <= kvdata_size
      BY <1>2, <1>3, <2>1
    <2> QED
      BY <2>2 DEF Remapped
  <1>14. HasRoom(w, w)
    <2>1. kvdata_used + w <= kvdata_size + Pages(w)
      BY <1>2, <1>3, <1>6, Sizes
    <2> QED
      BY <2>1 DEF HasRoom
  <1> QED
    BY <1>0, <1>8, <1>12, <1>13, <1>14

LEMMA AppendKeepsUidInv ==
    ASSUME NoWrap, UidInv, AppendHkv
    PROVE  UidInv'
  <1> USE DEF UidInv
  <1>1. /\ job # NoJob /\ job' = NoJob /\ job.key \in Key /\ job.val \in Value /\ ~ Full(job.key)
        /\ HeaderLen(KeyLen[job.key], job.val[1]) # 0 /\ UNCHANGED sheets_index
    BY DEF AppendHkv, Inv, HkvInv, JobOK
  <1>2. PICK k \in Key, v \in Value : k = job.key /\ v = job.val
    BY <1>1
  <1>3. PICK s \in Sheet, r \in Row, c \in Cell :
           /\ s = SheetOf(k) /\ r = RowFor(k) /\ c = FirstFree(s, r)
           /\ r \in {Row1(k), Row2(k)} /\ c \notin Used(s, r)
    BY <1>1, <1>2, SheetTyped, PlaceTyped DEF Inv
  <1>4. PICK w \in Nat : w = HkvSize(k, v) /\ w >= 1
    <2>1. KeyLen[k] \in Nat /\ v[1] \in Nat
      BY Lengths
    <2>2. HeaderLen(KeyLen[k], v[1]) \in {1, 3, 5, 8}
      BY <1>1, <1>2, <2>1, PackedFields
    <2> QED
      BY <2>1, <2>2 DEF HkvSize
  <1>5. PICK p \in Nat : p = kvdata_used /\ p >= 1
    BY DEF Inv, TypeOK, LaidOut
  <1>6. /\ kvdata_used' = p + w /\ kvdata_used' <= kvdata_size'
        /\ Want(k, v) = w /\ Remapped(w) = kvdata /\ HasRoom(w, w)
    BY <1>2, <1>4, <1>5, RoomForAppend
  <1> DEFINE uid == <<SheetIndex(k), r, c>>
             new == [pos |-> p, hi |-> Hash[k][1], lo |-> Hash[k][2]]
             hkv == [pos |-> p, len |-> w, header |-> Pack(KeyLen[k], v[1]), key |-> k, val |-> v]
  <1>7. /\ sheets' = [sheets EXCEPT ![s][r][c] = new]
        /\ kvdata' = {h \in kvdata : ~ Overlap(h, p, w)} \union {hkv}
        /\ given' = [u \in DOMAIN given \union {uid} |-> IF u = uid THEN <<k, v>> ELSE given[u]]
    <2>1. kvdata' = {h \in Remapped(w) : ~ Overlap(h, p, w)} \union {h \in {hkv} : HasRoom(w, w)}
      BY <1>2, <1>4, <1>5, <1>6 DEF AppendHkv
    <2> QED
      BY <1>2, <1>3, <1>4, <1>5, <1>6, <2>1 DEF AppendHkv
  <1>8. Inv'
    BY AppendKeepsInv
  <1>9. \A h \in kvdata : /\ h.pos \in Nat /\ h.len \in Nat /\ h.len >= 1
                          /\ h.pos >= 1 /\ h.pos + h.len <= p /\ h.pos < p
    <2>1. \A h \in kvdata : h.pos \in Nat /\ h.len \in Nat /\ h.len >= 1
      BY HkvTakesSpace DEF Inv, HkvInv
    <2> QED
      BY <1>5, <2>1 DEF LaidOut
  <1>10. kvdata' = kvdata \union {hkv}
    <2>1. \A h \in kvdata : ~ Overlap(h, p, w)
      BY <1>4, <1>5, <1>9 DEF Overlap
    <2> QED
      BY <1>7, <2>1
  <1>11. hkv.pos = p /\ hkv.len = w /\ hkv.key = k /\ hkv.val = v
    OBVIOUS
  <1>12. new.pos = p /\ new.hi = Hash[k][1] /\ new.lo = Hash[k][2]
    OBVIOUS
  <1> HIDE DEF hkv, new
  <1>13. LaidOut'
    <2>1. \A h \in kvdata' : h.pos >= 1 /\ h.pos + h.len <= p + w
      BY <1>4, <1>5, <1>9, <1>10, <1>11
    <2>2. \A g, h \in kvdata' : g.pos = h.pos => g = h
      <3>1. \A h \in kvdata : h.pos # hkv.pos
        BY <1>5, <1>9, <1>11
      <3> QED
        BY <1>10, <3>1 DEF LaidOut
    <2> QED
      BY <1>1, <1>4, <1>5, <1>6, <2>1, <2>2 DEF LaidOut
  <1>14. \A t \in Sheet, q \in Row, d \in Cell :
            sheets'[t][q][d] = IF t = s /\ q = r /\ d = c THEN new ELSE sheets[t][q][d]
    BY <1>7 DEF Inv, TypeOK
  <1>15. SheetIndex(k) \in Sheet /\ sheets_index[SheetIndex(k)] = s
    BY <1>3, IndexTyped DEF SheetOf
  <1>16. CellOf(uid)' = new
    BY <1>1, <1>14, <1>15 DEF CellOf
  <1>17. sheets[s][r][c].pos = 0
    BY <1>3 DEF Used
  <1>18. ASSUME NEW u \in DOMAIN given
         PROVE  /\ u # uid /\ CellOf(u)' = CellOf(u) /\ given'[u] = given[u]
                /\ CellOf(u).pos # p
    <2>1. u[1] \in Sheet /\ u[2] \in Row /\ u[3] \in Cell /\ sheets_index[u[1]] \in Sheet
      BY UidTyped DEF Inv
    <2>2. CellOf(u).pos # 0 /\ \E h \in kvdata : h.pos = CellOf(u).pos
      BY DEF Stored
    <2>3. ~ (sheets_index[u[1]] = s /\ u[2] = r /\ u[3] = c)
      BY <1>17, <2>2 DEF CellOf
    <2>4. u # uid
      BY <1>15, <2>3
    <2>5. CellOf(u)' = CellOf(u)
      BY <1>1, <1>14, <2>1, <2>3 DEF CellOf
    <2>6. CellOf(u).pos # p
      BY <1>5, <1>9, <2>2
    <2> QED
      BY <1>7, <2>4, <2>5, <2>6
  <1>19. DOMAIN given' = DOMAIN given \union {uid} /\ given'[uid] = <<k, v>>
    BY <1>7
  <1>20. OneUidEach'
    <2> HIDE DEF uid
    <2>1. ASSUME NEW u \in DOMAIN given', NEW x \in DOMAIN given', CellOf(u)'.pos = CellOf(x)'.pos
          PROVE  u = x
      <3>1. CASE u = uid \/ x = uid
        BY <1>12, <1>16, <1>18, <1>19, <2>1, <3>1
      <3>2. CASE u # uid /\ x # uid
        BY <1>18, <1>19, <2>1, <3>2 DEF OneUidEach
      <3> QED
        BY <3>1, <3>2
    <2>2. ASSUME NEW t \in Sheet, NEW q \in Row, NEW d \in Cell, sheets'[t][q][d].pos # 0
          PROVE  <<sheets'[t][q][d].hi % SheetsMax, q, d>> \in DOMAIN given'
      <3>1. CASE t = s /\ q = r /\ d = c
        BY <1>12, <1>14, <1>19, <3>1 DEF uid, SheetIndex
      <3>2. CASE ~ (t = s /\ q = r /\ d = c)
        BY <1>14, <1>19, <2>2, <3>2 DEF OneUidEach
      <3> QED
        BY <3>1, <3>2
    <2> QED
      BY <2>1, <2>2 DEF OneUidEach
  <1>21. ASSUME NEW u \in DOMAIN given' PROVE Stored(u)'
    <2>1. CASE u = uid
      <3>1. /\ given'[u] = <<k, v>> /\ u[1] = SheetIndex(k) /\ u[2] \in {Row1(k), Row2(k)}
            /\ CellOf(u)' = new
        BY <1>3, <1>16, <1>19, <2>1
      <3>2. hkv \in kvdata' /\ hkv.pos = CellOf(u)'.pos
        BY <1>10, <1>11, <1>12, <3>1
      <3> QED
        BY <1>5, <1>11, <1>12, <3>1, <3>2 DEF Stored
    <2>2. CASE u # uid
      <3>1. u \in DOMAIN given
        BY <1>19, <2>2
      <3>2. Stored(u) /\ kvdata \subseteq kvdata'
        BY <1>10, <3>1
      <3> QED
        BY <1>18, <3>1, <3>2 DEF Stored
    <2> QED
      BY <2>1, <2>2
  <1> QED
    BY <1>8, <1>13, <1>20, <1>21

LEMMA SetUidHkvKeepsUidInv ==
    ASSUME UidInv, NEW uid \in DOMAIN given, NEW v \in Value, SetUidHkv(uid, v)
    PROVE  UidInv'
  <1> USE DEF UidInv
  <1>1. PICK h \in kvdata : /\ h = GetUidHkv(uid) /\ h.pos = CellOf(uid).pos
                            /\ given[uid] = <<h.key, h.val>>
    BY UidHkv
  <1> DEFINE g == [h EXCEPT !.val = v]
  <1>2. HkvOK(h)
    BY DEF Inv, HkvInv
  <1>3. g.pos = h.pos /\ g.len = h.len /\ g.key = h.key /\ g.val = v
    BY <1>2 DEF HkvOK
  <1>4. /\ kvdata' = (kvdata \ {h}) \union {g} /\ given' = [given EXCEPT ![uid][2] = v]
        /\ UNCHANGED <<sheets_index, sheets, kvdata_size, kvdata_used, job>>
    BY <1>1 DEF SetUidHkv
  <1> HIDE DEF g
  <1>5. DOMAIN given' = DOMAIN given /\ \A u \in DOMAIN given : u # uid => given'[u] = given[u]
    BY <1>4
  <1>6. given'[uid] = <<h.key, v>>
    BY <1>1, <1>4
  <1>7. \A u \in DOMAIN given : CellOf(u)' = CellOf(u)
    BY <1>4 DEF CellOf
  <1>8. Inv'
    BY SetUidHkvKeepsInv
  <1>9. LaidOut'
    BY <1>3, <1>4 DEF LaidOut
  <1>10. OneUidEach'
    BY <1>4, <1>5, <1>7 DEF OneUidEach
  <1>11. ASSUME NEW u \in DOMAIN given' PROVE Stored(u)'
    <2>1. PICK k \in Key, x \in Value :
             /\ given[u] = <<k, x>>
             /\ u[1] = SheetIndex(k) /\ u[2] \in {Row1(k), Row2(k)}
             /\ CellOf(u).pos # 0 /\ CellOf(u).hi = Hash[k][1] /\ CellOf(u).lo = Hash[k][2]
             /\ \E y \in kvdata : y.pos = CellOf(u).pos /\ y.key = k /\ y.val = x
      BY <1>5 DEF Stored
    <2>2. CASE u = uid
      <3>1. k = h.key
        BY <1>1, <2>1, <2>2
      <3>2. /\ given'[u] = <<k, v>> /\ g \in kvdata' /\ g.pos = CellOf(u)'.pos /\ g.key = k /\ g.val = v
        BY <1>1, <1>3, <1>4, <1>6, <1>7, <2>2, <3>1
      <3> QED
        BY <1>5, <1>7, <2>1, <3>2 DEF Stored
    <2>3. CASE u # uid
      <3>1. PICK y \in kvdata : y.pos = CellOf(u).pos /\ y.key = k /\ y.val = x
        BY <2>1
      <3>2. y # h
        BY <1>1, <1>5, <2>3, <3>1 DEF OneUidEach
      <3>3. y \in kvdata' /\ given'[u] = <<k, x>> /\ y.pos = CellOf(u)'.pos
        BY <1>4, <1>5, <1>7, <2>1, <2>3, <3>1, <3>2
      <3> QED
        BY <1>5, <1>7, <2>1, <3>1, <3>3 DEF Stored
    <2> QED
      BY <2>2, <2>3
  <1> QED
    BY <1>8, <1>9, <1>10, <1>11

LEMMA RebootKeepsUidInv ==
    ASSUME UidInv, Reboot
    PROVE  UidInv'
  <1>1. DOMAIN given' = {} /\ kvdata' = {} /\ job' = NoJob
    BY DEF Reboot
  <1>2. LaidOut'
    BY <1>1, Sizes DEF Reboot, LaidOut
  <1>3. OneUidEach'
    BY <1>1 DEF Reboot, OneUidEach, NoCells, Unused
  <1> QED
    BY <1>1, <1>2, <1>3, RebootKeepsInv DEF UidInv

LEMMA NextKeepsUidInv ==
    ASSUME NoWrap, UidInv, [Next]_vars
    PROVE  UidInv'
  <1>1. Inv'
    BY NextKeepsInv DEF UidInv
  <1>2. CASE UNCHANGED vars
    BY <1>1, <1>2, SameUids DEF vars, UidInv, LaidOut
  <1>3. ASSUME NEW k \in Key, NEW v \in Value, PutVal(k, v) PROVE UidInv'
    <2>1. kvdata_size <= KvMaximum
      BY <1>3 DEF PutVal, BelowMaximum, NoWrap
    <2> QED
      BY <1>1, <1>3, <2>1, SameUids DEF PutVal
  <1>4. CASE CannotSplit
    BY <1>1, <1>4, SameUids DEF CannotSplit
  <1>5. CASE SplitSheet
    BY <1>5, SplitSheetKeepsUidInv
  <1>6. CASE AppendHkv
    BY <1>6, AppendKeepsUidInv
  <1>7. ASSUME NEW uid \in DOMAIN given, NEW v \in Value, SetUidHkv(uid, v) PROVE UidInv'
    BY <1>7, SetUidHkvKeepsUidInv
  <1>8. CASE Reboot
    BY <1>8, RebootKeepsUidInv
  <1> QED
    BY <1>2, <1>3, <1>4, <1>5, <1>6, <1>7, <1>8 DEF Next

(* As long as kvdata_maximum keeps the 32 bit sizes from wrapping, a UID that
   sxe_cdb_instance_put_val returned refers to the key it was returned for, with the value
   last set, in an hkv that is intact and mapped, after any number of puts and splits. *)
THEOREM UidsStable == NoWrap => (Spec => []UidStable)
  <1> SUFFICES ASSUME NoWrap PROVE Spec => []UidStable
    OBVIOUS
  <1>1. Init => UidInv
    BY InitUidInv
  <1>2. UidInv /\ [Next]_vars => UidInv'
    BY NextKeepsUidInv
  <1>3. UidInv => UidStable
    BY UidInvStable
  <1> QED
    BY <1>1, <1>2, <1>3, PTL DEF Spec

(* Under the same condition sxe_cdb_instance_get_uid finds every key that was put, by a
   UID that was returned for it, and no key that was not. *)
THEOREM KeysFound == NoWrap => (Spec => []FoundIfPut)
  <1> SUFFICES ASSUME NoWrap PROVE Spec => []FoundIfPut
    OBVIOUS
  <1>1. Init => UidInv
    BY InitUidInv
  <1>2. UidInv /\ [Next]_vars => UidInv'
    BY NextKeepsUidInv
  <1>3. UidInv => FoundIfPut
    BY UidInvFinds
  <1> QED
    BY <1>1, <1>2, <1>3, PTL DEF Spec
-----------------------------------------------------------------------------
(***************************************************************************)
(* Threads that share ensembles of instances, all made with locks, neither *)
(* share nor lose an instance: for any number of threads, ensembles and    *)
(* slots, whatever calls they make and whichever way round they swap.      *)
(*                                                                         *)
(* The slots alone are not all of the state: in the middle of a swap one   *)
(* instance is in no slot but in a variable of the thread.  View is what   *)
(* each slot holds once that swap is done.  It is one to one throughout    *)
(* (ViewSound), and who works on a slot holds its lock (Locks), so no two  *)
(* threads work on one instance.                                           *)
(***************************************************************************)

Labels == {"idle", "load", "lock", "work", "lock this", "lock that", "swap", "swapped",
           "lock ensembles", "lock all", "reboot", "unlock all", "destroy"}

EnsTyped ==
    /\ EnsembleAssumption /\ EnsTypeOK
    /\ pc \in [Thread -> Labels] /\ task \in [Thread -> Jobs \union {NoTask}]

(* The call a thread is in goes with where it is. *)
InCall(t) ==
    /\ pc[t] = "idle" <=> task[t] = NoTask
    /\ pc[t] \in {"load", "lock", "work"} => task[t].op = "use"
    /\ pc[t] \in {"lock this", "lock that", "swap", "swapped"} => task[t].op = "swap"
    /\ pc[t] \in {"lock all", "reboot", "unlock all"} => task[t].op = "reboot"
    /\ pc[t] = "lock ensembles" => task[t].op \in {"reboot", "destroy"} /\ at[t] = 0
    /\ pc[t] = "destroy" => task[t].op = "destroy"
    /\ pc[t] \in {"swap", "swapped"} => task[t].e # task[t].f

(* The locks a thread holds. *)
Holds(t, e, i) ==
    \/ pc[t] \in {"work", "lock that", "swap", "swapped"} /\ e = task[t].e /\ i = at[t]
    \/ pc[t] \in {"swap", "swapped"} /\ e = task[t].f /\ i = at[t]
    \/ pc[t] = "lock all" /\ e = task[t].e /\ i < at[t]
    \/ pc[t] = "reboot" /\ e = task[t].e
    \/ pc[t] = "unlock all" /\ e = task[t].e /\ i >= at[t]

Locks == \A t \in Thread, e \in Ensemble, i \in Slot : lock[e][i] = t <=> Holds(t, e, i)

(* The instance of a slot, once the swap that holds its lock is done. *)
View(e, i) ==
    IF lock[e][i] \in Thread /\ pc[lock[e][i]] = "swapped" /\ task[lock[e][i]].f = e
    THEN ptr[lock[e][i]] ELSE slot[e][i]

ViewSound ==
    /\ \A e \in Ensemble, i \in Slot : View(e, i) \in Instance
    /\ \A e, f \in Ensemble, i, k \in Slot : View(e, i) = View(f, k) => e = f /\ i = k
    /\ \A x \in Instance : \E e \in Ensemble, i \in Slot : View(e, i) = x

(* The ensembles in use are not destroyed, nor are the instances of those that are not;
   and nobody else uses one that is being destroyed. *)
AliveSound ==
    /\ \A t \in Thread : UsedBy(task[t]) \subseteq alive
    /\ \A e \in Ensemble, i \in Slot : e \in alive => View(e, i) \in alive
    /\ \A t, u \in Thread :
          t # u /\ task[t] # NoTask /\ task[u] # NoTask /\ task[t].op = "destroy"
             => UsedBy(task[t]) \intersect UsedBy(task[u]) = {}

EnsInv == EnsTyped /\ (\A t \in Thread : InCall(t)) /\ Locks /\ ViewSound /\ AliveSound
-----------------------------------------------------------------------------
LEMMA JobTyped ==
    ASSUME EnsTyped, NEW t \in Thread, task[t] # NoTask
    PROVE  /\ task[t] \in Jobs /\ task[t].e \in Ensemble
           /\ task[t].op \in {"use", "swap", "reboot", "destroy"}
           /\ task[t].op = "swap" => task[t].f \in Ensemble
  BY DEF EnsTyped, EnsembleAssumption, AllJobs

LEMMA StateTyped ==
    ASSUME EnsTyped
    PROVE  /\ Slots \in Nat \ {0} /\ NoThread \notin Thread
           /\ slot \in [Ensemble -> [Slot -> Instance]]
           /\ lock \in [Ensemble -> [Slot -> Thread \union {NoThread}]]
           /\ elock \in Thread \union {NoThread} /\ alive \subseteq Ensemble \union Instance
           /\ pc \in [Thread -> Labels] /\ task \in [Thread -> Jobs \union {NoTask}]
           /\ at \in [Thread -> Slot] /\ ptr \in [Thread -> Instance \union {NoPtr}]
  BY DEF EnsTyped, EnsembleAssumption, EnsTypeOK

(* Going round the slots. *)
LEMMA NextSlot ==
    ASSUME EnsTyped, NEW i \in Slot
    PROVE  /\ i \in Nat /\ 0 \in Slot /\ (i + 1 \in Slot <=> i + 1 # Slots)
           /\ i + 1 # Slots => (i + 1) % Slots = i + 1 /\ i + 1 \in Slot
           /\ i + 1 = Slots => (i + 1) % Slots = 0 /\ \A k \in Slot : k < i \/ k = i
           /\ (i + 1) % Slots \in Slot
  <1>1. Slots \in Nat /\ Slots > 0
    BY StateTyped
  <1>2. i \in Nat /\ i < Slots
    BY <1>1 DEF Slot
  <1>3. CASE i + 1 = Slots
    BY <1>1, <1>2, <1>3 DEF Slot
  <1>4. CASE i + 1 # Slots
    BY <1>1, <1>2, <1>4 DEF Slot
  <1> QED
    BY <1>3, <1>4

LEMMA InitEnsInv == EnsInit => EnsInv
  <1> SUFFICES ASSUME EnsInit PROVE EnsInv
    OBVIOUS
  <1>1. 0 \in Slot
    BY DEF EnsInit, EnsembleAssumption, Slot
  <1>2. EnsTyped
    BY <1>1 DEF EnsInit, EnsTyped, EnsTypeOK, Instance, Labels
  <1>3. \A t \in Thread : pc[t] = "idle" /\ task[t] = NoTask
    BY DEF EnsInit
  <1>4. \A t \in Thread : InCall(t)
    BY <1>3 DEF InCall
  <1>5. \A e \in Ensemble, i \in Slot : lock[e][i] = NoThread /\ NoThread \notin Thread
    BY DEF EnsInit, EnsembleAssumption
  <1>6. Locks
    BY <1>3, <1>5 DEF Locks, Holds
  <1>7. \A e \in Ensemble, i \in Slot : View(e, i) = <<e, i>>
    BY <1>5 DEF EnsInit, View
  <1>8. ViewSound
    BY <1>7 DEF ViewSound, Instance
  <1>9. AliveSound
    BY <1>3, <1>7 DEF EnsInit, AliveSound, UsedBy, Instance
  <1> QED
    BY <1>2, <1>4, <1>6, <1>8, <1>9 DEF EnsInv

LEMMA InvGivesEnsembleSound == EnsInv => EnsembleSound
  <1> SUFFICES ASSUME EnsInv PROVE EnsembleSound
    OBVIOUS
  <1>1. EnsTypeOK
    BY DEF EnsInv, EnsTyped
  <1>2. ASSUME NEW t \in Thread, NEW x \in Working(t)
        PROVE  \E e \in Ensemble, i \in Slot :
                  x = View(e, i) /\ lock[e][i] = t /\ e \in UsedBy(task[t])
    <2>1. x = slot[task[t].e][at[t]] /\ pc[t] \in {"work", "reboot"}
      BY <1>2 DEF Working
    <2>2. task[t] # NoTask /\ task[t].op \in {"use", "reboot"}
      BY <2>1 DEF EnsInv, InCall
    <2>3. task[t].e \in Ensemble /\ at[t] \in Slot
      BY <2>2, JobTyped, StateTyped DEF EnsInv
    <2>4. lock[task[t].e][at[t]] = t
      <3>1. Holds(t, task[t].e, at[t])
        BY <2>1 DEF Holds
      <3> QED
        BY <2>3, <3>1 DEF EnsInv, Locks
    <2>5. View(task[t].e, at[t]) = slot[task[t].e][at[t]]
      BY <2>1, <2>4 DEF View
    <2>6. task[t].e \in UsedBy(task[t])
      BY <2>2 DEF UsedBy
    <2> QED
      BY <2>1, <2>3, <2>4, <2>5, <2>6
  <1>3. ASSUME NEW t \in Thread, NEW u \in Thread, t # u PROVE Working(t) \intersect Working(u) = {}
    <2> SUFFICES ASSUME NEW x \in Working(t), x \in Working(u) PROVE FALSE
      OBVIOUS
    <2>1. PICK e \in Ensemble, i \in Slot : x = View(e, i) /\ lock[e][i] = t
      BY <1>2
    <2>2. PICK f \in Ensemble, k \in Slot : x = View(f, k) /\ lock[f][k] = u
      BY <1>2
    <2>3. e = f /\ i = k
      <3>1. View(e, i) = View(f, k)
        BY <2>1, <2>2
      <3> QED
        BY <3>1 DEF EnsInv, ViewSound
    <2> QED
      BY <1>3, <2>1, <2>2, <2>3
  <1>4. \A t \in Thread : Working(t) \subseteq alive
    BY <1>2 DEF EnsInv, AliveSound
  <1>5. SlotsHoldAll
    <2> SUFFICES ASSUME \A t \in Thread : pc[t] # "swapped"
                 PROVE  {slot[e][i] : e \in Ensemble, i \in Slot} = Instance
      BY DEF SlotsHoldAll
    <2>1. \A e \in Ensemble, i \in Slot : View(e, i) = slot[e][i]
      BY DEF View
    <2> QED
      BY <2>1 DEF EnsInv, ViewSound
  <1> QED
    BY <1>1, <1>3, <1>4, <1>5 DEF EnsembleSound, ExclusiveUse

(* A thread that is not in the middle of a swap changes no slot. *)
LEMMA ViewStays ==
    ASSUME EnsInv, NEW t \in Thread, UNCHANGED slot, pc[t] # "swapped", pc'[t] # "swapped",
           \A u \in Thread \ {t} : pc'[u] = pc[u] /\ task'[u] = task[u] /\ ptr'[u] = ptr[u],
           \A e \in Ensemble, i \in Slot :
              lock'[e][i] = lock[e][i] \/ {lock[e][i], lock'[e][i]} \subseteq {t, NoThread}
    PROVE  \A e \in Ensemble, i \in Slot : View(e, i)' = View(e, i)
  <1> SUFFICES ASSUME NEW e \in Ensemble, NEW i \in Slot PROVE View(e, i)' = View(e, i)
    OBVIOUS
  <1>1. NoThread \notin Thread
    BY StateTyped DEF EnsInv
  <1>2. CASE {lock[e][i], lock'[e][i]} \subseteq {t, NoThread}
    BY <1>1, <1>2 DEF View
  <1>3. CASE lock'[e][i] = lock[e][i] /\ lock[e][i] \notin {t, NoThread}
    BY <1>3 DEF View
  <1> QED
    BY <1>2, <1>3

(* What is to be shown of a step of thread t that goes on in its call or ends it. *)
LEMMA StepKeepsInv ==
    ASSUME EnsInv, NEW t \in Thread, EnsTyped', InCall(t)', UNCHANGED alive,
           \A u \in Thread \ {t} : pc'[u] = pc[u] /\ task'[u] = task[u] /\ at'[u] = at[u],
           task'[t] \in {task[t], NoTask},
           \A e \in Ensemble, i \in Slot :
              /\ lock'[e][i] = t <=> Holds(t, e, i)'
              /\ lock'[e][i] = lock[e][i] \/ {lock[e][i], lock'[e][i]} \subseteq {t, NoThread},
           \A e \in Ensemble, i \in Slot : View(e, i)' = View(e, i)
    PROVE  EnsInv'
  <1>1. NoThread \notin Thread
    BY StateTyped DEF EnsInv
  <1>2. \A u \in Thread : InCall(u)'
    BY DEF EnsInv, InCall
  <1>3. ASSUME NEW u \in Thread, NEW e \in Ensemble, NEW i \in Slot
        PROVE  lock'[e][i] = u <=> Holds(u, e, i)'
    <2>1. CASE u = t
      BY <2>1
    <2>2. CASE u # t
      <3>1. Holds(u, e, i)' <=> Holds(u, e, i)
        BY <2>2 DEF Holds
      <3>2. lock'[e][i] = u <=> lock[e][i] = u
        BY <1>1, <2>2
      <3> QED
        BY <3>1, <3>2 DEF EnsInv, Locks
    <2> QED
      BY <2>1, <2>2
  <1>4. Locks'
    BY <1>3 DEF Locks
  <1>5. ViewSound'
    BY DEF EnsInv, ViewSound, Instance
  <1>6. AliveSound'
    <2>1. \A u \in Thread : task'[u] \in {task[u], NoTask}
      OBVIOUS
    <2>2. \A u \in Thread : UsedBy(task'[u]) \subseteq alive
      BY <2>1 DEF EnsInv, AliveSound, UsedBy
    <2>3. \A e \in Ensemble, i \in Slot : e \in alive' => View(e, i)' \in alive'
      BY DEF EnsInv, AliveSound
    <2>4. \A u, w \in Thread :
             u # w /\ task'[u] # NoTask /\ task'[w] # NoTask /\ task'[u].op = "destroy"
                => UsedBy(task'[u]) \intersect UsedBy(task'[w]) = {}
      BY <2>1 DEF EnsInv, AliveSound
    <2> QED
      BY <2>2, <2>3, <2>4 DEF AliveSound, UsedBy
  <1> QED
    BY <1>2, <1>4, <1>5, <1>6 DEF EnsInv

(* Outside the middle of a swap it is enough to look at the locks: those that are taken
   and given back are the ones that the thread is to hold, or no longer to hold, then. *)
LEMMA MoveKeepsInv ==
    ASSUME EnsInv, NEW t \in Thread, EnsTyped', InCall(t)', UNCHANGED <<slot, alive>>,
           pc[t] # "swapped", pc'[t] # "swapped",
           \A u \in Thread \ {t} : /\ pc'[u] = pc[u] /\ task'[u] = task[u]
                                   /\ at'[u] = at[u] /\ ptr'[u] = ptr[u],
           task'[t] \in {task[t], NoTask},
           \A e \in Ensemble, i \in Slot :
              \/ lock'[e][i] = lock[e][i] /\ (Holds(t, e, i)' <=> Holds(t, e, i))
              \/ lock[e][i] = NoThread /\ lock'[e][i] = t /\ Holds(t, e, i)'
              \/ lock[e][i] = t /\ lock'[e][i] = NoThread /\ ~ Holds(t, e, i)'
    PROVE  EnsInv'
  <1>1. NoThread \notin Thread
    BY StateTyped DEF EnsInv
  <1>2. \A e \in Ensemble, i \in Slot :
           lock'[e][i] = lock[e][i] \/ {lock[e][i], lock'[e][i]} \subseteq {t, NoThread}
    OBVIOUS
  <1>3. \A e \in Ensemble, i \in Slot : lock'[e][i] = t <=> Holds(t, e, i)'
    BY <1>1 DEF EnsInv, Locks
  <1>4. \A e \in Ensemble, i \in Slot : View(e, i)' = View(e, i)
    BY <1>2, ViewStays
  <1>5. \A u \in Thread \ {t} : pc'[u] = pc[u] /\ task'[u] = task[u] /\ at'[u] = at[u]
    OBVIOUS
  <1> QED
    BY <1>2, <1>3, <1>4, <1>5, StepKeepsInv

LEMMA GotoFacts ==
    ASSUME EnsTyped, NEW t \in Thread, NEW l \in Labels, Goto(t, l)
    PROVE  /\ pc' \in [Thread -> Labels] /\ pc'[t] = l
           /\ \A u \in Thread \ {t} : pc'[u] = pc[u]
  BY StateTyped DEF Goto

LEMMA AtFacts ==
    ASSUME EnsTyped, NEW t \in Thread, NEW i \in Slot, At(t, i)
    PROVE  /\ at' \in [Thread -> Slot] /\ at'[t] = i
           /\ \A u \in Thread \ {t} : at'[u] = at[u]
  BY StateTyped DEF At

LEMMA FinishFacts ==
    ASSUME EnsTyped, NEW t \in Thread, Finish(t)
    PROVE  /\ pc' \in [Thread -> Labels] /\ pc'[t] = "idle"
           /\ task' \in [Thread -> Jobs \union {NoTask}] /\ task'[t] = NoTask
           /\ at' \in [Thread -> Slot] /\ ptr' \in [Thread -> Instance \union {NoPtr}]
           /\ \A u \in Thread \ {t} : /\ pc'[u] = pc[u] /\ task'[u] = task[u]
                                      /\ at'[u] = at[u] /\ ptr'[u] = ptr[u]
           /\ InCall(t)' /\ \A e \in Ensemble, i \in Slot : ~ Holds(t, e, i)'
  <1>1. 0 \in Slot
    BY StateTyped DEF Slot
  <1>2. "idle" \in Labels
    BY DEF Labels
  <1>3. pc' \in [Thread -> Labels] /\ pc'[t] = "idle" /\ \A u \in Thread \ {t} : pc'[u] = pc[u]
    BY <1>2, GotoFacts DEF Finish
  <1>4. at' \in [Thread -> Slot] /\ \A u \in Thread \ {t} : at'[u] = at[u]
    BY <1>1, AtFacts DEF Finish
  <1>5. /\ task' \in [Thread -> Jobs \union {NoTask}] /\ task'[t] = NoTask
        /\ ptr' \in [Thread -> Instance \union {NoPtr}]
        /\ \A u \in Thread \ {t} : task'[u] = task[u] /\ ptr'[u] = ptr[u]
    BY StateTyped DEF Finish
  <1>6. InCall(t)' /\ \A e \in Ensemble, i \in Slot : ~ Holds(t, e, i)'
    BY <1>3, <1>5 DEF InCall, Holds
  <1> QED
    BY <1>3, <1>4, <1>5, <1>6

LEMMA LockFacts ==
    ASSUME EnsTyped, Locked = Ensemble, NEW t \in Thread, NEW e \in Ensemble, Lock(t, e)
    PROVE  /\ lock' \in [Ensemble -> [Slot -> Thread \union {NoThread}]]
           /\ lock[e][at[t]] = NoThread
           /\ \A f \in Ensemble, i \in Slot :
                 lock'[f][i] = IF f = e /\ i = at[t] THEN t ELSE lock[f][i]
  <1>1. at[t] \in Slot /\ lock \in [Ensemble -> [Slot -> Thread \union {NoThread}]]
    BY StateTyped
  <1>2. lock[e][at[t]] = NoThread /\ lock' = [lock EXCEPT ![e][at[t]] = t]
    BY DEF Lock
  <1> QED
    BY <1>1, <1>2

LEMMA UnlockFacts ==
    ASSUME EnsTyped, Locked = Ensemble, NEW t \in Thread, NEW e \in Ensemble,
           NEW l \in [Ensemble -> [Slot -> Thread \union {NoThread}]]
    PROVE  /\ Unlocked(l, t, e) \in [Ensemble -> [Slot -> Thread \union {NoThread}]]
           /\ \A f \in Ensemble, i \in Slot :
                 Unlocked(l, t, e)[f][i] = IF f = e /\ i = at[t] THEN NoThread ELSE l[f][i]
  BY StateTyped DEF Unlocked

LEMMA TypedAgain ==
    ASSUME EnsTyped,
           slot' \in [Ensemble -> [Slot -> Instance]],
           lock' \in [Ensemble -> [Slot -> Thread \union {NoThread}]],
           elock' \in Thread \union {NoThread}, alive' \subseteq Ensemble \union Instance,
           pc' \in [Thread -> Labels], task' \in [Thread -> Jobs \union {NoTask}],
           at' \in [Thread -> Slot], ptr' \in [Thread -> Instance \union {NoPtr}]
    PROVE  EnsTyped'
  BY DEF EnsTyped, EnsembleAssumption, AllJobs, Slot, EnsTypeOK, Instance

(* One instance is used: its pointer is loaded, its lock taken, and given back. *)
LEMMA LoadKeepsInv ==
    ASSUME EnsInv, NEW t \in Thread, Load(t)
    PROVE  EnsInv'
  <1>0. EnsTyped /\ InCall(t)
    BY DEF EnsInv
  <1>1. pc[t] = "load" /\ task[t] # NoTask /\ UNCHANGED <<slot, lock, elock, alive, task, at>>
    BY <1>0 DEF Load, InCall
  <1>2. /\ pc' \in [Thread -> Labels] /\ pc'[t] = "lock" /\ \A u \in Thread \ {t} : pc'[u] = pc[u]
    BY <1>0, GotoFacts DEF Load, Labels
  <1>3. task[t].e \in Ensemble /\ at[t] \in Slot
    BY <1>0, <1>1, JobTyped, StateTyped
  <1>4. /\ ptr' \in [Thread -> Instance \union {NoPtr}] /\ \A u \in Thread \ {t} : ptr'[u] = ptr[u]
    BY <1>0, <1>3, StateTyped DEF Load
  <1>5. EnsTyped'
    BY <1>0, <1>1, <1>2, <1>4, StateTyped, TypedAgain
  <1>6. InCall(t)'
    BY <1>0, <1>1, <1>2 DEF InCall
  <1>7. \A e \in Ensemble, i \in Slot : Holds(t, e, i)' <=> Holds(t, e, i)
    BY <1>1, <1>2 DEF Holds
  <1> QED
    BY <1>1, <1>2, <1>4, <1>5, <1>6, <1>7, MoveKeepsInv

(* The steps that take one lock and leave the rest alone. *)
LEMMA TakingKeepsInv ==
    ASSUME EnsInv, Locked = Ensemble, NEW t \in Thread, TakeLock(t) \/ LockThis(t) \/ LockThat(t)
    PROVE  EnsInv'
  <1>0. EnsTyped /\ InCall(t)
    BY DEF EnsInv
  <1> DEFINE e0 == IF pc[t] = "lock that" THEN task[t].f ELSE task[t].e
             l  == IF pc[t] = "lock" THEN "work" ELSE IF pc[t] = "lock this" THEN "lock that" ELSE "swap"
  <1>1. /\ pc[t] \in {"lock", "lock this", "lock that"} /\ task[t] # NoTask
        /\ Lock(t, e0) /\ Goto(t, l) /\ UNCHANGED <<slot, elock, alive, task, at, ptr>>
    BY <1>0 DEF TakeLock, LockThis, LockThat, InCall
  <1>2. e0 \in Ensemble /\ at[t] \in Slot
    BY <1>0, <1>1, JobTyped, StateTyped DEF InCall
  <1>3. l \in Labels /\ l # "swapped"
    BY DEF Labels
  <1>4. pc' \in [Thread -> Labels] /\ pc'[t] = l /\ \A u \in Thread \ {t} : pc'[u] = pc[u]
    <2> HIDE DEF l
    <2> QED
      BY <1>0, <1>1, <1>3, GotoFacts
  <1>5. /\ lock' \in [Ensemble -> [Slot -> Thread \union {NoThread}]]
        /\ lock[e0][at[t]] = NoThread
        /\ \A f \in Ensemble, i \in Slot :
              lock'[f][i] = IF f = e0 /\ i = at[t] THEN t ELSE lock[f][i]
    <2> HIDE DEF e0
    <2> QED
      BY <1>0, <1>1, <1>2, LockFacts
  <1>6. EnsTyped'
    <2> HIDE DEF e0, l
    <2> QED
      BY <1>0, <1>1, <1>4, <1>5, StateTyped, TypedAgain
  <1>7. pc[t] = "lock that" => task[t].e # task[t].f
    <2>1. SUFFICES ASSUME pc[t] = "lock that" PROVE lock[task[t].e][at[t]] = t
      BY <1>0, <1>5, StateTyped
    <2>2. task[t].e \in Ensemble /\ Holds(t, task[t].e, at[t])
      BY <1>0, <1>1, <2>1, JobTyped DEF Holds
    <2> QED
      BY <1>2, <2>2 DEF EnsInv, Locks
  <1>8. InCall(t)'
    BY <1>0, <1>1, <1>4, <1>7 DEF InCall
  <1>9. \A f \in Ensemble, i \in Slot :
           Holds(t, f, i)' <=> Holds(t, f, i) \/ (f = e0 /\ i = at[t])
    BY <1>1, <1>4 DEF Holds
  <1> HIDE DEF e0, l
  <1>10. \A f \in Ensemble, i \in Slot :
            \/ lock'[f][i] = lock[f][i] /\ (Holds(t, f, i)' <=> Holds(t, f, i))
            \/ lock[f][i] = NoThread /\ lock'[f][i] = t /\ Holds(t, f, i)'
    BY <1>5, <1>9
  <1>11. pc[t] # "swapped" /\ pc'[t] # "swapped"
    BY <1>1, <1>3, <1>4
  <1> QED
    BY <1>1, <1>4, <1>6, <1>8, <1>10, <1>11, MoveKeepsInv

LEMMA DoneKeepsInv ==
    ASSUME EnsInv, Locked = Ensemble, NEW t \in Thread, Done(t)
    PROVE  EnsInv'
  <1>0. EnsTyped /\ InCall(t)
    BY DEF EnsInv
  <1>1. pc[t] = "work" /\ task[t] # NoTask /\ Finish(t) /\ UNCHANGED <<slot, elock, alive>>
    BY <1>0 DEF Done, InCall
  <1>2. task[t].e \in Ensemble /\ at[t] \in Slot
    BY <1>0, <1>1, JobTyped, StateTyped
  <1>3. /\ lock' \in [Ensemble -> [Slot -> Thread \union {NoThread}]]
        /\ \A f \in Ensemble, i \in Slot :
              lock'[f][i] = IF f = task[t].e /\ i = at[t] THEN NoThread ELSE lock[f][i]
    BY <1>0, <1>2, UnlockFacts, StateTyped DEF Done
  <1>4. EnsTyped'
    BY <1>0, <1>1, <1>3, FinishFacts, StateTyped, TypedAgain
  <1>5. \A f \in Ensemble, i \in Slot : Holds(t, f, i) <=> f = task[t].e /\ i = at[t]
    BY <1>1 DEF Holds
  <1>6. \A f \in Ensemble, i \in Slot :
           \/ lock'[f][i] = lock[f][i] /\ (Holds(t, f, i)' <=> Holds(t, f, i))
           \/ lock[f][i] = t /\ lock'[f][i] = NoThread /\ ~ Holds(t, f, i)'
    BY <1>0, <1>1, <1>3, <1>5, FinishFacts DEF EnsInv, Locks
  <1> QED
    BY <1>0, <1>1, <1>4, <1>6, FinishFacts, MoveKeepsInv

(* The first half of a swap: the two slots change places in View. *)
LEMMA SwapThisMoves ==
    ASSUME EnsInv, NEW t \in Thread, SwapThis(t)
    PROVE  \E e0, f0 \in Ensemble, a \in Slot :
              /\ e0 # f0 /\ UsedBy(task[t]) = {e0, f0}
              /\ View(e0, a)' = View(f0, a) /\ View(f0, a)' = View(e0, a)
              /\ \A e \in Ensemble, i \in Slot :
                    ~ (e \in {e0, f0} /\ i = a) => View(e, i)' = View(e, i)
  <1>0. EnsTyped /\ InCall(t)
    BY DEF EnsInv
  <1>1. /\ pc[t] = "swap" /\ task[t] # NoTask /\ task[t].op = "swap" /\ task[t].e # task[t].f
        /\ UNCHANGED <<lock, task>>
    BY <1>0 DEF SwapThis, InCall
  <1>2. PICK e0 \in Ensemble, f0 \in Ensemble, a \in Slot : e0 = task[t].e /\ f0 = task[t].f /\ a = at[t]
    BY <1>0, <1>1, JobTyped, StateTyped
  <1>3. pc'[t] = "swapped" /\ \A u \in Thread \ {t} : pc'[u] = pc[u]
    BY <1>0, GotoFacts DEF SwapThis, Labels
  <1>4. ptr'[t] = slot[e0][a] /\ \A u \in Thread \ {t} : ptr'[u] = ptr[u]
    BY <1>0, <1>2, StateTyped DEF SwapThis
  <1>5. /\ slot'[e0][a] = slot[f0][a]
        /\ \A e \in Ensemble, i \in Slot : ~ (e = e0 /\ i = a) => slot'[e][i] = slot[e][i]
    BY <1>0, <1>2, StateTyped DEF SwapThis
  <1>6. \A e \in Ensemble, i \in Slot : lock[e][i] = t <=> e \in {e0, f0} /\ i = a
    <2>1. \A e \in Ensemble, i \in Slot : Holds(t, e, i) <=> e \in {e0, f0} /\ i = a
      BY <1>1, <1>2 DEF Holds
    <2> QED
      BY <2>1 DEF EnsInv, Locks
  <1>7. View(e0, a) = slot[e0][a] /\ View(f0, a) = slot[f0][a]
    BY <1>1, <1>6 DEF View
  <1>8. View(e0, a)' = slot[f0][a] /\ View(f0, a)' = slot[e0][a]
    BY <1>1, <1>2, <1>3, <1>4, <1>5, <1>6 DEF View
  <1>9. ASSUME NEW e \in Ensemble, NEW i \in Slot, ~ (e \in {e0, f0} /\ i = a)
        PROVE  View(e, i)' = View(e, i)
    <2>1. lock[e][i] # t
      BY <1>6, <1>9
    <2> QED
      BY <1>1, <1>3, <1>4, <1>5, <1>9, <2>1 DEF View
  <1>10. UsedBy(task[t]) = {e0, f0}
    BY <1>1, <1>2 DEF UsedBy
  <1> QED
    BY <1>1, <1>2, <1>7, <1>8, <1>9, <1>10

LEMMA SwapThisKeepsInv ==
    ASSUME EnsInv, NEW t \in Thread, SwapThis(t)
    PROVE  EnsInv'
  <1>0. EnsTyped /\ InCall(t)
    BY DEF EnsInv
  <1>1. /\ pc[t] = "swap" /\ task[t] # NoTask /\ task[t].op = "swap"
        /\ UNCHANGED <<lock, elock, alive, task, at>>
    BY <1>0 DEF SwapThis, InCall
  <1>2. pc' \in [Thread -> Labels] /\ pc'[t] = "swapped" /\ \A u \in Thread \ {t} : pc'[u] = pc[u]
    BY <1>0, GotoFacts DEF SwapThis, Labels
  <1>3. task[t].e \in Ensemble /\ task[t].f \in Ensemble /\ at[t] \in Slot
    BY <1>0, <1>1, JobTyped, StateTyped
  <1>4. EnsTyped'
    <2>1. slot' \in [Ensemble -> [Slot -> Instance]] /\ ptr' \in [Thread -> Instance \union {NoPtr}]
      BY <1>0, <1>3, StateTyped DEF SwapThis
    <2> QED
      BY <1>0, <1>1, <1>2, <2>1, StateTyped, TypedAgain
  <1>5. \A u \in Thread : InCall(u)'
    BY <1>0, <1>1, <1>2 DEF EnsInv, InCall
  <1>6. Locks'
    <2>1. \A u \in Thread, e \in Ensemble, i \in Slot : Holds(u, e, i)' <=> Holds(u, e, i)
      <3>1. \A e \in Ensemble, i \in Slot : Holds(t, e, i)' <=> Holds(t, e, i)
        BY <1>1, <1>2 DEF Holds
      <3>2. ASSUME NEW u \in Thread, u # t, NEW e \in Ensemble, NEW i \in Slot
            PROVE  Holds(u, e, i)' <=> Holds(u, e, i)
        <4>1. pc'[u] = pc[u] /\ task' = task /\ at' = at
          BY <1>1, <1>2, <3>2
        <4> QED
          BY <4>1 DEF Holds
      <3> QED
        BY <3>1, <3>2
    <2> QED
      BY <1>1, <2>1 DEF EnsInv, Locks
  <1>7. PICK e0 \in Ensemble, f0 \in Ensemble, a \in Slot :
           /\ e0 # f0 /\ UsedBy(task[t]) = {e0, f0}
           /\ View(e0, a)' = View(f0, a) /\ View(f0, a)' = View(e0, a)
           /\ \A e \in Ensemble, i \in Slot :
                 ~ (e \in {e0, f0} /\ i = a) => View(e, i)' = View(e, i)
    BY SwapThisMoves
  <1>8. ViewSound'
    <2>1. \A e \in Ensemble, i \in Slot : View(e, i)' \in Instance
      BY <1>7 DEF EnsInv, ViewSound
    <2>2. ASSUME NEW e \in Ensemble, NEW f \in Ensemble, NEW i \in Slot, NEW k \in Slot,
                 View(e, i)' = View(f, k)'
          PROVE  e = f /\ i = k
      <3>1. \A x, y \in Ensemble, m, n \in Slot : View(x, m) = View(y, n) => x = y /\ m = n
        BY DEF EnsInv, ViewSound
      <3>2. \/ e = e0 /\ i = a /\ View(e, i)' = View(f0, a)
            \/ e = f0 /\ i = a /\ View(e, i)' = View(e0, a)
            \/ ~ (e \in {e0, f0} /\ i = a) /\ View(e, i)' = View(e, i)
        BY <1>7
      <3>3. \/ f = e0 /\ k = a /\ View(f, k)' = View(f0, a)
            \/ f = f0 /\ k = a /\ View(f, k)' = View(e0, a)
            \/ ~ (f \in {e0, f0} /\ k = a) /\ View(f, k)' = View(f, k)
        BY <1>7
      <3> QED
        BY <1>7, <2>2, <3>1, <3>2, <3>3
    <2>3. ASSUME NEW x \in Instance PROVE \E e \in Ensemble, i \in Slot : View(e, i)' = x
      <3>1. PICK e \in Ensemble, i \in Slot : View(e, i) = x
        BY DEF EnsInv, ViewSound
      <3> QED
        BY <1>7, <3>1
    <2>4. Instance' = Instance
      BY DEF Instance
    <2> QED
      BY <2>1, <2>2, <2>3, <2>4 DEF ViewSound
  <1>9. AliveSound'
    <2>1. \A u \in Thread : UsedBy(task'[u]) \subseteq alive'
      BY <1>1 DEF EnsInv, AliveSound
    <2>2. \A e \in Ensemble, i \in Slot : e \in alive => View(e, i) \in alive
      BY DEF EnsInv, AliveSound
    <2>3. e0 \in alive /\ f0 \in alive
      BY <1>7 DEF EnsInv, AliveSound
    <2>4. \A e \in Ensemble, i \in Slot : e \in alive' => View(e, i)' \in alive'
      BY <1>1, <1>7, <2>2, <2>3
    <2> QED
      BY <1>1, <2>1, <2>4 DEF EnsInv, AliveSound, UsedBy
  <1> QED
    BY <1>4, <1>5, <1>6, <1>8, <1>9 DEF EnsInv

(* The second half: what the thread had aside is in its slot, and both locks are free. *)
LEMMA SwapThatKeepsInv ==
    ASSUME EnsInv, Locked = Ensemble, NEW t \in Thread, SwapThat(t)
    PROVE  EnsInv'
  <1>0. EnsTyped /\ InCall(t)
    BY DEF EnsInv
  <1>1. /\ pc[t] = "swapped" /\ task[t] # NoTask /\ task[t].op = "swap" /\ task[t].e # task[t].f
        /\ UNCHANGED <<elock, alive>>
    BY <1>0 DEF SwapThat, InCall
  <1>2. PICK e0 \in Ensemble, f0 \in Ensemble, a \in Slot : e0 = task[t].e /\ f0 = task[t].f /\ a = at[t]
    BY <1>0, <1>1, JobTyped, StateTyped
  <1>3. /\ lock' \in [Ensemble -> [Slot -> Thread \union {NoThread}]]
        /\ \A e \in Ensemble, i \in Slot :
              lock'[e][i] = IF e \in {e0, f0} /\ i = a THEN NoThread ELSE lock[e][i]
    <2>1. PICK l \in [Ensemble -> [Slot -> Thread \union {NoThread}]] :
             /\ l = Unlocked(lock, t, f0)
             /\ \A e \in Ensemble, i \in Slot :
                   l[e][i] = IF e = f0 /\ i = a THEN NoThread ELSE lock[e][i]
      BY <1>0, <1>2, UnlockFacts, StateTyped
    <2>2. lock' = Unlocked(l, t, e0)
      BY <1>2, <2>1 DEF SwapThat
    <2>3. /\ Unlocked(l, t, e0) \in [Ensemble -> [Slot -> Thread \union {NoThread}]]
          /\ \A e \in Ensemble, i \in Slot :
                Unlocked(l, t, e0)[e][i] = IF e = e0 /\ i = a THEN NoThread ELSE l[e][i]
      BY <1>0, <1>2, UnlockFacts
    <2> QED
      BY <2>1, <2>2, <2>3
  <1>4. \A e \in Ensemble, i \in Slot : lock[e][i] = t <=> e \in {e0, f0} /\ i = a
    <2>1. \A e \in Ensemble, i \in Slot : Holds(t, e, i) <=> e \in {e0, f0} /\ i = a
      BY <1>1, <1>2 DEF Holds
    <2> QED
      BY <2>1 DEF EnsInv, Locks
  <1>5. View(f0, a) = ptr[t] /\ View(e0, a) = slot[e0][a]
    BY <1>1, <1>2, <1>4 DEF View
  <1>6. ptr[t] \in Instance
    BY <1>2, <1>5 DEF EnsInv, ViewSound
  <1>7. /\ slot' \in [Ensemble -> [Slot -> Instance]] /\ slot'[f0][a] = ptr[t]
        /\ \A e \in Ensemble, i \in Slot : ~ (e = f0 /\ i = a) => slot'[e][i] = slot[e][i]
    BY <1>0, <1>2, <1>6, StateTyped DEF SwapThat
  <1>8. /\ pc' \in [Thread -> Labels] /\ task' \in [Thread -> Jobs \union {NoTask}]
        /\ at' \in [Thread -> Slot] /\ ptr' \in [Thread -> Instance \union {NoPtr}]
        /\ \A u \in Thread \ {t} : /\ pc'[u] = pc[u] /\ task'[u] = task[u]
                                   /\ at'[u] = at[u] /\ ptr'[u] = ptr[u]
        /\ InCall(t)' /\ task'[t] \in {task[t], NoTask}
        /\ \A e \in Ensemble, i \in Slot : ~ Holds(t, e, i)'
    <2>1. CASE Finish(t)
      BY <1>0, <2>1, FinishFacts
    <2>2. CASE at[t] + 1 \in Slot /\ At(t, at[t] + 1) /\ Goto(t, "lock this") /\ UNCHANGED <<task, ptr>>
      <3>1. at' \in [Thread -> Slot] /\ \A u \in Thread \ {t} : at'[u] = at[u]
        BY <1>0, <2>2, AtFacts
      <3>2. pc' \in [Thread -> Labels] /\ pc'[t] = "lock this" /\ \A u \in Thread \ {t} : pc'[u] = pc[u]
        BY <1>0, <2>2, GotoFacts DEF Labels
      <3>3. InCall(t)' /\ \A e \in Ensemble, i \in Slot : ~ Holds(t, e, i)'
        BY <1>1, <2>2, <3>2 DEF InCall, Holds
      <3> QED
        BY <1>0, <2>2, <3>1, <3>2, <3>3, StateTyped
    <2> QED
      BY <2>1, <2>2 DEF SwapThat
  <1>9. EnsTyped'
    BY <1>0, <1>1, <1>3, <1>7, <1>8, StateTyped, TypedAgain
  <1>10. NoThread \notin Thread
    BY <1>0, StateTyped
  <1>11. \A e \in Ensemble, i \in Slot :
            /\ lock'[e][i] = t <=> Holds(t, e, i)'
            /\ lock'[e][i] = lock[e][i] \/ {lock[e][i], lock'[e][i]} \subseteq {t, NoThread}
    BY <1>3, <1>4, <1>8, <1>10
  <1>12. ASSUME NEW e \in Ensemble, NEW i \in Slot PROVE View(e, i)' = View(e, i)
    <2>1. CASE e \in {e0, f0} /\ i = a
      <3>1. View(e, i)' = slot'[e][i]
        BY <1>3, <1>10, <2>1 DEF View
      <3> QED
        BY <1>1, <1>2, <1>5, <1>7, <2>1, <3>1
    <2>2. CASE ~ (e \in {e0, f0} /\ i = a)
      <3>1. lock'[e][i] = lock[e][i] /\ lock[e][i] # t /\ slot'[e][i] = slot[e][i]
        BY <1>3, <1>4, <1>7, <2>2
      <3> QED
        BY <1>8, <3>1 DEF View
    <2> QED
      BY <2>1, <2>2
  <1>13. \A u \in Thread \ {t} : pc'[u] = pc[u] /\ task'[u] = task[u] /\ at'[u] = at[u]
    BY <1>8
  <1> QED
    BY <1>1, <1>8, <1>9, <1>11, <1>12, <1>13, StepKeepsInv

(* A reboot: the lock of all ensembles, the locks of all slots one after the other, the
   instances, and the locks again. *)
LEMMA LockEnsemblesKeepsInv ==
    ASSUME EnsInv, NEW t \in Thread, LockEnsembles(t)
    PROVE  EnsInv'
  <1>0. EnsTyped /\ InCall(t)
    BY DEF EnsInv
  <1> DEFINE l == IF task[t].op = "reboot" THEN "lock all" ELSE "destroy"
  <1>1. /\ pc[t] = "lock ensembles" /\ task[t] # NoTask /\ elock' = t
        /\ Goto(t, l) /\ UNCHANGED <<slot, lock, alive, task, at, ptr>>
    BY <1>0 DEF LockEnsembles, InCall
  <1>2. l \in Labels /\ l \in {"lock all", "destroy"}
    BY DEF Labels
  <1>3. pc' \in [Thread -> Labels] /\ pc'[t] = l /\ \A u \in Thread \ {t} : pc'[u] = pc[u]
    <2> HIDE DEF l
    <2> QED
      BY <1>0, <1>1, <1>2, GotoFacts
  <1>4. InCall(t)'
    BY <1>0, <1>1, <1>3 DEF InCall
  <1>5. EnsTyped'
    BY <1>0, <1>1, <1>3, StateTyped, TypedAgain
  <1> HIDE DEF l
  <1>6. ASSUME NEW e \in Ensemble, NEW i \in Slot
        PROVE  lock'[e][i] = lock[e][i] /\ ~ Holds(t, e, i)' /\ ~ Holds(t, e, i)
    <2>1. ~ Holds(t, e, i)
      BY <1>1 DEF Holds
    <2>2. CASE l = "destroy"
      BY <1>1, <1>3, <2>1, <2>2 DEF Holds
    <2>3. CASE l = "lock all"
      <3>1. at[t] = 0
        BY <1>0, <1>1 DEF InCall
      <3>2. ~ (i < 0)
        BY DEF Slot
      <3> QED
        BY <1>1, <1>3, <2>1, <2>3, <3>1, <3>2 DEF Holds
    <2> QED
      BY <1>2, <2>2, <2>3
  <1>7. pc[t] # "swapped" /\ pc'[t] # "swapped"
    BY <1>1, <1>2, <1>3
  <1> QED
    BY <1>1, <1>3, <1>4, <1>5, <1>6, <1>7, MoveKeepsInv

LEMMA LockAllKeepsInv ==
    ASSUME EnsInv, Locked = Ensemble, NEW t \in Thread, LockAll(t)
    PROVE  EnsInv'
  <1>0. EnsTyped /\ InCall(t)
    BY DEF EnsInv
  <1> DEFINE l == IF at[t] + 1 = Slots THEN "reboot" ELSE "lock all"
  <1>1. /\ pc[t] = "lock all" /\ task[t] # NoTask /\ task[t].op = "reboot" /\ Lock(t, task[t].e)
        /\ At(t, (at[t] + 1) % Slots) /\ Goto(t, l) /\ UNCHANGED <<slot, elock, alive, task, ptr>>
    BY <1>0 DEF LockAll, InCall
  <1>2. PICK e0 \in Ensemble, a \in Slot : e0 = task[t].e /\ a = at[t]
    BY <1>0, <1>1, JobTyped, StateTyped
  <1>3. l \in Labels /\ l \in {"lock all", "reboot"}
    BY DEF Labels
  <1>4. pc' \in [Thread -> Labels] /\ pc'[t] = l /\ \A u \in Thread \ {t} : pc'[u] = pc[u]
    <2> HIDE DEF l
    <2> QED
      BY <1>0, <1>1, <1>3, GotoFacts
  <1>5. at' \in [Thread -> Slot] /\ at'[t] = (a + 1) % Slots /\ \A u \in Thread \ {t} : at'[u] = at[u]
    BY <1>0, <1>1, <1>2, NextSlot, AtFacts
  <1>6. /\ lock' \in [Ensemble -> [Slot -> Thread \union {NoThread}]]
        /\ lock[e0][a] = NoThread
        /\ \A f \in Ensemble, i \in Slot : lock'[f][i] = IF f = e0 /\ i = a THEN t ELSE lock[f][i]
    <2>1. Lock(t, e0)
      BY <1>1, <1>2
    <2> QED
      BY <1>0, <1>2, <2>1, LockFacts
  <1>7. EnsTyped'
    BY <1>0, <1>1, <1>4, <1>5, <1>6, StateTyped, TypedAgain
  <1>8. InCall(t)'
    BY <1>0, <1>1, <1>4 DEF InCall
  <1>9. ASSUME NEW f \in Ensemble, NEW i \in Slot
        PROVE  Holds(t, f, i)' <=> Holds(t, f, i) \/ (f = e0 /\ i = a)
    <2>1. Holds(t, f, i) <=> f = e0 /\ i < a
      BY <1>1, <1>2 DEF Holds
    <2>2. a \in Nat /\ i \in Nat
      BY <1>0, NextSlot
    <2>3. CASE a + 1 = Slots
      <3>1. pc'[t] = "reboot" /\ (i < a \/ i = a)
        BY <1>0, <1>2, <1>4, <2>3, NextSlot
      <3>2. Holds(t, f, i)' <=> f = e0
        BY <1>1, <1>2, <3>1 DEF Holds
      <3> QED
        BY <2>1, <3>1, <3>2
    <2>4. CASE a + 1 # Slots
      <3>1. pc'[t] = "lock all" /\ at'[t] = a + 1
        BY <1>0, <1>2, <1>4, <1>5, <2>4, NextSlot
      <3>2. Holds(t, f, i)' <=> f = e0 /\ i < a + 1
        BY <1>1, <1>2, <3>1 DEF Holds
      <3> QED
        BY <2>1, <2>2, <3>2
    <2> QED
      BY <2>3, <2>4
  <1> HIDE DEF l
  <1>10. \A f \in Ensemble, i \in Slot :
            \/ lock'[f][i] = lock[f][i] /\ (Holds(t, f, i)' <=> Holds(t, f, i))
            \/ lock[f][i] = NoThread /\ lock'[f][i] = t /\ Holds(t, f, i)'
    BY <1>6, <1>9
  <1>11. pc[t] # "swapped" /\ pc'[t] # "swapped"
    BY <1>1, <1>3, <1>4
  <1> QED
    BY <1>1, <1>4, <1>5, <1>7, <1>8, <1>10, <1>11, MoveKeepsInv

LEMMA RebootInstanceKeepsInv ==
    ASSUME EnsInv, NEW t \in Thread, RebootInstance(t)
    PROVE  EnsInv'
  <1>0. EnsTyped /\ InCall(t)
    BY DEF EnsInv
  <1> DEFINE l == IF at[t] + 1 = Slots THEN "unlock all" ELSE "reboot"
  <1>1. /\ pc[t] = "reboot" /\ task[t] # NoTask /\ task[t].op = "reboot"
        /\ At(t, (at[t] + 1) % Slots) /\ Goto(t, l) /\ UNCHANGED <<slot, lock, elock, alive, task, ptr>>
    BY <1>0 DEF RebootInstance, InCall
  <1>2. PICK a \in Slot : a = at[t]
    BY <1>0, StateTyped
  <1>3. l \in Labels /\ l \in {"unlock all", "reboot"}
    BY DEF Labels
  <1>4. pc' \in [Thread -> Labels] /\ pc'[t] = l /\ \A u \in Thread \ {t} : pc'[u] = pc[u]
    <2> HIDE DEF l
    <2> QED
      BY <1>0, <1>1, <1>3, GotoFacts
  <1>5. at' \in [Thread -> Slot] /\ at'[t] = (a + 1) % Slots /\ \A u \in Thread \ {t} : at'[u] = at[u]
    BY <1>0, <1>1, <1>2, NextSlot, AtFacts
  <1>6. EnsTyped'
    BY <1>0, <1>1, <1>4, <1>5, StateTyped, TypedAgain
  <1>7. InCall(t)'
    BY <1>0, <1>1, <1>4 DEF InCall
  <1>8. ASSUME NEW f \in Ensemble, NEW i \in Slot PROVE Holds(t, f, i)' <=> Holds(t, f, i)
    <2>1. Holds(t, f, i) <=> f = task[t].e
      BY <1>1 DEF Holds
    <2>2. CASE a + 1 = Slots
      <3>1. i >= 0
        BY DEF Slot
      <3>2. at'[t] = 0
        BY <1>0, <1>5, <2>2, NextSlot
      <3>3. pc'[t] = "unlock all"
        BY <1>2, <1>4, <2>2
      <3> QED
        BY <1>1, <2>1, <3>1, <3>2, <3>3 DEF Holds
    <2>3. CASE a + 1 # Slots
      <3>1. pc'[t] = "reboot"
        BY <1>2, <1>4, <2>3
      <3> QED
        BY <1>1, <2>1, <3>1 DEF Holds
    <2> QED
      BY <2>2, <2>3
  <1> HIDE DEF l
  <1>9. pc[t] # "swapped" /\ pc'[t] # "swapped"
    BY <1>1, <1>3, <1>4
  <1> QED
    BY <1>1, <1>4, <1>5, <1>6, <1>7, <1>8, <1>9, MoveKeepsInv

LEMMA UnlockAllKeepsInv ==
    ASSUME EnsInv, Locked = Ensemble, NEW t \in Thread, UnlockAll(t)
    PROVE  EnsInv'
  <1>0. EnsTyped /\ InCall(t)
    BY DEF EnsInv
  <1>1. /\ pc[t] = "unlock all" /\ task[t] # NoTask /\ task[t].op = "reboot" /\ UNCHANGED <<slot, alive>>
        /\ lock' = Unlocked(lock, t, task[t].e)
    BY <1>0 DEF UnlockAll, InCall
  <1>2. PICK e0 \in Ensemble, a \in Slot : e0 = task[t].e /\ a = at[t]
    BY <1>0, <1>1, JobTyped, StateTyped
  <1>3. /\ lock' \in [Ensemble -> [Slot -> Thread \union {NoThread}]]
        /\ \A f \in Ensemble, i \in Slot :
              lock'[f][i] = IF f = e0 /\ i = a THEN NoThread ELSE lock[f][i]
    <2>1. lock' = Unlocked(lock, t, e0)
      BY <1>1, <1>2
    <2> QED
      BY <1>0, <1>2, <2>1, UnlockFacts, StateTyped
  <1>4. \A f \in Ensemble, i \in Slot : Holds(t, f, i) <=> f = e0 /\ i >= a
    BY <1>1, <1>2 DEF Holds
  <1>5. a \in Nat /\ \A i \in Slot : i \in Nat
    BY <1>0, NextSlot
  <1>6. lock[e0][a] = t
    BY <1>4, <1>5 DEF EnsInv, Locks
  <1>7. CASE a + 1 \in Slot /\ At(t, a + 1) /\ UNCHANGED <<elock, pc, task, ptr>>
    <2>1. at' \in [Thread -> Slot] /\ at'[t] = a + 1 /\ \A u \in Thread \ {t} : at'[u] = at[u]
      BY <1>0, <1>7, AtFacts
    <2>2. EnsTyped'
      BY <1>0, <1>1, <1>3, <1>7, <2>1, StateTyped, TypedAgain
    <2>3. InCall(t)'
      BY <1>0, <1>1, <1>7 DEF InCall
    <2>4. \A f \in Ensemble, i \in Slot : Holds(t, f, i)' <=> f = e0 /\ i >= a + 1
      BY <1>1, <1>2, <1>7, <2>1 DEF Holds
    <2>5. ASSUME NEW f \in Ensemble, NEW i \in Slot
          PROVE  \/ lock'[f][i] = lock[f][i] /\ (Holds(t, f, i)' <=> Holds(t, f, i))
                 \/ lock[f][i] = t /\ lock'[f][i] = NoThread /\ ~ Holds(t, f, i)'
      <3>1. i >= a + 1 <=> i >= a /\ i # a
        BY <1>5
      <3> QED
        BY <1>3, <1>4, <1>6, <2>4, <3>1
    <2> QED
      BY <1>1, <1>7, <2>1, <2>2, <2>3, <2>5, MoveKeepsInv
  <1>8. CASE a + 1 \notin Slot /\ elock' = NoThread /\ Finish(t)
    <2>1. EnsTyped'
      BY <1>0, <1>1, <1>3, <1>8, FinishFacts, StateTyped, TypedAgain
    <2>2. \A i \in Slot : i >= a => i = a
      BY <1>0, <1>5, <1>8, NextSlot
    <2>3. \A f \in Ensemble, i \in Slot : ~ Holds(t, f, i)'
      BY <1>0, <1>8, FinishFacts
    <2>4. \A f \in Ensemble, i \in Slot :
             \/ lock'[f][i] = lock[f][i] /\ (Holds(t, f, i)' <=> Holds(t, f, i))
             \/ lock[f][i] = t /\ lock'[f][i] = NoThread /\ ~ Holds(t, f, i)'
      BY <1>3, <1>4, <1>6, <2>2, <2>3
    <2> QED
      BY <1>0, <1>1, <1>8, <2>1, <2>4, FinishFacts, MoveKeepsInv
  <1> QED
    BY <1>2, <1>7, <1>8 DEF UnlockAll

(* An ensemble is destroyed with the instances it has then: nobody else uses it, and no
   other ensemble has one of them. *)
LEMMA DestroyKeepsInv ==
    ASSUME EnsInv, NEW t \in Thread, Destroy(t)
    PROVE  EnsInv'
  <1>0. EnsTyped /\ InCall(t)
    BY DEF EnsInv
  <1>1. /\ pc[t] = "destroy" /\ task[t] # NoTask /\ task[t].op = "destroy" /\ elock' = NoThread
        /\ Finish(t) /\ UNCHANGED <<slot, lock>>
    BY <1>0 DEF Destroy, InCall
  <1>2. PICK e0 \in Ensemble : e0 = task[t].e
    BY <1>0, <1>1, JobTyped
  <1>3. alive' = alive \ ({e0} \union {slot[e0][i] : i \in Slot})
    BY <1>2 DEF Destroy
  <1>4. EnsTyped'
    <2>1. alive' \subseteq Ensemble \union Instance
      BY <1>0, <1>3, StateTyped
    <2> QED
      BY <1>0, <1>1, <2>1, FinishFacts, StateTyped, TypedAgain
  <1>5. \A u \in Thread : InCall(u)'
    <2>1. ASSUME NEW u \in Thread, u # t PROVE InCall(u)'
      <3>1. pc'[u] = pc[u] /\ task'[u] = task[u] /\ at'[u] = at[u]
        BY <1>0, <1>1, <2>1, FinishFacts
      <3> QED
        BY <3>1 DEF EnsInv, InCall
    <2> QED
      BY <1>0, <1>1, <2>1, FinishFacts
  <1>6. Locks'
    <2> SUFFICES ASSUME NEW u \in Thread, NEW e \in Ensemble, NEW i \in Slot
                 PROVE  lock'[e][i] = u <=> Holds(u, e, i)'
      BY DEF Locks
    <2>1. CASE u = t
      <3>1. ~ Holds(t, e, i) /\ ~ Holds(t, e, i)'
        BY <1>0, <1>1, FinishFacts DEF Holds
      <3> QED
        BY <1>1, <2>1, <3>1 DEF EnsInv, Locks
    <2>2. CASE u # t
      <3>1. pc'[u] = pc[u] /\ task'[u] = task[u] /\ at'[u] = at[u]
        BY <1>0, <1>1, <2>2, FinishFacts
      <3>2. Holds(u, e, i)' <=> Holds(u, e, i)
        BY <3>1 DEF Holds
      <3> QED
        BY <1>1, <3>2 DEF EnsInv, Locks
    <2> QED
      BY <2>1, <2>2
  <1>7. \A e \in Ensemble, i \in Slot : View(e, i)' = View(e, i)
    <2>1. pc[t] # "swapped" /\ pc'[t] # "swapped"
      BY <1>0, <1>1, FinishFacts
    <2> QED
      BY <1>0, <1>1, <2>1, FinishFacts, ViewStays
  <1>8. ViewSound'
    BY <1>7 DEF EnsInv, ViewSound, Instance
  <1>9. UsedBy(task[t]) = {e0}
    BY <1>1, <1>2 DEF UsedBy
  <1>10. \A u \in Thread : u # t => e0 \notin UsedBy(task[u])
    BY <1>1, <1>9 DEF EnsInv, AliveSound, UsedBy
  <1>11. \A i \in Slot : View(e0, i) = slot[e0][i]
    <2>1. ASSUME NEW u \in Thread, pc[u] = "swapped" PROVE task[u].f # e0
      <3>1. u # t /\ task[u] # NoTask /\ task[u].op = "swap"
        BY <1>1, <2>1 DEF EnsInv, InCall
      <3>2. task[u].f \in UsedBy(task[u])
        BY <3>1 DEF UsedBy
      <3> QED
        BY <1>10, <3>1, <3>2
    <2> QED
      BY <2>1 DEF View
  <1>12. Ensemble \intersect Instance = {} /\ \A i \in Slot : slot[e0][i] \in Instance
    BY <1>0, StateTyped DEF EnsTyped, EnsembleAssumption, Instance
  <1>13. AliveSound'
    <2>1. ASSUME NEW u \in Thread PROVE UsedBy(task'[u]) \subseteq alive'
      <3>1. CASE u = t
        BY <1>0, <1>1, <3>1, FinishFacts DEF UsedBy
      <3>2. CASE u # t
        <4>1. task'[u] = task[u]
          BY <1>0, <1>1, <3>2, FinishFacts
        <4>2. UsedBy(task[u]) \subseteq Ensemble
          <5>1. CASE task[u] = NoTask
            BY <5>1 DEF UsedBy
          <5>2. CASE task[u] # NoTask
            BY <1>0, <5>2, JobTyped DEF UsedBy
          <5> QED
            BY <5>1, <5>2
        <4>3. UsedBy(task[u]) \subseteq alive
          BY DEF EnsInv, AliveSound
        <4> QED
          BY <1>3, <1>10, <1>12, <3>2, <4>1, <4>2, <4>3
      <3> QED
        BY <3>1, <3>2
    <2>2. ASSUME NEW e \in Ensemble, NEW i \in Slot, e \in alive' PROVE View(e, i)' \in alive'
      <3>1. e # e0 /\ e \in alive
        BY <1>3, <2>2
      <3>2. View(e, i) \in alive /\ View(e, i) \in Instance
        BY <3>1 DEF EnsInv, AliveSound, ViewSound
      <3>3. \A k \in Slot : View(e, i) # slot[e0][k]
        BY <1>11, <3>1 DEF EnsInv, ViewSound
      <3> QED
        BY <1>3, <1>7, <1>12, <3>2, <3>3
    <2>3. ASSUME NEW u \in Thread, NEW w \in Thread, u # w, task'[u] # NoTask, task'[w] # NoTask,
                 task'[u].op = "destroy"
          PROVE  UsedBy(task'[u]) \intersect UsedBy(task'[w]) = {}
      <3>1. task'[u] = task[u] /\ task'[w] = task[w]
        BY <1>0, <1>1, <2>3, FinishFacts
      <3> QED
        BY <2>3, <3>1 DEF EnsInv, AliveSound
    <2> QED
      BY <2>1, <2>2, <2>3 DEF AliveSound, UsedBy
  <1> QED
    BY <1>4, <1>5, <1>6, <1>8, <1>13 DEF EnsInv

LEMMA BeginKeepsInv ==
    ASSUME EnsInv, NEW t \in Thread, NEW j \in Jobs, Begin(t, j)
    PROVE  EnsInv'
  <1>0. EnsTyped /\ InCall(t)
    BY DEF EnsInv
  <1> DEFINE l == CASE j.op = "use" -> "load" [] j.op = "swap" -> "lock this" [] OTHER -> "lock ensembles"
             a == IF j.op = "use" THEN j.i ELSE 0
  <1>1. /\ pc[t] = "idle" /\ task' = [task EXCEPT ![t] = j] /\ At(t, a) /\ Goto(t, l)
        /\ UsedBy(j) \subseteq alive /\ UNCHANGED <<slot, lock, elock, alive, ptr>>
    BY DEF Begin
  <1>2. j \in AllJobs /\ j.op \in {"use", "swap", "reboot", "destroy"} /\ j # NoTask
    <2>1. j \in AllJobs
      BY <1>0 DEF EnsTyped, EnsembleAssumption
    <2>2. j.op \in {"use", "swap", "reboot", "destroy"}
      BY <2>1 DEF AllJobs
    <2>3. "op" \in DOMAIN j
      BY <2>1 DEF AllJobs
    <2>4. DOMAIN NoTask = {}
      BY DEF NoTask
    <2> QED
      BY <2>1, <2>2, <2>3, <2>4
  <1>3. a \in Slot
    <2>1. 0 \in Slot
      BY <1>0, StateTyped DEF Slot
    <2>2. j.op = "use" => j.i \in Slot
      BY <1>2 DEF AllJobs
    <2> QED
      BY <2>1, <2>2
  <1>4. l \in Labels /\ l \in {"load", "lock this", "lock ensembles"}
    BY DEF Labels
  <1>5. pc' \in [Thread -> Labels] /\ pc'[t] = l /\ \A u \in Thread \ {t} : pc'[u] = pc[u]
    <2> HIDE DEF l
    <2> QED
      BY <1>0, <1>1, <1>4, GotoFacts
  <1>6. at' \in [Thread -> Slot] /\ at'[t] = a /\ \A u \in Thread \ {t} : at'[u] = at[u]
    <2> HIDE DEF a
    <2> QED
      BY <1>0, <1>1, <1>3, AtFacts
  <1>7. /\ task' \in [Thread -> Jobs \union {NoTask}] /\ task'[t] = j
        /\ \A u \in Thread \ {t} : task'[u] = task[u]
    BY <1>0, <1>1, StateTyped
  <1>8. EnsTyped'
    BY <1>0, <1>1, <1>5, <1>6, <1>7, StateTyped, TypedAgain
  <1>9. InCall(t)'
    BY <1>2, <1>5, <1>6, <1>7 DEF InCall
  <1> HIDE DEF l, a
  <1>10. \A u \in Thread : InCall(u)'
    <2>1. ASSUME NEW u \in Thread, u # t PROVE InCall(u)'
      <3>1. pc'[u] = pc[u] /\ task'[u] = task[u] /\ at'[u] = at[u]
        BY <1>5, <1>6, <1>7, <2>1
      <3> QED
        BY <3>1 DEF EnsInv, InCall
    <2> QED
      BY <1>9, <2>1
  <1>11. Locks'
    <2> SUFFICES ASSUME NEW u \in Thread, NEW e \in Ensemble, NEW i \in Slot
                 PROVE  lock'[e][i] = u <=> Holds(u, e, i)'
      BY DEF Locks
    <2>1. CASE u = t
      <3>1. ~ Holds(t, e, i) /\ ~ Holds(t, e, i)'
        BY <1>1, <1>4, <1>5 DEF Holds
      <3> QED
        BY <1>1, <2>1, <3>1 DEF EnsInv, Locks
    <2>2. CASE u # t
      <3>1. pc'[u] = pc[u] /\ task'[u] = task[u] /\ at'[u] = at[u]
        BY <1>5, <1>6, <1>7, <2>2
      <3>2. Holds(u, e, i)' <=> Holds(u, e, i)
        BY <3>1 DEF Holds
      <3> QED
        BY <1>1, <3>2 DEF EnsInv, Locks
    <2> QED
      BY <2>1, <2>2
  <1>12. \A e \in Ensemble, i \in Slot : View(e, i)' = View(e, i)
    <2>1. pc[t] # "swapped" /\ pc'[t] # "swapped"
      BY <1>1, <1>4, <1>5
    <2> QED
      BY <1>1, <1>5, <1>7, <2>1, ViewStays
  <1>13. ViewSound'
    BY <1>12 DEF EnsInv, ViewSound, Instance
  <1>14. AliveSound'
    <2>1. \A u \in Thread : UsedBy(task'[u]) \subseteq alive'
      <3>1. \A u \in Thread : task'[u] = IF u = t THEN j ELSE task[u]
        BY <1>7
      <3> QED
        BY <1>1, <3>1 DEF EnsInv, AliveSound
    <2>2. \A e \in Ensemble, i \in Slot : e \in alive' => View(e, i)' \in alive'
      BY <1>1, <1>12 DEF EnsInv, AliveSound
    <2>3. ASSUME NEW u \in Thread, NEW w \in Thread, u # w, task'[u] # NoTask, task'[w] # NoTask,
                 task'[u].op = "destroy"
          PROVE  UsedBy(task'[u]) \intersect UsedBy(task'[w]) = {}
      <3>1. \A x \in Thread \ {t} : (task[x] # NoTask /\ "destroy" \in {j.op, task[x].op})
                                       => UsedBy(j) \intersect UsedBy(task[x]) = {}
        BY DEF Begin
      <3>2. CASE u = t
        <4>1. task'[u] = j /\ task'[w] = task[w] /\ w \in Thread \ {t}
          BY <1>7, <2>3, <3>2
        <4> QED
          BY <2>3, <3>1, <4>1
      <3>3. CASE w = t
        <4>1. task'[w] = j /\ task'[u] = task[u] /\ u \in Thread \ {t}
          BY <1>7, <2>3, <3>3
        <4> QED
          BY <2>3, <3>1, <4>1
      <3>4. CASE u # t /\ w # t
        <4>1. task'[w] = task[w] /\ task'[u] = task[u]
          BY <1>7, <3>4
        <4> QED
          BY <2>3, <4>1 DEF EnsInv, AliveSound
      <3> QED
        BY <3>2, <3>3, <3>4
    <2> QED
      BY <2>1, <2>2, <2>3 DEF AliveSound, UsedBy
  <1> QED
    BY <1>8, <1>10, <1>11, <1>13, <1>14 DEF EnsInv

LEMMA NextKeepsEnsInv ==
    ASSUME Locked = Ensemble, EnsInv, [EnsNext]_ensVars
    PROVE  EnsInv'
  <1>1. CASE UNCHANGED ensVars
    <2>1. UNCHANGED <<slot, lock, elock, alive, pc, task, at, ptr>>
      BY <1>1 DEF ensVars
    <2>2. EnsTyped'
      BY <2>1, StateTyped, TypedAgain DEF EnsInv
    <2>3. \A t \in Thread : InCall(t)'
      BY <2>1 DEF EnsInv, InCall
    <2>3a. \A t \in Thread, e \in Ensemble, i \in Slot : Holds(t, e, i)' <=> Holds(t, e, i)
      BY <2>1 DEF Holds
    <2>3b. Locks'
      BY <2>1, <2>3a DEF EnsInv, Locks
    <2>4. \A e \in Ensemble, i \in Slot : View(e, i)' = View(e, i)
      BY <2>1 DEF View
    <2>5. ViewSound'
      BY <2>4 DEF EnsInv, ViewSound, Instance
    <2>6. AliveSound'
      <3>1. \A t \in Thread : UsedBy(task[t])' = UsedBy(task[t])
        BY <2>1 DEF UsedBy
      <3> QED
        BY <2>1, <2>4, <3>1 DEF EnsInv, AliveSound
    <2> QED
      BY <2>2, <2>3, <2>3b, <2>5, <2>6 DEF EnsInv
  <1>2. ASSUME NEW t \in Thread, NEW j \in Jobs, Begin(t, j) PROVE EnsInv'
    BY <1>2, BeginKeepsInv
  <1>3. ASSUME NEW t \in Thread, Step(t) PROVE EnsInv'
    <2>1. CASE Load(t)
      BY <2>1, LoadKeepsInv
    <2>2. CASE TakeLock(t) \/ LockThis(t) \/ LockThat(t)
      BY <2>2, TakingKeepsInv
    <2>3. CASE Done(t)
      BY <2>3, DoneKeepsInv
    <2>4. CASE SwapThis(t)
      BY <2>4, SwapThisKeepsInv
    <2>5. CASE SwapThat(t)
      BY <2>5, SwapThatKeepsInv
    <2>6. CASE LockEnsembles(t)
      BY <2>6, LockEnsemblesKeepsInv
    <2>7. CASE LockAll(t)
      BY <2>7, LockAllKeepsInv
    <2>8. CASE RebootInstance(t)
      BY <2>8, RebootInstanceKeepsInv
    <2>9. CASE UnlockAll(t)
      BY <2>9, UnlockAllKeepsInv
    <2>10. CASE Destroy(t)
      BY <2>10, DestroyKeepsInv
    <2> QED
      BY <1>3, <2>1, <2>2, <2>3, <2>4, <2>5, <2>6, <2>7, <2>8, <2>9, <2>10 DEF Step
  <1> QED
    BY <1>1, <1>2, <1>3 DEF EnsNext

(* Threads that share ensembles made with cdb_is_locked never work on one instance at the
   same time, nor on one that was destroyed, by a pointer that its slot still holds, and
   no swap loses or duplicates an instance: whatever is used, swapped (either way round),
   rebooted and destroyed at the same time. *)
THEOREM EnsemblesSound == Locked = Ensemble => (EnsSpec => []EnsembleSound)
  <1> SUFFICES ASSUME Locked = Ensemble PROVE EnsSpec => []EnsembleSound
    OBVIOUS
  <1>1. EnsInit => EnsInv
    BY InitEnsInv
  <1>2. EnsInv /\ [EnsNext]_ensVars => EnsInv'
    BY NextKeepsEnsInv
  <1>3. EnsInv => EnsembleSound
    BY InvGivesEnsembleSound
  <1> QED
    BY <1>1, <1>2, <1>3, PTL DEF EnsSpec
-----------------------------------------------------------------------------
(***************************************************************************)
(* Proofs about the counters of an instance, for all keys, any number of   *)
(* counts_lists and pages of any size. The invariant gives every count in  *)
(* use the list it is on (own), every key a rank (rk) that orders the      *)
(* chain of its count, and the free counts in the order they are given out *)
(* (F). The links are then what the order says: next and last are the      *)
(* neighbours, lo and hi the ends.                                         *)
(***************************************************************************)

(* Every set of numbers has a least one. *)
LEMMA Least ==
    ASSUME NEW N \in SUBSET Nat, N # {}
    PROVE  \E k \in N : \A m \in N : k <= m
  <1> DEFINE R == OpToRel(<, Nat)
  <1>1. IsWellFoundedOn(R, Nat)
    BY NatLessThanWellFounded
  <1>2. \A x, y \in Nat : y < x => <<y, x>> \in R
    BY DEF OpToRel
  <1> HIDE DEF R
  <1>3. PICK k \in N : \A m \in N : ~ (<<m, k>> \in R)
    BY <1>1, WFMin
  <1>4. ASSUME NEW m \in N PROVE k <= m
    <2>1. ~ (m < k)
      BY <1>2, <1>3
    <2> QED
      BY <2>1
  <1> QED
    BY <1>4

(* y comes after x in the order of ord on U, or is NONE: x is the highest. *)
IsNext(U, ord, x, y) ==
    IF \E z \in U : ord[z] > ord[x]
    THEN y \in U /\ ord[y] > ord[x] /\ \A z \in U : ord[z] > ord[x] => ord[z] >= ord[y]
    ELSE y = NONE
IsLast(U, ord, x, y) ==
    IF \E z \in U : ord[z] < ord[x]
    THEN y \in U /\ ord[y] < ord[x] /\ \A z \in U : ord[z] < ord[x] => ord[z] <= ord[y]
    ELSE y = NONE
Lowest(U, ord, lo)  == IF U = {} THEN lo = NONE ELSE lo \in U /\ \A z \in U : ord[lo] <= ord[z]
Highest(U, ord, hi) == IF U = {} THEN hi = NONE ELSE hi \in U /\ \A z \in U : ord[z] <= ord[hi]

(* nx and pv link U both ways, in the order of ord, from lo on. *)
Linked(U, ord, nx, pv, lo) ==
    /\ NONE \notin U
    /\ \A x \in U : ord[x] \in Int
    /\ \A x, y \in U : ord[x] = ord[y] => x = y
    /\ \A x \in U : IsNext(U, ord, x, nx[x]) /\ IsLast(U, ord, x, pv[x])
    /\ Lowest(U, ord, lo)

(* Neighbours are linked back, and only the lowest has none before it. *)
LEMMA LinkedBack ==
    ASSUME NEW U, NEW ord, NEW nx, NEW pv, NEW lo, Linked(U, ord, nx, pv, lo), NEW x \in U
    PROVE  /\ nx[x] # NONE => nx[x] \in U /\ ord[nx[x]] > ord[x] /\ pv[nx[x]] = x
           /\ pv[x] # NONE => pv[x] \in U /\ ord[pv[x]] < ord[x] /\ nx[pv[x]] = x
           /\ pv[x] = NONE <=> lo = x
           /\ lo # NONE
  <1>0. \A z \in U : ord[z] \in Int
    BY DEF Linked
  <1>1. ASSUME nx[x] # NONE PROVE nx[x] \in U /\ ord[nx[x]] > ord[x] /\ pv[nx[x]] = x
    <2>1. PICK y : y = nx[x]
      OBVIOUS
    <2>2. y \in U /\ ord[y] > ord[x] /\ \A z \in U : ord[z] > ord[x] => ord[z] >= ord[y]
      BY <1>1, <2>1 DEF Linked, IsNext
    <2>3. PICK w : w = pv[y]
      OBVIOUS
    <2>4. ord[x] < ord[y]
      BY <1>0, <2>2
    <2>5. w \in U /\ ord[w] < ord[y] /\ \A z \in U : ord[z] < ord[y] => ord[z] <= ord[w]
      BY <2>2, <2>3, <2>4 DEF Linked, IsLast
    <2>6. ord[x] <= ord[w]
      BY <2>4, <2>5
    <2>7. ~ (ord[w] > ord[x])
      BY <1>0, <2>2, <2>5
    <2>8. ord[w] = ord[x]
      BY <1>0, <2>5, <2>6, <2>7
    <2> QED
      BY <2>1, <2>2, <2>3, <2>5, <2>8 DEF Linked
  <1>2. ASSUME pv[x] # NONE PROVE pv[x] \in U /\ ord[pv[x]] < ord[x] /\ nx[pv[x]] = x
    <2>1. PICK y : y = pv[x]
      OBVIOUS
    <2>2. y \in U /\ ord[y] < ord[x] /\ \A z \in U : ord[z] < ord[x] => ord[z] <= ord[y]
      BY <1>2, <2>1 DEF Linked, IsLast
    <2>3. PICK w : w = nx[y]
      OBVIOUS
    <2>4. ord[x] > ord[y]
      BY <1>0, <2>2
    <2>5. w \in U /\ ord[w] > ord[y] /\ \A z \in U : ord[z] > ord[y] => ord[z] >= ord[w]
      BY <2>2, <2>3, <2>4 DEF Linked, IsNext
    <2>6. ord[x] >= ord[w]
      BY <2>4, <2>5
    <2>7. ~ (ord[w] < ord[x])
      BY <1>0, <2>2, <2>5
    <2>8. ord[w] = ord[x]
      BY <1>0, <2>5, <2>6, <2>7
    <2> QED
      BY <2>1, <2>2, <2>3, <2>5, <2>8 DEF Linked
  <1>3. lo \in U /\ \A z \in U : ord[lo] <= ord[z]
    BY DEF Linked, Lowest
  <1>4. ASSUME lo = x PROVE pv[x] = NONE
    <2>1. \A z \in U : ~ (ord[z] < ord[x])
      BY <1>0, <1>3, <1>4
    <2> QED
      BY <2>1 DEF Linked, IsLast
  <1>5. ASSUME pv[x] = NONE PROVE lo = x
    <2>1. ~ \E z \in U : ord[z] < ord[x]
      BY <1>5 DEF Linked, IsLast
    <2>2. ord[lo] = ord[x]
      BY <1>0, <1>3, <2>1
    <2> QED
      BY <1>3, <2>2 DEF Linked
  <1>6. lo # NONE
    BY <1>3 DEF Linked
  <1> QED
    BY <1>1, <1>2, <1>4, <1>5, <1>6

(* Linked again without x. *)
TakenOut(U, ord, nx, pv, lo, x, ord2, nx2, pv2, lo2) ==
    /\ x \in U
    /\ \A z \in U \ {x} : /\ ord2[z] = ord[z]
                          /\ nx2[z] = IF z = pv[x] THEN nx[x] ELSE nx[z]
                          /\ pv2[z] = IF z = nx[x] THEN pv[x] ELSE pv[z]
    /\ lo2 = IF lo = x THEN nx[x] ELSE lo

(* What is left when one is taken out is linked in the same order. *)
LEMMA LinkedRemove ==
    ASSUME NEW U, NEW ord, NEW nx, NEW pv, NEW lo, Linked(U, ord, nx, pv, lo),
           NEW x, NEW ord2, NEW nx2, NEW pv2, NEW lo2, TakenOut(U, ord, nx, pv, lo, x, ord2, nx2, pv2, lo2)
    PROVE  Linked(U \ {x}, ord2, nx2, pv2, lo2)
  <1>t. /\ x \in U
        /\ \A z \in U \ {x} : /\ ord2[z] = ord[z]
                              /\ nx2[z] = IF z = pv[x] THEN nx[x] ELSE nx[z]
                              /\ pv2[z] = IF z = nx[x] THEN pv[x] ELSE pv[z]
        /\ lo2 = IF lo = x THEN nx[x] ELSE lo
    BY DEF TakenOut
  <1> USE <1>t
  <1> DEFINE V == U \ {x}
  <1>0. /\ \A z \in U : ord[z] \in Int
        /\ \A y, z \in U : ord[y] = ord[z] => y = z
        /\ NONE \notin U /\ nx[x] # x /\ pv[x] # x
    <2>1. /\ \A z \in U : ord[z] \in Int
          /\ \A y, z \in U : ord[y] = ord[z] => y = z
          /\ NONE \notin U
      BY DEF Linked
    <2>2. nx[x] # x /\ pv[x] # x
      BY <2>1, LinkedBack
    <2> QED
      BY <2>1, <2>2
  <1>1. ASSUME NEW z \in V PROVE IsNext(V, ord, z, nx2[z])
    <2>0. IsNext(U, ord, z, nx[z])
      BY DEF Linked
    <2>1. CASE z = pv[x]
      <3>1. nx[z] = x /\ nx2[z] = nx[x] /\ ord[z] < ord[x]
        BY <2>1, <1>0, LinkedBack
      <3>2. ord[x] > ord[z] /\ \A w \in U : ord[w] > ord[z] => ord[w] >= ord[x]
        BY <2>0, <3>1, <1>0 DEF IsNext
      <3>3. ASSUME NEW w \in V PROVE ord[w] > ord[z] <=> ord[w] > ord[x]
        <4>1. ord[w] # ord[x]
          BY <1>0
        <4> QED
          BY <1>0, <3>2, <4>1
      <3>4. IsNext(U, ord, x, nx[x])
        BY DEF Linked
      <3>5. CASE \E w \in V : ord[w] > ord[z]
        <4>1. \E w \in U : ord[w] > ord[x]
          BY <3>3, <3>5
        <4>2. nx[x] \in U /\ ord[nx[x]] > ord[x] /\ \A w \in U : ord[w] > ord[x] => ord[w] >= ord[nx[x]]
          BY <3>4, <4>1 DEF IsNext
        <4>3. nx[x] \in V
          BY <4>2, <1>0
        <4> QED
          BY <3>1, <3>3, <3>5, <4>2, <4>3 DEF IsNext
      <3>6. CASE ~ \E w \in V : ord[w] > ord[z]
        <4>1. ~ \E w \in U : ord[w] > ord[x]
          BY <3>3, <3>6, <1>0
        <4>2. nx[x] = NONE
          BY <3>4, <4>1 DEF IsNext
        <4> QED
          BY <3>1, <3>6, <4>2 DEF IsNext
      <3> QED
        BY <3>5, <3>6
    <2>2. CASE z # pv[x]
      <3>1. nx2[z] = nx[z]
        BY <2>2
      <3>2. nx[z] # x
        BY <2>2, <1>0, LinkedBack
      <3>3. CASE \E w \in V : ord[w] > ord[z]
        <4>1. nx[z] \in U /\ ord[nx[z]] > ord[z] /\ \A w \in U : ord[w] > ord[z] => ord[w] >= ord[nx[z]]
          BY <2>0, <3>3 DEF IsNext
        <4> QED
          BY <3>1, <3>2, <3>3, <4>1 DEF IsNext
      <3>4. CASE ~ \E w \in V : ord[w] > ord[z]
        <4>1. nx[z] \notin U
          <5>1. ASSUME nx[z] \in U PROVE FALSE
            <6>1. nx[z] # NONE
              BY <5>1, <1>0
            <6>2. ord[nx[z]] > ord[z]
              BY <6>1, LinkedBack
            <6> QED
              BY <5>1, <6>2, <3>2, <3>4
          <5> QED
            BY <5>1
        <4>2. nx[z] = NONE
          BY <2>0, <4>1 DEF IsNext
        <4> QED
          BY <3>1, <3>4, <4>2 DEF IsNext
      <3> QED
        BY <3>3, <3>4
    <2> QED
      BY <2>1, <2>2
  <1>2. ASSUME NEW z \in V PROVE IsLast(V, ord, z, pv2[z])
    <2>0. IsLast(U, ord, z, pv[z])
      BY DEF Linked
    <2>1. CASE z = nx[x]
      <3>1. pv[z] = x /\ pv2[z] = pv[x] /\ ord[z] > ord[x]
        BY <2>1, <1>0, LinkedBack
      <3>2. ord[x] < ord[z] /\ \A w \in U : ord[w] < ord[z] => ord[w] <= ord[x]
        BY <2>0, <3>1, <1>0 DEF IsLast
      <3>3. ASSUME NEW w \in V PROVE ord[w] < ord[z] <=> ord[w] < ord[x]
        <4>1. ord[w] # ord[x]
          BY <1>0
        <4> QED
          BY <1>0, <3>2, <4>1
      <3>4. IsLast(U, ord, x, pv[x])
        BY DEF Linked
      <3>5. CASE \E w \in V : ord[w] < ord[z]
        <4>1. \E w \in U : ord[w] < ord[x]
          BY <3>3, <3>5
        <4>2. pv[x] \in U /\ ord[pv[x]] < ord[x] /\ \A w \in U : ord[w] < ord[x] => ord[w] <= ord[pv[x]]
          BY <3>4, <4>1 DEF IsLast
        <4>3. pv[x] \in V
          BY <4>2, <1>0
        <4> QED
          BY <3>1, <3>3, <3>5, <4>2, <4>3 DEF IsLast
      <3>6. CASE ~ \E w \in V : ord[w] < ord[z]
        <4>1. ~ \E w \in U : ord[w] < ord[x]
          BY <3>3, <3>6, <1>0
        <4>2. pv[x] = NONE
          BY <3>4, <4>1 DEF IsLast
        <4> QED
          BY <3>1, <3>6, <4>2 DEF IsLast
      <3> QED
        BY <3>5, <3>6
    <2>2. CASE z # nx[x]
      <3>1. pv2[z] = pv[z]
        BY <2>2
      <3>2. pv[z] # x
        BY <2>2, <1>0, LinkedBack
      <3>3. CASE \E w \in V : ord[w] < ord[z]
        <4>1. pv[z] \in U /\ ord[pv[z]] < ord[z] /\ \A w \in U : ord[w] < ord[z] => ord[w] <= ord[pv[z]]
          BY <2>0, <3>3 DEF IsLast
        <4> QED
          BY <3>1, <3>2, <3>3, <4>1 DEF IsLast
      <3>4. CASE ~ \E w \in V : ord[w] < ord[z]
        <4>1. pv[z] \notin U
          <5>1. ASSUME pv[z] \in U PROVE FALSE
            <6>1. pv[z] # NONE
              BY <5>1, <1>0
            <6>2. ord[pv[z]] < ord[z]
              BY <6>1, LinkedBack
            <6> QED
              BY <5>1, <6>2, <3>2, <3>4
          <5> QED
            BY <5>1
        <4>2. pv[z] = NONE
          BY <2>0, <4>1 DEF IsLast
        <4> QED
          BY <3>1, <3>4, <4>2 DEF IsLast
      <3> QED
        BY <3>3, <3>4
    <2> QED
      BY <2>1, <2>2
  <1>3. Lowest(V, ord, lo2)
    <2>1. lo \in U /\ \A z \in U : ord[lo] <= ord[z]
      BY DEF Linked, Lowest
    <2>2. CASE lo # x
      BY <2>1, <2>2 DEF Lowest
    <2>3. CASE lo = x
      <3>1. IsNext(U, ord, x, nx[x]) /\ lo2 = nx[x]
        BY <2>3 DEF Linked
      <3>2. ASSUME NEW z \in V PROVE ord[z] > ord[x]
        <4>1. ord[z] # ord[x] /\ ord[x] <= ord[z]
          BY <1>0, <2>1, <2>3
        <4> QED
          BY <4>1, <1>0
      <3>3. CASE V = {}
        <4>1. ~ \E z \in U : ord[z] > ord[x]
          BY <3>3, <1>0
        <4> QED
          BY <3>1, <3>3, <4>1 DEF Lowest, IsNext
      <3>4. CASE V # {}
        <4>1. nx[x] \in U /\ \A z \in U : ord[z] > ord[x] => ord[z] >= ord[nx[x]]
          BY <3>1, <3>2, <3>4 DEF IsNext
        <4>2. ASSUME NEW z \in V PROVE ord[nx[x]] <= ord[z]
          BY <4>1, <3>2, <1>0
        <4> QED
          BY <3>1, <3>4, <4>1, <4>2, <1>0 DEF Lowest
      <3> QED
        BY <3>3, <3>4
    <2> QED
      BY <2>2, <2>3
  <1>4. \A z \in V : ord2[z] = ord[z]
    OBVIOUS
  <1>5. ASSUME NEW z \in V PROVE IsNext(V, ord2, z, nx2[z])
    BY <1>1, <1>4 DEF IsNext
  <1>6. ASSUME NEW z \in V PROVE IsLast(V, ord2, z, pv2[z])
    BY <1>2, <1>4 DEF IsLast
  <1>7. Lowest(V, ord2, lo2)
    BY <1>3, <1>4 DEF Lowest
  <1> QED
    BY <1>0, <1>4, <1>5, <1>6, <1>7 DEF Linked

(* Where an element with the number v belongs: between y, or NONE, and w, or NONE. *)
Between(U, ord, y, v, w) ==
    /\ IF \E z \in U : ord[z] < v THEN y \in U /\ ord[y] < v /\ \A z \in U : ord[z] < v => ord[z] <= ord[y]
       ELSE y = NONE
    /\ IF \E z \in U : ord[z] > v THEN w \in U /\ ord[w] > v /\ \A z \in U : ord[z] > v => ord[z] >= ord[w]
       ELSE w = NONE
    /\ \A z \in U : ord[z] # v

(* Linked again with x, which comes between y and w. *)
PutIn(U, ord, nx, pv, lo, x, y, w, ord2, nx2, pv2, lo2) ==
    /\ x \notin U /\ x # NONE /\ ord2[x] \in Int /\ Between(U, ord, y, ord2[x], w)
    /\ nx2[x] = w /\ pv2[x] = y
    /\ \A z \in U : /\ ord2[z] = ord[z]
                    /\ nx2[z] = IF z = y THEN x ELSE nx[z]
                    /\ pv2[z] = IF z = w THEN x ELSE pv[z]
    /\ lo2 = IF y = NONE THEN x ELSE lo

(* One more, between its two neighbours, is linked in with four assignments. *)
LEMMA LinkedInsert ==
    ASSUME NEW U, NEW ord, NEW nx, NEW pv, NEW lo, Linked(U, ord, nx, pv, lo),
           NEW x, NEW y, NEW w, NEW ord2, NEW nx2, NEW pv2, NEW lo2,
           PutIn(U, ord, nx, pv, lo, x, y, w, ord2, nx2, pv2, lo2)
    PROVE  Linked(U \union {x}, ord2, nx2, pv2, lo2)
  <1>t. /\ x \notin U /\ x # NONE /\ ord2[x] \in Int /\ Between(U, ord, y, ord2[x], w)
        /\ nx2[x] = w /\ pv2[x] = y
        /\ \A z \in U : /\ ord2[z] = ord[z]
                        /\ nx2[z] = IF z = y THEN x ELSE nx[z]
                        /\ pv2[z] = IF z = w THEN x ELSE pv[z]
        /\ lo2 = IF y = NONE THEN x ELSE lo
    BY DEF PutIn
  <1> USE <1>t
  <1> DEFINE V == U \union {x}
  <1>v. PICK v \in Int : v = ord2[x]
    OBVIOUS
  <1>0. /\ \A z \in U : ord[z] \in Int /\ ord[z] # v
        /\ \A a, b \in U : ord[a] = ord[b] => a = b
        /\ NONE \notin U
    BY <1>v DEF Linked, Between
  <1>d. \A z \in U : ord2[z] = ord[z]
    OBVIOUS
  <1>b. /\ IF \E z \in U : ord[z] < v THEN y \in U /\ ord[y] < v /\ \A z \in U : ord[z] < v => ord[z] <= ord[y]
           ELSE y = NONE
        /\ IF \E z \in U : ord[z] > v THEN w \in U /\ ord[w] > v /\ \A z \in U : ord[z] > v => ord[z] >= ord[w]
           ELSE w = NONE
    BY <1>v DEF Between
  <1>1. IsNext(V, ord2, x, w) /\ IsLast(V, ord2, x, y)
    <2>1. ~ (ord2[x] > ord2[x]) /\ ~ (ord2[x] < ord2[x])
      BY <1>v
    <2>2. IsNext(V, ord2, x, w)
      BY <2>1, <1>v, <1>b, <1>d DEF IsNext
    <2>3. IsLast(V, ord2, x, y)
      BY <2>1, <1>v, <1>b, <1>d DEF IsLast
    <2> QED
      BY <2>2, <2>3
  <1>2. ASSUME NEW z \in U PROVE IsNext(V, ord2, z, nx2[z])
    <2>0. IsNext(U, ord, z, nx[z])
      BY DEF Linked
    <2>1. CASE z = y
      <3>1. nx2[z] = x
        BY <2>1
      <3>2. ord[z] < v /\ \A a \in U : ord[a] < v => ord[a] <= ord[z]
        BY <2>1, <1>0, <1>b
      <3>3. ord2[x] > ord2[z]
        BY <3>2, <1>0, <1>d, <1>v
      <3>4. ASSUME NEW a \in V, ord2[a] > ord2[z] PROVE ord2[a] >= ord2[x]
        <4>1. CASE a = x
          BY <4>1, <1>v
        <4>2. CASE a \in U
          BY <4>2, <3>2, <3>4, <1>0, <1>d, <1>v
        <4> QED
          BY <4>1, <4>2
      <3> QED
        BY <3>1, <3>3, <3>4 DEF IsNext
    <2>2. CASE z # y
      <3>1. nx2[z] = nx[z]
        BY <2>2
      <3>2. CASE ord[z] < v
        <4>1. y \in U /\ ord[y] < v /\ ord[z] <= ord[y]
          BY <3>2, <1>b
        <4>2. ord[y] > ord[z]
          BY <4>1, <2>2, <1>0
        <4>3. nx[z] \in U /\ ord[nx[z]] > ord[z] /\ \A a \in U : ord[a] > ord[z] => ord[a] >= ord[nx[z]]
          BY <2>0, <4>1, <4>2 DEF IsNext
        <4>4. ord2[x] >= ord2[nx[z]]
          BY <4>1, <4>2, <4>3, <1>0, <1>d, <1>v
        <4>5. \A a \in V : ord2[a] > ord2[z] => ord2[a] >= ord2[nx[z]]
          BY <4>3, <4>4, <1>d
        <4>6. ord2[nx[z]] > ord2[z] /\ nx[z] \in V
          BY <4>3, <1>d
        <4> QED
          BY <3>1, <4>5, <4>6 DEF IsNext
      <3>3. CASE ord[z] > v
        <4>1. ~ (ord2[x] > ord2[z])
          BY <3>3, <1>0, <1>d, <1>v
        <4> QED
          BY <2>0, <3>1, <4>1, <1>d DEF IsNext
      <3> QED
        BY <3>2, <3>3, <1>0
    <2> QED
      BY <2>1, <2>2
  <1>3. ASSUME NEW z \in U PROVE IsLast(V, ord2, z, pv2[z])
    <2>0. IsLast(U, ord, z, pv[z])
      BY DEF Linked
    <2>1. CASE z = w
      <3>1. pv2[z] = x
        BY <2>1
      <3>2. ord[z] > v /\ \A a \in U : ord[a] > v => ord[a] >= ord[z]
        BY <2>1, <1>0, <1>b
      <3>3. ord2[x] < ord2[z]
        BY <3>2, <1>0, <1>d, <1>v
      <3>4. ASSUME NEW a \in V, ord2[a] < ord2[z] PROVE ord2[a] <= ord2[x]
        <4>1. CASE a = x
          BY <4>1, <1>v
        <4>2. CASE a \in U
          BY <4>2, <3>2, <3>4, <1>0, <1>d, <1>v
        <4> QED
          BY <4>1, <4>2
      <3> QED
        BY <3>1, <3>3, <3>4 DEF IsLast
    <2>2. CASE z # w
      <3>1. pv2[z] = pv[z]
        BY <2>2
      <3>2. CASE ord[z] > v
        <4>1. w \in U /\ ord[w] > v /\ ord[z] >= ord[w]
          BY <3>2, <1>b
        <4>2. ord[w] < ord[z]
          BY <4>1, <2>2, <1>0
        <4>3. pv[z] \in U /\ ord[pv[z]] < ord[z] /\ \A a \in U : ord[a] < ord[z] => ord[a] <= ord[pv[z]]
          BY <2>0, <4>1, <4>2 DEF IsLast
        <4>4. ord2[x] <= ord2[pv[z]]
          BY <4>1, <4>2, <4>3, <1>0, <1>d, <1>v
        <4>5. \A a \in V : ord2[a] < ord2[z] => ord2[a] <= ord2[pv[z]]
          BY <4>3, <4>4, <1>d
        <4>6. ord2[pv[z]] < ord2[z] /\ pv[z] \in V
          BY <4>3, <1>d
        <4> QED
          BY <3>1, <4>5, <4>6 DEF IsLast
      <3>3. CASE ord[z] < v
        <4>1. ~ (ord2[x] < ord2[z])
          BY <3>3, <1>0, <1>d, <1>v
        <4> QED
          BY <2>0, <3>1, <4>1, <1>d DEF IsLast
      <3> QED
        BY <3>2, <3>3, <1>0
    <2> QED
      BY <2>1, <2>2
  <1>4. Lowest(V, ord2, lo2)
    <2>0. Lowest(U, ord, lo)
      BY DEF Linked
    <2>1. CASE y = NONE
      <3>1. ASSUME NEW z \in U PROVE ord2[x] <= ord2[z]
        <4>1. ~ (ord[z] < v)
          BY <2>1, <1>b, <1>0
        <4> QED
          BY <4>1, <1>0, <1>d, <1>v
      <3>2. ord2[x] <= ord2[x]
        BY <1>v
      <3> QED
        BY <2>1, <3>1, <3>2 DEF Lowest
    <2>2. CASE y # NONE
      <3>1. y \in U /\ ord[y] < v
        BY <2>2, <1>b
      <3>2. lo2 = lo /\ lo \in U /\ \A z \in U : ord[lo] <= ord[z]
        BY <2>0, <2>2, <3>1 DEF Lowest
      <3>3. ord[lo] <= v
        BY <3>1, <3>2, <1>0
      <3>4. \A z \in V : ord2[lo] <= ord2[z]
        BY <3>2, <3>3, <1>d, <1>v
      <3> QED
        BY <3>2, <3>4 DEF Lowest
    <2> QED
      BY <2>1, <2>2
  <1>5. \A a \in V : ord2[a] \in Int
    BY <1>0, <1>d
  <1>6. \A a, b \in V : ord2[a] = ord2[b] => a = b
    BY <1>0, <1>d, <1>v
  <1>7. \A z \in V : IsNext(V, ord2, z, nx2[z]) /\ IsLast(V, ord2, z, pv2[z])
    BY <1>1, <1>2, <1>3
  <1>8. NONE \notin V
    BY <1>0
  <1> QED
    BY <1>4, <1>5, <1>6, <1>7, <1>8 DEF Linked

(* Linked as before, with x one higher but not as high as the next. *)
RaisedIn(U, ord, nx, pv, x, ord2, nx2, pv2) ==
    /\ x \in U /\ (nx[x] # NONE => ord[nx[x]] > ord[x] + 1)
    /\ \A z \in U : /\ ord2[z] = (IF z = x THEN ord[x] + 1 ELSE ord[z])
                    /\ nx2[z] = nx[z] /\ pv2[z] = pv[z]

(* Raising one short of the next changes no link. *)
LEMMA LinkedRaise ==
    ASSUME NEW U, NEW ord, NEW nx, NEW pv, NEW lo, Linked(U, ord, nx, pv, lo),
           NEW x, NEW ord2, NEW nx2, NEW pv2, RaisedIn(U, ord, nx, pv, x, ord2, nx2, pv2)
    PROVE  Linked(U, ord2, nx2, pv2, lo)
  <1>t. /\ x \in U /\ (nx[x] # NONE => ord[nx[x]] > ord[x] + 1)
        /\ \A z \in U : /\ ord2[z] = (IF z = x THEN ord[x] + 1 ELSE ord[z])
                        /\ nx2[z] = nx[z] /\ pv2[z] = pv[z]
    BY DEF RaisedIn
  <1> USE <1>t
  <1>0. /\ \A z \in U : ord[z] \in Int
        /\ \A a, b \in U : ord[a] = ord[b] => a = b
        /\ NONE \notin U
    BY DEF Linked
  <1>v. PICK v \in Int : v = ord[x]
    BY <1>0
  <1>d. ord2[x] = v + 1 /\ \A z \in U : z # x => ord2[z] = ord[z]
    BY <1>v
  <1>1. \A z \in U : ord[z] > v => ord[z] > v + 1
    <2>1. IsNext(U, ord, x, nx[x])
      BY DEF Linked
    <2>2. CASE \E z \in U : ord[z] > v
      <3>1. nx[x] \in U /\ \A z \in U : ord[z] > v => ord[z] >= ord[nx[x]]
        BY <2>1, <2>2, <1>v DEF IsNext
      <3>2. ord[nx[x]] > v + 1
        BY <3>1, <1>0, <1>v
      <3> QED
        BY <3>1, <3>2, <1>0
    <2> QED
      BY <2>2
  <1>2. ASSUME NEW a \in U, NEW b \in U PROVE ord2[a] < ord2[b] <=> ord[a] < ord[b]
    <2>1. CASE a = x /\ b = x
      BY <2>1, <1>d, <1>v
    <2>2. CASE a = x /\ b # x
      BY <2>2, <1>0, <1>1, <1>d, <1>v
    <2>3. CASE a # x /\ b = x
      <3>1. ord[a] # v
        BY <2>3, <1>0, <1>v
      <3> QED
        BY <2>3, <3>1, <1>0, <1>1, <1>d, <1>v
    <2>4. CASE a # x /\ b # x
      BY <2>4, <1>d
    <2> QED
      BY <2>1, <2>2, <2>3, <2>4
  <1>3. \A a \in U : ord2[a] \in Int
    BY <1>0, <1>d, <1>v
  <1>4. ASSUME NEW a \in U, NEW b \in U
        PROVE  (ord2[a] > ord2[b] <=> ord[a] > ord[b]) /\ (ord2[a] >= ord2[b] <=> ord[a] >= ord[b])
               /\ (ord2[a] <= ord2[b] <=> ord[a] <= ord[b])
    <2>1. (ord2[a] < ord2[b] <=> ord[a] < ord[b]) /\ (ord2[b] < ord2[a] <=> ord[b] < ord[a])
      BY <1>2
    <2> QED
      BY <2>1, <1>0, <1>3
  <1>5. ASSUME NEW a \in U, NEW b \in U, ord2[a] = ord2[b] PROVE a = b
    <2>1. ~ (ord[a] < ord[b]) /\ ~ (ord[b] < ord[a])
      BY <1>2, <1>3, <1>5
    <2> QED
      BY <2>1, <1>0
  <1>6. ASSUME NEW z \in U PROVE IsNext(U, ord2, z, nx2[z])
    <2>1. IsNext(U, ord, z, nx[z]) /\ nx2[z] = nx[z]
      BY DEF Linked
    <2> QED
      BY <2>1, <1>4 DEF IsNext
  <1>7. ASSUME NEW z \in U PROVE IsLast(U, ord2, z, pv2[z])
    <2>1. IsLast(U, ord, z, pv[z]) /\ pv2[z] = pv[z]
      BY DEF Linked
    <2> QED
      BY <2>1, <1>2, <1>4 DEF IsLast
  <1>8. Lowest(U, ord2, lo)
    <2>1. Lowest(U, ord, lo)
      BY DEF Linked
    <2> QED
      BY <2>1, <1>4 DEF Lowest
  <1> QED
    BY <1>0, <1>3, <1>5, <1>6, <1>7, <1>8 DEF Linked

(* Linked as before if nothing on U has changed. *)
LeftIn(U, ord, nx, pv, ord2, nx2, pv2) ==
    \A z \in U : ord2[z] = ord[z] /\ nx2[z] = nx[z] /\ pv2[z] = pv[z]

(* Only the links and orders of the members matter. *)
LEMMA LinkedSame ==
    ASSUME NEW U, NEW ord, NEW nx, NEW pv, NEW lo, Linked(U, ord, nx, pv, lo),
           NEW ord2, NEW nx2, NEW pv2, LeftIn(U, ord, nx, pv, ord2, nx2, pv2)
    PROVE  Linked(U, ord2, nx2, pv2, lo)
  <1>t. \A z \in U : ord2[z] = ord[z] /\ nx2[z] = nx[z] /\ pv2[z] = pv[z]
    BY DEF LeftIn
  <1> USE <1>t
  <1>1. ASSUME NEW z \in U PROVE IsNext(U, ord2, z, nx2[z]) /\ IsLast(U, ord2, z, pv2[z])
    <2>1. IsNext(U, ord, z, nx[z]) /\ IsLast(U, ord, z, pv[z])
      BY DEF Linked
    <2> QED
      BY <2>1 DEF IsNext, IsLast
  <1>2. Lowest(U, ord2, lo)
    BY DEF Linked, Lowest
  <1> QED
    BY <1>1, <1>2 DEF Linked
-----------------------------------------------------------------------------
Node == [count : Nat, next : Nat, last : Nat, hkv1 : Nat]
Val  == [count_to_use : Nat, next : Nat, last : Nat]
Partial(S, T) == UNION {[D -> T] : D \in SUBSET S}

IsInst(m) ==
    /\ m \in [counts : Partial(Nat, Node), counts_size : Nat, counts_next_free : Nat, counts_free : Nat,
              counts_used : Nat, counts_lo : [List -> Nat], counts_hi : [List -> Nat],
              val : Partial(Counter, Val), impossible : BOOLEAN]
    /\ DOMAIN m.counts = 1 .. m.counts_size - 1

LEMMA PartialIs ==
    ASSUME NEW S, NEW T, NEW f
    PROVE  f \in Partial(S, T) <=> DOMAIN f \subseteq S /\ f \in [DOMAIN f -> T]
  <1>1. ASSUME f \in Partial(S, T) PROVE DOMAIN f \subseteq S /\ f \in [DOMAIN f -> T]
    <2>1. PICK D \in SUBSET S : f \in [D -> T]
      BY <1>1 DEF Partial
    <2> QED
      BY <2>1
  <1>2. ASSUME DOMAIN f \subseteq S, f \in [DOMAIN f -> T] PROVE f \in Partial(S, T)
    BY <1>2 DEF Partial
  <1> QED
    BY <1>1, <1>2

LEMMA InstTyped ==
    ASSUME NEW m, IsInst(m)
    PROVE  /\ m.counts \in [1 .. m.counts_size - 1 -> Node] /\ m.counts_size \in Nat
           /\ DOMAIN m.counts = 1 .. m.counts_size - 1
           /\ m.counts_next_free \in Nat /\ m.counts_free \in Nat /\ m.counts_used \in Nat
           /\ m.counts_lo \in [List -> Nat] /\ m.counts_hi \in [List -> Nat]
           /\ DOMAIN m.val \subseteq Counter /\ m.val \in [DOMAIN m.val -> Val] /\ m.impossible \in BOOLEAN
  BY PartialIs DEF IsInst

(* The links of keys and of counts. *)
KeyNext(m)    == [k \in DOMAIN m.val |-> m.val[k].next]
KeyLast(m)    == [k \in DOMAIN m.val |-> m.val[k].last]
CountOf(m)    == [c \in DOMAIN m.counts |-> m.counts[c].count]
CountNext(m)  == [c \in DOMAIN m.counts |-> m.counts[c].next]
CountLast(m)  == [c \in DOMAIN m.counts |-> m.counts[c].last]

(* The keys of K that have count c, and the counts of list l. *)
Chain(m, K, c) == {k \in K : m.val[k].count_to_use = c}
On(own, l)     == {c \in DOMAIN own : own[c] = l}

(* F is the free list. *)
FreeIs(m, F) ==
    /\ F \in [1 .. m.counts_free -> DOMAIN m.counts] /\ IsInjective(F)
    /\ m.counts_free > 0 => m.counts_next_free = F[1]
    /\ \A i \in 1 .. m.counts_free - 1 : m.counts[F[i]].next = F[i + 1]

(* The lists of counts are in the order of the counts, own says which count is on
   which; the chains of the keys in K are in the order of rk. *)
ListsOf(m, own) ==
    \A l \in List : /\ Linked(On(own, l), CountOf(m), CountNext(m), CountLast(m), m.counts_lo[l])
                    /\ Highest(On(own, l), CountOf(m), m.counts_hi[l])
ChainsOf(m, K, own, rk) ==
    \A c \in DOMAIN own : Linked(Chain(m, K, c), rk, KeyNext(m), KeyLast(m), m.counts[c].hkv1)

Shape(m, K, own, rk, F) ==
    /\ IsInst(m) /\ K \subseteq DOMAIN m.val /\ m.impossible = FALSE
    /\ FreeIs(m, F)
    /\ own \in [DOMAIN m.counts \ Range(F) -> List]
    /\ m.counts_used = Cardinality(DOMAIN own)
    /\ \A k \in K : m.val[k].count_to_use \in DOMAIN own
    /\ ListsOf(m, own)
    /\ ChainsOf(m, K, own, rk)
    /\ rk \in [Counter -> Int] /\ \E low \in Int : \A k \in Counter : rk[k] > low

LEMMA NoneIsNoKey == NONE \notin Counter /\ Counter \subseteq Nat
  BY CountsAssumption DEF NONE, Counter

(* All fields but the one that is changed. *)
LEMMA InstWith ==
    ASSUME NEW m, IsInst(m)
    PROVE  /\ \A x : LET r == [m EXCEPT !.val = x] IN
              /\ r.val = x /\ r.counts = m.counts /\ r.counts_size = m.counts_size
              /\ r.counts_next_free = m.counts_next_free /\ r.counts_free = m.counts_free
              /\ r.counts_used = m.counts_used /\ r.counts_lo = m.counts_lo /\ r.counts_hi = m.counts_hi
              /\ r.impossible = m.impossible
              /\ x \in Partial(Counter, Val) => IsInst(r)
           /\ \A x : LET r == [m EXCEPT !.counts = x] IN
              /\ r.counts = x /\ r.val = m.val /\ r.counts_size = m.counts_size
              /\ r.counts_next_free = m.counts_next_free /\ r.counts_free = m.counts_free
              /\ r.counts_used = m.counts_used /\ r.counts_lo = m.counts_lo /\ r.counts_hi = m.counts_hi
              /\ r.impossible = m.impossible
              /\ x \in Partial(Nat, Node) /\ DOMAIN x = DOMAIN m.counts => IsInst(r)
  BY DEF IsInst

(* Unlink, link by link. *)
LEMMA UnlinkIs ==
    ASSUME NEW m, IsInst(m), NEW k \in DOMAIN m.val, NEW v, v = m.val[k],
           v.next # NONE => v.next \in DOMAIN m.val, v.last # NONE => v.last \in DOMAIN m.val,
           v.count_to_use \in DOMAIN m.counts, NEW r, r = Unlink(m, k)
    PROVE  /\ IsInst(r) /\ r.counts_size = m.counts_size
           /\ r.counts_next_free = m.counts_next_free /\ r.counts_free = m.counts_free
           /\ r.counts_used = m.counts_used /\ r.counts_lo = m.counts_lo /\ r.counts_hi = m.counts_hi
           /\ r.impossible = m.impossible
           /\ DOMAIN r.val = DOMAIN m.val
           /\ \A j \in DOMAIN m.val :
                 /\ r.val[j].count_to_use = m.val[j].count_to_use
                 /\ r.val[j].next = IF j = v.last /\ v.last # NONE THEN v.next ELSE m.val[j].next
                 /\ r.val[j].last = IF j = v.next /\ v.next # NONE THEN v.last ELSE m.val[j].last
           /\ DOMAIN r.counts = DOMAIN m.counts
           /\ \A c \in DOMAIN m.counts :
                 /\ r.counts[c].count = m.counts[c].count /\ r.counts[c].next = m.counts[c].next
                 /\ r.counts[c].last = m.counts[c].last
                 /\ r.counts[c].hkv1 = IF c = v.count_to_use /\ m.counts[c].hkv1 = k THEN v.next
                                       ELSE m.counts[c].hkv1
  <1> DEFINE m1 == IF v.next # NONE THEN [m EXCEPT !.val[v.next].last = v.last] ELSE m
             m2 == IF v.last # NONE THEN [m1 EXCEPT !.val[v.last].next = v.next] ELSE m1
             c0 == v.count_to_use
             val1 == IF v.next # NONE THEN [m.val EXCEPT ![v.next].last = v.last] ELSE m.val
             val2 == IF v.last # NONE THEN [val1 EXCEPT ![v.last].next = v.next] ELSE val1
             counts2 == IF m.counts[c0].hkv1 = k THEN [m.counts EXCEPT ![c0].hkv1 = v.next] ELSE m.counts
  <1>0. /\ DOMAIN m.val \subseteq Counter /\ m.val \in [DOMAIN m.val -> Val] /\ v \in Val
        /\ m.counts \in [DOMAIN m.counts -> Node] /\ DOMAIN m.counts \subseteq Nat
    <2>1. /\ DOMAIN m.val \subseteq Counter /\ m.val \in [DOMAIN m.val -> Val]
          /\ m.counts \in [1 .. m.counts_size - 1 -> Node] /\ DOMAIN m.counts = 1 .. m.counts_size - 1
          /\ m.counts_size \in Nat
      BY InstTyped
    <2>2. v \in Val
      BY <2>1
    <2>3. 1 .. m.counts_size - 1 \subseteq Nat
      BY <2>1
    <2> QED
      BY <2>1, <2>2, <2>3
  <1>1. val1 \in [DOMAIN m.val -> Val] /\ \A j \in DOMAIN m.val :
            /\ val1[j].count_to_use = m.val[j].count_to_use /\ val1[j].next = m.val[j].next
            /\ val1[j].last = IF j = v.next /\ v.next # NONE THEN v.last ELSE m.val[j].last
    BY <1>0 DEF Val
  <1>2. val2 \in [DOMAIN m.val -> Val] /\ \A j \in DOMAIN m.val :
            /\ val2[j].count_to_use = m.val[j].count_to_use
            /\ val2[j].next = IF j = v.last /\ v.last # NONE THEN v.next ELSE m.val[j].next
            /\ val2[j].last = IF j = v.next /\ v.next # NONE THEN v.last ELSE m.val[j].last
    <2> HIDE DEF val1
    <2> QED
      BY <1>0, <1>1 DEF Val
  <1>3. counts2 \in [DOMAIN m.counts -> Node] /\ \A c \in DOMAIN m.counts :
            /\ counts2[c].count = m.counts[c].count /\ counts2[c].next = m.counts[c].next
            /\ counts2[c].last = m.counts[c].last
            /\ counts2[c].hkv1 = IF c = c0 /\ m.counts[c].hkv1 = k THEN v.next ELSE m.counts[c].hkv1
    BY <1>0 DEF Node, Val
  <1>p. val1 \in Partial(Counter, Val) /\ val2 \in Partial(Counter, Val) /\ counts2 \in Partial(Nat, Node)
    <2> HIDE DEF val1, val2, counts2
    <2>1. DOMAIN val1 = DOMAIN m.val /\ DOMAIN val2 = DOMAIN m.val /\ DOMAIN counts2 = DOMAIN m.counts
      BY <1>1, <1>2, <1>3
    <2> QED
      BY <2>1, <1>0, <1>1, <1>2, <1>3, PartialIs
  <1>4. m1 = [m EXCEPT !.val = val1] /\ IsInst(m1)
    <2>1. m1 = [m EXCEPT !.val = val1]
      BY DEF IsInst
    <2> HIDE DEF m1, val1
    <2> QED
      BY <2>1, <1>p, InstWith
  <1>5. m1.val = val1
    <2> HIDE DEF m1, val1
    <2> QED
      BY <1>4, InstWith
  <1>6. m2 = [m EXCEPT !.val = val2] /\ IsInst(m2)
    <2>1. m2 = [m1 EXCEPT !.val = val2]
      <3> HIDE DEF m1, val1
      <3> QED
        BY <1>4, <1>5 DEF IsInst
    <2>2. [m1 EXCEPT !.val = val2] = [m EXCEPT !.val = val2]
      <3> HIDE DEF m1, val1, val2
      <3> QED
        BY <1>4 DEF IsInst
    <2> HIDE DEF m1, m2, val1, val2
    <2> QED
      BY <2>1, <2>2, <1>p, InstWith
  <1>7. r = IF m2.counts[c0].hkv1 = k THEN [m2 EXCEPT !.counts[c0].hkv1 = v.next] ELSE m2
    BY DEF Unlink
  <1> HIDE DEF m1, m2, val1, val2
  <1>8. /\ m2.val = val2 /\ m2.counts = m.counts /\ m2.counts_size = m.counts_size
        /\ m2.counts_next_free = m.counts_next_free /\ m2.counts_free = m.counts_free
        /\ m2.counts_used = m.counts_used /\ m2.counts_lo = m.counts_lo /\ m2.counts_hi = m.counts_hi
        /\ m2.impossible = m.impossible
    BY <1>6, InstWith
  <1>9. r = [m2 EXCEPT !.counts = counts2]
    BY <1>6, <1>7, <1>8 DEF IsInst
  <1>10. DOMAIN counts2 = DOMAIN m.counts /\ DOMAIN val2 = DOMAIN m.val
    BY <1>2, <1>3
  <1> HIDE DEF counts2
  <1>11. /\ r.val = val2 /\ r.counts = counts2 /\ IsInst(r) /\ r.counts_size = m.counts_size
         /\ r.counts_next_free = m.counts_next_free /\ r.counts_free = m.counts_free
         /\ r.counts_used = m.counts_used /\ r.counts_lo = m.counts_lo /\ r.counts_hi = m.counts_hi
         /\ r.impossible = m.impossible
    <2>1. PICK n : n = m2
      OBVIOUS
    <2>2. IsInst(n) /\ DOMAIN counts2 = DOMAIN n.counts /\ r = [n EXCEPT !.counts = counts2]
      BY <2>1, <1>6, <1>8, <1>9, <1>10
    <2>3. /\ r.counts = counts2 /\ r.val = n.val /\ r.counts_size = n.counts_size
          /\ r.counts_next_free = n.counts_next_free /\ r.counts_free = n.counts_free
          /\ r.counts_used = n.counts_used /\ r.counts_lo = n.counts_lo /\ r.counts_hi = n.counts_hi
          /\ r.impossible = n.impossible /\ IsInst(r)
      BY <2>2, <1>p, InstWith
    <2> QED
      BY <2>1, <2>3, <1>8
  <1> QED
    BY <1>2, <1>3, <1>10, <1>11

(* What Shape says of one list and of one chain. *)
LEMMA ShapeParts ==
    ASSUME NEW m, NEW K, NEW own, NEW rk, NEW F, Shape(m, K, own, rk, F)
    PROVE  /\ IsInst(m) /\ K \subseteq DOMAIN m.val /\ K \subseteq Counter /\ DOMAIN m.val \subseteq Counter
           /\ m.impossible = FALSE /\ FreeIs(m, F)
           /\ own \in [DOMAIN m.counts \ Range(F) -> List] /\ DOMAIN own = DOMAIN m.counts \ Range(F)
           /\ m.counts_used = Cardinality(DOMAIN own)
           /\ \A k \in K : m.val[k].count_to_use \in DOMAIN own
           /\ ListsOf(m, own) /\ ChainsOf(m, K, own, rk)
           /\ rk \in [Counter -> Int]
           /\ NONE \notin DOMAIN m.counts /\ NONE \notin DOMAIN m.val
  <1>1. IsInst(m) /\ K \subseteq DOMAIN m.val
    BY DEF Shape
  <1>2. DOMAIN m.val \subseteq Counter /\ DOMAIN m.counts = 1 .. m.counts_size - 1 /\ m.counts_size \in Nat
    BY <1>1, InstTyped
  <1>3. NONE \notin DOMAIN m.counts /\ NONE \notin DOMAIN m.val
    BY <1>2, NoneIsNoKey DEF NONE
  <1> QED
    BY <1>1, <1>2, <1>3 DEF Shape

(* The links of a key. *)
LEMMA KeyLinks ==
    ASSUME NEW m, NEW K, NEW own, NEW rk, NEW F, Shape(m, K, own, rk, F), NEW k \in K
    PROVE  LET v == m.val[k] IN
           /\ v.count_to_use \in DOMAIN own
           /\ v.next # NONE => /\ v.next \in K /\ m.val[v.next].count_to_use = v.count_to_use
                               /\ rk[v.next] > rk[k] /\ m.val[v.next].last = k
           /\ v.last # NONE => /\ v.last \in K /\ m.val[v.last].count_to_use = v.count_to_use
                               /\ rk[v.last] < rk[k] /\ m.val[v.last].next = k
           /\ v.last = NONE <=> m.counts[v.count_to_use].hkv1 = k
           /\ m.counts[v.count_to_use].hkv1 # NONE
           /\ m.counts[v.count_to_use].hkv1 \in K
  <1> DEFINE v == m.val[k]
             c == v.count_to_use
             U == Chain(m, K, c)
  <1>1. c \in DOMAIN own /\ K \subseteq DOMAIN m.val
    BY ShapeParts
  <1>2. Linked(U, rk, KeyNext(m), KeyLast(m), m.counts[c].hkv1)
    BY <1>1 DEF Shape, ChainsOf
  <1>3. k \in U /\ U \subseteq K
    BY DEF Chain
  <1>4. KeyNext(m)[k] = v.next /\ KeyLast(m)[k] = v.last
    BY <1>1 DEF KeyNext, KeyLast
  <1>5. \A j \in U : KeyNext(m)[j] = m.val[j].next /\ KeyLast(m)[j] = m.val[j].last /\ m.val[j].count_to_use = c
    BY <1>1, <1>3 DEF KeyNext, KeyLast, Chain
  <1>6. m.counts[c].hkv1 \in U
    BY <1>2, <1>3 DEF Linked, Lowest
  <1> HIDE DEF U, v, c
  <1>7. /\ v.next # NONE => v.next \in U /\ rk[v.next] > rk[k] /\ KeyLast(m)[v.next] = k
        /\ v.last # NONE => v.last \in U /\ rk[v.last] < rk[k] /\ KeyNext(m)[v.last] = k
        /\ v.last = NONE <=> m.counts[c].hkv1 = k
        /\ m.counts[c].hkv1 # NONE
    BY <1>2, <1>3, <1>4, LinkedBack
  <1>8. c = m.val[k].count_to_use /\ v = m.val[k]
    BY DEF c, v
  <1> QED
    BY <1>1, <1>3, <1>5, <1>6, <1>7, <1>8

Unlinked(m, k, r) ==
    /\ DOMAIN r.val = DOMAIN m.val /\ DOMAIN r.counts = DOMAIN m.counts
    /\ r.counts_lo = m.counts_lo /\ r.counts_hi = m.counts_hi
    /\ \A j \in DOMAIN m.val : r.val[j].count_to_use = m.val[j].count_to_use
    /\ \A c \in DOMAIN m.counts :
          /\ r.counts[c].count = m.counts[c].count /\ r.counts[c].next = m.counts[c].next
          /\ r.counts[c].last = m.counts[c].last
          /\ c # m.val[k].count_to_use => r.counts[c].hkv1 = m.counts[c].hkv1
          /\ c = m.val[k].count_to_use =>
                (r.counts[c].hkv1 = NONE <=> m.counts[c].hkv1 = k /\ m.val[k].next = NONE)

(* Unlink takes a key out of its chain and leaves the rest as it was. *)
LEMMA UnlinkShape ==
    ASSUME NEW m, NEW K, NEW own, NEW rk, NEW F, Shape(m, K, own, rk, F), NEW k \in K, NEW r, r = Unlink(m, k)
    PROVE  Shape(r, K \ {k}, own, rk, F) /\ Unlinked(m, k, r)
  <1>v. PICK v : v = m.val[k]
    OBVIOUS
  <1>c. PICK c0 : c0 = v.count_to_use
    OBVIOUS
  <1>0. /\ IsInst(m) /\ K \subseteq DOMAIN m.val /\ K \subseteq Counter
        /\ m.impossible = FALSE /\ FreeIs(m, F)
        /\ own \in [DOMAIN m.counts \ Range(F) -> List] /\ DOMAIN own = DOMAIN m.counts \ Range(F)
        /\ m.counts_used = Cardinality(DOMAIN own)
        /\ \A j \in K : m.val[j].count_to_use \in DOMAIN own
        /\ ListsOf(m, own) /\ ChainsOf(m, K, own, rk)
    <2>1. IsInst(m) /\ K \subseteq DOMAIN m.val /\ K \subseteq Counter /\ m.impossible = FALSE /\ FreeIs(m, F)
      BY ShapeParts
    <2>2. own \in [DOMAIN m.counts \ Range(F) -> List]
      BY DEF Shape
    <2>3. m.counts_used = Cardinality(DOMAIN own)
      BY ShapeParts
    <2>4. \A j \in K : m.val[j].count_to_use \in DOMAIN own
      BY ShapeParts
    <2>5. ListsOf(m, own) /\ ChainsOf(m, K, own, rk)
      BY ShapeParts
    <2> QED
      BY <2>1, <2>2, <2>3, <2>4, <2>5
  <1>1. /\ c0 \in DOMAIN own
        /\ v.next # NONE => v.next \in K /\ m.val[v.next].count_to_use = c0
        /\ v.last # NONE => v.last \in K /\ m.val[v.last].count_to_use = c0
        /\ m.counts[c0].hkv1 # NONE
    BY <1>v, <1>c, KeyLinks
  <1>2. /\ IsInst(r) /\ r.counts_size = m.counts_size
        /\ r.counts_next_free = m.counts_next_free /\ r.counts_free = m.counts_free
        /\ r.counts_used = m.counts_used /\ r.counts_lo = m.counts_lo /\ r.counts_hi = m.counts_hi
        /\ r.impossible = m.impossible
        /\ DOMAIN r.val = DOMAIN m.val
        /\ \A j \in DOMAIN m.val :
              /\ r.val[j].count_to_use = m.val[j].count_to_use
              /\ r.val[j].next = IF j = v.last /\ v.last # NONE THEN v.next ELSE m.val[j].next
              /\ r.val[j].last = IF j = v.next /\ v.next # NONE THEN v.last ELSE m.val[j].last
        /\ DOMAIN r.counts = DOMAIN m.counts
        /\ \A c \in DOMAIN m.counts :
              /\ r.counts[c].count = m.counts[c].count /\ r.counts[c].next = m.counts[c].next
              /\ r.counts[c].last = m.counts[c].last
              /\ r.counts[c].hkv1 = IF c = c0 /\ m.counts[c].hkv1 = k THEN v.next ELSE m.counts[c].hkv1
    BY <1>0, <1>1, <1>v, <1>c, UnlinkIs
  <1>3. CountOf(r) = CountOf(m) /\ CountNext(r) = CountNext(m) /\ CountLast(r) = CountLast(m)
    BY <1>2 DEF CountOf, CountNext, CountLast
  <1>4. ListsOf(r, own)
    BY <1>0, <1>2, <1>3 DEF ListsOf
  <1>5. FreeIs(r, F)
    <2>1. F \in [1 .. m.counts_free -> DOMAIN m.counts] /\ m.counts_free \in Nat
      BY <1>0, InstTyped DEF FreeIs
    <2>2. \A i \in 1 .. m.counts_free - 1 : r.counts[F[i]].next = m.counts[F[i]].next
      BY <2>1, <1>2
    <2> QED
      BY <2>2, <1>0, <1>2 DEF FreeIs
  <1>6. \A c \in DOMAIN own : Chain(r, K \ {k}, c) = Chain(m, K, c) \ {k}
    BY <1>0, <1>2 DEF Chain
  <1>7. ASSUME NEW c \in DOMAIN own
        PROVE  Linked(Chain(r, K \ {k}, c), rk, KeyNext(r), KeyLast(r), r.counts[c].hkv1)
    <2>1. PICK U : U = Chain(m, K, c)
      OBVIOUS
    <2>2. Linked(U, rk, KeyNext(m), KeyLast(m), m.counts[c].hkv1) /\ U \subseteq K
      BY <2>1, <1>0 DEF Chain, ChainsOf
    <2>3. /\ k \in DOMAIN m.val /\ KeyNext(m)[k] = v.next /\ KeyLast(m)[k] = v.last
          /\ \A j \in U : /\ KeyNext(m)[j] = m.val[j].next /\ KeyLast(m)[j] = m.val[j].last
                          /\ KeyNext(r)[j] = r.val[j].next /\ KeyLast(r)[j] = r.val[j].last
                          /\ j # NONE
      BY <2>2, <1>0, <1>2, <1>v, NoneIsNoKey DEF KeyNext, KeyLast
    <2>4. CASE c = c0
      <3>1. k \in U
        BY <2>1, <2>4, <1>v, <1>c DEF Chain
      <3>2. \A z \in U \ {k} : /\ KeyNext(r)[z] = IF z = KeyLast(m)[k] THEN KeyNext(m)[k] ELSE KeyNext(m)[z]
                               /\ KeyLast(r)[z] = IF z = KeyNext(m)[k] THEN KeyLast(m)[k] ELSE KeyLast(m)[z]
        BY <2>2, <2>3, <1>0, <1>2
      <3>3. r.counts[c].hkv1 = IF m.counts[c].hkv1 = k THEN KeyNext(m)[k] ELSE m.counts[c].hkv1
        BY <2>3, <2>4, <1>0, <1>2
      <3>5. TakenOut(U, rk, KeyNext(m), KeyLast(m), m.counts[c].hkv1, k, rk, KeyNext(r), KeyLast(r), r.counts[c].hkv1)
        BY <3>1, <3>2, <3>3 DEF TakenOut
      <3>4. Linked(U \ {k}, rk, KeyNext(r), KeyLast(r), r.counts[c].hkv1)
        BY <2>2, <3>5, LinkedRemove
      <3> QED
        BY <3>4, <2>1, <1>6
    <2>5. CASE c # c0
      <3>1. \A z \in U : z # v.next /\ z # v.last /\ z # k
        BY <2>1, <2>3, <2>5, <1>1, <1>v, <1>c DEF Chain
      <3>2. \A z \in U : KeyNext(r)[z] = KeyNext(m)[z] /\ KeyLast(r)[z] = KeyLast(m)[z]
        BY <2>2, <2>3, <3>1, <1>0, <1>2
      <3>3. r.counts[c].hkv1 = m.counts[c].hkv1
        BY <2>5, <1>0, <1>2
      <3>6. LeftIn(U, rk, KeyNext(m), KeyLast(m), rk, KeyNext(r), KeyLast(r))
        BY <3>2 DEF LeftIn
      <3>4. Linked(U, rk, KeyNext(r), KeyLast(r), r.counts[c].hkv1)
        BY <2>2, <3>3, <3>6, LinkedSame
      <3>5. U \ {k} = U
        BY <3>1
      <3> QED
        BY <3>4, <3>5, <2>1, <1>6
    <2> QED
      BY <2>4, <2>5
  <1>8. Shape(r, K \ {k}, own, rk, F)
    <2>1. rk \in [Counter -> Int] /\ \E low \in Int : \A j \in Counter : rk[j] > low
      BY DEF Shape
    <2>2. \A j \in K \ {k} : r.val[j].count_to_use \in DOMAIN own
      BY <1>0, <1>2
    <2>3. K \ {k} \subseteq DOMAIN r.val /\ own \in [DOMAIN r.counts \ Range(F) -> List]
      BY <1>0, <1>2
    <2>4. r.counts_used = Cardinality(DOMAIN own) /\ IsInst(r) /\ r.impossible = FALSE
      BY <1>0, <1>2
    <2>5. ChainsOf(r, K \ {k}, own, rk)
      BY <1>7 DEF ChainsOf
    <2> QED
      BY <2>1, <2>2, <2>3, <2>4, <2>5, <1>4, <1>5 DEF Shape
  <1>9. k \in DOMAIN m.val /\ c0 = m.val[k].count_to_use /\ c0 \in DOMAIN m.counts /\ v.next = m.val[k].next
    BY <1>0, <1>1, <1>v, <1>c
  <1>10. ASSUME NEW c \in DOMAIN m.counts
         PROVE  /\ c # m.val[k].count_to_use => r.counts[c].hkv1 = m.counts[c].hkv1
                /\ c = m.val[k].count_to_use =>
                       (r.counts[c].hkv1 = NONE <=> m.counts[c].hkv1 = k /\ m.val[k].next = NONE)
    BY <1>1, <1>2, <1>9
  <1> QED
    BY <1>2, <1>8, <1>10 DEF Unlinked
-----------------------------------------------------------------------------
(* An instance, member by member. *)
Built(cs, size, nf, free, used, lo, hi, val, imp) ==
    [counts |-> cs, counts_size |-> size, counts_next_free |-> nf, counts_free |-> free, counts_used |-> used,
     counts_lo |-> lo, counts_hi |-> hi, val |-> val, impossible |-> imp]

LEMMA BuiltFields ==
    ASSUME NEW cs, NEW size, NEW nf, NEW free, NEW used, NEW lo, NEW hi, NEW val, NEW imp,
           NEW r, r = Built(cs, size, nf, free, used, lo, hi, val, imp)
    PROVE  /\ r.counts = cs /\ r.counts_size = size /\ r.counts_next_free = nf
           /\ r.counts_free = free /\ r.counts_used = used /\ r.counts_lo = lo /\ r.counts_hi = hi
           /\ r.val = val /\ r.impossible = imp
  BY DEF Built

LEMMA BuiltIs ==
    ASSUME NEW r, NEW D \in SUBSET Counter,
           r = Built(r.counts, r.counts_size, r.counts_next_free, r.counts_free, r.counts_used,
                     r.counts_lo, r.counts_hi, r.val, r.impossible),
           r.counts_size \in Nat, r.counts_next_free \in Nat, r.counts_free \in Nat, r.counts_used \in Nat,
           r.counts_lo \in [List -> Nat], r.counts_hi \in [List -> Nat], r.impossible \in BOOLEAN,
           r.counts \in [1 .. r.counts_size - 1 -> Node], r.val \in [D -> Val]
    PROVE  IsInst(r)
  <1>1. 1 .. r.counts_size - 1 \subseteq Nat
    OBVIOUS
  <1>2. r.counts \in Partial(Nat, Node)
    BY <1>1 DEF Partial
  <1>3. r.val \in Partial(Counter, Val)
    BY DEF Partial
  <1>4. DOMAIN r.counts = 1 .. r.counts_size - 1
    OBVIOUS
  <1> QED
    BY <1>2, <1>3, <1>4 DEF Built, IsInst

(* SetVal, link by link. *)
LEMMA SetValIs ==
    ASSUME NEW m, IsInst(m), NEW k \in Counter, NEW c \in DOMAIN m.counts, NEW next \in Nat, NEW r,
           r = SetVal(m, k, c, next)
    PROVE  /\ IsInst(r) /\ r.counts_size = m.counts_size
           /\ r.counts_next_free = m.counts_next_free /\ r.counts_free = m.counts_free
           /\ r.counts_used = m.counts_used /\ r.counts_lo = m.counts_lo /\ r.counts_hi = m.counts_hi
           /\ r.impossible = m.impossible
           /\ DOMAIN r.val = DOMAIN m.val \union {k}
           /\ r.val[k].count_to_use = c /\ r.val[k].next = next /\ r.val[k].last = NONE
           /\ \A j \in DOMAIN m.val \ {k} :
                 /\ r.val[j].count_to_use = m.val[j].count_to_use /\ r.val[j].next = m.val[j].next
                 /\ r.val[j].last = IF j = next THEN k ELSE m.val[j].last
           /\ DOMAIN r.counts = DOMAIN m.counts
           /\ \A z \in DOMAIN m.counts :
                 /\ r.counts[z].count = m.counts[z].count /\ r.counts[z].next = m.counts[z].next
                 /\ r.counts[z].last = m.counts[z].last
                 /\ r.counts[z].hkv1 = IF z = c THEN k ELSE m.counts[z].hkv1
  <1>0. /\ m.counts \in [1 .. m.counts_size - 1 -> Node] /\ m.counts_size \in Nat
        /\ DOMAIN m.counts = 1 .. m.counts_size - 1
        /\ m.counts_next_free \in Nat /\ m.counts_free \in Nat /\ m.counts_used \in Nat
        /\ m.counts_lo \in [List -> Nat] /\ m.counts_hi \in [List -> Nat]
        /\ DOMAIN m.val \subseteq Counter /\ m.val \in [DOMAIN m.val -> Val] /\ m.impossible \in BOOLEAN
    BY InstTyped
  <1> DEFINE D == DOMAIN m.val \union {k}
             val2 == [j \in D |-> IF j = k THEN [count_to_use |-> c, next |-> next, last |-> NONE]
                                  ELSE IF j = next THEN [m.val[j] EXCEPT !.last = k] ELSE m.val[j]]
             cs2 == [m.counts EXCEPT ![c].hkv1 = k]
  <1>1. k \in Nat /\ c \in Nat /\ D \subseteq Counter
    BY <1>0, NoneIsNoKey
  <1>2. /\ val2 \in [D -> Val]
        /\ val2[k].count_to_use = c /\ val2[k].next = next /\ val2[k].last = NONE
        /\ \A j \in DOMAIN m.val \ {k} :
              /\ val2[j].count_to_use = m.val[j].count_to_use /\ val2[j].next = m.val[j].next
              /\ val2[j].last = IF j = next THEN k ELSE m.val[j].last
    BY <1>0, <1>1 DEF Val, NONE
  <1>3. /\ cs2 \in [1 .. m.counts_size - 1 -> Node]
        /\ \A z \in DOMAIN m.counts :
              /\ cs2[z].count = m.counts[z].count /\ cs2[z].next = m.counts[z].next
              /\ cs2[z].last = m.counts[z].last
              /\ cs2[z].hkv1 = IF z = c THEN k ELSE m.counts[z].hkv1
    BY <1>0, <1>1 DEF Node
  <1>4. r = [m EXCEPT !.val = val2, !.counts = cs2]
    BY DEF SetVal, IsInst
  <1> HIDE DEF D, val2, cs2
  <1>5. r = Built(cs2, m.counts_size, m.counts_next_free, m.counts_free, m.counts_used,
                  m.counts_lo, m.counts_hi, val2, m.impossible)
    BY <1>4 DEF IsInst, Built
  <1>6. /\ IsInst(r) /\ r.counts = cs2 /\ r.counts_size = m.counts_size
        /\ r.counts_next_free = m.counts_next_free
        /\ r.counts_free = m.counts_free /\ r.counts_used = m.counts_used /\ r.counts_lo = m.counts_lo
        /\ r.counts_hi = m.counts_hi /\ r.val = val2 /\ r.impossible = m.impossible
    <2>1. /\ r.counts = cs2 /\ r.counts_size = m.counts_size
          /\ r.counts_next_free = m.counts_next_free
          /\ r.counts_free = m.counts_free /\ r.counts_used = m.counts_used /\ r.counts_lo = m.counts_lo
          /\ r.counts_hi = m.counts_hi /\ r.val = val2 /\ r.impossible = m.impossible
      BY <1>5, BuiltFields
    <2>2. IsInst(r)
      BY <2>1, <1>0, <1>1, <1>2, <1>3, <1>5, BuiltIs
    <2> QED
      BY <2>1, <2>2
  <1>7. DOMAIN r.val = DOMAIN m.val \union {k} /\ DOMAIN r.counts = DOMAIN m.counts
    BY <1>0, <1>2, <1>3, <1>6 DEF D
  <1> QED
    BY <1>2, <1>3, <1>6, <1>7

(* A key is put first in the chain of a count. *)
Joined(m, K, own, F, k, c0, r) ==
    \E rk2 :
    /\ Shape(r, K \union {k}, own, rk2, F)
    /\ DOMAIN r.val = DOMAIN m.val \union {k} /\ DOMAIN r.counts = DOMAIN m.counts
    /\ r.val[k].count_to_use = c0
    /\ \A j \in DOMAIN m.val \ {k} : r.val[j].count_to_use = m.val[j].count_to_use
    /\ \A c \in DOMAIN m.counts :
          /\ r.counts[c].count = m.counts[c].count
          /\ r.counts[c].hkv1 = IF c = c0 THEN k ELSE m.counts[c].hkv1

(* Join puts a key first in the chain of a count. *)
LEMMA JoinShape ==
    ASSUME NEW m, NEW K, NEW own, NEW rk, NEW F, Shape(m, K, own, rk, F), NEW k \in Counter, k \notin K,
           NEW c0 \in DOMAIN own, NEW r, r = Join(m, k, c0)
    PROVE  Joined(m, K, own, F, k, c0, r)
  <1>0. /\ IsInst(m) /\ K \subseteq DOMAIN m.val /\ K \subseteq Counter
        /\ m.impossible = FALSE /\ FreeIs(m, F)
        /\ own \in [DOMAIN m.counts \ Range(F) -> List] /\ DOMAIN own = DOMAIN m.counts \ Range(F)
        /\ m.counts_used = Cardinality(DOMAIN own)
        /\ \A j \in K : m.val[j].count_to_use \in DOMAIN own
        /\ ListsOf(m, own) /\ ChainsOf(m, K, own, rk)
        /\ c0 \in DOMAIN m.counts /\ m.counts[c0].hkv1 \in Nat
        /\ rk \in [Counter -> Int]
    <2>1. IsInst(m) /\ K \subseteq DOMAIN m.val /\ K \subseteq Counter /\ m.impossible = FALSE /\ FreeIs(m, F)
      BY ShapeParts
    <2>2. own \in [DOMAIN m.counts \ Range(F) -> List] /\ rk \in [Counter -> Int]
      BY DEF Shape
    <2>3. m.counts_used = Cardinality(DOMAIN own)
      BY ShapeParts
    <2>4. \A j \in K : m.val[j].count_to_use \in DOMAIN own
      BY ShapeParts
    <2>5. ListsOf(m, own) /\ ChainsOf(m, K, own, rk)
      BY ShapeParts
    <2>6. c0 \in DOMAIN m.counts
      BY <2>2
    <2>7. m.counts[c0].hkv1 \in Nat
      <3>1. m.counts \in [1 .. m.counts_size - 1 -> Node] /\ DOMAIN m.counts = 1 .. m.counts_size - 1
        BY <2>1, InstTyped
      <3> QED
        BY <3>1, <2>6 DEF Node
    <2> QED
      BY <2>1, <2>2, <2>3, <2>4, <2>5, <2>6, <2>7
  <1>h. PICK h \in Nat : h = m.counts[c0].hkv1
    BY <1>0
  <1>l. PICK low \in Int : \A j \in Counter : rk[j] > low
    BY DEF Shape
  <1>a. PICK rk2 \in [Counter -> Int] : rk2[k] = low /\ \A j \in Counter \ {k} : rk2[j] = rk[j]
    <2>1. [rk EXCEPT ![k] = low] \in [Counter -> Int]
      BY <1>0
    <2> QED
      BY <2>1, <1>0
  <1>1. r = SetVal(m, k, c0, h)
    BY <1>h DEF Join
  <1>2. /\ IsInst(r) /\ r.counts_size = m.counts_size
        /\ r.counts_next_free = m.counts_next_free /\ r.counts_free = m.counts_free
        /\ r.counts_used = m.counts_used /\ r.counts_lo = m.counts_lo /\ r.counts_hi = m.counts_hi
        /\ r.impossible = m.impossible
        /\ DOMAIN r.val = DOMAIN m.val \union {k}
        /\ r.val[k].count_to_use = c0 /\ r.val[k].next = h /\ r.val[k].last = NONE
        /\ \A j \in DOMAIN m.val \ {k} :
              /\ r.val[j].count_to_use = m.val[j].count_to_use /\ r.val[j].next = m.val[j].next
              /\ r.val[j].last = IF j = h THEN k ELSE m.val[j].last
        /\ DOMAIN r.counts = DOMAIN m.counts
        /\ \A z \in DOMAIN m.counts :
              /\ r.counts[z].count = m.counts[z].count /\ r.counts[z].next = m.counts[z].next
              /\ r.counts[z].last = m.counts[z].last
              /\ r.counts[z].hkv1 = IF z = c0 THEN k ELSE m.counts[z].hkv1
    BY <1>0, <1>1, SetValIs
  <1>3. CountOf(r) = CountOf(m) /\ CountNext(r) = CountNext(m) /\ CountLast(r) = CountLast(m)
    BY <1>2 DEF CountOf, CountNext, CountLast
  <1>4. ListsOf(r, own)
    BY <1>0, <1>2, <1>3 DEF ListsOf
  <1>5. FreeIs(r, F)
    <2>1. F \in [1 .. m.counts_free -> DOMAIN m.counts] /\ m.counts_free \in Nat
      BY <1>0, InstTyped DEF FreeIs
    <2>2. \A i \in 1 .. m.counts_free - 1 : r.counts[F[i]].next = m.counts[F[i]].next
      BY <2>1, <1>2
    <2> QED
      BY <2>2, <1>0, <1>2 DEF FreeIs
  <1>6. /\ \A c \in DOMAIN own : c # c0 => Chain(r, K \union {k}, c) = Chain(m, K, c)
        /\ Chain(r, K \union {k}, c0) = Chain(m, K, c0) \union {k}
    BY <1>0, <1>2 DEF Chain
  <1>7. ASSUME NEW c \in DOMAIN own
        PROVE  Linked(Chain(r, K \union {k}, c), rk2, KeyNext(r), KeyLast(r), r.counts[c].hkv1)
    <2>1. PICK U : U = Chain(m, K, c)
      OBVIOUS
    <2>2. Linked(U, rk, KeyNext(m), KeyLast(m), m.counts[c].hkv1) /\ U \subseteq K /\ k \notin U
      BY <2>1, <1>0 DEF Chain, ChainsOf
    <2>3. /\ KeyNext(r)[k] = h /\ KeyLast(r)[k] = NONE
          /\ \A j \in U : /\ KeyNext(m)[j] = m.val[j].next /\ KeyLast(m)[j] = m.val[j].last
                          /\ KeyNext(r)[j] = r.val[j].next /\ KeyLast(r)[j] = r.val[j].last
                          /\ j # NONE /\ j # k /\ j \in DOMAIN m.val /\ rk2[j] = rk[j] /\ rk[j] > low
      BY <2>2, <1>0, <1>2, <1>a, <1>l, NoneIsNoKey DEF KeyNext, KeyLast
    <2>4. CASE c = c0
      <3>1. Lowest(U, rk, h)
        BY <2>2, <2>4, <1>h DEF Linked
      <3>2. \A z \in U : rk[z] \in Int
        BY <2>2 DEF Linked
      <3>3. Between(U, rk, NONE, rk2[k], h)
        <4>1. ~ \E z \in U : rk[z] < low
          BY <2>3, <3>2
        <4>2. \A z \in U : rk[z] > low /\ rk[z] # low
          BY <2>3, <3>2
        <4>3. CASE U = {}
          BY <4>3, <3>1, <1>a DEF Between, Lowest
        <4>4. CASE U # {}
          <5>1. h \in U /\ \A z \in U : rk[z] >= rk[h]
            BY <4>4, <3>1, <3>2 DEF Lowest
          <5> QED
            BY <4>1, <4>2, <5>1, <1>a DEF Between
        <4> QED
          BY <4>3, <4>4
      <3>4. PutIn(U, rk, KeyNext(m), KeyLast(m), m.counts[c].hkv1, k, NONE, h, rk2, KeyNext(r), KeyLast(r), r.counts[c].hkv1)
        <4>1. k # NONE /\ rk2[k] \in Int
          BY NoneIsNoKey, <1>a
        <4>2. \A z \in U : /\ KeyNext(r)[z] = IF z = NONE THEN k ELSE KeyNext(m)[z]
                           /\ KeyLast(r)[z] = IF z = h THEN k ELSE KeyLast(m)[z]
          BY <2>3, <1>2
        <4>3. r.counts[c].hkv1 = k
          BY <2>4, <1>0, <1>2
        <4> QED
          BY <2>2, <2>3, <3>3, <4>1, <4>2, <4>3 DEF PutIn
      <3>5. Linked(U \union {k}, rk2, KeyNext(r), KeyLast(r), r.counts[c].hkv1)
        BY <2>2, <3>4, LinkedInsert
      <3> QED
        BY <3>5, <2>1, <2>4, <1>6
    <2>5. CASE c # c0
      <3>1. \A z \in U : z # h
        <4>1. Linked(Chain(m, K, c0), rk, KeyNext(m), KeyLast(m), h)
          BY <1>0, <1>h DEF ChainsOf
        <4>2. h = NONE \/ h \in Chain(m, K, c0)
          BY <4>1 DEF Linked, Lowest
        <4> QED
          BY <4>2, <2>1, <2>3, <2>5 DEF Chain
      <3>2. \A z \in U : KeyNext(r)[z] = KeyNext(m)[z] /\ KeyLast(r)[z] = KeyLast(m)[z]
        BY <2>3, <3>1, <1>2
      <3>3. r.counts[c].hkv1 = m.counts[c].hkv1
        BY <2>5, <1>0, <1>2
      <3>6. LeftIn(U, rk, KeyNext(m), KeyLast(m), rk2, KeyNext(r), KeyLast(r))
        BY <3>2, <2>3 DEF LeftIn
      <3>4. Linked(U, rk2, KeyNext(r), KeyLast(r), r.counts[c].hkv1)
        BY <2>2, <3>3, <3>6, LinkedSame
      <3> QED
        BY <3>4, <2>1, <2>5, <1>6
    <2> QED
      BY <2>4, <2>5
  <1>8. Shape(r, K \union {k}, own, rk2, F)
    <2>1. \E lower \in Int : \A j \in Counter : rk2[j] > lower
      <3>1. low - 1 \in Int
        OBVIOUS
      <3>2. ASSUME NEW j \in Counter PROVE rk2[j] > low - 1
        <4>1. rk2[j] = low \/ rk2[j] > low
          BY <1>a, <1>l
        <4>2. rk2[j] \in Int
          BY <1>a
        <4> QED
          BY <4>1, <4>2
      <3> QED
        BY <3>1, <3>2
    <2>2. \A j \in K \union {k} : r.val[j].count_to_use \in DOMAIN own
      BY <1>0, <1>2
    <2>3. K \union {k} \subseteq DOMAIN r.val /\ own \in [DOMAIN r.counts \ Range(F) -> List]
      BY <1>0, <1>2
    <2>4. r.counts_used = Cardinality(DOMAIN own) /\ IsInst(r) /\ r.impossible = FALSE
      BY <1>0, <1>2
    <2>5. ChainsOf(r, K \union {k}, own, rk2)
      BY <1>7 DEF ChainsOf
    <2> QED
      BY <2>1, <2>2, <2>3, <2>4, <2>5, <1>4, <1>5, <1>a DEF Shape
  <1> QED
    BY <1>2, <1>8 DEF Joined
-----------------------------------------------------------------------------
(* The links of a count. *)
LEMMA CountLinks ==
    ASSUME NEW m, NEW K, NEW own, NEW rk, NEW F, Shape(m, K, own, rk, F), NEW c \in DOMAIN own
    PROVE  LET n == m.counts[c] IN
           /\ c \in DOMAIN m.counts /\ own[c] \in List /\ n.count \in Nat
           /\ n.next # NONE => /\ n.next \in DOMAIN own /\ own[n.next] = own[c] /\ n.next \in DOMAIN m.counts
                               /\ m.counts[n.next].count > n.count /\ m.counts[n.next].last = c
           /\ n.last # NONE => /\ n.last \in DOMAIN own /\ own[n.last] = own[c] /\ n.last \in DOMAIN m.counts
                               /\ m.counts[n.last].count < n.count /\ m.counts[n.last].next = c
           /\ n.last = NONE <=> m.counts_lo[own[c]] = c
           /\ n.next = NONE <=> m.counts_hi[own[c]] = c
           /\ m.counts_lo[own[c]] # NONE
  <1> DEFINE l == own[c]
             U == On(own, l)
             n == m.counts[c]
  <1>0. IsInst(m) /\ own \in [DOMAIN m.counts \ Range(F) -> List]
    BY DEF Shape
  <1>1. c \in DOMAIN m.counts /\ l \in List /\ DOMAIN own \subseteq DOMAIN m.counts
    BY <1>0
  <1>2. Linked(U, CountOf(m), CountNext(m), CountLast(m), m.counts_lo[l]) /\ Highest(U, CountOf(m), m.counts_hi[l])
    BY <1>1 DEF Shape, ListsOf
  <1>3. c \in U /\ U \subseteq DOMAIN own /\ U \subseteq DOMAIN m.counts /\ \A z \in U : own[z] = l
    BY <1>1 DEF On
  <1>4. \A z \in U : CountOf(m)[z] = m.counts[z].count /\ CountNext(m)[z] = m.counts[z].next
                      /\ CountLast(m)[z] = m.counts[z].last
    BY <1>3 DEF CountOf, CountNext, CountLast
  <1>5. n.count \in Nat
    <2>1. m.counts \in [1 .. m.counts_size - 1 -> Node] /\ DOMAIN m.counts = 1 .. m.counts_size - 1
      BY <1>0, InstTyped
    <2> QED
      BY <2>1, <1>1 DEF Node
  <1> HIDE DEF U, l
  <1>6. /\ n.next # NONE => n.next \in U /\ CountOf(m)[n.next] > CountOf(m)[c] /\ CountLast(m)[n.next] = c
        /\ n.last # NONE => n.last \in U /\ CountOf(m)[n.last] < CountOf(m)[c] /\ CountNext(m)[n.last] = c
        /\ n.last = NONE <=> m.counts_lo[l] = c
        /\ m.counts_lo[l] # NONE
    <2> HIDE DEF n
    <2>1. CountNext(m)[c] = n.next /\ CountLast(m)[c] = n.last
      BY <1>3, <1>4 DEF n
    <2> QED
      BY <2>1, <1>2, <1>3, LinkedBack
  <1>7. n.next = NONE <=> m.counts_hi[l] = c
    <2>1. m.counts_hi[l] \in U /\ \A z \in U : CountOf(m)[z] <= CountOf(m)[m.counts_hi[l]]
      BY <1>2, <1>3 DEF Highest
    <2>2. /\ \A z \in U : CountOf(m)[z] \in Int
          /\ \A y, z \in U : CountOf(m)[y] = CountOf(m)[z] => y = z
          /\ IsNext(U, CountOf(m), c, n.next) /\ NONE \notin U
      BY <1>2, <1>3, <1>4 DEF Linked
    <2>3. ASSUME m.counts_hi[l] = c PROVE n.next = NONE
      <3>1. \A z \in U : ~ (CountOf(m)[z] > CountOf(m)[c])
        BY <2>1, <2>2, <2>3
      <3> QED
        BY <2>2, <3>1 DEF IsNext
    <2>4. ASSUME n.next = NONE PROVE m.counts_hi[l] = c
      <3>1. ~ \E z \in U : CountOf(m)[z] > CountOf(m)[c]
        BY <2>2, <2>4 DEF IsNext
      <3>2. CountOf(m)[m.counts_hi[l]] = CountOf(m)[c]
        BY <2>1, <2>2, <3>1, <1>3
      <3> QED
        BY <2>1, <2>2, <3>2, <1>3
    <2> QED
      BY <2>3, <2>4
  <1>8. l = own[c]
    BY DEF l
  <1> QED
    BY <1>1, <1>3, <1>4, <1>5, <1>6, <1>7, <1>8

(* The counts after a push of from .. to on the free list. *)
Pushed(m, from, to) ==
    [c \in DOMAIN m.counts \union (from .. to) |->
       IF c \notin from .. to THEN m.counts[c]
       ELSE [(IF c \in DOMAIN m.counts THEN m.counts[c]
              ELSE [count |-> 0, next |-> NONE, last |-> NONE, hkv1 |-> NONE])
             EXCEPT !.next = IF c = to THEN m.counts_next_free ELSE c + 1]]

LEMMA PushIs ==
    ASSUME NEW m, IsInst(m), NEW from \in Nat, NEW to \in Nat
    PROVE  FreeCountPush(m, from, to) =
              Built(Pushed(m, from, to), m.counts_size, from, m.counts_free + to - from + 1, m.counts_used,
                    m.counts_lo, m.counts_hi, m.val, m.impossible)
  <1> DEFINE cs == Pushed(m, from, to)
  <1>1. FreeCountPush(m, from, to) =
            [m EXCEPT !.counts = cs, !.counts_next_free = from, !.counts_free = m.counts_free + to - from + 1]
    BY DEF FreeCountPush, Pushed, IsInst
  <1> QED
    BY <1>1 DEF Built, IsInst

(* Counts with one member of one of them changed. *)
Nodes(cs) == cs \in [DOMAIN cs -> Node]
NextSetIn(cs, x, v, d) ==
    /\ Nodes(d) /\ DOMAIN d = DOMAIN cs
    /\ \A z \in DOMAIN cs : /\ d[z].count = cs[z].count /\ d[z].hkv1 = cs[z].hkv1 /\ d[z].last = cs[z].last
                            /\ d[z].next = IF z = x THEN v ELSE cs[z].next
LastSetIn(cs, x, v, d) ==
    /\ Nodes(d) /\ DOMAIN d = DOMAIN cs
    /\ \A z \in DOMAIN cs : /\ d[z].count = cs[z].count /\ d[z].hkv1 = cs[z].hkv1 /\ d[z].next = cs[z].next
                            /\ d[z].last = IF z = x THEN v ELSE cs[z].last

LEMMA NextSet ==
    ASSUME NEW cs, Nodes(cs), NEW x \in DOMAIN cs, NEW v \in Nat
    PROVE  NextSetIn(cs, x, v, [cs EXCEPT ![x].next = v])
  BY DEF Nodes, Node, NextSetIn

LEMMA LastSet ==
    ASSUME NEW cs, Nodes(cs), NEW x \in DOMAIN cs, NEW v \in Nat
    PROVE  LastSetIn(cs, x, v, [cs EXCEPT ![x].last = v])
  BY DEF Nodes, Node, LastSetIn

(* A count without keys is dropped, link by link. *)
LEMMA DropIs ==
    ASSUME NEW m, IsInst(m), NEW l \in List, NEW c \in DOMAIN m.counts, NEW r, r = DropIfEmpty(m, l, c),
           NEW nx \in DOMAIN m.counts, NEW pv \in Nat, nx = m.counts[c].next, pv = m.counts[c].last,
           nx # c, nx # NONE, pv # c, pv # NONE => pv \in DOMAIN m.counts, m.counts[c].hkv1 = NONE,
           m.counts_used > 0
    PROVE  /\ IsInst(r) /\ r.counts_size = m.counts_size /\ r.counts_next_free = c
           /\ r.counts_free = m.counts_free + 1 /\ r.counts_used = m.counts_used - 1
           /\ r.counts_lo = (IF pv = NONE /\ m.counts_lo[l] = c THEN [m.counts_lo EXCEPT ![l] = nx] ELSE m.counts_lo)
           /\ r.counts_hi = m.counts_hi /\ r.val = m.val /\ r.impossible = m.impossible
           /\ DOMAIN r.counts = DOMAIN m.counts
           /\ r.counts[c].next = m.counts_next_free
           /\ \A z \in DOMAIN m.counts : r.counts[z].count = m.counts[z].count /\ r.counts[z].hkv1 = m.counts[z].hkv1
           /\ \A z \in DOMAIN m.counts \ {c} :
                 /\ r.counts[z].next = IF z = pv THEN nx ELSE m.counts[z].next
                 /\ r.counts[z].last = IF z = nx THEN pv ELSE m.counts[z].last
  <1>0. /\ m.counts \in [1 .. m.counts_size - 1 -> Node] /\ m.counts_size \in Nat
        /\ DOMAIN m.counts = 1 .. m.counts_size - 1
        /\ m.counts_next_free \in Nat /\ m.counts_free \in Nat /\ m.counts_used \in Nat
        /\ m.counts_lo \in [List -> Nat] /\ m.counts_hi \in [List -> Nat]
        /\ DOMAIN m.val \subseteq Counter /\ m.val \in [DOMAIN m.val -> Val] /\ m.impossible \in BOOLEAN
    BY InstTyped
  <1>1. c \in Nat /\ nx \in Nat /\ 0 \notin DOMAIN m.counts
    BY <1>0
  <1>a. PICK cs1 : cs1 = [m.counts EXCEPT ![c].next = m.counts_next_free]
    OBVIOUS
  <1>b. PICK cs2 : cs2 = [cs1 EXCEPT ![nx].last = pv]
    OBVIOUS
  <1>c. PICK cs3 : cs3 = IF pv # NONE THEN [cs2 EXCEPT ![pv].next = nx] ELSE cs2
    OBVIOUS
  <1> DEFINE lo2 == IF pv = NONE /\ m.counts_lo[l] = c THEN [m.counts_lo EXCEPT ![l] = nx] ELSE m.counts_lo
             P   == FreeCountPush(m, c, c)
             f   == [P EXCEPT !.counts_used = @ - 1]
             n   == [f EXCEPT !.counts[nx].last = pv]
  <1>n. Nodes(m.counts) /\ NONE \notin DOMAIN m.counts
    BY <1>0, <1>1 DEF Nodes, NONE
  <1>2. NextSetIn(m.counts, c, m.counts_next_free, cs1)
    BY <1>0, <1>n, <1>a, NextSet
  <1>3. LastSetIn(cs1, nx, pv, cs2)
    <2>1. Nodes(cs1) /\ nx \in DOMAIN cs1
      BY <1>2 DEF NextSetIn
    <2> QED
      BY <2>1, <1>b, LastSet
  <1>4. /\ cs3 \in [1 .. m.counts_size - 1 -> Node]
        /\ cs3[c].next = m.counts_next_free
        /\ \A z \in DOMAIN m.counts : /\ cs3[z].count = m.counts[z].count /\ cs3[z].hkv1 = m.counts[z].hkv1
                                      /\ cs3[z].last = IF z = nx THEN pv ELSE m.counts[z].last
        /\ \A z \in DOMAIN m.counts \ {c} : cs3[z].next = IF z = pv THEN nx ELSE m.counts[z].next
    <2>1. Nodes(cs2) /\ DOMAIN cs2 = DOMAIN m.counts
      BY <1>2, <1>3 DEF NextSetIn, LastSetIn
    <2>2. /\ Nodes(cs3) /\ DOMAIN cs3 = DOMAIN cs2
          /\ \A z \in DOMAIN cs2 : /\ cs3[z].count = cs2[z].count /\ cs3[z].hkv1 = cs2[z].hkv1
                                   /\ cs3[z].last = cs2[z].last
                                   /\ cs3[z].next = IF z = pv THEN nx ELSE cs2[z].next
      <3>1. CASE pv # NONE
        <4>1. NextSetIn(cs2, pv, nx, cs3)
          BY <3>1, <2>1, <1>1, <1>c, NextSet
        <4> QED
          BY <4>1 DEF NextSetIn
      <3>2. CASE pv = NONE
        BY <3>2, <2>1, <1>n, <1>c
      <3> QED
        BY <3>1, <3>2
    <2>3. cs3 \in [1 .. m.counts_size - 1 -> Node]
      BY <2>1, <2>2, <1>0 DEF Nodes
    <2>4. \A z \in DOMAIN m.counts : /\ cs2[z].count = m.counts[z].count /\ cs2[z].hkv1 = m.counts[z].hkv1
                                     /\ cs2[z].last = IF z = nx THEN pv ELSE m.counts[z].last
                                     /\ cs2[z].next = IF z = c THEN m.counts_next_free ELSE m.counts[z].next
      BY <1>2, <1>3 DEF NextSetIn, LastSetIn
    <2> QED
      BY <2>1, <2>2, <2>3, <2>4
  <1>5. Pushed(m, c, c) = cs1
    <2>1. \A z : z \in c .. c <=> z = c
      BY <1>1
    <2>2. DOMAIN m.counts \union (c .. c) = DOMAIN m.counts
      BY <2>1
    <2>3. c .. c = {c}
      BY <2>1
    <2>4. Pushed(m, c, c) = [z \in DOMAIN m.counts |-> IF z # c THEN m.counts[z] ELSE [m.counts[c] EXCEPT !.next = m.counts_next_free]]
      BY <2>2, <2>3 DEF Pushed
    <2> QED
      BY <2>4, <1>0, <1>a
  <1>6. P = Built(cs1, m.counts_size, c, m.counts_free + 1, m.counts_used, m.counts_lo, m.counts_hi, m.val, m.impossible)
    <2>1. m.counts_free + c - c + 1 = m.counts_free + 1
      BY <1>0, <1>1
    <2> QED
      BY <2>1, <1>1, <1>5, PushIs
  <1>7. f = Built(cs1, m.counts_size, c, m.counts_free + 1, m.counts_used - 1, m.counts_lo, m.counts_hi, m.val, m.impossible)
    <2> HIDE DEF P
    <2> QED
      BY <1>6 DEF Built
  <1>8. n = Built(cs2, m.counts_size, c, m.counts_free + 1, m.counts_used - 1, m.counts_lo, m.counts_hi, m.val, m.impossible)
    <2> HIDE DEF P, f
    <2> QED
      BY <1>7, <1>b DEF Built
  <1>9. r = IF pv # NONE THEN [n EXCEPT !.counts[pv].next = nx]
            ELSE [n EXCEPT !.counts_lo[l] = IF @ = c THEN nx ELSE @]
    BY DEF DropIfEmpty
  <1>10. r = Built(cs3, m.counts_size, c, m.counts_free + 1, m.counts_used - 1, lo2, m.counts_hi, m.val, m.impossible)
    <2> HIDE DEF P, f, n
    <2>1. CASE pv # NONE
      <3>1. r = [n EXCEPT !.counts[pv].next = nx] /\ lo2 = m.counts_lo /\ cs3 = [cs2 EXCEPT ![pv].next = nx]
        BY <2>1, <1>9, <1>c
      <3> HIDE DEF lo2
      <3> QED
        BY <3>1, <1>8 DEF Built
    <2>2. CASE pv = NONE
      <3>1. r = [n EXCEPT !.counts_lo[l] = IF @ = c THEN nx ELSE @] /\ cs3 = cs2
        BY <2>2, <1>9, <1>c
      <3>2. [m.counts_lo EXCEPT ![l] = IF @ = c THEN nx ELSE @] = lo2
        BY <2>2, <1>0
      <3> HIDE DEF lo2
      <3>3. n.counts_lo = m.counts_lo
        BY <1>8 DEF Built
      <3>4. r = [n EXCEPT !.counts_lo = lo2]
        BY <3>1, <3>2, <3>3
      <3> QED
        BY <3>1, <3>4, <1>8 DEF Built
    <2> QED
      BY <2>1, <2>2
  <1> HIDE DEF P, f, n
  <1>11. lo2 \in [List -> Nat] /\ m.counts_free + 1 \in Nat /\ m.counts_used - 1 \in Nat
    <2>1. PICK free, used \in Nat : free = m.counts_free /\ used = m.counts_used
      BY <1>0
    <2>2. free + 1 \in Nat /\ used - 1 \in Nat
      BY <2>1
    <2>3. PICK lo \in [List -> Nat] : lo = m.counts_lo
      BY <1>0
    <2>4. [lo EXCEPT ![l] = nx] \in [List -> Nat]
      BY <1>1
    <2> QED
      BY <2>1, <2>2, <2>3, <2>4
  <1> HIDE DEF lo2
  <1>12. /\ r.counts = cs3 /\ r.counts_size = m.counts_size /\ r.counts_next_free = c
         /\ r.counts_free = m.counts_free + 1 /\ r.counts_used = m.counts_used - 1 /\ r.counts_lo = lo2
         /\ r.counts_hi = m.counts_hi /\ r.val = m.val /\ r.impossible = m.impossible
    BY <1>10, BuiltFields
  <1>13. IsInst(r)
    BY <1>0, <1>1, <1>4, <1>10, <1>11, <1>12, BuiltIs
  <1>14. DOMAIN r.counts = DOMAIN m.counts
    BY <1>0, <1>4, <1>12
  <1>15. lo2 = (IF pv = NONE /\ m.counts_lo[l] = c THEN [m.counts_lo EXCEPT ![l] = nx] ELSE m.counts_lo)
    BY DEF lo2
  <1> QED
    BY <1>4, <1>12, <1>13, <1>14, <1>15

(* The free list with one more in front. *)
Once(n, D, F)  == F \in [1 .. n -> D] /\ IsInjective(F)
Front(n, c, F) == [i \in 1 .. n + 1 |-> IF i = 1 THEN c ELSE F[i - 1]]

LEMMA FreeFront ==
    ASSUME NEW n \in Nat, NEW D, NEW F, Once(n, D, F), NEW c \in D, c \notin Range(F),
           NEW G, G = Front(n, c, F)
    PROVE  /\ G \in [1 .. n + 1 -> D] /\ IsInjective(G) /\ G[1] = c
           /\ \A i \in 1 .. n : G[i + 1] = F[i]
           /\ Range(G) = Range(F) \union {c}
  <1>0. F \in [1 .. n -> D] /\ IsInjective(F)
    BY DEF Once
  <1>g. G = [i \in 1 .. n + 1 |-> IF i = 1 THEN c ELSE F[i - 1]]
    BY DEF Front
  <1> USE <1>0, <1>g
  <1>1. \A i \in 1 .. n + 1 : i # 1 => i - 1 \in 1 .. n
    OBVIOUS
  <1>2. G \in [1 .. n + 1 -> D] /\ G[1] = c
    BY <1>1
  <1>3. ASSUME NEW i \in 1 .. n PROVE G[i + 1] = F[i]
    <2>1. i + 1 \in 1 .. n + 1 /\ i + 1 # 1 /\ (i + 1) - 1 = i
      OBVIOUS
    <2> QED
      BY <2>1
  <1>4. \A i \in 1 .. n : F[i] # c
    BY DEF Range
  <1>5. \A i \in 1 .. n + 1 : i # 1 => G[i] = F[i - 1]
    OBVIOUS
  <1>6. ASSUME NEW i \in 1 .. n + 1, NEW j \in 1 .. n + 1, G[i] = G[j] PROVE i = j
    <2>1. CASE i = 1 /\ j # 1
      BY <2>1, <1>1, <1>2, <1>4, <1>5, <1>6
    <2>2. CASE i # 1 /\ j = 1
      BY <2>2, <1>1, <1>2, <1>4, <1>5, <1>6
    <2>3. CASE i # 1 /\ j # 1
      <3>1. F[i - 1] = F[j - 1] /\ i - 1 \in 1 .. n /\ j - 1 \in 1 .. n
        BY <2>3, <1>1, <1>5, <1>6
      <3>2. i - 1 = j - 1
        BY <3>1 DEF IsInjective
      <3> QED
        BY <3>2
    <2> QED
      BY <2>1, <2>2, <2>3
  <1>7. IsInjective(G)
    BY <1>2, <1>6 DEF IsInjective
  <1>8. Range(G) = Range(F) \union {c}
    <2>1. ASSUME NEW x \in Range(G) PROVE x \in Range(F) \union {c}
      <3>1. PICK i \in 1 .. n + 1 : x = G[i]
        BY <1>2 DEF Range
      <3> QED
        BY <3>1, <1>1, <1>2, <1>5 DEF Range
    <2>2. c \in Range(G)
      <3>1. 1 \in 1 .. n + 1
        OBVIOUS
      <3> QED
        BY <3>1, <1>2 DEF Range
    <2>3. ASSUME NEW x \in Range(F) PROVE x \in Range(G)
      <3>1. PICK i \in 1 .. n : x = F[i]
        BY DEF Range
      <3>2. i + 1 \in 1 .. n + 1
        OBVIOUS
      <3> QED
        BY <3>1, <3>2, <1>2, <1>3 DEF Range
    <2> QED
      BY <2>1, <2>2, <2>3
  <1> QED
    BY <1>2, <1>3, <1>7, <1>8

(* A count without keys goes back to the free list. *)
Dropped(m, K, own2, rk, r) ==
    \E F2 :
    /\ Shape(r, K, own2, rk, F2)
    /\ r.val = m.val /\ DOMAIN r.counts = DOMAIN m.counts
    /\ \A z \in DOMAIN m.counts : r.counts[z].count = m.counts[z].count /\ r.counts[z].hkv1 = m.counts[z].hkv1

(* A count with no keys leaves its list and is first on the free list. *)
LEMMA DropShape ==
    ASSUME NEW m, NEW K, NEW own, NEW rk, NEW F, Shape(m, K, own, rk, F), NEW c \in DOMAIN own,
           m.counts[c].hkv1 = NONE, m.counts[c].next # NONE, NEW l, l = own[c],
           NEW r, r = DropIfEmpty(m, l, c), NEW own2, own2 = [z \in DOMAIN own \ {c} |-> own[z]]
    PROVE  Dropped(m, K, own2, rk, r)
  <1>0. /\ IsInst(m) /\ K \subseteq DOMAIN m.val /\ K \subseteq Counter
        /\ m.impossible = FALSE /\ FreeIs(m, F)
        /\ own \in [DOMAIN m.counts \ Range(F) -> List] /\ DOMAIN own = DOMAIN m.counts \ Range(F)
        /\ m.counts_used = Cardinality(DOMAIN own)
        /\ \A j \in K : m.val[j].count_to_use \in DOMAIN own
        /\ ListsOf(m, own) /\ ChainsOf(m, K, own, rk)
    <2>1. IsInst(m) /\ K \subseteq DOMAIN m.val /\ K \subseteq Counter /\ m.impossible = FALSE /\ FreeIs(m, F)
      BY ShapeParts
    <2>2. own \in [DOMAIN m.counts \ Range(F) -> List]
      BY DEF Shape
    <2>3. m.counts_used = Cardinality(DOMAIN own)
      BY ShapeParts
    <2>4. \A j \in K : m.val[j].count_to_use \in DOMAIN own
      BY ShapeParts
    <2>5. ListsOf(m, own) /\ ChainsOf(m, K, own, rk)
      BY ShapeParts
    <2> QED
      BY <2>1, <2>2, <2>3, <2>4, <2>5
  <1>t. /\ m.counts \in [1 .. m.counts_size - 1 -> Node] /\ m.counts_size \in Nat
        /\ DOMAIN m.counts = 1 .. m.counts_size - 1
        /\ m.counts_next_free \in Nat /\ m.counts_free \in Nat /\ m.counts_used \in Nat
        /\ m.counts_lo \in [List -> Nat] /\ m.counts_hi \in [List -> Nat] /\ NONE \notin DOMAIN m.counts
    BY <1>0, InstTyped, ShapeParts
  <1>1. c \in DOMAIN m.counts /\ l \in List /\ c # NONE
    BY <1>0, <1>t
  <1>n. PICK nx \in Nat : nx = m.counts[c].next
    BY <1>1, <1>t DEF Node
  <1>p. PICK pv \in Nat : pv = m.counts[c].last
    BY <1>1, <1>t DEF Node
  <1>2. /\ nx # NONE /\ nx \in DOMAIN own /\ own[nx] = l /\ nx \in DOMAIN m.counts /\ nx # c
        /\ pv # c
        /\ pv # NONE => pv \in DOMAIN own /\ own[pv] = l /\ pv \in DOMAIN m.counts
        /\ pv = NONE <=> m.counts_lo[l] = c
        /\ m.counts_hi[l] # c
    <2>1. /\ nx # NONE /\ nx \in DOMAIN own /\ own[nx] = l /\ nx \in DOMAIN m.counts
          /\ m.counts[nx].count > m.counts[c].count
          /\ pv # NONE => /\ pv \in DOMAIN own /\ own[pv] = l /\ pv \in DOMAIN m.counts
                          /\ m.counts[pv].count < m.counts[c].count
          /\ pv = NONE <=> m.counts_lo[l] = c
          /\ m.counts_hi[l] # c
      BY <1>n, <1>p, CountLinks
    <2>2. m.counts[c].count \in Nat
      BY CountLinks
    <2> QED
      BY <2>1, <2>2, <1>1
  <1>3. IsFiniteSet(DOMAIN own) /\ Cardinality(DOMAIN own \ {c}) = m.counts_used - 1 /\ m.counts_used > 0
    <2>1. IsFiniteSet(1 .. m.counts_size - 1)
      <3>1. m.counts_size - 1 \in Int /\ 1 \in Int
        BY <1>t
      <3> QED
        BY <3>1, FS_Interval
    <2>2. IsFiniteSet(DOMAIN own)
      BY <2>1, <1>0, <1>t, FS_Subset
    <2>3. Cardinality(DOMAIN own \ {c}) = Cardinality(DOMAIN own) - 1
      BY <2>2, FS_RemoveElement
    <2>4. Cardinality(DOMAIN own \ {c}) \in Nat
      BY <2>2, FS_RemoveElement, FS_CardinalityType
    <2> QED
      BY <2>2, <2>3, <2>4, <1>0, <1>t
  <1>4. /\ IsInst(r) /\ r.counts_size = m.counts_size /\ r.counts_next_free = c
        /\ r.counts_free = m.counts_free + 1 /\ r.counts_used = m.counts_used - 1
        /\ r.counts_lo = (IF pv = NONE /\ m.counts_lo[l] = c THEN [m.counts_lo EXCEPT ![l] = nx] ELSE m.counts_lo)
        /\ r.counts_hi = m.counts_hi /\ r.val = m.val /\ r.impossible = m.impossible
        /\ DOMAIN r.counts = DOMAIN m.counts
        /\ r.counts[c].next = m.counts_next_free
        /\ \A z \in DOMAIN m.counts : r.counts[z].count = m.counts[z].count /\ r.counts[z].hkv1 = m.counts[z].hkv1
        /\ \A z \in DOMAIN m.counts \ {c} :
              /\ r.counts[z].next = IF z = pv THEN nx ELSE m.counts[z].next
              /\ r.counts[z].last = IF z = nx THEN pv ELSE m.counts[z].last
    BY <1>0, <1>1, <1>2, <1>3, <1>n, <1>p, DropIs
  <1>f. PICK F2 : F2 = Front(m.counts_free, c, F)
    OBVIOUS
  <1>5. /\ F2 \in [1 .. m.counts_free + 1 -> DOMAIN m.counts] /\ IsInjective(F2) /\ F2[1] = c
        /\ \A i \in 1 .. m.counts_free : F2[i + 1] = F[i]
        /\ Range(F2) = Range(F) \union {c}
    <2>1. Once(m.counts_free, DOMAIN m.counts, F) /\ c \notin Range(F)
      BY <1>0 DEF FreeIs, Once
    <2>2. PICK n \in Nat : n = m.counts_free
      BY <1>t
    <2>3. PICK D : D = DOMAIN m.counts
      OBVIOUS
    <2>4. Once(n, D, F) /\ c \in D /\ c \notin Range(F) /\ F2 = Front(n, c, F)
      BY <2>1, <2>2, <2>3, <1>1, <1>f
    <2>5. /\ F2 \in [1 .. n + 1 -> D] /\ IsInjective(F2) /\ F2[1] = c
          /\ \A i \in 1 .. n : F2[i + 1] = F[i]
          /\ Range(F2) = Range(F) \union {c}
      BY <2>4, FreeFront
    <2> QED
      BY <2>2, <2>3, <2>5
  <1>6. FreeIs(r, F2)
    <2>1. ASSUME NEW i \in 1 .. r.counts_free - 1 PROVE r.counts[F2[i]].next = F2[i + 1]
      <3>0. i \in 1 .. m.counts_free /\ m.counts_free > 0
        BY <1>4, <1>t
      <3>1. CASE i = 1
        <4>1. F2[i] = c /\ F2[i + 1] = F[1]
          BY <3>0, <3>1, <1>5
        <4>2. m.counts_next_free = F[1]
          BY <3>0, <1>0 DEF FreeIs
        <4> QED
          BY <4>1, <4>2, <1>4
      <3>2. CASE i # 1
        <4>0. PICK h \in 1 .. m.counts_free - 1 : i = h + 1
          <5>1. i - 1 \in 1 .. m.counts_free - 1 /\ i = (i - 1) + 1
            BY <3>0, <3>2, <1>t
          <5> QED
            BY <5>1
        <4>1. F2[i] = F[h] /\ F2[i + 1] = F[i] /\ h \in 1 .. m.counts_free
          BY <4>0, <3>0, <1>5, <1>t
        <4>2. m.counts[F[h]].next = F[h + 1]
          BY <4>0, <1>0 DEF FreeIs
        <4>3. F[h] \in DOMAIN m.counts /\ F[h] \in Range(F)
          BY <4>1, <1>0 DEF FreeIs, Range
        <4>4. F[h] # c /\ F[h] # pv
          BY <4>3, <1>0, <1>2, <1>t
        <4>5. r.counts[F[h]].next = m.counts[F[h]].next
          BY <4>3, <4>4, <1>4
        <4> QED
          BY <4>0, <4>1, <4>2, <4>5
      <3> QED
        BY <3>1, <3>2
    <2> QED
      BY <2>1, <1>4, <1>5 DEF FreeIs
  <1>7. own2 \in [DOMAIN r.counts \ Range(F2) -> List] /\ DOMAIN own2 = DOMAIN own \ {c}
    BY <1>0, <1>4, <1>5
  <1>8. Chain(m, K, c) = {}
    <2>1. Linked(Chain(m, K, c), rk, KeyNext(m), KeyLast(m), NONE)
      BY <1>0 DEF ChainsOf
    <2> QED
      BY <2>1 DEF Linked, Lowest
  <1>9. \A j \in K : r.val[j].count_to_use \in DOMAIN own2
    BY <1>0, <1>4, <1>7, <1>8 DEF Chain
  <1>10. ChainsOf(r, K, own2, rk)
    <2>1. KeyNext(r) = KeyNext(m) /\ KeyLast(r) = KeyLast(m)
      BY <1>4 DEF KeyNext, KeyLast
    <2>2. ASSUME NEW z \in DOMAIN own2 PROVE Linked(Chain(r, K, z), rk, KeyNext(r), KeyLast(r), r.counts[z].hkv1)
      <3>1. z \in DOMAIN own /\ z \in DOMAIN m.counts
        BY <1>0, <1>7
      <3>2. Chain(r, K, z) = Chain(m, K, z) /\ r.counts[z].hkv1 = m.counts[z].hkv1
        BY <3>1, <1>4 DEF Chain
      <3>3. Linked(Chain(m, K, z), rk, KeyNext(m), KeyLast(m), m.counts[z].hkv1)
        BY <3>1, <1>0 DEF ChainsOf
      <3> QED
        BY <2>1, <3>2, <3>3
    <2> QED
      BY <2>2 DEF ChainsOf
  <1>11. ASSUME NEW i \in List
         PROVE  /\ Linked(On(own2, i), CountOf(r), CountNext(r), CountLast(r), r.counts_lo[i])
                /\ Highest(On(own2, i), CountOf(r), r.counts_hi[i])
    <2>1. PICK U : U = On(own, i)
      OBVIOUS
    <2>2. /\ Linked(U, CountOf(m), CountNext(m), CountLast(m), m.counts_lo[i])
          /\ Highest(U, CountOf(m), m.counts_hi[i])
      BY <2>1, <1>0 DEF ListsOf
    <2>3. U \subseteq DOMAIN own /\ U \subseteq DOMAIN m.counts /\ On(own2, i) = U \ {c}
      BY <2>1, <1>0, <1>7 DEF On
    <2>4. /\ \A z \in U : /\ CountOf(m)[z] = m.counts[z].count /\ CountNext(m)[z] = m.counts[z].next
                          /\ CountLast(m)[z] = m.counts[z].last
                          /\ CountOf(r)[z] = r.counts[z].count /\ CountNext(r)[z] = r.counts[z].next
                          /\ CountLast(r)[z] = r.counts[z].last
          /\ \A z \in U : CountOf(r)[z] = CountOf(m)[z]
      BY <2>3, <1>4 DEF CountOf, CountNext, CountLast
    <2>h. r.counts_hi[i] = m.counts_hi[i]
      BY <1>4
    <2>5. CASE i = l
      <3>1. c \in U
        BY <2>1, <2>5 DEF On
      <3>2. CountNext(m)[c] = nx /\ CountLast(m)[c] = pv
        BY <2>4, <3>1, <1>n, <1>p
      <3>3. \A z \in U \ {c} : /\ CountNext(r)[z] = IF z = pv THEN nx ELSE CountNext(m)[z]
                               /\ CountLast(r)[z] = IF z = nx THEN pv ELSE CountLast(m)[z]
        BY <2>3, <2>4, <1>4
      <3>4. r.counts_lo[i] = IF m.counts_lo[i] = c THEN nx ELSE m.counts_lo[i]
        BY <2>5, <1>2, <1>4, <1>t
      <3>5. TakenOut(U, CountOf(m), CountNext(m), CountLast(m), m.counts_lo[i], c,
                     CountOf(r), CountNext(r), CountLast(r), r.counts_lo[i])
        BY <2>4, <3>1, <3>2, <3>3, <3>4 DEF TakenOut
      <3>6. Linked(U \ {c}, CountOf(r), CountNext(r), CountLast(r), r.counts_lo[i])
        BY <2>2, <3>5, LinkedRemove
      <3>7. m.counts_hi[i] # c /\ m.counts_hi[i] \in U /\ \A z \in U : CountOf(m)[z] <= CountOf(m)[m.counts_hi[i]]
        BY <2>2, <2>5, <3>1, <1>2 DEF Highest
      <3>8. Highest(U \ {c}, CountOf(r), r.counts_hi[i])
        BY <2>4, <2>h, <3>7 DEF Highest
      <3> QED
        BY <2>3, <3>6, <3>8
    <2>6. CASE i # l
      <3>1. \A z \in U : z # c /\ z # nx /\ z # pv
        BY <2>1, <2>3, <2>6, <1>1, <1>2, <1>t DEF On
      <3>2. LeftIn(U, CountOf(m), CountNext(m), CountLast(m), CountOf(r), CountNext(r), CountLast(r))
        BY <2>3, <2>4, <3>1, <1>4 DEF LeftIn
      <3>3. r.counts_lo[i] = m.counts_lo[i]
        BY <2>6, <1>4, <1>t
      <3>4. Linked(U, CountOf(r), CountNext(r), CountLast(r), r.counts_lo[i])
        BY <2>2, <3>2, <3>3, LinkedSame
      <3>5. Highest(U, CountOf(r), r.counts_hi[i])
        BY <2>2, <2>4, <2>h DEF Highest
      <3>6. U \ {c} = U
        BY <3>1
      <3> QED
        BY <2>3, <3>4, <3>5, <3>6
    <2> QED
      BY <2>5, <2>6
  <1>12. Shape(r, K, own2, rk, F2)
    <2>1. rk \in [Counter -> Int] /\ \E low \in Int : \A j \in Counter : rk[j] > low
      BY DEF Shape
    <2>2. K \subseteq DOMAIN r.val /\ r.counts_used = Cardinality(DOMAIN own2) /\ r.impossible = FALSE
      BY <1>0, <1>3, <1>4, <1>7
    <2>3. ListsOf(r, own2)
      BY <1>11 DEF ListsOf
    <2> QED
      BY <2>1, <2>2, <2>3, <1>4, <1>6, <1>7, <1>9, <1>10 DEF Shape
  <1> QED
    BY <1>4, <1>12 DEF Dropped
-----------------------------------------------------------------------------
(* A new page: its counts become the free list. *)
LEMMA GrowIs ==
    ASSUME NEW m, IsInst(m), NEW g, g = Grow(m), NEW from, NEW size,
           from = (IF m.counts_size = 0 THEN 1 ELSE m.counts_size),
           size = (IF m.counts_size = 0 THEN PageCounts ELSE m.counts_size + PageCounts)
    PROVE  /\ from \in Nat /\ size \in Nat /\ from < size /\ from > 0
           /\ IsInst(g) /\ g.counts_size = size /\ g.counts_next_free = from
           /\ g.counts_free = m.counts_free + (size - from) /\ g.counts_used = m.counts_used
           /\ g.counts_lo = m.counts_lo /\ g.counts_hi = m.counts_hi /\ g.val = m.val
           /\ g.impossible = m.impossible
           /\ DOMAIN g.counts = DOMAIN m.counts \union (from .. size - 1)
           /\ DOMAIN m.counts \intersect (from .. size - 1) = {}
           /\ \A z \in DOMAIN m.counts : g.counts[z] = m.counts[z]
           /\ \A z \in from .. size - 1 : z # size - 1 => g.counts[z].next = z + 1
  <1>0. /\ m.counts \in [1 .. m.counts_size - 1 -> Node] /\ m.counts_size \in Nat
        /\ DOMAIN m.counts = 1 .. m.counts_size - 1
        /\ m.counts_next_free \in Nat /\ m.counts_free \in Nat /\ m.counts_used \in Nat
        /\ m.counts_lo \in [List -> Nat] /\ m.counts_hi \in [List -> Nat]
        /\ DOMAIN m.val \subseteq Counter /\ m.val \in [DOMAIN m.val -> Val] /\ m.impossible \in BOOLEAN
    BY InstTyped
  <1>p. PageCounts \in Nat /\ PageCounts > 1
    BY CountsAssumption
  <1>1. from \in Nat /\ size \in Nat /\ from < size /\ from > 0 /\ size - 1 \in Nat
    BY <1>0, <1>p
  <1>2. /\ 1 .. size - 1 = DOMAIN m.counts \union (from .. size - 1)
        /\ DOMAIN m.counts \intersect (from .. size - 1) = {}
    BY <1>0, <1>1, <1>p
  <1>3. PICK cs : cs = Pushed(m, from, size - 1)
    OBVIOUS
  <1>4. PICK P : P = FreeCountPush(m, from, size - 1)
    OBVIOUS
  <1>5. P = Built(cs, m.counts_size, from, m.counts_free + (size - 1) - from + 1, m.counts_used,
                  m.counts_lo, m.counts_hi, m.val, m.impossible)
    BY <1>1, <1>3, <1>4, PushIs
  <1>6. m.counts_free + (size - 1) - from + 1 = m.counts_free + (size - from) /\ m.counts_free + (size - from) \in Nat
    <2>1. PICK u \in Nat : u = m.counts_free
      BY <1>0
    <2>2. u + (size - 1) - from + 1 = u + (size - from) /\ u + (size - from) \in Nat
      BY <1>1
    <2> QED
      BY <2>1, <2>2
  <1>7. g = [P EXCEPT !.counts_size = size]
    BY <1>4 DEF Grow
  <1>8. g = Built(cs, size, from, m.counts_free + (size - from), m.counts_used,
                  m.counts_lo, m.counts_hi, m.val, m.impossible)
    BY <1>5, <1>6, <1>7 DEF Built
  <1>9. /\ g.counts = cs /\ g.counts_size = size /\ g.counts_next_free = from
        /\ g.counts_free = m.counts_free + (size - from) /\ g.counts_used = m.counts_used
        /\ g.counts_lo = m.counts_lo /\ g.counts_hi = m.counts_hi /\ g.val = m.val
        /\ g.impossible = m.impossible
    BY <1>8, BuiltFields
  <1>10. /\ DOMAIN cs = 1 .. size - 1
         /\ \A z \in DOMAIN m.counts : cs[z] = m.counts[z]
         /\ \A z \in from .. size - 1 : /\ cs[z] \in Node
                                        /\ z # size - 1 => cs[z].next = z + 1
    <2>1. DOMAIN cs = 1 .. size - 1
      BY <1>2, <1>3 DEF Pushed
    <2>2. ASSUME NEW z \in DOMAIN m.counts PROVE cs[z] = m.counts[z]
      <3>1. z \notin from .. size - 1
        BY <1>2
      <3> QED
        BY <3>1, <1>3 DEF Pushed
    <2>3. ASSUME NEW z \in from .. size - 1 PROVE cs[z] \in Node /\ (z # size - 1 => cs[z].next = z + 1)
      <3>1. z \notin DOMAIN m.counts /\ z + 1 \in Nat
        BY <1>1, <1>2
      <3>2. cs[z] = [[count |-> 0, next |-> NONE, last |-> NONE, hkv1 |-> NONE]
                     EXCEPT !.next = IF z = size - 1 THEN m.counts_next_free ELSE z + 1]
        BY <3>1, <1>3 DEF Pushed
      <3> QED
        BY <3>1, <3>2, <1>0 DEF Node, NONE
    <2> QED
      BY <2>1, <2>2, <2>3
  <1>11. cs \in [1 .. size - 1 -> Node]
    <2>1. \A z \in 1 .. size - 1 : cs[z] \in Node
      BY <1>0, <1>2, <1>10
    <2>2. cs = [z \in 1 .. size - 1 |-> cs[z]]
      BY <1>10, <1>3 DEF Pushed
    <2> QED
      BY <2>1, <2>2
  <1>12. IsInst(g)
    BY <1>0, <1>1, <1>6, <1>8, <1>9, <1>11, BuiltIs
  <1> QED
    BY <1>1, <1>2, <1>9, <1>10, <1>12

(* A page more is a longer free list. *)
LEMMA GrowShape ==
    ASSUME NEW m, NEW K, NEW own, NEW rk, NEW F, Shape(m, K, own, rk, F), m.counts_free = 0, NEW g, g = Grow(m)
    PROVE  \E F2 :
           /\ Shape(g, K, own, rk, F2) /\ g.counts_free > 0
           /\ g.val = m.val /\ g.counts_lo = m.counts_lo /\ g.counts_hi = m.counts_hi
           /\ DOMAIN m.counts \subseteq DOMAIN g.counts
           /\ \A z \in DOMAIN m.counts : g.counts[z] = m.counts[z]
  <1>0. /\ IsInst(m) /\ K \subseteq DOMAIN m.val /\ K \subseteq Counter
        /\ m.impossible = FALSE /\ FreeIs(m, F)
        /\ own \in [DOMAIN m.counts \ Range(F) -> List] /\ DOMAIN own = DOMAIN m.counts \ Range(F)
        /\ m.counts_used = Cardinality(DOMAIN own)
        /\ \A j \in K : m.val[j].count_to_use \in DOMAIN own
        /\ ListsOf(m, own) /\ ChainsOf(m, K, own, rk)
    <2>1. IsInst(m) /\ K \subseteq DOMAIN m.val /\ K \subseteq Counter /\ m.impossible = FALSE /\ FreeIs(m, F)
      BY ShapeParts
    <2>2. own \in [DOMAIN m.counts \ Range(F) -> List]
      BY DEF Shape
    <2>3. m.counts_used = Cardinality(DOMAIN own)
      BY ShapeParts
    <2>4. \A j \in K : m.val[j].count_to_use \in DOMAIN own
      BY ShapeParts
    <2>5. ListsOf(m, own) /\ ChainsOf(m, K, own, rk)
      BY ShapeParts
    <2> QED
      BY <2>1, <2>2, <2>3, <2>4, <2>5
  <1>f. PICK from : from = (IF m.counts_size = 0 THEN 1 ELSE m.counts_size)
    OBVIOUS
  <1>s. PICK size : size = (IF m.counts_size = 0 THEN PageCounts ELSE m.counts_size + PageCounts)
    OBVIOUS
  <1>1. /\ from \in Nat /\ size \in Nat /\ from < size /\ from > 0
        /\ IsInst(g) /\ g.counts_size = size /\ g.counts_next_free = from
        /\ g.counts_free = m.counts_free + (size - from) /\ g.counts_used = m.counts_used
        /\ g.counts_lo = m.counts_lo /\ g.counts_hi = m.counts_hi /\ g.val = m.val
        /\ g.impossible = m.impossible
        /\ DOMAIN g.counts = DOMAIN m.counts \union (from .. size - 1)
        /\ DOMAIN m.counts \intersect (from .. size - 1) = {}
        /\ \A z \in DOMAIN m.counts : g.counts[z] = m.counts[z]
        /\ \A z \in from .. size - 1 : z # size - 1 => g.counts[z].next = z + 1
    BY <1>0, <1>f, <1>s, GrowIs
  <1>2. PICK n \in Nat : n = size - from /\ n > 0
    <2>1. size - from \in Nat /\ size - from > 0
      BY <1>1
    <2> QED
      BY <2>1
  <1>3. g.counts_free = n
    BY <1>1, <1>2
  <1>4. PICK F2 : F2 = [i \in 1 .. n |-> from + i - 1]
    OBVIOUS
  <1>5. \A i \in 1 .. n : F2[i] = from + i - 1 /\ F2[i] \in from .. size - 1
    BY <1>1, <1>2, <1>4
  <1>6. Range(F2) = from .. size - 1
    <2>1. \A x \in Range(F2) : x \in from .. size - 1
      BY <1>4, <1>5 DEF Range
    <2>2. ASSUME NEW x \in from .. size - 1 PROVE x \in Range(F2)
      <3>1. x - from + 1 \in 1 .. n /\ from + (x - from + 1) - 1 = x
        BY <1>1, <1>2
      <3>2. F2[x - from + 1] = x
        BY <3>1, <1>5
      <3> QED
        BY <3>1, <3>2, <1>4 DEF Range
    <2> QED
      BY <2>1, <2>2
  <1>7. FreeIs(g, F2)
    <2>1. F2 \in [1 .. n -> DOMAIN g.counts]
      BY <1>1, <1>4, <1>5
    <2>2. IsInjective(F2)
      <3>1. \A i, j \in 1 .. n : F2[i] = F2[j] => i = j
        BY <1>1, <1>5
      <3> QED
        BY <3>1, <1>4 DEF IsInjective
    <2>3. ASSUME NEW i \in 1 .. n - 1 PROVE g.counts[F2[i]].next = F2[i + 1]
      <3>1. i \in 1 .. n /\ i + 1 \in 1 .. n
        BY <1>2
      <3>2. F2[i] \in from .. size - 1 /\ F2[i] # size - 1 /\ F2[i + 1] = F2[i] + 1
        BY <3>1, <1>1, <1>2, <1>5
      <3> QED
        BY <3>2, <1>1
    <2>4. g.counts_next_free = F2[1]
      <3>1. 1 \in 1 .. n /\ from + 1 - 1 = from
        BY <1>1, <1>2
      <3> QED
        BY <3>1, <1>1, <1>5
    <2> QED
      BY <2>1, <2>2, <2>3, <2>4, <1>3 DEF FreeIs
  <1>8. Range(F) = {}
    <2>1. F \in [1 .. 0 -> DOMAIN m.counts]
      BY <1>0 DEF FreeIs
    <2>2. 1 .. 0 = {}
      OBVIOUS
    <2> QED
      BY <2>1, <2>2 DEF Range
  <1>9. DOMAIN g.counts \ Range(F2) = DOMAIN m.counts \ Range(F) /\ DOMAIN own \subseteq DOMAIN m.counts
    BY <1>0, <1>1, <1>6, <1>8
  <1>10. \A z \in DOMAIN own : g.counts[z] = m.counts[z] /\ z \in DOMAIN m.counts /\ z \in DOMAIN g.counts
    BY <1>1, <1>9
  <1>11. ChainsOf(g, K, own, rk)
    <2>1. KeyNext(g) = KeyNext(m) /\ KeyLast(g) = KeyLast(m)
      BY <1>1 DEF KeyNext, KeyLast
    <2>2. ASSUME NEW z \in DOMAIN own PROVE Linked(Chain(g, K, z), rk, KeyNext(g), KeyLast(g), g.counts[z].hkv1)
      <3>1. Chain(g, K, z) = Chain(m, K, z) /\ g.counts[z].hkv1 = m.counts[z].hkv1
        BY <1>1, <1>10 DEF Chain
      <3>2. Linked(Chain(m, K, z), rk, KeyNext(m), KeyLast(m), m.counts[z].hkv1)
        BY <1>0 DEF ChainsOf
      <3> QED
        BY <2>1, <3>1, <3>2
    <2> QED
      BY <2>2 DEF ChainsOf
  <1>12. ASSUME NEW i \in List
         PROVE  /\ Linked(On(own, i), CountOf(g), CountNext(g), CountLast(g), g.counts_lo[i])
                /\ Highest(On(own, i), CountOf(g), g.counts_hi[i])
    <2>1. PICK U : U = On(own, i)
      OBVIOUS
    <2>2. /\ Linked(U, CountOf(m), CountNext(m), CountLast(m), g.counts_lo[i])
          /\ Highest(U, CountOf(m), g.counts_hi[i])
      BY <2>1, <1>0, <1>1 DEF ListsOf
    <2>3. \A z \in U : /\ CountOf(g)[z] = CountOf(m)[z] /\ CountNext(g)[z] = CountNext(m)[z]
                       /\ CountLast(g)[z] = CountLast(m)[z]
      BY <2>1, <1>10 DEF On, CountOf, CountNext, CountLast
    <2>4. LeftIn(U, CountOf(m), CountNext(m), CountLast(m), CountOf(g), CountNext(g), CountLast(g))
      BY <2>3 DEF LeftIn
    <2>5. Linked(U, CountOf(g), CountNext(g), CountLast(g), g.counts_lo[i])
      BY <2>2, <2>4, LinkedSame
    <2>6. Highest(U, CountOf(g), g.counts_hi[i])
      BY <2>2, <2>3 DEF Highest
    <2> QED
      BY <2>1, <2>5, <2>6
  <1>13. Shape(g, K, own, rk, F2)
    <2>1. rk \in [Counter -> Int] /\ \E low \in Int : \A j \in Counter : rk[j] > low
      BY DEF Shape
    <2>2. K \subseteq DOMAIN g.val /\ g.counts_used = Cardinality(DOMAIN own) /\ g.impossible = FALSE
      BY <1>0, <1>1
    <2>3. ListsOf(g, own)
      BY <1>12 DEF ListsOf
    <2>4. own \in [DOMAIN g.counts \ Range(F2) -> List] /\ \A j \in K : g.val[j].count_to_use \in DOMAIN own
      BY <1>0, <1>1, <1>9
    <2> QED
      BY <2>1, <2>2, <2>3, <2>4, <1>1, <1>7, <1>11 DEF Shape
  <1>14. g.counts_free > 0 /\ DOMAIN m.counts \subseteq DOMAIN g.counts
    BY <1>1, <1>2, <1>3
  <1> QED
    BY <1>1, <1>13, <1>14

(* The free list without its first. *)
Behind(n, F) == [i \in 1 .. n - 1 |-> F[i + 1]]

LEMMA FreeBehind ==
    ASSUME NEW n \in Nat, n > 0, NEW D, NEW F, Once(n, D, F), NEW G, G = Behind(n, F)
    PROVE  /\ G \in [1 .. n - 1 -> D] /\ IsInjective(G) /\ F[1] \in D /\ F[1] \in Range(F)
           /\ \A i \in 1 .. n - 1 : G[i] = F[i + 1]
           /\ Range(G) = Range(F) \ {F[1]}
  <1>0. F \in [1 .. n -> D] /\ IsInjective(F)
    BY DEF Once
  <1>1. \A i \in 1 .. n - 1 : G[i] = F[i + 1] /\ i + 1 \in 1 .. n /\ i + 1 # 1
    BY DEF Behind
  <1>2. G \in [1 .. n - 1 -> D] /\ DOMAIN G = 1 .. n - 1
    BY <1>0, <1>1 DEF Behind
  <1>3. \A i, j \in 1 .. n : F[i] = F[j] => i = j
    BY <1>0 DEF IsInjective
  <1>4. ASSUME NEW i \in 1 .. n - 1, NEW j \in 1 .. n - 1, G[i] = G[j] PROVE i = j
    <2>1. i + 1 = j + 1
      BY <1>1, <1>3, <1>4
    <2> QED
      BY <2>1
  <1>5. IsInjective(G)
    BY <1>2, <1>4 DEF IsInjective
  <1>6. 1 \in 1 .. n /\ F[1] \in D /\ F[1] \in Range(F)
    <2>1. 1 \in 1 .. n
      OBVIOUS
    <2> QED
      BY <2>1, <1>0 DEF Range
  <1>7. ASSUME NEW x \in Range(G) PROVE x \in Range(F) \ {F[1]}
    <2>1. PICK i \in 1 .. n - 1 : x = G[i]
      BY <1>2 DEF Range
    <2>2. x = F[i + 1] /\ i + 1 \in 1 .. n /\ i + 1 # 1
      BY <2>1, <1>1
    <2> QED
      BY <2>2, <1>0, <1>3, <1>6 DEF Range
  <1>8. ASSUME NEW x \in Range(F) \ {F[1]} PROVE x \in Range(G)
    <2>1. PICK i \in 1 .. n : x = F[i]
      BY <1>0 DEF Range
    <2>2. i # 1
      BY <2>1
    <2>3. i - 1 \in 1 .. n - 1 /\ (i - 1) + 1 = i
      BY <2>2
    <2>4. G[i - 1] = x
      BY <2>1, <2>3, <1>1
    <2> QED
      BY <2>3, <2>4, <1>2 DEF Range
  <1> QED
    BY <1>1, <1>2, <1>5, <1>6, <1>7, <1>8

(* r is g with key k alone under count c, which was the first free: it has n and is
   between y and w in list l. *)
Added(g, r, k, c, l, n, y, w) ==
    /\ IsInst(r) /\ r.counts_size = g.counts_size /\ r.counts_next_free = g.counts[c].next
    /\ r.counts_free = g.counts_free - 1 /\ r.counts_used = g.counts_used + 1
    /\ r.counts_lo = (IF y = NONE THEN [g.counts_lo EXCEPT ![l] = c] ELSE g.counts_lo)
    /\ r.counts_hi = (IF w = NONE THEN [g.counts_hi EXCEPT ![l] = c] ELSE g.counts_hi)
    /\ r.impossible = g.impossible
    /\ DOMAIN r.val = DOMAIN g.val \union {k}
    /\ r.val[k].count_to_use = c /\ r.val[k].next = NONE /\ r.val[k].last = NONE
    /\ \A j \in DOMAIN g.val \ {k} : r.val[j] = g.val[j]
    /\ DOMAIN r.counts = DOMAIN g.counts
    /\ r.counts[c].count = n /\ r.counts[c].next = w /\ r.counts[c].last = y /\ r.counts[c].hkv1 = k
    /\ \A z \in DOMAIN g.counts \ {c} :
          /\ r.counts[z].count = g.counts[z].count /\ r.counts[z].hkv1 = g.counts[z].hkv1
          /\ r.counts[z].next = IF z = y THEN c ELSE g.counts[z].next
          /\ r.counts[z].last = IF z = w THEN c ELSE g.counts[z].last

CanAdd(g, K, own, rk, F, r, k, c, l, n, y, w) ==
    /\ Shape(g, K, own, rk, F) /\ Added(g, r, k, c, l, n, y, w)
    /\ g.counts_free > 0 /\ c = g.counts_next_free
    /\ k \in Counter /\ k \notin K /\ l \in List /\ n \in Nat
    /\ Between(On(own, l), CountOf(g), y, n, w)

OwnsMore(r, K, k, own, rk, c, l) ==
    \E own2, F2 :
    /\ Shape(r, K \union {k}, own2, rk, F2)
    /\ DOMAIN own2 = DOMAIN own \union {c} /\ c \notin DOMAIN own /\ own2[c] = l
    /\ \A z \in DOMAIN own : own2[z] = own[z]

(* The first free count, linked in between its neighbours with one key under it. *)
LEMMA AddShape ==
    ASSUME NEW g, NEW K, NEW own, NEW rk, NEW F, NEW r, NEW k, NEW c, NEW l, NEW n, NEW y, NEW w,
           CanAdd(g, K, own, rk, F, r, k, c, l, n, y, w)
    PROVE  OwnsMore(r, K, k, own, rk, c, l)
  <1>h. /\ Shape(g, K, own, rk, F) /\ Added(g, r, k, c, l, n, y, w)
        /\ g.counts_free > 0 /\ c = g.counts_next_free
        /\ k \in Counter /\ k \notin K /\ l \in List /\ n \in Nat
        /\ Between(On(own, l), CountOf(g), y, n, w)
    BY DEF CanAdd
  <1> USE <1>h
  <1>0. /\ IsInst(g) /\ K \subseteq DOMAIN g.val /\ K \subseteq Counter
        /\ g.impossible = FALSE /\ FreeIs(g, F)
        /\ own \in [DOMAIN g.counts \ Range(F) -> List] /\ DOMAIN own = DOMAIN g.counts \ Range(F)
        /\ g.counts_used = Cardinality(DOMAIN own)
        /\ \A j \in K : g.val[j].count_to_use \in DOMAIN own
        /\ ListsOf(g, own) /\ ChainsOf(g, K, own, rk) /\ NONE \notin DOMAIN g.counts
    <2>1. IsInst(g) /\ K \subseteq DOMAIN g.val /\ K \subseteq Counter /\ g.impossible = FALSE /\ FreeIs(g, F)
      BY ShapeParts
    <2>2. own \in [DOMAIN g.counts \ Range(F) -> List]
      BY DEF Shape
    <2>3. g.counts_used = Cardinality(DOMAIN own) /\ NONE \notin DOMAIN g.counts
      BY ShapeParts
    <2>4. \A j \in K : g.val[j].count_to_use \in DOMAIN own
      BY ShapeParts
    <2>5. ListsOf(g, own) /\ ChainsOf(g, K, own, rk)
      BY ShapeParts
    <2> QED
      BY <2>1, <2>2, <2>3, <2>4, <2>5
  <1>t. /\ g.counts_size \in Nat /\ DOMAIN g.counts = 1 .. g.counts_size - 1
        /\ g.counts_lo \in [List -> Nat] /\ g.counts_hi \in [List -> Nat]
    BY <1>0, InstTyped
  <1>n. PICK nf \in Nat : nf = g.counts_free /\ nf > 0
    BY <1>0, InstTyped
  <1>f. PICK F2 : F2 = Behind(nf, F)
    OBVIOUS
  <1>1. /\ F2 \in [1 .. nf - 1 -> DOMAIN g.counts] /\ IsInjective(F2)
        /\ F[1] \in DOMAIN g.counts /\ F[1] \in Range(F)
        /\ \A i \in 1 .. nf - 1 : F2[i] = F[i + 1]
        /\ Range(F2) = Range(F) \ {F[1]} /\ F[1] = c
    <2>1. PICK D : D = DOMAIN g.counts
      OBVIOUS
    <2>2. Once(nf, D, F) /\ F[1] = c
      BY <2>1, <1>0, <1>n DEF FreeIs, Once
    <2>3. /\ F2 \in [1 .. nf - 1 -> D] /\ IsInjective(F2) /\ F[1] \in D /\ F[1] \in Range(F)
          /\ \A i \in 1 .. nf - 1 : F2[i] = F[i + 1]
          /\ Range(F2) = Range(F) \ {F[1]}
      BY <2>2, <1>n, <1>f, FreeBehind
    <2> QED
      BY <2>1, <2>2, <2>3
  <1>2. c \in DOMAIN g.counts /\ c # NONE /\ c \notin DOMAIN own
    BY <1>0, <1>1
  <1>a. /\ IsInst(r) /\ r.counts_size = g.counts_size /\ r.counts_next_free = g.counts[c].next
        /\ r.counts_free = g.counts_free - 1 /\ r.counts_used = g.counts_used + 1
        /\ r.counts_lo = (IF y = NONE THEN [g.counts_lo EXCEPT ![l] = c] ELSE g.counts_lo)
        /\ r.counts_hi = (IF w = NONE THEN [g.counts_hi EXCEPT ![l] = c] ELSE g.counts_hi)
        /\ r.impossible = g.impossible
        /\ DOMAIN r.val = DOMAIN g.val \union {k}
        /\ r.val[k].count_to_use = c /\ r.val[k].next = NONE /\ r.val[k].last = NONE
        /\ \A j \in DOMAIN g.val \ {k} : r.val[j] = g.val[j]
        /\ DOMAIN r.counts = DOMAIN g.counts
        /\ r.counts[c].count = n /\ r.counts[c].next = w /\ r.counts[c].last = y /\ r.counts[c].hkv1 = k
        /\ \A z \in DOMAIN g.counts \ {c} :
              /\ r.counts[z].count = g.counts[z].count /\ r.counts[z].hkv1 = g.counts[z].hkv1
              /\ r.counts[z].next = IF z = y THEN c ELSE g.counts[z].next
              /\ r.counts[z].last = IF z = w THEN c ELSE g.counts[z].last
    BY DEF Added
  <1>o. PICK own2 : own2 = [z \in DOMAIN own \union {c} |-> IF z = c THEN l ELSE own[z]]
    OBVIOUS
  <1>3. /\ own2 \in [DOMAIN r.counts \ Range(F2) -> List] /\ DOMAIN own2 = DOMAIN own \union {c}
        /\ own2[c] = l /\ \A z \in DOMAIN own : own2[z] = own[z]
    <2>1. DOMAIN r.counts \ Range(F2) = DOMAIN own \union {c}
      BY <1>0, <1>1, <1>2, <1>a
    <2> QED
      BY <2>1, <1>0, <1>2, <1>o
  <1>4. y \notin Range(F) /\ w \notin Range(F) /\ (y = NONE \/ y \in On(own, l)) /\ (w = NONE \/ w \in On(own, l))
    <2>1. (y = NONE \/ y \in On(own, l)) /\ (w = NONE \/ w \in On(own, l))
      BY DEF Between
    <2>2. On(own, l) \subseteq DOMAIN own
      BY DEF On
    <2>3. Range(F) \subseteq DOMAIN g.counts
      BY <1>0 DEF Range, FreeIs
    <2> QED
      BY <2>1, <2>2, <2>3, <1>0
  <1>5. FreeIs(r, F2)
    <2>1. r.counts_free = nf - 1
      BY <1>a, <1>n
    <2>2. ASSUME NEW i \in 1 .. nf - 1 PROVE i \in 1 .. nf /\ i + 1 \in 1 .. nf /\ g.counts[F[i]].next = F[i + 1]
      <3>1. i \in 1 .. nf /\ i + 1 \in 1 .. nf
        OBVIOUS
      <3> QED
        BY <3>1, <1>0, <1>n DEF FreeIs
    <2>3. r.counts_free > 0 => r.counts_next_free = F2[1]
      <3>1. SUFFICES ASSUME nf - 1 > 0 PROVE r.counts_next_free = F2[1]
        BY <2>1
      <3>2. 1 \in 1 .. nf - 1
        BY <3>1
      <3> QED
        BY <3>2, <2>2, <1>1, <1>a
    <2>4. ASSUME NEW i \in 1 .. (nf - 1) - 1 PROVE r.counts[F2[i]].next = F2[i + 1]
      <3>1. i \in 1 .. nf - 1 /\ i + 1 \in 1 .. nf - 1
        OBVIOUS
      <3>2. F2[i] = F[i + 1] /\ F2[i + 1] = F[(i + 1) + 1]
        BY <3>1, <1>1
      <3>3. g.counts[F[i + 1]].next = F[(i + 1) + 1]
        BY <3>1, <2>2
      <3>4. F2[i] \in Range(F2) /\ F2[i] \in DOMAIN g.counts
        BY <3>1, <1>1 DEF Range
      <3>5. F2[i] # c /\ F2[i] # y
        BY <3>4, <1>1, <1>4
      <3> QED
        BY <3>2, <3>3, <3>4, <3>5, <1>a
    <2> QED
      BY <2>1, <2>3, <2>4, <1>1, <1>a DEF FreeIs
  <1>6. r.counts_used = Cardinality(DOMAIN own2)
    <2>1. g.counts_size - 1 \in Int /\ 1 \in Int
      BY <1>t
    <2>2. IsFiniteSet(1 .. g.counts_size - 1)
      BY <2>1, FS_Interval
    <2>3. IsFiniteSet(DOMAIN own)
      BY <2>2, <1>0, <1>t, FS_Subset
    <2>4. Cardinality(DOMAIN own \union {c}) = Cardinality(DOMAIN own) + 1
      BY <2>3, <1>2, FS_AddElement
    <2> QED
      BY <2>4, <1>0, <1>3, <1>a
  <1>7. \A j \in K \union {k} : r.val[j].count_to_use \in DOMAIN own2
    BY <1>0, <1>3, <1>a
  <1>8. ASSUME NEW z \in DOMAIN own2
        PROVE  Linked(Chain(r, K \union {k}, z), rk, KeyNext(r), KeyLast(r), r.counts[z].hkv1)
    <2>0. rk \in [Counter -> Int] /\ k # NONE /\ k \in DOMAIN r.val
      BY <1>a, NoneIsNoKey DEF Shape
    <2>1. CASE z = c
      <3>1. Chain(r, K \union {k}, z) = {k}
        BY <2>1, <1>0, <1>2, <1>a DEF Chain
      <3>2. KeyNext(r)[k] = NONE /\ KeyLast(r)[k] = NONE
        BY <2>0, <1>a DEF KeyNext, KeyLast
      <3>3. rk[k] \in Int /\ ~ (rk[k] > rk[k]) /\ ~ (rk[k] < rk[k]) /\ rk[k] <= rk[k]
        BY <2>0
      <3>4. IsNext({k}, rk, k, KeyNext(r)[k]) /\ IsLast({k}, rk, k, KeyLast(r)[k]) /\ Lowest({k}, rk, k)
        BY <3>2, <3>3 DEF IsNext, IsLast, Lowest
      <3>5. Linked({k}, rk, KeyNext(r), KeyLast(r), k)
        BY <2>0, <3>3, <3>4 DEF Linked
      <3> QED
        BY <2>1, <3>1, <3>5, <1>a
    <2>2. CASE z # c
      <3>1. z \in DOMAIN own /\ z \in DOMAIN g.counts
        BY <2>2, <1>0, <1>3
      <3>2. PICK U : U = Chain(g, K, z)
        OBVIOUS
      <3>3. Chain(r, K \union {k}, z) = U /\ r.counts[z].hkv1 = g.counts[z].hkv1
        BY <2>2, <3>1, <3>2, <1>0, <1>a DEF Chain
      <3>4. Linked(U, rk, KeyNext(g), KeyLast(g), g.counts[z].hkv1) /\ U \subseteq K
        BY <3>1, <3>2, <1>0 DEF ChainsOf, Chain
      <3>5. \A j \in U : KeyNext(r)[j] = KeyNext(g)[j] /\ KeyLast(r)[j] = KeyLast(g)[j]
        BY <3>4, <1>0, <1>a DEF KeyNext, KeyLast
      <3>6. LeftIn(U, rk, KeyNext(g), KeyLast(g), rk, KeyNext(r), KeyLast(r))
        BY <3>5 DEF LeftIn
      <3>7. Linked(U, rk, KeyNext(r), KeyLast(r), g.counts[z].hkv1)
        BY <3>4, <3>6, LinkedSame
      <3> QED
        BY <3>3, <3>7
    <2> QED
      BY <2>1, <2>2
  <1>9. ASSUME NEW i \in List
        PROVE  /\ Linked(On(own2, i), CountOf(r), CountNext(r), CountLast(r), r.counts_lo[i])
               /\ Highest(On(own2, i), CountOf(r), r.counts_hi[i])
    <2>1. PICK U : U = On(own, i)
      OBVIOUS
    <2>2. /\ Linked(U, CountOf(g), CountNext(g), CountLast(g), g.counts_lo[i])
          /\ Highest(U, CountOf(g), g.counts_hi[i])
      BY <2>1, <1>0 DEF ListsOf
    <2>3. U \subseteq DOMAIN own /\ U \subseteq DOMAIN g.counts /\ c \notin U
      BY <2>1, <1>0, <1>2 DEF On
    <2>4. \A z \in U : /\ CountOf(r)[z] = CountOf(g)[z]
                       /\ CountNext(r)[z] = IF z = y THEN c ELSE CountNext(g)[z]
                       /\ CountLast(r)[z] = IF z = w THEN c ELSE CountLast(g)[z]
      BY <2>3, <1>a DEF CountOf, CountNext, CountLast
    <2>c. CountOf(r)[c] = n /\ CountNext(r)[c] = w /\ CountLast(r)[c] = y
      BY <1>2, <1>a DEF CountOf, CountNext, CountLast
    <2>5. CASE i = l
      <3>1. On(own2, i) = U \union {c}
        BY <2>1, <2>5, <1>2, <1>3 DEF On
      <3>2. r.counts_lo[i] = IF y = NONE THEN c ELSE g.counts_lo[i]
        BY <2>5, <1>a, <1>t
      <3>3. r.counts_hi[i] = IF w = NONE THEN c ELSE g.counts_hi[i]
        BY <2>5, <1>a, <1>t
      <3>4. Between(U, CountOf(g), y, n, w)
        BY <2>1, <2>5
      <3>5. PutIn(U, CountOf(g), CountNext(g), CountLast(g), g.counts_lo[i], c, y, w,
                  CountOf(r), CountNext(r), CountLast(r), r.counts_lo[i])
        BY <2>3, <2>4, <2>c, <3>2, <3>4, <1>2 DEF PutIn
      <3>6. Linked(U \union {c}, CountOf(r), CountNext(r), CountLast(r), r.counts_lo[i])
        BY <2>2, <3>5, LinkedInsert
      <3>7. \A z \in U : CountOf(g)[z] \in Int
        BY <2>2 DEF Linked
      <3>8. Highest(U \union {c}, CountOf(r), r.counts_hi[i])
        <4>1. CASE w = NONE
          <5>1. \A z \in U : ~ (CountOf(g)[z] > n)
            BY <4>1, <3>4, <2>3, <1>0 DEF Between
          <5>2. \A z \in U : CountOf(r)[z] <= n
            BY <5>1, <3>7, <2>4
          <5> QED
            BY <4>1, <5>2, <3>3, <2>c DEF Highest
        <4>2. CASE w # NONE
          <5>1. w \in U /\ CountOf(g)[w] > n
            BY <4>2, <3>4 DEF Between
          <5>2. PICK h : h = g.counts_hi[i]
            OBVIOUS
          <5>3. h \in U /\ \A z \in U : CountOf(g)[z] <= CountOf(g)[h]
            BY <5>1, <5>2, <2>2 DEF Highest
          <5>4. n <= CountOf(g)[h]
            BY <5>1, <5>3, <3>7
          <5>5. \A z \in U \union {c} : CountOf(r)[z] <= CountOf(r)[h]
            BY <5>3, <5>4, <2>4, <2>c
          <5> QED
            BY <4>2, <5>2, <5>3, <5>5, <3>3 DEF Highest
        <4> QED
          BY <4>1, <4>2
      <3> QED
        BY <3>1, <3>6, <3>8
    <2>6. CASE i # l
      <3>1. On(own2, i) = U
        BY <2>1, <2>6, <1>2, <1>3 DEF On
      <3>2. \A z \in U : z # y /\ z # w
        BY <2>1, <2>3, <2>6, <1>0, <1>4 DEF On
      <3>3. LeftIn(U, CountOf(g), CountNext(g), CountLast(g), CountOf(r), CountNext(r), CountLast(r))
        BY <2>4, <3>2 DEF LeftIn
      <3>4. r.counts_lo[i] = g.counts_lo[i] /\ r.counts_hi[i] = g.counts_hi[i]
        BY <2>6, <1>a, <1>t
      <3>5. Linked(U, CountOf(r), CountNext(r), CountLast(r), r.counts_lo[i])
        BY <2>2, <3>3, <3>4, LinkedSame
      <3>6. Highest(U, CountOf(r), r.counts_hi[i])
        BY <2>2, <2>4, <3>4 DEF Highest
      <3> QED
        BY <3>1, <3>5, <3>6
    <2> QED
      BY <2>5, <2>6
  <1>10. Shape(r, K \union {k}, own2, rk, F2)
    <2>1. rk \in [Counter -> Int] /\ \E low \in Int : \A j \in Counter : rk[j] > low
      BY DEF Shape
    <2>2. K \union {k} \subseteq DOMAIN r.val /\ r.impossible = FALSE /\ IsInst(r)
      BY <1>0, <1>a
    <2>3. ListsOf(r, own2)
      BY <1>9 DEF ListsOf
    <2>4. ChainsOf(r, K \union {k}, own2, rk)
      BY <1>8 DEF ChainsOf
    <2>5. own2 \in [DOMAIN r.counts \ Range(F2) -> List]
      BY <1>3
    <2> QED
      BY <2>1, <2>2, <2>3, <2>4, <2>5, <1>5, <1>6, <1>7 DEF Shape
  <1> QED
    BY <1>2, <1>3, <1>10 DEF OwnsMore
-----------------------------------------------------------------------------
(* The instance that has key k alone under count c, taken from g's free list. *)
NodeOf(n, w, y, k)   == [count |-> n, next |-> w, last |-> y, hkv1 |-> k]
ValWith(g, k, c)     == [j \in DOMAIN g.val \union {k} |->
                           IF j = k THEN [count_to_use |-> c, next |-> NONE, last |-> NONE] ELSE g.val[j]]
AfterPop(g, c)       == [g EXCEPT !.counts_next_free = g.counts[c].next,
                                  !.counts_free = @ - 1, !.counts_used = @ + 1]
Placed(g, k, c, nd)  == [SetVal(AfterPop(g, c), k, c, NONE) EXCEPT !.counts[c] = nd]
WithNext(cs, y, c)   == IF y = NONE THEN cs ELSE [cs EXCEPT ![y].next = c]
WithLast(cs, w, c)   == IF w = NONE THEN cs ELSE [cs EXCEPT ![w].last = c]
LinkedCounts(g, k, c, n, y, w) == WithLast(WithNext([g.counts EXCEPT ![c] = NodeOf(n, w, y, k)], y, c), w, c)
Ends(f, l, x, c)     == IF x = NONE THEN [f EXCEPT ![l] = c] ELSE f

LEMMA PlacedIs ==
    ASSUME NEW g, IsInst(g), NEW c \in DOMAIN g.counts, NEW k \in Counter, NEW nd, NEW q, q = Placed(g, k, c, nd)
    PROVE  q = Built([g.counts EXCEPT ![c] = nd], g.counts_size, g.counts[c].next, g.counts_free - 1,
                     g.counts_used + 1, g.counts_lo, g.counts_hi, ValWith(g, k, c), g.impossible)
  <1>1. PICK p : p = AfterPop(g, c)
    OBVIOUS
  <1>2. p = Built(g.counts, g.counts_size, g.counts[c].next, g.counts_free - 1, g.counts_used + 1,
                  g.counts_lo, g.counts_hi, g.val, g.impossible)
    BY <1>1 DEF AfterPop, Built, IsInst
  <1>3. PICK V : V = ValWith(g, k, c)
    OBVIOUS
  <1>4. [j \in DOMAIN g.val \union {k} |->
            IF j = k THEN [count_to_use |-> c, next |-> NONE, last |-> NONE]
            ELSE IF j = NONE THEN [g.val[j] EXCEPT !.last = k] ELSE g.val[j]] = V
    <2>1. \A j \in DOMAIN g.val \union {k} : j # NONE
      BY InstTyped, NoneIsNoKey
    <2> QED
      BY <2>1, <1>3 DEF ValWith
  <1>5. PICK s : s = SetVal(p, k, c, NONE)
    OBVIOUS
  <1>6. p.val = g.val /\ p.counts = g.counts
    BY <1>2, BuiltFields
  <1>7. s = [p EXCEPT !.val = V, !.counts = [g.counts EXCEPT ![c].hkv1 = k]]
    <2>1. s = [p EXCEPT !.val = [j \in DOMAIN @ \union {k} |->
                         IF j = k THEN [count_to_use |-> c, next |-> NONE, last |-> NONE]
                         ELSE IF j = NONE THEN [@[j] EXCEPT !.last = k]
                         ELSE @[j]],
              !.counts[c].hkv1 = k]
      BY <1>5 DEF SetVal
    <2>2. s = [p EXCEPT !.val = [j \in DOMAIN g.val \union {k} |->
                         IF j = k THEN [count_to_use |-> c, next |-> NONE, last |-> NONE]
                         ELSE IF j = NONE THEN [g.val[j] EXCEPT !.last = k] ELSE g.val[j]],
              !.counts = [g.counts EXCEPT ![c].hkv1 = k]]
      BY <2>1, <1>2, <1>6 DEF Built
    <2> QED
      BY <2>2, <1>4
  <1>8. s = Built([g.counts EXCEPT ![c].hkv1 = k], g.counts_size, g.counts[c].next, g.counts_free - 1,
                  g.counts_used + 1, g.counts_lo, g.counts_hi, V, g.impossible)
    BY <1>2, <1>7 DEF Built
  <1>9. q = [s EXCEPT !.counts[c] = nd]
    BY <1>1, <1>5 DEF Placed
  <1>10. [[g.counts EXCEPT ![c].hkv1 = k] EXCEPT ![c] = nd] = [g.counts EXCEPT ![c] = nd]
    <2>1. g.counts \in [DOMAIN g.counts -> Node]
      BY InstTyped
    <2> QED
      BY <2>1
  <1>11. PICK cs1 : cs1 = [g.counts EXCEPT ![c].hkv1 = k]
    OBVIOUS
  <1>12. PICK cs2 : cs2 = [g.counts EXCEPT ![c] = nd]
    OBVIOUS
  <1>13. [cs1 EXCEPT ![c] = nd] = cs2
    BY <1>10, <1>11, <1>12
  <1>14. s.counts = cs1
    BY <1>8, <1>11, BuiltFields
  <1>15. q = [s EXCEPT !.counts = cs2]
    BY <1>9, <1>13, <1>14
  <1>16. q = Built(cs2, g.counts_size, g.counts[c].next, g.counts_free - 1,
                   g.counts_used + 1, g.counts_lo, g.counts_hi, V, g.impossible)
    BY <1>8, <1>15 DEF Built
  <1> QED
    BY <1>3, <1>12, <1>16

(* The instance AddTo builds is one with a count added. *)
LEMMA AddedBuilt ==
    ASSUME NEW g, IsInst(g), g.counts_free > 0, NEW c \in DOMAIN g.counts, NEW k \in Counter, NEW l \in List,
           NEW n \in Nat, NEW y \in Nat, NEW w \in Nat, y # c, w # c,
           y # NONE => y \in DOMAIN g.counts, w # NONE => w \in DOMAIN g.counts,
           NEW r, r = Built(LinkedCounts(g, k, c, n, y, w), g.counts_size, g.counts[c].next, g.counts_free - 1,
                            g.counts_used + 1, Ends(g.counts_lo, l, y, c), Ends(g.counts_hi, l, w, c),
                            ValWith(g, k, c), g.impossible)
    PROVE  Added(g, r, k, c, l, n, y, w)
  <1>0. /\ g.counts \in [1 .. g.counts_size - 1 -> Node] /\ g.counts_size \in Nat
        /\ DOMAIN g.counts = 1 .. g.counts_size - 1
        /\ g.counts_next_free \in Nat /\ g.counts_free \in Nat /\ g.counts_used \in Nat
        /\ g.counts_lo \in [List -> Nat] /\ g.counts_hi \in [List -> Nat]
        /\ DOMAIN g.val \subseteq Counter /\ g.val \in [DOMAIN g.val -> Val] /\ g.impossible \in BOOLEAN
    BY InstTyped
  <1>1. c \in Nat /\ k \in Nat /\ NONE \notin DOMAIN g.counts /\ NONE \in Nat
    BY <1>0, NoneIsNoKey DEF NONE
  <1>2. PICK cs1 : cs1 = [g.counts EXCEPT ![c] = NodeOf(n, w, y, k)]
    OBVIOUS
  <1>3. /\ Nodes(cs1) /\ DOMAIN cs1 = DOMAIN g.counts /\ cs1[c] = NodeOf(n, w, y, k)
        /\ \A z \in DOMAIN g.counts \ {c} : cs1[z] = g.counts[z]
    <2>1. NodeOf(n, w, y, k) \in Node
      BY <1>1 DEF NodeOf, Node
    <2> QED
      BY <2>1, <1>0, <1>2 DEF Nodes
  <1>4. PICK cs2 : cs2 = WithNext(cs1, y, c)
    OBVIOUS
  <1>5. NextSetIn(cs1, y, c, cs2)
    <2>1. CASE y # NONE
      BY <2>1, <1>1, <1>3, <1>4, NextSet DEF WithNext
    <2>2. CASE y = NONE
      <3>1. cs2 = cs1 /\ y \notin DOMAIN cs1
        BY <2>2, <1>1, <1>3, <1>4 DEF WithNext
      <3> QED
        BY <3>1, <1>3 DEF NextSetIn
    <2> QED
      BY <2>1, <2>2
  <1>6. PICK cs3 : cs3 = WithLast(cs2, w, c)
    OBVIOUS
  <1>7. LastSetIn(cs2, w, c, cs3)
    <2>0. Nodes(cs2) /\ DOMAIN cs2 = DOMAIN g.counts
      BY <1>3, <1>5 DEF NextSetIn
    <2>1. CASE w # NONE
      BY <2>0, <2>1, <1>1, <1>6, LastSet DEF WithLast
    <2>2. CASE w = NONE
      <3>1. cs3 = cs2 /\ w \notin DOMAIN cs2
        BY <2>0, <2>2, <1>1, <1>6 DEF WithLast
      <3> QED
        BY <2>0, <3>1 DEF LastSetIn
    <2> QED
      BY <2>1, <2>2
  <1>8. cs3 = LinkedCounts(g, k, c, n, y, w)
    BY <1>2, <1>4, <1>6 DEF LinkedCounts
  <1>9. DOMAIN cs3 = DOMAIN g.counts /\ Nodes(cs3)
    BY <1>3, <1>5, <1>7 DEF NextSetIn, LastSetIn
  <1>10. cs3[c].count = n /\ cs3[c].next = w /\ cs3[c].last = y /\ cs3[c].hkv1 = k
    <2>1. cs1[c].count = n /\ cs1[c].next = w /\ cs1[c].last = y /\ cs1[c].hkv1 = k
      BY <1>3 DEF NodeOf
    <2>2. cs2[c].count = n /\ cs2[c].next = w /\ cs2[c].last = y /\ cs2[c].hkv1 = k
      BY <2>1, <1>3, <1>5 DEF NextSetIn
    <2> QED
      BY <2>2, <1>3, <1>5, <1>7 DEF LastSetIn, NextSetIn
  <1>11. \A z \in DOMAIN g.counts \ {c} :
            /\ cs3[z].count = g.counts[z].count /\ cs3[z].hkv1 = g.counts[z].hkv1
            /\ cs3[z].next = IF z = y THEN c ELSE g.counts[z].next
            /\ cs3[z].last = IF z = w THEN c ELSE g.counts[z].last
    <2>2. \A z \in DOMAIN g.counts \ {c} :
             /\ cs2[z].count = g.counts[z].count /\ cs2[z].hkv1 = g.counts[z].hkv1
             /\ cs2[z].next = IF z = y THEN c ELSE g.counts[z].next
             /\ cs2[z].last = g.counts[z].last
      BY <1>3, <1>5 DEF NextSetIn
    <2> QED
      BY <2>2, <1>3, <1>5, <1>7 DEF LastSetIn, NextSetIn
  <1>12. PICK V : V = ValWith(g, k, c)
    OBVIOUS
  <1>13. /\ V \in [DOMAIN g.val \union {k} -> Val] /\ DOMAIN V = DOMAIN g.val \union {k}
         /\ V[k].count_to_use = c /\ V[k].next = NONE /\ V[k].last = NONE
         /\ \A j \in DOMAIN g.val \ {k} : V[j] = g.val[j]
    BY <1>0, <1>1, <1>12 DEF ValWith, Val
  <1>14. PICK lo2, hi2 : lo2 = Ends(g.counts_lo, l, y, c) /\ hi2 = Ends(g.counts_hi, l, w, c)
    OBVIOUS
  <1>15. lo2 \in [List -> Nat] /\ hi2 \in [List -> Nat]
    BY <1>0, <1>1, <1>14 DEF Ends
  <1>16. /\ r.counts = cs3 /\ r.counts_size = g.counts_size /\ r.counts_next_free = g.counts[c].next
         /\ r.counts_free = g.counts_free - 1 /\ r.counts_used = g.counts_used + 1
         /\ r.counts_lo = lo2 /\ r.counts_hi = hi2 /\ r.val = V /\ r.impossible = g.impossible
    BY <1>8, <1>12, <1>14, BuiltFields
  <1>17. g.counts[c].next \in Nat /\ g.counts_free - 1 \in Nat /\ g.counts_used + 1 \in Nat
    <2>1. g.counts[c] \in Node
      BY <1>0
    <2>2. g.counts[c].next \in Nat
      BY <2>1 DEF Node
    <2>3. PICK u \in Nat : u = g.counts_free /\ u > 0
      BY <1>0
    <2>4. u - 1 \in Nat
      BY <2>3
    <2>5. g.counts_used + 1 \in Nat
      BY <1>0
    <2> QED
      BY <2>2, <2>3, <2>4, <2>5
  <1>18. r.counts \in [1 .. g.counts_size - 1 -> Node] /\ DOMAIN g.val \union {k} \subseteq Counter
    BY <1>0, <1>9, <1>16 DEF Nodes
  <1>19. r = Built(r.counts, r.counts_size, r.counts_next_free, r.counts_free, r.counts_used,
                   r.counts_lo, r.counts_hi, r.val, r.impossible)
    BY <1>8, <1>12, <1>14, <1>16
  <1>20. IsInst(r)
    <2>1. PICK D \in SUBSET Counter : D = DOMAIN g.val \union {k}
      BY <1>18
    <2>2. r.val \in [D -> Val] /\ r.counts \in [1 .. r.counts_size - 1 -> Node]
      BY <2>1, <1>13, <1>16, <1>18
    <2>3. /\ r.counts_size \in Nat /\ r.counts_next_free \in Nat /\ r.counts_free \in Nat
          /\ r.counts_used \in Nat /\ r.counts_lo \in [List -> Nat] /\ r.counts_hi \in [List -> Nat]
          /\ r.impossible \in BOOLEAN
      BY <1>0, <1>15, <1>16, <1>17
    <2> QED
      BY <2>1, <2>2, <2>3, <1>19, BuiltIs
  <1>21. r.counts_lo = (IF y = NONE THEN [g.counts_lo EXCEPT ![l] = c] ELSE g.counts_lo)
         /\ r.counts_hi = (IF w = NONE THEN [g.counts_hi EXCEPT ![l] = c] ELSE g.counts_hi)
    BY <1>14, <1>16 DEF Ends
  <1>22. DOMAIN r.counts = DOMAIN g.counts /\ DOMAIN r.val = DOMAIN g.val \union {k}
    BY <1>9, <1>13, <1>16
  <1>23. /\ r.val[k].count_to_use = c /\ r.val[k].next = NONE /\ r.val[k].last = NONE
         /\ \A j \in DOMAIN g.val \ {k} : r.val[j] = g.val[j]
    BY <1>13, <1>16
  <1>24. /\ r.counts[c].count = n /\ r.counts[c].next = w /\ r.counts[c].last = y /\ r.counts[c].hkv1 = k
         /\ \A z \in DOMAIN g.counts \ {c} :
              /\ r.counts[z].count = g.counts[z].count /\ r.counts[z].hkv1 = g.counts[z].hkv1
              /\ r.counts[z].next = IF z = y THEN c ELSE g.counts[z].next
              /\ r.counts[z].last = IF z = w THEN c ELSE g.counts[z].last
    <2>1. r.counts = cs3
      BY <1>16
    <2> QED
      BY <2>1, <1>10, <1>11
  <1> QED
    BY <1>16, <1>20, <1>21, <1>22, <1>23, <1>24 DEF Added

(* Where the count comes from. *)
PopFrom(m) == IF m.counts_free = 0 THEN Grow(m) ELSE m

(* There is a free count, if need be in a new page. *)
LEMMA PopShape ==
    ASSUME NEW m, NEW K, NEW own, NEW rk, NEW F, Shape(m, K, own, rk, F), NEW g, g = PopFrom(m)
    PROVE  /\ \E F2 : Shape(g, K, own, rk, F2)
           /\ g.counts_free > 0
           /\ g.val = m.val /\ g.counts_lo = m.counts_lo /\ g.counts_hi = m.counts_hi
           /\ DOMAIN m.counts \subseteq DOMAIN g.counts
           /\ \A z \in DOMAIN m.counts : g.counts[z] = m.counts[z]
  <1>1. CASE m.counts_free = 0
    BY <1>1, GrowShape DEF PopFrom
  <1>2. CASE m.counts_free # 0
    <2>1. m.counts_free \in Nat
      BY ShapeParts, InstTyped
    <2>2. g = m /\ m.counts_free > 0
      BY <1>2, <2>1 DEF PopFrom
    <2> QED
      BY <2>2
  <1> QED
    BY <1>1, <1>2

LEMMA PopIs ==
    ASSUME NEW m, NEW g, g = PopFrom(m), NEW c, c = g.counts_next_free
    PROVE  FreeCountPop(m).c = c /\ FreeCountPop(m).m = AfterPop(g, c)
  BY DEF FreeCountPop, PopFrom, AfterPop

AddTo(g, k, l, n, y, w) ==
    LET c == g.counts_next_free IN
    Built(LinkedCounts(g, k, c, n, y, w), g.counts_size, g.counts[c].next, g.counts_free - 1,
          g.counts_used + 1, Ends(g.counts_lo, l, y, c), Ends(g.counts_hi, l, w, c), ValWith(g, k, c), g.impossible)

(* A new count for k, whatever way it is linked in. *)
NewFor(m, K, own, rk, k, l, n, r) ==
    \E own2, F2, c :
    /\ Shape(r, K \union {k}, own2, rk, F2)
    /\ DOMAIN own2 = DOMAIN own \union {c} /\ c \notin DOMAIN own /\ own2[c] = l
    /\ \A z \in DOMAIN own : own2[z] = own[z]
    /\ DOMAIN r.val = DOMAIN m.val \union {k} /\ r.val[k].count_to_use = c
    /\ \A j \in DOMAIN m.val \ {k} : r.val[j] = m.val[j]
    /\ r.counts[c].count = n /\ r.counts[c].hkv1 = k
    /\ \A z \in DOMAIN own : r.counts[z].count = m.counts[z].count /\ r.counts[z].hkv1 = m.counts[z].hkv1
NewAt(m, K, own, k, l, n, y, w) ==
    k \in Counter /\ k \notin K /\ l \in List /\ n \in Nat /\ Between(On(own, l), CountOf(m), y, n, w)

(* A new count for a key keeps the shape. *)
LEMMA NewShape ==
    ASSUME NEW m, NEW K, NEW own, NEW rk, NEW F, Shape(m, K, own, rk, F),
           NEW k, NEW l, NEW n, NEW y, NEW w, NewAt(m, K, own, k, l, n, y, w),
           NEW r, r = AddTo(PopFrom(m), k, l, n, y, w)
    PROVE  NewFor(m, K, own, rk, k, l, n, r)
  <1>h. k \in Counter /\ k \notin K /\ l \in List /\ n \in Nat /\ Between(On(own, l), CountOf(m), y, n, w)
    BY DEF NewAt
  <1> USE <1>h
  <1>g. PICK g : g = PopFrom(m)
    OBVIOUS
  <1>1. /\ \E F2 : Shape(g, K, own, rk, F2)
        /\ g.counts_free > 0
        /\ g.val = m.val /\ g.counts_lo = m.counts_lo /\ g.counts_hi = m.counts_hi
        /\ DOMAIN m.counts \subseteq DOMAIN g.counts
        /\ \A z \in DOMAIN m.counts : g.counts[z] = m.counts[z]
    BY <1>g, PopShape
  <1>2. PICK G : Shape(g, K, own, rk, G)
    BY <1>1
  <1>c. PICK c : c = g.counts_next_free
    OBVIOUS
  <1>3. c \in DOMAIN g.counts /\ c \notin DOMAIN own /\ IsInst(g) /\ NONE \notin DOMAIN g.counts
    <2>1. IsInst(g) /\ FreeIs(g, G) /\ DOMAIN own = DOMAIN g.counts \ Range(G) /\ NONE \notin DOMAIN g.counts
      <3>1. IsInst(g) /\ FreeIs(g, G) /\ NONE \notin DOMAIN g.counts
        BY <1>2, ShapeParts
      <3>2. own \in [DOMAIN g.counts \ Range(G) -> List]
        BY <1>2 DEF Shape
      <3> QED
        BY <3>1, <3>2
    <2>2. g.counts_free \in Nat
      BY <2>1, InstTyped
    <2>3. 1 \in 1 .. g.counts_free /\ c = G[1] /\ G \in [1 .. g.counts_free -> DOMAIN g.counts]
      BY <2>1, <2>2, <1>1, <1>c DEF FreeIs
    <2>4. c \in Range(G)
      BY <2>3 DEF Range
    <2> QED
      BY <2>1, <2>3, <2>4
  <1>o. DOMAIN own \subseteq DOMAIN m.counts /\ DOMAIN own \subseteq DOMAIN g.counts
    <2>1. own \in [DOMAIN m.counts \ Range(F) -> List]
      BY DEF Shape
    <2> QED
      BY <2>1, <1>1
  <1>4. Between(On(own, l), CountOf(g), y, n, w)
    <2>1. \A z \in On(own, l) : CountOf(g)[z] = CountOf(m)[z]
      BY <1>1, <1>o DEF On, CountOf
    <2> QED
      BY <2>1 DEF Between
  <1>5. /\ (y = NONE \/ y \in On(own, l)) /\ (w = NONE \/ w \in On(own, l))
    BY DEF Between
  <1>6. /\ y \in Nat /\ w \in Nat /\ y # c /\ w # c
        /\ y # NONE => y \in DOMAIN g.counts
        /\ w # NONE => w \in DOMAIN g.counts
    <2>1. (y = NONE \/ y \in DOMAIN own) /\ (w = NONE \/ w \in DOMAIN own)
      BY <1>5 DEF On
    <2>2. DOMAIN g.counts = 1 .. g.counts_size - 1 /\ g.counts_size \in Nat
      BY <1>3, InstTyped
    <2>3. DOMAIN g.counts \subseteq Nat /\ NONE \in Nat
      BY <2>2 DEF NONE
    <2> QED
      BY <2>1, <2>3, <1>3, <1>o
  <1>7. r = Built(LinkedCounts(g, k, c, n, y, w), g.counts_size, g.counts[c].next, g.counts_free - 1,
                  g.counts_used + 1, Ends(g.counts_lo, l, y, c), Ends(g.counts_hi, l, w, c),
                  ValWith(g, k, c), g.impossible)
    BY <1>g, <1>c DEF AddTo
  <1>8. Added(g, r, k, c, l, n, y, w)
    BY <1>1, <1>3, <1>6, <1>7, AddedBuilt
  <1>9. PICK own2, F2 :
           /\ Shape(r, K \union {k}, own2, rk, F2)
           /\ DOMAIN own2 = DOMAIN own \union {c} /\ c \notin DOMAIN own /\ own2[c] = l
           /\ \A z \in DOMAIN own : own2[z] = own[z]
    <2>1. CanAdd(g, K, own, rk, G, r, k, c, l, n, y, w)
      BY <1>1, <1>2, <1>4, <1>8, <1>c DEF CanAdd
    <2>2. OwnsMore(r, K, k, own, rk, c, l)
      BY <2>1, AddShape
    <2> QED
      BY <2>2 DEF OwnsMore
  <1>10. /\ DOMAIN r.val = DOMAIN m.val \union {k} /\ r.val[k].count_to_use = c
         /\ \A j \in DOMAIN m.val \ {k} : r.val[j] = m.val[j]
         /\ r.counts[c].count = n /\ r.counts[c].hkv1 = k
    BY <1>1, <1>8 DEF Added
  <1>11. \A z \in DOMAIN own : r.counts[z].count = m.counts[z].count /\ r.counts[z].hkv1 = m.counts[z].hkv1
    BY <1>1, <1>3, <1>8, <1>o DEF Added
  <1> QED
    BY <1>9, <1>10, <1>11 DEF NewFor

(* The two ways IncNew makes a count. *)
LEMMA IncNewIs ==
    ASSUME NEW K, NEW own, NEW rk, NEW F, Shape(inst, K, own, rk, F), NEW k \in Counter, NEW l \in List,
           NEW lo, lo = inst.counts_lo[l], lo = NONE => inst.counts_hi[l] = NONE,
           lo = NONE \/ (lo \in DOMAIN own /\ inst.counts[lo].count > 1)
    PROVE  IncNew(k, l) = AddTo(PopFrom(inst), k, l, 1, NONE, lo)
  <1>g. PICK g : g = PopFrom(inst)
    OBVIOUS
  <1>c. PICK c : c = g.counts_next_free
    OBVIOUS
  <1>1. IsInst(g) /\ c \in DOMAIN g.counts
    <2>1. PICK G : Shape(g, K, own, rk, G)
      BY <1>g, PopShape
    <2>2. IsInst(g) /\ FreeIs(g, G)
      BY <2>1, ShapeParts
    <2>3. g.counts_free \in Nat /\ g.counts_free > 0
      BY <2>2, <1>g, InstTyped, PopShape
    <2>4. 1 \in 1 .. g.counts_free /\ c = G[1] /\ G \in [1 .. g.counts_free -> DOMAIN g.counts]
      BY <2>2, <2>3, <1>c DEF FreeIs
    <2> QED
      BY <2>2, <2>4
  <1>2. FreeCountPop(inst).c = c /\ FreeCountPop(inst).m = AfterPop(g, c)
    BY <1>g, <1>c, PopIs
  <1>3. PICK q : q = Placed(g, k, c, NodeOf(1, lo, NONE, k))
    OBVIOUS
  <1>4. NewCount(k, 1, NONE, lo) = q
    BY <1>2, <1>3 DEF NewCount, Placed, NodeOf
  <1>5. PICK cs : cs = [g.counts EXCEPT ![c] = NodeOf(1, lo, NONE, k)]
    OBVIOUS
  <1>6. PICK V : V = ValWith(g, k, c)
    OBVIOUS
  <1>7. q = Built(cs, g.counts_size, g.counts[c].next, g.counts_free - 1,
                  g.counts_used + 1, g.counts_lo, g.counts_hi, V, g.impossible)
    BY <1>1, <1>3, <1>5, <1>6, PlacedIs
  <1>8. CASE lo = NONE
    <2>1. IncNew(k, l) = [q EXCEPT !.counts_lo[l] = c, !.counts_hi[l] = c]
      BY <1>2, <1>4, <1>8 DEF IncNew
    <2>2. IncNew(k, l) = Built(cs, g.counts_size, g.counts[c].next, g.counts_free - 1,
                  g.counts_used + 1, [g.counts_lo EXCEPT ![l] = c], [g.counts_hi EXCEPT ![l] = c], V, g.impossible)
      BY <2>1, <1>7 DEF Built
    <2>3. LinkedCounts(g, k, c, 1, NONE, lo) = cs
      BY <1>5, <1>8 DEF LinkedCounts, WithNext, WithLast
    <2>4. Ends(g.counts_lo, l, NONE, c) = [g.counts_lo EXCEPT ![l] = c] /\ Ends(g.counts_hi, l, lo, c) = [g.counts_hi EXCEPT ![l] = c]
      BY <1>8 DEF Ends
    <2> QED
      BY <2>2, <2>3, <2>4, <1>6, <1>c, <1>g DEF AddTo
  <1>9. CASE lo # NONE
    <2>1. IncNew(k, l) = [q EXCEPT !.counts_lo[l] = c, !.counts[lo].last = c]
      BY <1>2, <1>4, <1>9 DEF IncNew
    <2>2. IncNew(k, l) = Built([cs EXCEPT ![lo].last = c], g.counts_size, g.counts[c].next, g.counts_free - 1,
                  g.counts_used + 1, [g.counts_lo EXCEPT ![l] = c], g.counts_hi, V, g.impossible)
      BY <2>1, <1>7 DEF Built
    <2>3. LinkedCounts(g, k, c, 1, NONE, lo) = [cs EXCEPT ![lo].last = c]
      BY <1>5, <1>9 DEF LinkedCounts, WithNext, WithLast
    <2>4. Ends(g.counts_lo, l, NONE, c) = [g.counts_lo EXCEPT ![l] = c] /\ Ends(g.counts_hi, l, lo, c) = g.counts_hi
      BY <1>9 DEF Ends
    <2> QED
      BY <2>2, <2>3, <2>4, <1>6, <1>c, <1>g DEF AddTo
  <1> QED
    BY <1>8, <1>9

(* The two ways InsertAbove makes one. *)
LEMMA InsertAboveIs ==
    ASSUME NEW m, NEW K, NEW own, NEW rk, NEW F, Shape(m, K, own, rk, F), NEW k \in Counter, NEW l \in List,
           NEW y \in DOMAIN own, NEW w, w = m.counts[y].next, NEW n
    PROVE  InsertAbove(m, k, l, y, w, n) = AddTo(PopFrom(m), k, l, n, y, w)
  <1>g. PICK g : g = PopFrom(m)
    OBVIOUS
  <1>c. PICK c : c = g.counts_next_free
    OBVIOUS
  <1>o. y \in DOMAIN m.counts /\ y # NONE
    <2>1. own \in [DOMAIN m.counts \ Range(F) -> List]
      BY DEF Shape
    <2>2. NONE \notin DOMAIN m.counts
      BY ShapeParts
    <2> QED
      BY <2>1, <2>2
  <1>1. IsInst(g) /\ c \in DOMAIN g.counts /\ c # y /\ y \in DOMAIN g.counts /\ g.counts[y] = m.counts[y]
    <2>1. PICK G : Shape(g, K, own, rk, G)
      BY <1>g, PopShape
    <2>2. IsInst(g) /\ FreeIs(g, G)
      BY <2>1, ShapeParts
    <2>3. g.counts_free \in Nat /\ g.counts_free > 0 /\ y \in DOMAIN g.counts /\ g.counts[y] = m.counts[y]
      BY <2>2, <1>g, <1>o, InstTyped, PopShape
    <2>4. 1 \in 1 .. g.counts_free /\ c = G[1] /\ G \in [1 .. g.counts_free -> DOMAIN g.counts]
      BY <2>2, <2>3, <1>c DEF FreeIs
    <2>5. c \in Range(G)
      BY <2>4 DEF Range
    <2>6. own \in [DOMAIN g.counts \ Range(G) -> List]
      BY <2>1 DEF Shape
    <2> QED
      BY <2>2, <2>3, <2>4, <2>5, <2>6
  <1>2. FreeCountPop(m).c = c /\ FreeCountPop(m).m = AfterPop(g, c)
    BY <1>g, <1>c, PopIs
  <1>p. AfterPop(g, c).counts = g.counts
    BY <1>1 DEF AfterPop, IsInst
  <1>3. PICK q : q = Placed(g, k, c, NodeOf(n, w, y, k))
    OBVIOUS
  <1>4. PICK cs : cs = [g.counts EXCEPT ![c] = NodeOf(n, w, y, k)]
    OBVIOUS
  <1>5. PICK V : V = ValWith(g, k, c)
    OBVIOUS
  <1>6. q = Built(cs, g.counts_size, g.counts[c].next, g.counts_free - 1,
                  g.counts_used + 1, g.counts_lo, g.counts_hi, V, g.impossible)
    BY <1>1, <1>3, <1>4, <1>5, PlacedIs
  <1>7. (IF w = NONE THEN NONE ELSE AfterPop(g, c).counts[y].next) = w
    BY <1>1, <1>p
  <1>8. PICK s : s = [q EXCEPT !.counts[y].next = c]
    OBVIOUS
  <1>9. s = Built([cs EXCEPT ![y].next = c], g.counts_size, g.counts[c].next, g.counts_free - 1,
                  g.counts_used + 1, g.counts_lo, g.counts_hi, V, g.impossible)
    BY <1>6, <1>8 DEF Built
  <1>10. InsertAbove(m, k, l, y, w, n) = IF w = NONE THEN [s EXCEPT !.counts_hi[l] = c] ELSE [s EXCEPT !.counts[w].last = c]
    <2>1. [count |-> n, last |-> y, hkv1 |-> k, next |-> w] = NodeOf(n, w, y, k)
      BY DEF NodeOf
    <2>2. [SetVal(AfterPop(g, c), k, c, NONE) EXCEPT
             !.counts[c] = [count |-> n, last |-> y, hkv1 |-> k,
                            next |-> IF w = NONE THEN NONE ELSE AfterPop(g, c).counts[y].next]] = q
      BY <2>1, <1>3, <1>7 DEF Placed
    <2>3. InsertAbove(m, k, l, y, w, n) =
             LET t == [SetVal(AfterPop(g, c), k, c, NONE) EXCEPT
                         !.counts[c] = [count |-> n, last |-> y, hkv1 |-> k,
                                        next |-> IF w = NONE THEN NONE ELSE AfterPop(g, c).counts[y].next]]
                 u == [t EXCEPT !.counts[y].next = c]
             IN  IF w = NONE THEN [u EXCEPT !.counts_hi[l] = c] ELSE [u EXCEPT !.counts[w].last = c]
      BY <1>2 DEF InsertAbove
    <2> QED
      BY <2>2, <2>3, <1>8
  <1>11. Ends(g.counts_lo, l, y, c) = g.counts_lo
    BY <1>o DEF Ends
  <1>12. CASE w = NONE
    <2>1. InsertAbove(m, k, l, y, w, n) =
             Built([cs EXCEPT ![y].next = c], g.counts_size, g.counts[c].next, g.counts_free - 1,
                   g.counts_used + 1, g.counts_lo, [g.counts_hi EXCEPT ![l] = c], V, g.impossible)
      BY <1>9, <1>10, <1>12 DEF Built
    <2>2. LinkedCounts(g, k, c, n, y, w) = [cs EXCEPT ![y].next = c]
      BY <1>4, <1>12, <1>o DEF LinkedCounts, WithNext, WithLast
    <2>3. Ends(g.counts_hi, l, w, c) = [g.counts_hi EXCEPT ![l] = c]
      BY <1>12 DEF Ends
    <2> QED
      BY <2>1, <2>2, <2>3, <1>5, <1>11, <1>c, <1>g DEF AddTo
  <1>13. CASE w # NONE
    <2>1. InsertAbove(m, k, l, y, w, n) =
             Built([[cs EXCEPT ![y].next = c] EXCEPT ![w].last = c], g.counts_size, g.counts[c].next,
                   g.counts_free - 1, g.counts_used + 1, g.counts_lo, g.counts_hi, V, g.impossible)
      BY <1>9, <1>10, <1>13 DEF Built
    <2>2. LinkedCounts(g, k, c, n, y, w) = [[cs EXCEPT ![y].next = c] EXCEPT ![w].last = c]
      BY <1>4, <1>13, <1>o DEF LinkedCounts, WithNext, WithLast
    <2>3. Ends(g.counts_hi, l, w, c) = g.counts_hi
      BY <1>13 DEF Ends
    <2> QED
      BY <2>1, <2>2, <2>3, <1>5, <1>11, <1>c, <1>g DEF AddTo
  <1> QED
    BY <1>12, <1>13
-----------------------------------------------------------------------------
(* Every key has the count T says, in the list L says, and every count that is in
   use has a key. *)
HasKeys(m, own)        == \A c \in DOMAIN own : m.counts[c].hkv1 # NONE
Right(m, K, own, T, L) == \A j \in K : /\ own[m.val[j].count_to_use] = L[j]
                                       /\ m.counts[m.val[j].count_to_use].count = T[j]
Good(m, T, L) ==
    \E own, rk, F : /\ Shape(m, DOMAIN m.val, own, rk, F) /\ HasKeys(m, own)
                    /\ Right(m, DOMAIN m.val, own, T, L)

(* All of that but for key k, which is being moved to l and n. *)
GoodBut(m, k, own, rk, F, T, L) ==
    /\ Shape(m, DOMAIN m.val \ {k}, own, rk, F) /\ HasKeys(m, own)
    /\ Right(m, DOMAIN m.val \ {k}, own, T, L)
MovedTo(K, k, n, l, T, L, T2, L2) ==
    k \in Counter /\ T2[k] = n /\ L2[k] = l /\ \A j \in K \ {k} : T2[j] = T[j] /\ L2[j] = L[j]

(* A key that joins a count keeps the counters right. *)
LEMMA JoinGood ==
    ASSUME NEW m, NEW k, NEW own, NEW rk, NEW F, NEW T, NEW L, GoodBut(m, k, own, rk, F, T, L),
           NEW c \in DOMAIN own, NEW T2, NEW L2,
           MovedTo(DOMAIN m.val, k, m.counts[c].count, own[c], T, L, T2, L2),
           NEW r, r = Join(m, k, c)
    PROVE  Good(r, T2, L2) /\ DOMAIN r.val = DOMAIN m.val \union {k}
  <1>0. /\ k \in Counter /\ T2[k] = m.counts[c].count /\ L2[k] = own[c]
        /\ \A j \in DOMAIN m.val \ {k} : T2[j] = T[j] /\ L2[j] = L[j]
    BY DEF MovedTo
  <1>k. PICK K : K = DOMAIN m.val \ {k}
    OBVIOUS
  <1>1. Shape(m, K, own, rk, F) /\ HasKeys(m, own) /\ Right(m, K, own, T, L) /\ k \notin K
    BY <1>k DEF GoodBut
  <1>2. PICK rk2 :
           /\ Shape(r, K \union {k}, own, rk2, F)
           /\ DOMAIN r.val = DOMAIN m.val \union {k} /\ DOMAIN r.counts = DOMAIN m.counts
           /\ r.val[k].count_to_use = c
           /\ \A j \in DOMAIN m.val \ {k} : r.val[j].count_to_use = m.val[j].count_to_use
           /\ \A z \in DOMAIN m.counts :
                 /\ r.counts[z].count = m.counts[z].count
                 /\ r.counts[z].hkv1 = IF z = c THEN k ELSE m.counts[z].hkv1
    <2>1. Joined(m, K, own, F, k, c, r)
      BY <1>0, <1>1, JoinShape
    <2> QED
      BY <2>1 DEF Joined
  <1>3. K \union {k} = DOMAIN r.val
    BY <1>2, <1>k
  <1>4. DOMAIN own \subseteq DOMAIN m.counts
    <2>1. own \in [DOMAIN m.counts \ Range(F) -> List]
      BY <1>1 DEF Shape
    <2> QED
      BY <2>1
  <1>5. HasKeys(r, own)
    BY <1>0, <1>1, <1>2, <1>4, NoneIsNoKey DEF HasKeys
  <1>6. Right(r, DOMAIN r.val, own, T2, L2)
    <2>1. ASSUME NEW j \in DOMAIN r.val
          PROVE  own[r.val[j].count_to_use] = L2[j] /\ r.counts[r.val[j].count_to_use].count = T2[j]
      <3>1. CASE j = k
        BY <3>1, <1>0, <1>2, <1>4
      <3>2. CASE j # k
        <4>1. j \in K /\ j \in DOMAIN m.val \ {k}
          BY <3>2, <1>2, <1>k
        <4>2. PICK d : d = m.val[j].count_to_use
          OBVIOUS
        <4>3. d \in DOMAIN own /\ d \in DOMAIN m.counts /\ r.val[j].count_to_use = d
          BY <4>1, <4>2, <1>1, <1>2, <1>4, ShapeParts
        <4>4. own[d] = L[j] /\ m.counts[d].count = T[j]
          BY <4>1, <4>2, <1>1 DEF Right
        <4> QED
          BY <4>1, <4>3, <4>4, <1>0, <1>2
      <3> QED
        BY <3>1, <3>2
    <2> QED
      BY <2>1 DEF Right
  <1> QED
    BY <1>2, <1>3, <1>5, <1>6 DEF Good

(* So does a key that gets a new count. *)
LEMMA NewGood ==
    ASSUME NEW m, NEW k, NEW own, NEW rk, NEW F, NEW T, NEW L, GoodBut(m, k, own, rk, F, T, L),
           NEW l \in List, NEW n \in Nat, NEW y, NEW w, Between(On(own, l), CountOf(m), y, n, w),
           NEW T2, NEW L2, MovedTo(DOMAIN m.val, k, n, l, T, L, T2, L2),
           NEW r, r = AddTo(PopFrom(m), k, l, n, y, w)
    PROVE  Good(r, T2, L2) /\ DOMAIN r.val = DOMAIN m.val \union {k}
  <1>0. /\ k \in Counter /\ T2[k] = n /\ L2[k] = l
        /\ \A j \in DOMAIN m.val \ {k} : T2[j] = T[j] /\ L2[j] = L[j]
    BY DEF MovedTo
  <1>k. PICK K : K = DOMAIN m.val \ {k}
    OBVIOUS
  <1>1. Shape(m, K, own, rk, F) /\ HasKeys(m, own) /\ Right(m, K, own, T, L) /\ k \notin K
    BY <1>k DEF GoodBut
  <1>2. PICK own2, F2, c :
           /\ Shape(r, K \union {k}, own2, rk, F2)
           /\ DOMAIN own2 = DOMAIN own \union {c} /\ c \notin DOMAIN own /\ own2[c] = l
           /\ \A z \in DOMAIN own : own2[z] = own[z]
           /\ DOMAIN r.val = DOMAIN m.val \union {k} /\ r.val[k].count_to_use = c
           /\ \A j \in DOMAIN m.val \ {k} : r.val[j] = m.val[j]
           /\ r.counts[c].count = n /\ r.counts[c].hkv1 = k
           /\ \A z \in DOMAIN own : r.counts[z].count = m.counts[z].count /\ r.counts[z].hkv1 = m.counts[z].hkv1
    <2>1. NewAt(m, K, own, k, l, n, y, w)
      BY <1>0, <1>1 DEF NewAt
    <2>2. NewFor(m, K, own, rk, k, l, n, r)
      BY <2>1, <1>1, NewShape
    <2> QED
      BY <2>2 DEF NewFor
  <1>3. K \union {k} = DOMAIN r.val
    BY <1>2, <1>k
  <1>5. HasKeys(r, own2)
    BY <1>0, <1>1, <1>2, NoneIsNoKey DEF HasKeys
  <1>6. Right(r, DOMAIN r.val, own2, T2, L2)
    <2>1. ASSUME NEW j \in DOMAIN r.val
          PROVE  own2[r.val[j].count_to_use] = L2[j] /\ r.counts[r.val[j].count_to_use].count = T2[j]
      <3>1. CASE j = k
        BY <3>1, <1>0, <1>2
      <3>2. CASE j # k
        <4>1. j \in K /\ j \in DOMAIN m.val \ {k}
          BY <3>2, <1>2, <1>k
        <4>2. PICK d : d = m.val[j].count_to_use
          OBVIOUS
        <4>3. d \in DOMAIN own /\ r.val[j].count_to_use = d
          BY <4>1, <4>2, <1>1, <1>2, ShapeParts
        <4>4. own[d] = L[j] /\ m.counts[d].count = T[j]
          BY <4>1, <4>2, <1>1 DEF Right
        <4> QED
          BY <4>1, <4>3, <4>4, <1>0, <1>2
      <3> QED
        BY <3>1, <3>2
    <2> QED
      BY <2>1 DEF Right
  <1>7. Shape(r, DOMAIN r.val, own2, rk, F2)
    BY <1>2, <1>3
  <1>8. Good(r, T2, L2)
    BY <1>5, <1>6, <1>7 DEF Good
  <1> QED
    BY <1>2, <1>8

(* A count that is in use has a key. *)
LEMMA KeyOfCount ==
    ASSUME NEW m, NEW own, NEW rk, NEW F, NEW K, Shape(m, K, own, rk, F), HasKeys(m, own), NEW c \in DOMAIN own
    PROVE  m.counts[c].hkv1 \in K /\ m.val[m.counts[c].hkv1].count_to_use = c
  <1>1. Linked(Chain(m, K, c), rk, KeyNext(m), KeyLast(m), m.counts[c].hkv1)
    BY DEF Shape, ChainsOf
  <1>2. m.counts[c].hkv1 \in Chain(m, K, c)
    BY <1>1 DEF Linked, Lowest, HasKeys
  <1> QED
    BY <1>2 DEF Chain

(* The first increment of a key. *)
LEMMA IncNewGood ==
    ASSUME NEW T, NEW L, Good(inst, T, L), NEW k \in Counter, k \notin DOMAIN inst.val, NEW l \in List,
           \A j \in DOMAIN inst.val : T[j] \in Nat /\ T[j] > 0,
           NEW T2, NEW L2, MovedTo(DOMAIN inst.val, k, 1, l, T, L, T2, L2), NEW r, r = IncNew(k, l)
    PROVE  Good(r, T2, L2) /\ DOMAIN r.val = DOMAIN inst.val \union {k}
  <1>1. PICK own, rk, F : /\ Shape(inst, DOMAIN inst.val, own, rk, F) /\ HasKeys(inst, own)
                          /\ Right(inst, DOMAIN inst.val, own, T, L)
    BY DEF Good
  <1>2. GoodBut(inst, k, own, rk, F, T, L)
    <2>1. DOMAIN inst.val \ {k} = DOMAIN inst.val
      OBVIOUS
    <2> QED
      BY <2>1, <1>1 DEF GoodBut
  <1>3. PICK lo : lo = inst.counts_lo[l]
    OBVIOUS
  <1>4. PICK U : U = On(own, l)
    OBVIOUS
  <1>5. /\ Linked(U, CountOf(inst), CountNext(inst), CountLast(inst), lo)
        /\ Highest(U, CountOf(inst), inst.counts_hi[l])
    BY <1>1, <1>3, <1>4 DEF Shape, ListsOf
  <1>6. /\ U \subseteq DOMAIN own /\ U \subseteq DOMAIN inst.counts /\ \A z \in U : own[z] = l
        /\ \A z \in U : CountOf(inst)[z] = inst.counts[z].count /\ CountOf(inst)[z] \in Int
    <2>1. own \in [DOMAIN inst.counts \ Range(F) -> List]
      BY <1>1 DEF Shape
    <2> QED
      BY <2>1, <1>4, <1>5 DEF On, CountOf, Linked
  <1>7. CASE lo = NONE
    <2>1. U = {}
      BY <1>5, <1>7 DEF Linked, Lowest
    <2>2. Between(On(own, l), CountOf(inst), NONE, 1, lo)
      BY <2>1, <1>4, <1>7 DEF Between
    <2>3. inst.counts_hi[l] = NONE
      BY <2>1, <1>5 DEF Highest
    <2>4. r = AddTo(PopFrom(inst), k, l, 1, NONE, lo)
      BY <2>3, <1>1, <1>3, <1>7, IncNewIs
    <2> QED
      BY <2>2, <2>4, <1>2, NewGood
  <1>8. CASE lo # NONE
    <2>1. lo \in U /\ \A z \in U : CountOf(inst)[lo] <= CountOf(inst)[z]
      BY <1>5, <1>8 DEF Linked, Lowest
    <2>2. PICK n \in Int : n = inst.counts[lo].count
      BY <2>1, <1>6
    <2>3. \A z \in U : n <= CountOf(inst)[z]
      BY <2>1, <2>2, <1>6
    <2>4. CASE n > 1
      <3>1. \A z \in U : CountOf(inst)[z] > 1 /\ CountOf(inst)[z] # 1 /\ ~ (CountOf(inst)[z] < 1)
        BY <2>3, <2>4, <1>6
      <3>2. Between(On(own, l), CountOf(inst), NONE, 1, lo)
        <4>1. ~ \E z \in U : CountOf(inst)[z] < 1
          BY <3>1
        <4>2. \A z \in U : CountOf(inst)[z] >= CountOf(inst)[lo]
          BY <2>1, <1>6
        <4> QED
          BY <2>1, <3>1, <4>1, <4>2, <1>4 DEF Between
      <3>3. r = AddTo(PopFrom(inst), k, l, 1, NONE, lo)
        BY <2>1, <2>2, <2>4, <1>1, <1>3, <1>6, <1>8, IncNewIs
      <3> QED
        BY <3>2, <3>3, <1>2, NewGood
    <2>5. CASE ~ (n > 1)
      <3>1. r = Join(inst, k, lo)
        BY <2>2, <2>5, <1>3, <1>8 DEF IncNew
      <3>2. lo \in DOMAIN own /\ own[lo] = l
        BY <2>1, <1>6
      <3>3. n = 1
        <4>1. PICK j \in DOMAIN inst.val : inst.val[j].count_to_use = lo
          BY <3>2, <1>1, KeyOfCount
        <4>2. n = T[j]
          BY <4>1, <2>2, <1>1 DEF Right
        <4> QED
          BY <4>2, <2>5
      <3>4. MovedTo(DOMAIN inst.val, k, inst.counts[lo].count, own[lo], T, L, T2, L2)
        BY <2>2, <3>2, <3>3
      <3> QED
        BY <3>1, <3>2, <3>4, <1>2, JoinGood
    <2> QED
      BY <2>4, <2>5
  <1> QED
    BY <1>7, <1>8

(* One count more. *)
CountSetIn(cs, x, v, d) ==
    /\ Nodes(d) /\ DOMAIN d = DOMAIN cs
    /\ \A z \in DOMAIN cs : /\ d[z].next = cs[z].next /\ d[z].hkv1 = cs[z].hkv1 /\ d[z].last = cs[z].last
                            /\ d[z].count = IF z = x THEN v ELSE cs[z].count

LEMMA CountSet ==
    ASSUME NEW cs, Nodes(cs), NEW x \in DOMAIN cs, NEW v \in Nat
    PROVE  CountSetIn(cs, x, v, [cs EXCEPT ![x].count = v])
  BY DEF Nodes, Node, CountSetIn

(* A key alone with its count, and room above: Climbs. *)
RoomAbove(m, c) == m.counts[c].next # NONE => m.counts[m.counts[c].next].count > m.counts[c].count + 1
RaisedBy1(m, c, r) == r.val = m.val /\ CountSetIn(m.counts, c, m.counts[c].count + 1, r.counts)

(* A count that is raised short of the next stays where it is. *)
LEMMA RaiseShape ==
    ASSUME NEW m, NEW K, NEW own, NEW rk, NEW F, Shape(m, K, own, rk, F), NEW c \in DOMAIN own,
           RoomAbove(m, c), NEW r, r = [m EXCEPT !.counts[c].count = m.counts[c].count + 1]
    PROVE  Shape(r, K, own, rk, F) /\ RaisedBy1(m, c, r)
  <1>0. /\ IsInst(m) /\ K \subseteq DOMAIN m.val /\ K \subseteq Counter
        /\ m.impossible = FALSE /\ FreeIs(m, F)
        /\ own \in [DOMAIN m.counts \ Range(F) -> List] /\ DOMAIN own = DOMAIN m.counts \ Range(F)
        /\ m.counts_used = Cardinality(DOMAIN own)
        /\ \A j \in K : m.val[j].count_to_use \in DOMAIN own
        /\ ListsOf(m, own) /\ ChainsOf(m, K, own, rk)
    <2>1. IsInst(m) /\ K \subseteq DOMAIN m.val /\ K \subseteq Counter /\ m.impossible = FALSE /\ FreeIs(m, F)
      BY ShapeParts
    <2>2. own \in [DOMAIN m.counts \ Range(F) -> List]
      BY DEF Shape
    <2>3. m.counts_used = Cardinality(DOMAIN own)
      BY ShapeParts
    <2>4. \A j \in K : m.val[j].count_to_use \in DOMAIN own
      BY ShapeParts
    <2>5. ListsOf(m, own) /\ ChainsOf(m, K, own, rk)
      BY ShapeParts
    <2> QED
      BY <2>1, <2>2, <2>3, <2>4, <2>5
  <1>t. /\ m.counts \in [1 .. m.counts_size - 1 -> Node] /\ m.counts_size \in Nat
        /\ DOMAIN m.counts = 1 .. m.counts_size - 1
        /\ m.counts_next_free \in Nat /\ m.counts_free \in Nat /\ m.counts_used \in Nat
        /\ m.counts_lo \in [List -> Nat] /\ m.counts_hi \in [List -> Nat]
        /\ DOMAIN m.val \subseteq Counter /\ m.val \in [DOMAIN m.val -> Val] /\ m.impossible \in BOOLEAN
    BY <1>0, InstTyped
  <1>1. c \in DOMAIN m.counts
    BY <1>0
  <1>n. PICK n \in Nat : n = m.counts[c].count
    <2>1. m.counts[c] \in Node
      BY <1>1, <1>t
    <2> QED
      BY <2>1 DEF Node
  <1>2. PICK cs : cs = [m.counts EXCEPT ![c].count = n + 1]
    OBVIOUS
  <1>3. CountSetIn(m.counts, c, n + 1, cs)
    <2>1. Nodes(m.counts) /\ n + 1 \in Nat
      BY <1>t DEF Nodes
    <2> QED
      BY <2>1, <1>1, <1>2, CountSet
  <1>4. r = [m EXCEPT !.counts = cs]
    BY <1>0, <1>2, <1>n DEF IsInst
  <1>5. /\ r.counts = cs /\ r.val = m.val /\ r.counts_size = m.counts_size
        /\ r.counts_next_free = m.counts_next_free /\ r.counts_free = m.counts_free
        /\ r.counts_used = m.counts_used /\ r.counts_lo = m.counts_lo /\ r.counts_hi = m.counts_hi
        /\ r.impossible = m.impossible /\ IsInst(r)
    <2>1. DOMAIN cs = DOMAIN m.counts /\ Nodes(cs) /\ DOMAIN m.counts \subseteq Nat
      BY <1>3, <1>t DEF CountSetIn
    <2>2. r = Built(cs, m.counts_size, m.counts_next_free, m.counts_free, m.counts_used,
                    m.counts_lo, m.counts_hi, m.val, m.impossible)
      BY <1>0, <1>4 DEF IsInst, Built
    <2>3. /\ r.counts = cs /\ r.val = m.val /\ r.counts_size = m.counts_size
          /\ r.counts_next_free = m.counts_next_free /\ r.counts_free = m.counts_free
          /\ r.counts_used = m.counts_used /\ r.counts_lo = m.counts_lo /\ r.counts_hi = m.counts_hi
          /\ r.impossible = m.impossible
      BY <2>2 DEF Built
    <2>4. r.counts \in [1 .. r.counts_size - 1 -> Node]
      BY <2>1, <2>3, <1>t DEF Nodes
    <2>5. IsInst(r)
      BY <2>2, <2>3, <2>4, <1>t, BuiltIs
    <2> QED
      BY <2>3, <2>5
  <1>6. /\ DOMAIN r.counts = DOMAIN m.counts
        /\ \A z \in DOMAIN m.counts :
              /\ r.counts[z].next = m.counts[z].next /\ r.counts[z].hkv1 = m.counts[z].hkv1
              /\ r.counts[z].last = m.counts[z].last
              /\ r.counts[z].count = IF z = c THEN n + 1 ELSE m.counts[z].count
    BY <1>3, <1>5 DEF CountSetIn
  <1>7. FreeIs(r, F)
    <2>1. F \in [1 .. m.counts_free -> DOMAIN m.counts]
      BY <1>0 DEF FreeIs
    <2>2. \A i \in 1 .. m.counts_free - 1 : r.counts[F[i]].next = m.counts[F[i]].next
      BY <2>1, <1>6, <1>t
    <2> QED
      BY <2>2, <1>0, <1>5, <1>6 DEF FreeIs
  <1>8. ChainsOf(r, K, own, rk)
    <2>1. KeyNext(r) = KeyNext(m) /\ KeyLast(r) = KeyLast(m)
      BY <1>5 DEF KeyNext, KeyLast
    <2>2. ASSUME NEW z \in DOMAIN own PROVE Linked(Chain(r, K, z), rk, KeyNext(r), KeyLast(r), r.counts[z].hkv1)
      <3>1. Chain(r, K, z) = Chain(m, K, z) /\ r.counts[z].hkv1 = m.counts[z].hkv1
        BY <1>0, <1>5, <1>6 DEF Chain
      <3>2. Linked(Chain(m, K, z), rk, KeyNext(m), KeyLast(m), m.counts[z].hkv1)
        BY <1>0 DEF ChainsOf
      <3> QED
        BY <2>1, <3>1, <3>2
    <2> QED
      BY <2>2 DEF ChainsOf
  <1>9. ASSUME NEW i \in List
        PROVE  /\ Linked(On(own, i), CountOf(r), CountNext(r), CountLast(r), r.counts_lo[i])
               /\ Highest(On(own, i), CountOf(r), r.counts_hi[i])
    <2>1. PICK U : U = On(own, i)
      OBVIOUS
    <2>2. /\ Linked(U, CountOf(m), CountNext(m), CountLast(m), r.counts_lo[i])
          /\ Highest(U, CountOf(m), r.counts_hi[i])
      BY <2>1, <1>0, <1>5 DEF ListsOf
    <2>3. U \subseteq DOMAIN own /\ U \subseteq DOMAIN m.counts
      BY <2>1, <1>0 DEF On
    <2>4. \A z \in U : /\ CountOf(r)[z] = IF z = c THEN n + 1 ELSE CountOf(m)[z]
                       /\ CountNext(r)[z] = CountNext(m)[z] /\ CountLast(r)[z] = CountLast(m)[z]
      BY <2>3, <1>6 DEF CountOf, CountNext, CountLast
    <2>5. CASE c \in U
      <3>1. CountOf(m)[c] = n /\ CountNext(m)[c] = m.counts[c].next
        BY <1>1, <1>n DEF CountOf, CountNext
      <3>2. CountNext(m)[c] # NONE => CountOf(m)[CountNext(m)[c]] > CountOf(m)[c] + 1
        <4>1. SUFFICES ASSUME m.counts[c].next # NONE PROVE CountOf(m)[m.counts[c].next] > n + 1
          BY <3>1
        <4>2. m.counts[c].next \in DOMAIN m.counts
          BY <4>1, CountLinks
        <4>3. CountOf(m)[m.counts[c].next] = m.counts[m.counts[c].next].count
          BY <4>2 DEF CountOf
        <4> QED
          BY <4>1, <4>3, <1>n DEF RoomAbove
      <3>3. RaisedIn(U, CountOf(m), CountNext(m), CountLast(m), c, CountOf(r), CountNext(r), CountLast(r))
        BY <2>4, <2>5, <3>1, <3>2 DEF RaisedIn
      <3>4. Linked(U, CountOf(r), CountNext(r), CountLast(r), r.counts_lo[i])
        BY <2>2, <3>3, LinkedRaise
      <3>5. Highest(U, CountOf(r), r.counts_hi[i])
        <4>1. PICK h : h = r.counts_hi[i]
          OBVIOUS
        <4>2. h \in U /\ \A z \in U : CountOf(m)[z] <= CountOf(m)[h]
          BY <2>2, <2>5, <4>1 DEF Highest
        <4>3. \A z \in U : CountOf(m)[z] \in Int
          BY <2>2 DEF Linked
        <4>4. CASE h = c
          <5>1. \A z \in U : CountOf(r)[z] <= n + 1
            BY <2>4, <3>1, <4>2, <4>3, <4>4
          <5> QED
            BY <2>4, <4>1, <4>2, <4>4, <5>1 DEF Highest
        <4>5. CASE h # c
          <5>1. CountNext(m)[c] # NONE
            <6>1. CountOf(m)[h] # CountOf(m)[c]
              BY <2>2, <2>5, <4>2, <4>5 DEF Linked
            <6>2. CountOf(m)[h] > CountOf(m)[c]
              BY <2>5, <4>2, <4>3, <6>1
            <6> QED
              BY <2>2, <2>5, <4>2, <6>2 DEF Linked, IsNext
          <5>2. CountNext(m)[c] \in U /\ CountOf(m)[CountNext(m)[c]] > n + 1
            BY <2>2, <2>5, <3>1, <3>2, <5>1, LinkedBack
          <5>3. CountOf(m)[h] > n + 1
            BY <4>2, <4>3, <5>2
          <5>4. \A z \in U : CountOf(r)[z] <= CountOf(r)[h]
            BY <2>4, <4>2, <4>3, <4>5, <5>3
          <5> QED
            BY <4>1, <4>2, <5>4 DEF Highest
        <4> QED
          BY <4>4, <4>5
      <3> QED
        BY <2>1, <3>4, <3>5
    <2>6. CASE c \notin U
      <3>1. \A z \in U : CountOf(r)[z] = CountOf(m)[z]
        BY <2>4, <2>6
      <3>2. LeftIn(U, CountOf(m), CountNext(m), CountLast(m), CountOf(r), CountNext(r), CountLast(r))
        BY <2>4, <3>1 DEF LeftIn
      <3>3. Linked(U, CountOf(r), CountNext(r), CountLast(r), r.counts_lo[i])
        BY <2>2, <3>2, LinkedSame
      <3>4. Highest(U, CountOf(r), r.counts_hi[i])
        BY <2>2, <3>1 DEF Highest
      <3> QED
        BY <2>1, <3>3, <3>4
    <2> QED
      BY <2>5, <2>6
  <1>10. Shape(r, K, own, rk, F)
    <2>1. rk \in [Counter -> Int] /\ \E low \in Int : \A j \in Counter : rk[j] > low
      BY DEF Shape
    <2>2. K \subseteq DOMAIN r.val /\ r.counts_used = Cardinality(DOMAIN own) /\ r.impossible = FALSE
      BY <1>0, <1>5
    <2>3. ListsOf(r, own)
      BY <1>9 DEF ListsOf
    <2>4. own \in [DOMAIN r.counts \ Range(F) -> List] /\ \A j \in K : r.val[j].count_to_use \in DOMAIN own
      BY <1>0, <1>5, <1>6
    <2> QED
      BY <2>1, <2>2, <2>3, <2>4, <1>5, <1>7, <1>8 DEF Shape
  <1> QED
    BY <1>3, <1>5, <1>10, <1>n DEF RaisedBy1

(* Only k is in its chain. *)
LEMMA Alone ==
    ASSUME NEW m, NEW K, NEW own, NEW rk, NEW F, Shape(m, K, own, rk, F), NEW k \in K, NEW c,
           c = m.val[k].count_to_use, m.counts[c].hkv1 = k, m.val[k].next = NONE, NEW j \in K,
           m.val[j].count_to_use = c
    PROVE  j = k
  <1>1. c \in DOMAIN own /\ k \in DOMAIN m.val
    BY DEF Shape
  <1>2. PICK U : U = Chain(m, K, c)
    OBVIOUS
  <1>3. Linked(U, rk, KeyNext(m), KeyLast(m), k) /\ k \in U /\ j \in U /\ KeyNext(m)[k] = NONE
    BY <1>1, <1>2 DEF Shape, ChainsOf, Chain, KeyNext
  <1>4. NONE \notin U /\ \A z \in U : rk[z] \in Int
    BY <1>3 DEF Linked
  <1>5. ~ \E z \in U : rk[z] > rk[k]
    BY <1>3, <1>4 DEF Linked, IsNext
  <1>6. rk[k] <= rk[j]
    BY <1>3 DEF Linked, Lowest
  <1>7. rk[j] = rk[k]
    BY <1>3, <1>4, <1>5, <1>6
  <1> QED
    BY <1>3, <1>7 DEF Linked

(* The opportunistic increment: the lone count of a key is raised. *)
LEMMA ClimbGood ==
    ASSUME NEW T, NEW L, Good(inst, T, L), NEW k \in DOMAIN inst.val, Climbs(k), NEW c,
           c = inst.val[k].count_to_use, NEW T2, NEW L2,
           MovedTo(DOMAIN inst.val, k, T[k] + 1, L[k], T, L, T2, L2),
           NEW r, r = [inst EXCEPT !.counts[c].count = inst.counts[c].count + 1]
    PROVE  Good(r, T2, L2) /\ DOMAIN r.val = DOMAIN inst.val
  <1>0. /\ T2[k] = T[k] + 1 /\ L2[k] = L[k]
        /\ \A j \in DOMAIN inst.val \ {k} : T2[j] = T[j] /\ L2[j] = L[j]
    BY DEF MovedTo
  <1>1. PICK own, rk, F : /\ Shape(inst, DOMAIN inst.val, own, rk, F) /\ HasKeys(inst, own)
                          /\ Right(inst, DOMAIN inst.val, own, T, L)
    BY DEF Good
  <1>2. /\ inst.counts[c].hkv1 = k /\ inst.val[k].next = NONE
        /\ inst.counts[c].next # NONE => inst.counts[inst.counts[c].next].count > inst.counts[c].count + 1
    BY DEF Climbs
  <1>3. c \in DOMAIN own
    BY <1>1, ShapeParts
  <1>4. /\ Shape(r, DOMAIN inst.val, own, rk, F) /\ r.val = inst.val
        /\ CountSetIn(inst.counts, c, inst.counts[c].count + 1, r.counts)
    <2>1. RoomAbove(inst, c)
      BY <1>2 DEF RoomAbove
    <2>2. Shape(r, DOMAIN inst.val, own, rk, F) /\ RaisedBy1(inst, c, r)
      BY <2>1, <1>1, <1>3, RaiseShape
    <2> QED
      BY <2>2 DEF RaisedBy1
  <1>o. DOMAIN own \subseteq DOMAIN inst.counts
    <2>1. own \in [DOMAIN inst.counts \ Range(F) -> List]
      BY <1>1 DEF Shape
    <2> QED
      BY <2>1
  <1>5. HasKeys(r, own)
    BY <1>1, <1>4, <1>o DEF HasKeys, CountSetIn
  <1>6. ASSUME NEW j \in DOMAIN r.val
        PROVE  own[r.val[j].count_to_use] = L2[j] /\ r.counts[r.val[j].count_to_use].count = T2[j]
    <2>1. PICK d : d = inst.val[j].count_to_use
      OBVIOUS
    <2>2. j \in DOMAIN inst.val /\ r.val[j].count_to_use = d
      BY <2>1, <1>4
    <2>3. d \in DOMAIN own /\ d \in DOMAIN inst.counts /\ own[d] = L[j] /\ inst.counts[d].count = T[j]
      <3>1. d \in DOMAIN own
        BY <2>1, <2>2, <1>1 DEF Shape
      <3>2. own[d] = L[j] /\ inst.counts[d].count = T[j]
        BY <2>1, <2>2, <1>1 DEF Right
      <3> QED
        BY <3>1, <3>2, <1>o
    <2>4. CASE j = k
      <3>1. d = c
        BY <2>1, <2>4
      <3>2. r.counts[c].count = inst.counts[c].count + 1
        BY <2>3, <3>1, <1>4 DEF CountSetIn
      <3>3. inst.counts[c].count = T[k]
        BY <2>3, <2>4, <3>1
      <3> QED
        BY <2>2, <2>3, <2>4, <3>1, <3>2, <3>3, <1>0
    <2>5. CASE j # k
      <3>1. d # c
        BY <2>1, <2>2, <2>5, <1>1, <1>2, Alone
      <3> QED
        BY <2>2, <2>3, <2>5, <3>1, <1>0, <1>4 DEF CountSetIn
    <2> QED
      BY <2>4, <2>5
  <1>7. Right(r, DOMAIN r.val, own, T2, L2)
    BY <1>6 DEF Right
  <1> QED
    BY <1>4, <1>5, <1>7 DEF Good

(* A key that does not climb alone is moved to the next count. *)
LEMMA MoveGood ==
    ASSUME NEW T, NEW L, Good(inst, T, L), NEW k \in DOMAIN inst.val, ~ Climbs(k), T[k] \in Nat,
           NEW l, l = L[k], NEW T2, NEW L2,
           MovedTo(DOMAIN inst.val, k, T[k] + 1, l, T, L, T2, L2), NEW r, r = IncOld(k, l)
    PROVE  Good(r, T2, L2) /\ DOMAIN r.val = DOMAIN inst.val
  <1>1. PICK own, rk, F : /\ Shape(inst, DOMAIN inst.val, own, rk, F) /\ HasKeys(inst, own)
                          /\ Right(inst, DOMAIN inst.val, own, T, L)
    BY DEF Good
  <1>c. PICK c : c = inst.val[k].count_to_use
    OBVIOUS
  <1>n. PICK n \in Nat : n = T[k]
    OBVIOUS
  <1>w. PICK w : w = inst.counts[c].next
    OBVIOUS
  <1>o. DOMAIN own \subseteq DOMAIN inst.counts /\ own \in [DOMAIN own -> List]
    <2>1. own \in [DOMAIN inst.counts \ Range(F) -> List]
      BY <1>1 DEF Shape
    <2> QED
      BY <2>1
  <1>2. c \in DOMAIN own /\ own[c] = l /\ inst.counts[c].count = n /\ l \in List /\ c \in DOMAIN inst.counts
    <2>1. c \in DOMAIN own
      BY <1>1, <1>c DEF Shape
    <2>2. own[c] = l /\ inst.counts[c].count = n
      BY <1>1, <1>c, <1>n DEF Right
    <2> QED
      BY <2>1, <2>2, <1>o
  <1>3. w # NONE => /\ w \in DOMAIN own /\ own[w] = l /\ w \in DOMAIN inst.counts
                    /\ inst.counts[w].count > n /\ inst.counts[w].count \in Nat /\ w # c
    <2>1. SUFFICES ASSUME w # NONE
                   PROVE  /\ w \in DOMAIN own /\ own[w] = l /\ w \in DOMAIN inst.counts
                          /\ inst.counts[w].count > n /\ inst.counts[w].count \in Nat /\ w # c
      OBVIOUS
    <2>2. w \in DOMAIN own /\ own[w] = l /\ w \in DOMAIN inst.counts /\ inst.counts[w].count > n
      BY <2>1, <1>1, <1>2, <1>w, CountLinks
    <2>3. inst.counts[w].count \in Nat
      BY <2>2, <1>1, CountLinks
    <2> QED
      BY <2>2, <2>3, <1>2
  <1>u. PICK u : u = Unlink(inst, k)
    OBVIOUS
  <1>4. Shape(u, DOMAIN inst.val \ {k}, own, rk, F) /\ Unlinked(inst, k, u)
    BY <1>1, <1>u, UnlinkShape
  <1>5. /\ DOMAIN u.val = DOMAIN inst.val /\ DOMAIN u.counts = DOMAIN inst.counts
        /\ \A j \in DOMAIN inst.val : u.val[j].count_to_use = inst.val[j].count_to_use
        /\ \A z \in DOMAIN inst.counts :
              /\ u.counts[z].count = inst.counts[z].count /\ u.counts[z].next = inst.counts[z].next
              /\ z # c => u.counts[z].hkv1 = inst.counts[z].hkv1
        /\ u.counts[c].hkv1 = NONE <=> inst.counts[c].hkv1 = k /\ inst.val[k].next = NONE
    BY <1>4, <1>2, <1>c DEF Unlinked
  <1>6. PICK m : m = DropIfEmpty(u, l, c)
    OBVIOUS
  <1>7. r = IF w # NONE /\ m.counts[w].count = n + 1 THEN Join(m, k, w) ELSE InsertAbove(m, k, l, c, w, n + 1)
    BY <1>2, <1>6, <1>c, <1>u, <1>w DEF IncOld
  <1>m. MovedTo(DOMAIN inst.val, k, n + 1, l, T, L, T2, L2)
    BY <1>n
  <1>8. CASE inst.counts[c].hkv1 = k /\ inst.val[k].next = NONE
    <2>1. w # NONE /\ inst.counts[w].count = n + 1
      <3>1. w # NONE /\ ~ (inst.counts[w].count > n + 1)
        BY <1>2, <1>8, <1>c, <1>w DEF Climbs
      <3> QED
        BY <3>1, <1>3
    <2>2. u.counts[c].hkv1 = NONE /\ u.counts[c].next # NONE
      BY <2>1, <1>2, <1>5, <1>8, <1>w
    <2>3. PICK own2 : own2 = [z \in DOMAIN own \ {c} |-> own[z]]
      OBVIOUS
    <2>4. DOMAIN own2 = DOMAIN own \ {c} /\ \A z \in DOMAIN own2 : own2[z] = own[z] /\ z \in DOMAIN own /\ z # c
      BY <2>3
    <2>5. PICK F2 :
            /\ Shape(m, DOMAIN inst.val \ {k}, own2, rk, F2)
            /\ m.val = u.val /\ DOMAIN m.counts = DOMAIN u.counts
            /\ \A z \in DOMAIN u.counts : m.counts[z].count = u.counts[z].count /\ m.counts[z].hkv1 = u.counts[z].hkv1
      <3>1. Dropped(u, DOMAIN inst.val \ {k}, own2, rk, m)
        BY <2>2, <2>3, <1>2, <1>4, <1>6, DropShape
      <3> QED
        BY <3>1 DEF Dropped
    <2>6. DOMAIN m.val = DOMAIN inst.val
      BY <2>5, <1>5
    <2>7. HasKeys(m, own2)
      BY <2>4, <2>5, <1>1, <1>5, <1>o DEF HasKeys
    <2>8. ASSUME NEW j \in DOMAIN inst.val \ {k}
          PROVE  own2[m.val[j].count_to_use] = L[j] /\ m.counts[m.val[j].count_to_use].count = T[j]
      <3>1. PICK d : d = inst.val[j].count_to_use
        OBVIOUS
      <3>2. m.val[j].count_to_use = d
        BY <3>1, <2>5, <1>5
      <3>3. d \in DOMAIN own2
        BY <3>2, <2>5 DEF Shape
      <3>4. own[d] = L[j] /\ inst.counts[d].count = T[j]
        BY <3>1, <1>1 DEF Right
      <3>5. d \in DOMAIN inst.counts
        BY <3>3, <2>4, <1>o
      <3>6. m.counts[d].count = inst.counts[d].count
        BY <3>5, <2>5, <1>5
      <3> QED
        BY <3>2, <3>3, <3>4, <3>6, <2>4
    <2>9. GoodBut(m, k, own2, rk, F2, T, L)
      BY <2>5, <2>6, <2>7, <2>8 DEF GoodBut, Right
    <2>10. m.counts[w].count = n + 1 /\ w \in DOMAIN own2 /\ own2[w] = l
      BY <2>1, <2>4, <2>5, <1>3, <1>5
    <2>11. r = Join(m, k, w)
      BY <2>1, <2>10, <1>7
    <2>12. MovedTo(DOMAIN m.val, k, m.counts[w].count, own2[w], T, L, T2, L2)
      BY <2>6, <2>10, <1>m
    <2>13. Good(r, T2, L2) /\ DOMAIN r.val = DOMAIN m.val \union {k}
      BY <2>9, <2>10, <2>11, <2>12, JoinGood
    <2> QED
      BY <2>6, <2>13
  <1>9. CASE ~ (inst.counts[c].hkv1 = k /\ inst.val[k].next = NONE)
    <2>1. u.counts[c].hkv1 # NONE
      BY <1>5, <1>9
    <2>2. m = u
      BY <2>1, <1>6 DEF DropIfEmpty
    <2>3. HasKeys(u, own)
      BY <2>1, <1>1, <1>5, <1>o DEF HasKeys
    <2>4. ASSUME NEW j \in DOMAIN inst.val \ {k}
          PROVE  own[u.val[j].count_to_use] = L[j] /\ u.counts[u.val[j].count_to_use].count = T[j]
      <3>1. PICK d : d = inst.val[j].count_to_use
        OBVIOUS
      <3>2. u.val[j].count_to_use = d
        BY <3>1, <1>5
      <3>3. d \in DOMAIN own
        BY <3>1, <1>1 DEF Shape
      <3>4. own[d] = L[j] /\ inst.counts[d].count = T[j]
        BY <3>1, <1>1 DEF Right
      <3>5. u.counts[d].count = inst.counts[d].count
        BY <3>3, <1>5, <1>o
      <3> QED
        BY <3>2, <3>4, <3>5
    <2>5. GoodBut(u, k, own, rk, F, T, L)
      BY <2>3, <2>4, <1>4, <1>5 DEF GoodBut, Right
    <2>6. MovedTo(DOMAIN u.val, k, n + 1, l, T, L, T2, L2)
      BY <1>5, <1>m
    <2>7. CASE w # NONE /\ u.counts[w].count = n + 1
      <3>1. r = Join(u, k, w) /\ w \in DOMAIN own /\ own[w] = l
        BY <2>2, <2>7, <1>3, <1>7
      <3>2. MovedTo(DOMAIN u.val, k, u.counts[w].count, own[w], T, L, T2, L2)
        BY <2>6, <2>7, <3>1
      <3>3. Good(r, T2, L2) /\ DOMAIN r.val = DOMAIN u.val \union {k}
        BY <2>5, <3>1, <3>2, JoinGood
      <3> QED
        BY <3>3, <1>5
    <2>8. CASE ~ (w # NONE /\ u.counts[w].count = n + 1)
      <3>1. r = InsertAbove(u, k, l, c, w, n + 1)
        BY <2>2, <2>8, <1>7
      <3>2. k \in Counter
        BY <1>m DEF MovedTo
      <3>3. w = u.counts[c].next
        BY <1>2, <1>5, <1>w
      <3>4. r = AddTo(PopFrom(u), k, l, n + 1, c, w)
        <4>1. PICK K : K = DOMAIN inst.val \ {k}
          OBVIOUS
        <4>2. PICK n1 : n1 = n + 1
          OBVIOUS
        <4>3. Shape(u, K, own, rk, F)
          BY <4>1, <1>4
        <4>4. c \in DOMAIN own /\ l \in List
          BY <1>2
        <4>5. InsertAbove(u, k, l, c, w, n1) = AddTo(PopFrom(u), k, l, n1, c, w)
          BY <4>3, <4>4, <3>2, <3>3, InsertAboveIs
        <4> QED
          BY <4>2, <4>5, <3>1
      <3>5. PICK U : U = On(own, l)
        OBVIOUS
      <3>6. /\ U \subseteq DOMAIN own /\ c \in U
            /\ w # NONE => w \in U
        BY <3>5, <1>2, <1>3 DEF On
      <3>7. Linked(U, CountOf(u), CountNext(u), CountLast(u), u.counts_lo[l])
        BY <3>5, <1>2, <1>4 DEF Shape, ListsOf
      <3>8. /\ \A z \in U : CountOf(u)[z] \in Int
            /\ CountOf(u)[c] = n /\ CountNext(u)[c] = w
            /\ w # NONE => CountOf(u)[w] > n + 1
        <4>1. \A z \in U : CountOf(u)[z] \in Int
          BY <3>7 DEF Linked
        <4>2. CountOf(u)[c] = n /\ CountNext(u)[c] = w
          BY <3>3, <1>2, <1>5 DEF CountOf, CountNext
        <4>3. ASSUME w # NONE PROVE CountOf(u)[w] > n + 1
          <5>1. CountOf(u)[w] = inst.counts[w].count
            BY <4>3, <1>3, <1>5 DEF CountOf
          <5>2. inst.counts[w].count # n + 1
            BY <4>3, <2>8, <1>3, <1>5
          <5> QED
            BY <4>3, <5>1, <5>2, <1>3
        <4> QED
          BY <4>1, <4>2, <4>3
      <3>9. Between(U, CountOf(u), c, n + 1, w)
        <4>1. IsNext(U, CountOf(u), c, w)
          BY <3>6, <3>7, <3>8 DEF Linked
        <4>2. c \in U /\ CountOf(u)[c] < n + 1 /\ \A z \in U : CountOf(u)[z] < n + 1 => CountOf(u)[z] <= CountOf(u)[c]
          BY <3>6, <3>8
        <4>3. CASE w = NONE
          <5>1. \A z \in U : ~ (CountOf(u)[z] > n)
            BY <4>1, <4>3, <3>6, <3>7, <3>8 DEF IsNext, Linked
          <5>2. \A z \in U : ~ (CountOf(u)[z] > n + 1) /\ CountOf(u)[z] # n + 1
            BY <5>1, <3>8
          <5> QED
            BY <4>2, <4>3, <5>2 DEF Between
        <4>4. CASE w # NONE
          <5>1. w \in U /\ CountOf(u)[w] > n + 1
            BY <4>4, <3>6, <3>8
          <5>2. CountOf(u)[w] > CountOf(u)[c]
            BY <5>1, <3>8
          <5>3. \A z \in U : CountOf(u)[z] > n => CountOf(u)[z] >= CountOf(u)[w]
            BY <5>1, <5>2, <4>1, <3>8 DEF IsNext
          <5>4. \A z \in U : CountOf(u)[z] > n + 1 => CountOf(u)[z] >= CountOf(u)[w]
            BY <5>3, <3>8
          <5>5. \A z \in U : CountOf(u)[z] # n + 1
            BY <5>1, <5>3, <3>8
          <5> QED
            BY <4>2, <5>1, <5>4, <5>5 DEF Between
        <4> QED
          BY <4>3, <4>4
      <3>10. n + 1 \in Nat
        OBVIOUS
      <3>11. Good(r, T2, L2) /\ DOMAIN r.val = DOMAIN u.val \union {k}
        <4>1. PICK n1 \in Nat : n1 = n + 1
          BY <3>10
        <4>2. MovedTo(DOMAIN u.val, k, n1, l, T, L, T2, L2) /\ Between(On(own, l), CountOf(u), c, n1, w)
          BY <4>1, <2>6, <3>5, <3>9
        <4>3. r = AddTo(PopFrom(u), k, l, n1, c, w) /\ l \in List
          BY <4>1, <3>4, <1>2
        <4> QED
          BY <4>1, <4>2, <4>3, <2>5, NewGood
      <3> QED
        BY <3>11, <1>5
    <2> QED
      BY <2>7, <2>8
  <1> QED
    BY <1>8, <1>9

(* The invariant: the counters are Good for the tally of increments. *)
CountsInv ==
    /\ tally \in [Counter -> Nat]
    /\ DOMAIN inst.val = {k \in Counter : tally[k] > 0}
    /\ DOMAIN listOf = DOMAIN inst.val
    /\ \A k \in DOMAIN listOf : listOf[k] \in List
    /\ Good(inst, tally, listOf)

(* A new instance is Good for anything: it has no keys. *)
LEMMA FreshGood ==
    ASSUME NEW T, NEW L
    PROVE  Good(Fresh, T, L) /\ DOMAIN Fresh.val = {}
  <1>m. PICK m : m = Fresh
    OBVIOUS
  <1>1. /\ m.counts = << >> /\ m.counts_size = 0 /\ m.counts_next_free = 1 /\ m.counts_free = 0
        /\ m.counts_used = 0 /\ m.counts_lo = [l \in List |-> NONE] /\ m.counts_hi = [l \in List |-> NONE]
        /\ m.val = [k \in {} |-> 0] /\ m.impossible = FALSE
        /\ m = [counts |-> << >>, counts_size |-> 0, counts_next_free |-> 1, counts_free |-> 0,
          counts_used |-> 0, counts_lo |-> [l \in List |-> NONE], counts_hi |-> [l \in List |-> NONE],
          val |-> [k \in {} |-> 0], impossible |-> FALSE]
    BY <1>m DEF Fresh
  <1>2. DOMAIN m.counts = {} /\ DOMAIN m.val = {}
    BY <1>1
  <1>3. m.counts \in Partial(Nat, Node) /\ m.val \in Partial(Counter, Val)
    <2>1. m.counts \in [DOMAIN m.counts -> Node] /\ m.val \in [DOMAIN m.val -> Val]
      <3>1. << >> \in [{} -> Node]
        OBVIOUS
      <3>2. [k \in {} |-> 0] \in [{} -> Val]
        OBVIOUS
      <3> QED
        BY <3>1, <3>2, <1>1, <1>2
    <2> QED
      BY <2>1, <1>2, PartialIs
  <1>4. IsInst(m)
    <2>1. DOMAIN m.counts = 1 .. m.counts_size - 1
      BY <1>1, <1>2
    <2>2. m.counts_lo \in [List -> Nat] /\ m.counts_hi \in [List -> Nat]
      BY <1>1 DEF NONE
    <2> QED
      BY <2>1, <2>2, <1>1, <1>3 DEF IsInst
  <1>5. PICK own : own = [c \in {} |-> 0]
    OBVIOUS
  <1>6. PICK F : F = << >>
    OBVIOUS
  <1>7. PICK rk : rk = [k \in Counter |-> 0]
    OBVIOUS
  <1>8. DOMAIN own = {} /\ own \in [{} -> List]
    BY <1>5
  <1>9. DOMAIN F = {} /\ F \in [1 .. m.counts_free -> DOMAIN m.counts] /\ Range(F) = {} /\ IsInjective(F)
    <2>1. 1 .. m.counts_free = {}
      BY <1>1
    <2>2. DOMAIN F = {} /\ F \in [{} -> {}]
      BY <1>6
    <2> QED
      BY <2>1, <2>2, <1>2 DEF Range, IsInjective
  <1>10. FreeIs(m, F)
    BY <1>1, <1>9 DEF FreeIs
  <1>11. own \in [DOMAIN m.counts \ Range(F) -> List]
    BY <1>2, <1>8, <1>9
  <1>12. m.counts_used = Cardinality(DOMAIN own)
    BY <1>1, <1>8, FS_EmptySet
  <1>13. ListsOf(m, own)
    <2>1. SUFFICES ASSUME NEW l \in List
                   PROVE  /\ Linked(On(own, l), CountOf(m), CountNext(m), CountLast(m), m.counts_lo[l])
                          /\ Highest(On(own, l), CountOf(m), m.counts_hi[l])
      BY DEF ListsOf
    <2>2. On(own, l) = {}
      BY <1>8 DEF On
    <2>3. m.counts_lo[l] = NONE /\ m.counts_hi[l] = NONE
      BY <1>1
    <2> QED
      BY <2>2, <2>3 DEF Linked, Lowest, Highest
  <1>14. ChainsOf(m, {}, own, rk)
    BY <1>8 DEF ChainsOf
  <1>15. rk \in [Counter -> Int] /\ \E low \in Int : \A k \in Counter : rk[k] > low
    <2>1. \A k \in Counter : rk[k] > -1
      BY <1>7
    <2> QED
      BY <2>1, <1>7
  <1>16. Shape(m, DOMAIN m.val, own, rk, F)
    BY <1>1, <1>2, <1>4, <1>10, <1>11, <1>12, <1>13, <1>14, <1>15 DEF Shape
  <1>17. HasKeys(m, own) /\ Right(m, DOMAIN m.val, own, T, L)
    BY <1>2, <1>8 DEF HasKeys, Right
  <1> QED
    BY <1>2, <1>16, <1>17, <1>m DEF Good

LEMMA FreshInv ==
    /\ CountsInit => CountsInv
    /\ CountsReboot => CountsInv'
  <1>1. ASSUME NEW i, i = Fresh, NEW T, T = [k \in Counter |-> 0], NEW L, L = [k \in {} |-> 0]
        PROVE  /\ T \in [Counter -> Nat] /\ DOMAIN i.val = {k \in Counter : T[k] > 0}
               /\ DOMAIN L = DOMAIN i.val
               /\ \A k \in DOMAIN L : L[k] \in List
               /\ Good(i, T, L)
    <2>1. DOMAIN i.val = {} /\ Good(i, T, L)
      BY <1>1, FreshGood
    <2>2. T \in [Counter -> Nat] /\ {k \in Counter : T[k] > 0} = {}
      BY <1>1
    <2> QED
      BY <1>1, <2>1, <2>2
  <1>2. CountsInit => CountsInv
    BY <1>1 DEF CountsInit, CountsInv
  <1>3. ASSUME CountsReboot PROVE CountsInv'
    <2>1. inst' = Fresh /\ tally' = [k \in Counter |-> 0] /\ listOf' = [k \in {} |-> 0]
      BY <1>3 DEF CountsReboot
    <2>2. PICK i, T, L : i = inst' /\ T = tally' /\ L = listOf'
      OBVIOUS
    <2>3. /\ T \in [Counter -> Nat] /\ DOMAIN i.val = {k \in Counter : T[k] > 0}
          /\ DOMAIN L = DOMAIN i.val
          /\ \A k \in DOMAIN L : L[k] \in List
          /\ Good(i, T, L)
      BY <2>1, <2>2, <1>1
    <2> QED
      BY <2>2, <2>3 DEF CountsInv
  <1> QED
    BY <1>2, <1>3

(* An increment, of a key that is there and of one that is not. *)
LEMMA IncKeepsInv ==
    ASSUME CountsInv, ~ MixLists, NEW k \in Counter, NEW l \in List, Inc(k, l)
    PROVE  CountsInv'
  <1>1. /\ inst' = IF k \in DOMAIN inst.val THEN IncOld(k, l) ELSE IncNew(k, l)
        /\ tally' = [tally EXCEPT ![k] = @ + 1]
        /\ listOf' = [j \in DOMAIN listOf \union {k} |-> IF j \in DOMAIN listOf THEN listOf[j] ELSE l]
        /\ k \in DOMAIN listOf => listOf[k] = l
    BY DEF Inc
  <1>2. /\ tally \in [Counter -> Nat] /\ DOMAIN inst.val = {j \in Counter : tally[j] > 0}
        /\ DOMAIN listOf = DOMAIN inst.val
        /\ \A j \in DOMAIN listOf : listOf[j] \in List
        /\ Good(inst, tally, listOf)
    BY DEF CountsInv
  <1>3. PICK r, T, L : r = inst' /\ T = tally' /\ L = listOf'
    OBVIOUS
  <1>4. /\ T \in [Counter -> Nat] /\ T[k] = tally[k] + 1 /\ T[k] > 0
        /\ \A j \in Counter \ {k} : T[j] = tally[j]
    BY <1>1, <1>2, <1>3
  <1>5. /\ DOMAIN L = DOMAIN inst.val \union {k} /\ L[k] = l
        /\ \A j \in DOMAIN inst.val \ {k} : L[j] = listOf[j]
    BY <1>1, <1>2, <1>3
  <1>6. MovedTo(DOMAIN inst.val, k, tally[k] + 1, l, tally, listOf, T, L)
    BY <1>2, <1>4, <1>5 DEF MovedTo
  <1>7. Good(r, T, L) /\ DOMAIN r.val = DOMAIN inst.val \union {k}
    <2>1. CASE k \notin DOMAIN inst.val
      <3>1. tally[k] + 1 = 1
        BY <2>1, <1>2
      <3>2. MovedTo(DOMAIN inst.val, k, 1, l, tally, listOf, T, L)
        BY <3>1, <1>6
      <3>3. r = IncNew(k, l)
        BY <2>1, <1>1, <1>3
      <3>4. \A j \in DOMAIN inst.val : tally[j] \in Nat /\ tally[j] > 0
        BY <1>2
      <3> QED
        BY <2>1, <3>2, <3>3, <3>4, <1>2, IncNewGood
    <2>2. CASE k \in DOMAIN inst.val
      <3>1. r = IncOld(k, l) /\ l = listOf[k] /\ tally[k] \in Nat
        BY <2>2, <1>1, <1>2, <1>3
      <3>2. CASE Climbs(k)
        <4>1. PICK c : c = inst.val[k].count_to_use
          OBVIOUS
        <4>2. r = [inst EXCEPT !.counts[c].count = inst.counts[c].count + 1]
          BY <3>1, <3>2, <4>1 DEF IncOld
        <4>3. MovedTo(DOMAIN inst.val, k, tally[k] + 1, listOf[k], tally, listOf, T, L)
          BY <3>1, <1>6
        <4>4. Good(r, T, L) /\ DOMAIN r.val = DOMAIN inst.val
          BY <2>2, <3>2, <4>1, <4>2, <4>3, <1>2, ClimbGood
        <4> QED
          BY <2>2, <4>4
      <3>3. CASE ~ Climbs(k)
        <4>1. Good(r, T, L) /\ DOMAIN r.val = DOMAIN inst.val
          BY <2>2, <3>1, <3>3, <1>2, <1>6, MoveGood
        <4> QED
          BY <2>2, <4>1
      <3> QED
        BY <3>2, <3>3
    <2> QED
      BY <2>1, <2>2
  <1>8. DOMAIN r.val = {j \in Counter : T[j] > 0}
    BY <1>2, <1>4, <1>7
  <1>9. \A j \in DOMAIN L : L[j] \in List
    BY <1>2, <1>5
  <1> QED
    BY <1>3, <1>4, <1>5, <1>7, <1>8, <1>9 DEF CountsInv

LEMMA SameCounts ==
    ASSUME CountsInv, inst' = inst, tally' = tally, listOf' = listOf
    PROVE  CountsInv'
  <1>1. PICK i, T, L : i = inst' /\ T = tally' /\ L = listOf'
    OBVIOUS
  <1>2. i = inst /\ T = tally /\ L = listOf
    BY <1>1
  <1>3. /\ T \in [Counter -> Nat] /\ DOMAIN i.val = {k \in Counter : T[k] > 0}
        /\ DOMAIN L = DOMAIN i.val
        /\ \A k \in DOMAIN L : L[k] \in List
        /\ Good(i, T, L)
    BY <1>2 DEF CountsInv
  <1> QED
    BY <1>1, <1>3 DEF CountsInv

(* No step breaks the invariant. *)
LEMMA NextKeepsCountsInv == ~ MixLists /\ CountsInv /\ [CountsNext]_countVars => CountsInv'
  <1>1. SUFFICES ASSUME ~ MixLists, CountsInv, [CountsNext]_countVars PROVE CountsInv'
    OBVIOUS
  <1>2. CASE \E k \in Counter, l \in List : Inc(k, l)
    BY <1>1, <1>2, IncKeepsInv
  <1>3. CASE CountsReboot
    BY <1>3, FreshInv
  <1>4. CASE \/ \E k \in Counter : PutPlain(k)
             \/ \E dir \in {"hi2lo", "lo2hi"}, l \in List : WalkStart(dir, l)
             \/ WalkStep \/ WalkEnd \/ UNCHANGED countVars
    <2>1. inst' = inst /\ tally' = tally /\ listOf' = listOf
      BY <1>4 DEF PutPlain, WalkStart, WalkStep, WalkEnd, countVars
    <2> QED
      BY <2>1, <1>1, SameCounts
  <1> QED
    BY <1>1, <1>2, <1>3, <1>4 DEF CountsNext
-----------------------------------------------------------------------------
(* What Reach reaches. *)
Onward(x) == IF x = NONE THEN NONE ELSE inst.counts[x].next
Reaches(f, a, k) ==
    /\ DOMAIN f = 0 .. k /\ f = [i \in 0 .. k |-> f[i]] /\ f[0] = a
    /\ \A i \in 0 .. k - 1 : f[i + 1] = Onward(f[i])

LEMMA ReachesExists ==
    ASSUME NEW n \in Nat, NEW a
    PROVE  \E f : Reaches(f, a, n)
  <1> DEFINE Bad == {i \in 0 .. n : ~ \E f : Reaches(f, a, i)}
  <1> SUFFICES ASSUME Bad # {} PROVE FALSE
    OBVIOUS
  <1>0. Bad \in SUBSET Nat
    OBVIOUS
  <1>1. PICK k \in Bad : \A i \in Bad : k <= i
    BY <1>0, Least
  <1>2. CASE k = 0
    <2>1. Reaches([i \in 0 .. 0 |-> a], a, 0)
      BY DEF Reaches
    <2> QED
      BY <1>2, <2>1
  <1>3. CASE k # 0
    <2>1. k - 1 \in 0 .. n /\ k - 1 \notin Bad /\ k \in 1 .. n /\ k \in Nat
      BY <1>1, <1>3
    <2>2. PICK g : Reaches(g, a, k - 1)
      BY <2>1
    <2> DEFINE h == [i \in 0 .. k |-> IF i < k THEN g[i] ELSE Onward(g[k - 1])]
    <2>4. DOMAIN h = 0 .. k /\ h = [i \in 0 .. k |-> h[i]] /\ h[0] = a
      BY <2>1, <2>2 DEF Reaches
    <2>5. ASSUME NEW i \in 0 .. k - 1 PROVE h[i + 1] = Onward(h[i])
      <3>1. CASE i < k - 1
        <4>1. i \in 0 .. (k - 1) - 1 /\ i + 1 < k /\ i + 1 \in 0 .. k /\ i \in 0 .. k /\ i < k
          BY <2>1, <3>1
        <4>2. g[i + 1] = Onward(g[i])
          BY <4>1, <2>2 DEF Reaches
        <4>3. h[i + 1] = g[i + 1] /\ h[i] = g[i]
          BY <4>1
        <4> QED
          BY <4>2, <4>3
      <3>2. CASE i = k - 1
        <4>1. i + 1 = k /\ i < k /\ i \in 0 .. k /\ k \in 0 .. k
          BY <2>1, <3>2
        <4>2. h[k] = Onward(g[k - 1]) /\ h[i] = g[i]
          BY <2>1, <4>1
        <4> QED
          BY <3>2, <4>1, <4>2
      <3> QED
        BY <2>1, <3>1, <3>2
    <2> HIDE DEF h
    <2>6. Reaches(h, a, k)
      BY <2>4, <2>5 DEF Reaches
    <2> QED
      BY <2>6
  <1> QED
    BY <1>2, <1>3

(* Reach is that function: it exists and is the only one. *)
LEMMA ReachIs ==
    ASSUME NEW a, inst.counts_size \in Nat
    PROVE  Reaches(Reach(a), a, inst.counts_size)
  <1>n. PICK n \in Nat : n = inst.counts_size
    OBVIOUS
  <1>f. PICK f : Reaches(f, a, n)
    BY ReachesExists
  <1> DEFINE E(h) == h = [i \in 0 .. n |-> IF i = 0 THEN a ELSE Onward(h[i - 1])]
  <1>0. Reach(a) = (CHOOSE h : E(h))
    BY <1>n DEF Reach, Onward
  <1>1. E(f)
    <2> DEFINE e == [i \in 0 .. n |-> IF i = 0 THEN a ELSE Onward(f[i - 1])]
    <2>1. ASSUME NEW i \in 0 .. n, i # 0 PROVE f[i] = Onward(f[i - 1])
      <3>1. i - 1 \in 0 .. n - 1 /\ (i - 1) + 1 = i
        BY <2>1
      <3> QED
        BY <3>1, <1>f DEF Reaches
    <2>2. \A i \in 0 .. n : f[i] = e[i]
      BY <2>1, <1>f DEF Reaches
    <2>3. f = [i \in 0 .. n |-> f[i]] /\ e = [i \in 0 .. n |-> e[i]]
      BY <1>f DEF Reaches
    <2> HIDE DEF e
    <2>4. f = e
      BY <2>2, <2>3
    <2> QED
      BY <2>4 DEF e
  <1>2. ASSUME NEW h, E(h) PROVE h = f
    <2> DEFINE Bad == {i \in 0 .. n : f[i] # h[i]}
    <2>0. Bad \in SUBSET Nat
      OBVIOUS
    <2>1. CASE Bad # {}
      <3>1. PICK k \in Bad : \A i \in Bad : k <= i
        BY <2>0, <2>1, Least
      <3>2. k # 0
        BY <1>f, <1>2 DEF Reaches
      <3>3. k - 1 \in 0 .. n /\ k - 1 \notin Bad /\ k - 1 \in 0 .. n - 1 /\ (k - 1) + 1 = k
        BY <3>1, <3>2
      <3>4. f[k] = Onward(f[k - 1])
        BY <3>3, <1>f DEF Reaches
      <3>5. h[k] = Onward(h[k - 1])
        BY <3>2, <1>2
      <3> QED
        BY <3>3, <3>4, <3>5
    <2>2. CASE Bad = {}
      <3>1. \A i \in 0 .. n : f[i] = h[i]
        BY <2>2
      <3>2. f = [i \in 0 .. n |-> f[i]] /\ h = [i \in 0 .. n |-> h[i]]
        BY <1>f, <1>2 DEF Reaches
      <3> QED
        BY <3>1, <3>2
    <2> QED
      BY <2>1, <2>2
  <1> HIDE DEF E
  <1>4. (CHOOSE h : E(h)) = f
    BY <1>1, <1>2
  <1> QED
    BY <1>0, <1>4, <1>f, <1>n

(* A list, from its lowest count on: every count but the first is linked to the one
   before it. *)
Descends(R, i, l, own) ==
    R[i] # NONE => /\ R[i] \in DOMAIN own /\ own[R[i]] = l
                   /\ inst.counts[R[i]].last = IF i = 0 THEN NONE ELSE R[i - 1]

(* All that is reached from the lowest count of a list is on it. *)
LEMMA ListReached ==
    ASSUME NEW K, NEW own, NEW rk, NEW F, Shape(inst, K, own, rk, F), NEW l \in List, NEW n \in Nat,
           NEW R, Reaches(R, inst.counts_lo[l], n), NEW i \in 0 .. n
    PROVE  Descends(R, i, l, own)
  <1> DEFINE Bad == {j \in 0 .. n : ~ Descends(R, j, l, own)}
  <1> SUFFICES ASSUME Bad # {} PROVE FALSE
    OBVIOUS
  <1>0. Bad \in SUBSET Nat
    OBVIOUS
  <1>1. PICK k \in Bad : \A j \in Bad : k <= j
    BY <1>0, Least
  <1>2. ~ Descends(R, k, l, own) /\ k \in 0 .. n
    OBVIOUS
  <1>3. R[k] # NONE
    BY <1>2 DEF Descends
  <1>4. CASE k = 0
    <2>1. R[0] = inst.counts_lo[l]
      BY DEF Reaches
    <2>2. Lowest(On(own, l), CountOf(inst), inst.counts_lo[l])
      BY DEF Shape, ListsOf, Linked
    <2>3. R[0] \in On(own, l)
      BY <1>3, <1>4, <2>1, <2>2 DEF Lowest
    <2>4. R[0] \in DOMAIN own /\ own[R[0]] = l
      BY <2>3 DEF On
    <2>5. inst.counts[R[0]].last = NONE
      BY <2>1, <2>4, CountLinks
    <2> QED
      BY <1>2, <1>4, <2>4, <2>5 DEF Descends
  <1>5. CASE k # 0
    <2>1. k - 1 \in 0 .. n /\ k - 1 \notin Bad /\ k - 1 \in 0 .. n - 1 /\ (k - 1) + 1 = k
      BY <1>1, <1>5
    <2>2. PICK x : x = R[k - 1]
      OBVIOUS
    <2>3. R[k] = Onward(x)
      BY <2>1, <2>2 DEF Reaches
    <2>4. x # NONE /\ R[k] = inst.counts[x].next
      BY <2>3, <1>3 DEF Onward
    <2>5. x \in DOMAIN own /\ own[x] = l
      BY <2>1, <2>2, <2>4 DEF Descends
    <2>6. R[k] \in DOMAIN own /\ own[R[k]] = l /\ inst.counts[R[k]].last = x
      BY <2>4, <2>5, <1>3, CountLinks
    <2> QED
      BY <1>2, <1>5, <2>2, <2>6 DEF Descends
  <1> QED
    BY <1>4, <1>5

(* A list ends: its counts go up, so none is met twice. *)
LEMMA ListEnds ==
    ASSUME NEW K, NEW own, NEW rk, NEW F, Shape(inst, K, own, rk, F), NEW l \in List, NEW n \in Nat,
           n = inst.counts_size, NEW R, Reaches(R, inst.counts_lo[l], n)
    PROVE  R[n] = NONE
  <1> SUFFICES ASSUME R[n] # NONE PROVE FALSE
    OBVIOUS
  <1>1. ASSUME NEW i \in 0 .. n PROVE R[i] # NONE
    <2> DEFINE Bad == {j \in 0 .. n : R[n - j] = NONE}
    <2>0. Bad \in SUBSET Nat
      OBVIOUS
    <2>1. SUFFICES ASSUME Bad # {} PROVE FALSE
      <3>1. n - i \in 0 .. n /\ n - (n - i) = i
        OBVIOUS
      <3> QED
        BY <3>1
    <2>2. PICK k \in Bad : \A j \in Bad : k <= j
      BY <2>0, <2>1, Least
    <2>3. k # 0 /\ k \in 0 .. n /\ R[n - k] = NONE
      <3>1. k \in 0 .. n /\ R[n - k] = NONE
        OBVIOUS
      <3>2. n - 0 = n
        OBVIOUS
      <3> QED
        BY <3>1, <3>2
    <2>4. k - 1 \in 0 .. n /\ k - 1 \notin Bad /\ n - k \in 0 .. n - 1 /\ (n - k) + 1 = n - (k - 1)
      BY <2>2, <2>3
    <2>5. R[(n - k) + 1] = Onward(R[n - k])
      BY <2>4 DEF Reaches
    <2> QED
      BY <2>3, <2>4, <2>5 DEF Onward
  <1>2. \A i \in 0 .. n : /\ R[i] \in DOMAIN own /\ R[i] \in DOMAIN inst.counts
                          /\ inst.counts[R[i]].count \in Nat
    <2>1. SUFFICES ASSUME NEW i \in 0 .. n
                   PROVE  /\ R[i] \in DOMAIN own /\ R[i] \in DOMAIN inst.counts
                          /\ inst.counts[R[i]].count \in Nat
      OBVIOUS
    <2>2. R[i] \in DOMAIN own
      BY <1>1, ListReached DEF Descends
    <2> QED
      BY <2>2, CountLinks
  <1>3. \A i \in 0 .. n - 1 : inst.counts[R[i]].count < inst.counts[R[i + 1]].count
    <2>1. SUFFICES ASSUME NEW i \in 0 .. n - 1
                   PROVE  inst.counts[R[i]].count < inst.counts[R[i + 1]].count
      OBVIOUS
    <2>2. i \in 0 .. n /\ i + 1 \in 0 .. n
      OBVIOUS
    <2>3. R[i + 1] = inst.counts[R[i]].next
      BY <2>2, <1>1 DEF Reaches, Onward
    <2>4. PICK x, y : x = R[i] /\ y = R[i + 1]
      OBVIOUS
    <2>5. x \in DOMAIN own /\ y # NONE /\ y = inst.counts[x].next /\ inst.counts[x].count \in Nat
          /\ inst.counts[y].count \in Nat
      BY <2>2, <2>3, <2>4, <1>1, <1>2
    <2>6. inst.counts[y].count > inst.counts[x].count
      BY <2>5, CountLinks
    <2> QED
      BY <2>4, <2>5, <2>6
  <1>4. PICK C : C = [i \in 0 .. n |-> inst.counts[R[i]].count]
    OBVIOUS
  <1>5. C \in [0 .. n -> Nat] /\ \A i \in 0 .. n - 1 : C[i] < C[i + 1]
    <2>1. C \in [0 .. n -> Nat]
      BY <1>2, <1>4
    <2>2. \A i \in 0 .. n - 1 : i \in 0 .. n /\ i + 1 \in 0 .. n
      OBVIOUS
    <2> QED
      BY <2>1, <2>2, <1>3, <1>4
  <1>6. \A i, j \in 0 .. n : i < j => C[i] < C[j]
    <2> DEFINE Bad == {j \in 0 .. n : \E i \in 0 .. n : i < j /\ ~ (C[i] < C[j])}
    <2>0. Bad \in SUBSET Nat
      OBVIOUS
    <2>1. SUFFICES ASSUME Bad # {} PROVE FALSE
      OBVIOUS
    <2>2. PICK j \in Bad : \A z \in Bad : j <= z
      BY <2>0, <2>1, Least
    <2>3. PICK i \in 0 .. n : i < j /\ ~ (C[i] < C[j])
      OBVIOUS
    <2>4. j - 1 \in 0 .. n /\ j - 1 \notin Bad /\ j - 1 \in 0 .. n - 1 /\ (j - 1) + 1 = j /\ j \in 0 .. n
      BY <2>2, <2>3
    <2>5. C[j - 1] < C[j]
      BY <2>4, <1>5
    <2>6. i < j - 1
      BY <2>3, <2>4, <2>5
    <2>7. C[i] < C[j - 1]
      BY <2>4, <2>6
    <2>8. C[i] \in Nat /\ C[j - 1] \in Nat /\ C[j] \in Nat
      BY <2>4, <1>5
    <2> QED
      BY <2>3, <2>5, <2>7, <2>8
  <1>7. DOMAIN inst.counts = 1 .. n - 1
    BY InstTyped DEF Shape
  <1>8. IsFiniteSet(0 .. n) /\ IsFiniteSet(1 .. n - 1) /\ Cardinality(1 .. n - 1) < Cardinality(0 .. n)
    <2>1. IsFiniteSet(0 .. n) /\ Cardinality(0 .. n) = n + 1
      <3>1. 0 \in Int /\ n \in Int
        OBVIOUS
      <3>2. IsFiniteSet(0 .. n) /\ Cardinality(0 .. n) = IF 0 > n THEN 0 ELSE (n - 0) + 1
        BY <3>1, FS_Interval
      <3> QED
        BY <3>2
    <2>2. PICK h \in Int : h = n - 1
      OBVIOUS
    <2>3. IsFiniteSet(1 .. h) /\ Cardinality(1 .. h) = IF 1 > h THEN 0 ELSE (h - 1) + 1
      <3>1. 1 \in Int /\ h \in Int
        OBVIOUS
      <3> QED
        BY <3>1, FS_Interval
    <2> QED
      BY <2>1, <2>2, <2>3
  <1>9. PICK g : g = [i \in 0 .. n |-> R[i]]
    OBVIOUS
  <1>10. g \in [0 .. n -> 1 .. n - 1]
    BY <1>2, <1>7, <1>9
  <1>11. PICK i, j \in 0 .. n : i # j /\ g[i] = g[j]
    <2>1. PICK S, D : S = 0 .. n /\ D = 1 .. n - 1
      OBVIOUS
    <2>2. g \in [S -> D] /\ IsFiniteSet(S) /\ IsFiniteSet(D) /\ Cardinality(D) < Cardinality(S)
      BY <2>1, <1>8, <1>10
    <2>3. \E i, j \in S : i # j /\ g[i] = g[j]
      BY <2>2, FS_PigeonHole
    <2> QED
      BY <2>1, <2>3
  <1>12. C[i] = C[j]
    BY <1>4, <1>9, <1>11
  <1>13. i < j \/ j < i
    BY <1>11
  <1>14. C[i] \in Nat /\ C[j] \in Nat
    BY <1>5
  <1> QED
    BY <1>6, <1>12, <1>13, <1>14

(* From the order of the invariant to the links of ListsSorted. *)
LEMMA InvSorts == CountsInv => ListsSorted
  <1> SUFFICES ASSUME CountsInv PROVE ListsSorted
    OBVIOUS
  <1>1. PICK own, rk, F : /\ Shape(inst, DOMAIN inst.val, own, rk, F) /\ HasKeys(inst, own)
    BY DEF CountsInv, Good
  <1>n. PICK n \in Nat : n = inst.counts_size
    BY <1>1, InstTyped DEF Shape
  <1>2. ChainsLinked
    <2>1. SUFFICES ASSUME NEW k \in DOMAIN inst.val
                   PROVE  LET v == inst.val[k] IN
                          /\ v.next # NONE => /\ inst.val[v.next].last = k
                                              /\ inst.val[v.next].count_to_use = v.count_to_use
                          /\ v.last # NONE => inst.val[v.last].next = k
                          /\ v.last = NONE <=> inst.counts[v.count_to_use].hkv1 = k
      BY DEF ChainsLinked
    <2> QED
      BY <1>1, KeyLinks
  <1>3. ASSUME NEW l \in List, NEW R, R = Reach(inst.counts_lo[l])
        PROVE  /\ inst.counts_lo[l] = NONE <=> inst.counts_hi[l] = NONE
               /\ R[inst.counts_size] = NONE
               /\ \A i \in DOMAIN R : R[i] # NONE =>
                     LET c == inst.counts[R[i]] IN
                     /\ c.last = IF i = 0 THEN NONE ELSE R[i - 1]
                     /\ c.next = NONE => R[i] = inst.counts_hi[l]
                     /\ c.next # NONE => c.count < inst.counts[c.next].count
                     /\ c.hkv1 # NONE
    <2>1. Reaches(R, inst.counts_lo[l], n)
      BY <1>3, <1>n, ReachIs
    <2>2. inst.counts_lo[l] = NONE <=> inst.counts_hi[l] = NONE
      <3>1. /\ Linked(On(own, l), CountOf(inst), CountNext(inst), CountLast(inst), inst.counts_lo[l])
            /\ Highest(On(own, l), CountOf(inst), inst.counts_hi[l])
        BY <1>1 DEF Shape, ListsOf
      <3>2. NONE \notin On(own, l) /\ Lowest(On(own, l), CountOf(inst), inst.counts_lo[l])
        BY <3>1 DEF Linked
      <3> QED
        BY <3>1, <3>2 DEF Lowest, Highest
    <2>3. R[inst.counts_size] = NONE
      <3>1. R[n] = NONE
        BY <2>1, <1>1, <1>n, ListEnds
      <3> QED
        BY <3>1, <1>n
    <2>4. ASSUME NEW i \in DOMAIN R, R[i] # NONE
          PROVE  LET c == inst.counts[R[i]] IN
                 /\ c.last = IF i = 0 THEN NONE ELSE R[i - 1]
                 /\ c.next = NONE => R[i] = inst.counts_hi[l]
                 /\ c.next # NONE => c.count < inst.counts[c.next].count
                 /\ c.hkv1 # NONE
      <3>1. i \in 0 .. n
        BY <2>1 DEF Reaches
      <3>2. Descends(R, i, l, own)
        BY <3>1, <2>1, <1>1, ListReached
      <3>3. PICK x : x = R[i]
        OBVIOUS
      <3>4. /\ x \in DOMAIN own /\ own[x] = l
            /\ inst.counts[x].last = IF i = 0 THEN NONE ELSE R[i - 1]
        BY <3>2, <3>3, <2>4 DEF Descends
      <3>5. inst.counts[x].next = NONE <=> inst.counts_hi[l] = x
        BY <3>4, <1>1, CountLinks
      <3>6. ASSUME inst.counts[x].next # NONE
            PROVE  inst.counts[x].count < inst.counts[inst.counts[x].next].count
        <4>1. PICK y : y = inst.counts[x].next
          OBVIOUS
        <4>2. y \in DOMAIN own /\ inst.counts[y].count > inst.counts[x].count
          BY <4>1, <3>4, <3>6, <1>1, CountLinks
        <4>3. inst.counts[y].count \in Nat /\ inst.counts[x].count \in Nat
          BY <4>2, <3>4, <1>1, CountLinks
        <4> QED
          BY <4>1, <4>2, <4>3
      <3>7. inst.counts[x].hkv1 # NONE
        BY <3>4, <1>1 DEF HasKeys
      <3> QED
        BY <3>3, <3>4, <3>5, <3>6, <3>7
    <2> QED
      BY <2>2, <2>3, <2>4
  <1> QED
    BY <1>2, <1>3 DEF ListsSorted

(* F is what the free list reaches, and the rest is in use. *)
LEMMA InvFrees == CountsInv => FreeListSound
  <1> SUFFICES ASSUME CountsInv PROVE FreeListSound
    OBVIOUS
  <1>1. PICK own, rk, F : /\ Shape(inst, DOMAIN inst.val, own, rk, F) /\ HasKeys(inst, own)
    BY DEF CountsInv, Good
  <1>n. PICK n \in Nat : n = inst.counts_size
    BY <1>1, InstTyped DEF Shape
  <1>f. PICK f \in Nat : f = inst.counts_free
    BY <1>1, InstTyped DEF Shape
  <1>D. PICK D : D = DOMAIN inst.counts /\ D = 1 .. n - 1
    BY <1>1, <1>n, InstTyped DEF Shape
  <1>2. /\ F \in [1 .. f -> D] /\ IsInjective(F)
        /\ f > 0 => inst.counts_next_free = F[1]
        /\ \A i \in 1 .. f - 1 : inst.counts[F[i]].next = F[i + 1]
    BY <1>1, <1>f, <1>D DEF Shape, FreeIs
  <1>3. PICK R : R = Reach(inst.counts_next_free)
    OBVIOUS
  <1>4. Reaches(R, inst.counts_next_free, n)
    BY <1>3, <1>n, ReachIs
  <1>5. IsFiniteSet(Range(F)) /\ Cardinality(Range(F)) = f
    <2>1. F \in Bijection(1 .. f, Range(F))
      BY <1>2 DEF Bijection, Injection, Surjection, IsInjective, Range
    <2> QED
      BY <2>1, FS_CountingElements, FS_NatBijection DEF ExistsBijection
  <1>6. f <= n
    <2>1. IsFiniteSet(D) /\ Cardinality(D) <= n
      <3>1. PICK h \in Int : h = n - 1
        OBVIOUS
      <3>2. IsFiniteSet(1 .. h) /\ Cardinality(1 .. h) = IF 1 > h THEN 0 ELSE (h - 1) + 1
        <4>1. 1 \in Int /\ h \in Int
          OBVIOUS
        <4> QED
          BY <4>1, FS_Interval
      <3> QED
        BY <3>1, <3>2, <1>D
    <2>2. Range(F) \subseteq D
      BY <1>2 DEF Range
    <2>3. Cardinality(Range(F)) <= Cardinality(D)
      BY <2>1, <2>2, FS_Subset
    <2>4. Cardinality(D) \in Nat
      BY <2>1, FS_CardinalityType
    <2> QED
      BY <2>1, <2>3, <2>4, <1>5
  <1>7. \A i \in 0 .. f - 1 : R[i] = F[i + 1]
    <2> DEFINE Bad == {i \in 0 .. f - 1 : R[i] # F[i + 1]}
    <2>0. Bad \in SUBSET Nat
      OBVIOUS
    <2>1. SUFFICES ASSUME Bad # {} PROVE FALSE
      OBVIOUS
    <2>2. PICK k \in Bad : \A i \in Bad : k <= i
      BY <2>0, <2>1, Least
    <2>3. k \in 0 .. f - 1 /\ R[k] # F[k + 1]
      OBVIOUS
    <2>4. CASE k = 0
      <3>1. R[0] = inst.counts_next_free
        BY <1>4 DEF Reaches
      <3>2. f > 0 /\ k + 1 = 1
        BY <2>3, <2>4
      <3> QED
        BY <2>3, <2>4, <3>1, <3>2, <1>2
    <2>5. CASE k # 0
      <3>1. /\ k - 1 \in 0 .. f - 1 /\ k - 1 \notin Bad /\ k - 1 \in 0 .. n - 1 /\ (k - 1) + 1 = k
            /\ k \in 1 .. f - 1 /\ k \in 1 .. f
        BY <2>2, <2>3, <2>5, <1>6
      <3>2. R[k - 1] = F[k]
        BY <3>1
      <3>3. R[k] = Onward(R[k - 1])
        BY <3>1, <1>4 DEF Reaches
      <3>4. F[k] \in D /\ NONE \notin D
        BY <3>1, <1>2, <1>D DEF NONE
      <3>5. R[k] = inst.counts[F[k]].next
        BY <3>2, <3>3, <3>4 DEF Onward
      <3>6. inst.counts[F[k]].next = F[k + 1]
        BY <3>1, <1>2
      <3> QED
        BY <2>3, <3>5, <3>6
    <2> QED
      BY <2>4, <2>5
  <1>8. {R[i] : i \in 0 .. f - 1} = Range(F)
    <2>1. ASSUME NEW x \in Range(F) PROVE x \in {R[i] : i \in 0 .. f - 1}
      <3>1. PICK i \in 1 .. f : x = F[i]
        BY <2>1, <1>2 DEF Range
      <3>2. i - 1 \in 0 .. f - 1 /\ (i - 1) + 1 = i
        OBVIOUS
      <3>3. x = R[i - 1]
        BY <3>1, <3>2, <1>7
      <3> QED
        BY <3>2, <3>3
    <2>2. ASSUME NEW i \in 0 .. f - 1 PROVE R[i] \in Range(F)
      <3>1. i + 1 \in 1 .. f
        OBVIOUS
      <3> QED
        BY <3>1, <1>2, <1>7 DEF Range
    <2> QED
      BY <2>1, <2>2
  <1>9. {inst.val[k].count_to_use : k \in DOMAIN inst.val} = DOMAIN own
    <2>1. ASSUME NEW c \in DOMAIN own PROVE c \in {inst.val[k].count_to_use : k \in DOMAIN inst.val}
      <3>1. PICK k : k = inst.counts[c].hkv1
        OBVIOUS
      <3>2. k \in DOMAIN inst.val /\ inst.val[k].count_to_use = c
        BY <3>1, <1>1, KeyOfCount
      <3> QED
        BY <3>2
    <2>2. \A k \in DOMAIN inst.val : inst.val[k].count_to_use \in DOMAIN own
      BY <1>1 DEF Shape
    <2> QED
      BY <2>1, <2>2
  <1>10. DOMAIN own = D \ Range(F) /\ inst.counts_used = Cardinality(DOMAIN own)
    <2>1. own \in [DOMAIN inst.counts \ Range(F) -> List]
      BY <1>1 DEF Shape
    <2>2. inst.counts_used = Cardinality(DOMAIN own)
      BY <1>1 DEF Shape
    <2> QED
      BY <2>1, <2>2, <1>D
  <1>11. Range(F) \subseteq D
    BY <1>2 DEF Range
  <1>12. PICK free, used : /\ free = {R[i] : i \in 0 .. f - 1}
                           /\ used = {inst.val[k].count_to_use : k \in DOMAIN inst.val}
    OBVIOUS
  <1>13. /\ Cardinality(free) = f /\ Cardinality(used) = inst.counts_used
         /\ free \intersect used = {} /\ free \union used = DOMAIN inst.counts
    BY <1>5, <1>8, <1>9, <1>10, <1>11, <1>12, <1>D
  <1> QED
    BY <1>3, <1>12, <1>13, <1>f DEF FreeListSound

(* Every key's count is right, the counts of a list are linked both ways and sorted,
   and the free list has the rest, after any increments, reboots and walks in any
   order: for all keys, any number of lists and pages of any size. *)
THEOREM CountersSorted == ~ MixLists => (CountsSpec => []CountsSound)
  <1>1. SUFFICES ASSUME ~ MixLists PROVE CountsSpec => []CountsSound
    OBVIOUS
  <1>2. CountsInit => CountsInv
    BY FreshInv
  <1>3. CountsInv /\ [CountsNext]_countVars => CountsInv'
    BY <1>1, NextKeepsCountsInv
  <1>4. CountsInv => CountsSound
    <2> SUFFICES ASSUME CountsInv PROVE CountsSound
      OBVIOUS
    <2>1. PICK own, rk, F : /\ Shape(inst, DOMAIN inst.val, own, rk, F)
                            /\ Right(inst, DOMAIN inst.val, own, tally, listOf)
      BY DEF CountsInv, Good
    <2>2. CountsRight
      BY <2>1 DEF CountsInv, CountsRight, Right
    <2>3. NeverImpossible
      BY <2>1 DEF Shape, NeverImpossible
    <2> QED
      BY <2>2, <2>3, InvSorts, InvFrees DEF CountsSound
  <1> QED
    BY <1>2, <1>3, <1>4, PTL DEF CountsSpec
-----------------------------------------------------------------------------
(* Walks.  The ghost order of Good, once more: a key comes before another if its
   count is further in front, or is the same and the chain has it in front. *)
Ordered(i, T, L, own, rk, F) ==
    /\ Shape(i, DOMAIN i.val, own, rk, F) /\ HasKeys(i, own) /\ Right(i, DOMAIN i.val, own, T, L)
    /\ T \in [Counter -> Nat] /\ DOMAIN L = DOMAIN i.val
KeysOf(L, l) == {k \in DOMAIN L : L[k] = l}
Before(T, rk, dir, j, k) ==
    \/ IF dir = "hi2lo" THEN T[j] > T[k] ELSE T[j] < T[k]
    \/ T[j] = T[k] /\ rk[j] < rk[k]

(* A key of list l and its count. *)
LEMMA KeyFacts ==
    ASSUME NEW own, NEW rk, NEW F, Ordered(inst, tally, listOf, own, rk, F), NEW l \in List,
           NEW p \in KeysOf(listOf, l), NEW c, c = inst.val[p].count_to_use
    PROVE  /\ p \in DOMAIN inst.val /\ p \in Counter /\ tally[p] \in Nat /\ rk[p] \in Int
           /\ c \in DOMAIN own /\ own[c] = l /\ c \in On(own, l) /\ c \in DOMAIN inst.counts
           /\ inst.counts[c].count = tally[p] /\ CountOf(inst)[c] = tally[p]
           /\ c # NONE /\ p # NONE /\ p \in Chain(inst, DOMAIN inst.val, c)
  <1>1. p \in DOMAIN inst.val /\ listOf[p] = l /\ Shape(inst, DOMAIN inst.val, own, rk, F)
    BY DEF Ordered, KeysOf
  <1>2. /\ DOMAIN inst.val \subseteq Counter /\ NONE \notin DOMAIN inst.counts /\ NONE \notin DOMAIN inst.val
        /\ rk \in [Counter -> Int]
    BY <1>1, ShapeParts
  <1>3. c \in DOMAIN own
    BY <1>1 DEF Shape
  <1>4. own[c] = l /\ inst.counts[c].count = tally[p]
    BY <1>1 DEF Ordered, Right
  <1>5. c \in DOMAIN inst.counts
    BY <1>1, <1>3, CountLinks
  <1>6. tally[p] \in Nat
    BY <1>1, <1>2 DEF Ordered
  <1>7. c \in On(own, l) /\ p \in Chain(inst, DOMAIN inst.val, c)
    BY <1>1, <1>3, <1>4 DEF On, Chain
  <1>8. CountOf(inst)[c] = tally[p]
    BY <1>4, <1>5 DEF CountOf
  <1> QED
    BY <1>1, <1>2, <1>3, <1>4, <1>5, <1>6, <1>7, <1>8

(* Keys of one list with the same count share it. *)
LEMMA SameTally ==
    ASSUME NEW own, NEW rk, NEW F, Ordered(inst, tally, listOf, own, rk, F), NEW l \in List,
           NEW p \in KeysOf(listOf, l), NEW j \in KeysOf(listOf, l), tally[j] = tally[p]
    PROVE  /\ inst.val[j].count_to_use = inst.val[p].count_to_use
           /\ rk[j] = rk[p] => j = p
  <1>1. PICK c, d : c = inst.val[p].count_to_use /\ d = inst.val[j].count_to_use
    OBVIOUS
  <1>2. c \in On(own, l) /\ CountOf(inst)[c] = tally[p] /\ c \in DOMAIN own /\ p \in Chain(inst, DOMAIN inst.val, c)
    BY <1>1, KeyFacts
  <1>3. d \in On(own, l) /\ CountOf(inst)[d] = tally[j] /\ j \in Chain(inst, DOMAIN inst.val, d)
    BY <1>1, KeyFacts
  <1>4. Linked(On(own, l), CountOf(inst), CountNext(inst), CountLast(inst), inst.counts_lo[l])
    BY DEF Ordered, Shape, ListsOf
  <1>5. c = d
    BY <1>2, <1>3, <1>4 DEF Linked
  <1>6. Linked(Chain(inst, DOMAIN inst.val, c), rk, KeyNext(inst), KeyLast(inst), inst.counts[c].hkv1)
    BY <1>2 DEF Ordered, Shape, ChainsOf
  <1>7. rk[j] = rk[p] => j = p
    BY <1>2, <1>3, <1>5, <1>6 DEF Linked
  <1> QED
    BY <1>1, <1>5, <1>7

(* The next key of the chain is the next of those with the same count. *)
NextKey(p, q, l, T, L, rk) ==
    IF q = NONE THEN \A j \in KeysOf(L, l) : T[j] = T[p] => rk[j] <= rk[p]
    ELSE /\ q \in KeysOf(L, l) /\ T[q] = T[p] /\ rk[q] > rk[p]
         /\ \A j \in KeysOf(L, l) : T[j] = T[p] => rk[j] <= rk[p] \/ rk[j] >= rk[q]

LEMMA NextKeyIs ==
    ASSUME NEW own, NEW rk, NEW F, Ordered(inst, tally, listOf, own, rk, F), NEW l \in List,
           NEW p \in KeysOf(listOf, l), NEW q, q = inst.val[p].next
    PROVE  /\ NextKey(p, q, l, tally, listOf, rk)
           /\ q # NONE => inst.val[q].count_to_use = inst.val[p].count_to_use
  <1>1. PICK c : c = inst.val[p].count_to_use
    OBVIOUS
  <1>2. c \in DOMAIN own /\ p \in Chain(inst, DOMAIN inst.val, c) /\ p \in DOMAIN inst.val /\ rk[p] \in Int
    BY <1>1, KeyFacts
  <1>3. PICK C : C = Chain(inst, DOMAIN inst.val, c)
    OBVIOUS
  <1>4. Linked(C, rk, KeyNext(inst), KeyLast(inst), inst.counts[c].hkv1)
    BY <1>2, <1>3 DEF Ordered, Shape, ChainsOf
  <1>5. KeyNext(inst)[p] = q
    BY <1>2 DEF KeyNext
  <1>6. IsNext(C, rk, p, q) /\ NONE \notin C /\ \A z \in C : rk[z] \in Int
    BY <1>2, <1>3, <1>4, <1>5 DEF Linked
  <1>7. ASSUME NEW j \in KeysOf(listOf, l), tally[j] = tally[p] PROVE j \in C
    <2>1. inst.val[j].count_to_use = c
      BY <1>1, <1>7, SameTally
    <2>2. j \in DOMAIN inst.val
      BY KeyFacts
    <2> QED
      BY <2>1, <2>2, <1>3 DEF Chain
  <1>8. ASSUME NEW j \in C PROVE j \in KeysOf(listOf, l) /\ tally[j] = tally[p] /\ inst.val[j].count_to_use = c
    <2>1. j \in DOMAIN inst.val /\ inst.val[j].count_to_use = c
      BY <1>3 DEF Chain
    <2>2. Right(inst, DOMAIN inst.val, own, tally, listOf) /\ DOMAIN listOf = DOMAIN inst.val
      BY DEF Ordered
    <2>3. own[c] = listOf[j] /\ inst.counts[c].count = tally[j]
      BY <2>1, <2>2 DEF Right
    <2>4. own[c] = l /\ inst.counts[c].count = tally[p]
      BY <1>1, KeyFacts
    <2> QED
      BY <2>1, <2>2, <2>3, <2>4 DEF KeysOf
  <1>9. CASE q = NONE
    <2>1. \A z \in C : ~ (rk[z] > rk[p])
      BY <1>6, <1>9 DEF IsNext
    <2> QED
      BY <2>1, <1>2, <1>6, <1>7, <1>9 DEF NextKey
  <1>10. CASE q # NONE
    <2>1. q \in C /\ rk[q] > rk[p] /\ \A z \in C : rk[z] > rk[p] => rk[z] >= rk[q]
      BY <1>6, <1>10 DEF IsNext
    <2>2. q \in KeysOf(listOf, l) /\ tally[q] = tally[p] /\ inst.val[q].count_to_use = c
      BY <2>1, <1>8
    <2>3. \A j \in KeysOf(listOf, l) : tally[j] = tally[p] => rk[j] <= rk[p] \/ rk[j] >= rk[q]
      BY <2>1, <1>2, <1>6, <1>7
    <2> QED
      BY <2>1, <2>2, <2>3, <1>1, <1>10 DEF NextKey
  <1> QED
    BY <1>9, <1>10

(* The first key of a count comes before the others with that count. *)
FirstKey(h, w, n, l, i, T, L, rk) ==
    /\ h \in KeysOf(L, l) /\ i.val[h].count_to_use = w /\ T[h] = n
    /\ \A j \in KeysOf(L, l) : T[j] = n => rk[h] <= rk[j]

LEMMA FirstKeyIs ==
    ASSUME NEW own, NEW rk, NEW F, Ordered(inst, tally, listOf, own, rk, F), NEW l \in List,
           NEW w \in DOMAIN own, own[w] = l, NEW h, h = inst.counts[w].hkv1
    PROVE  FirstKey(h, w, inst.counts[w].count, l, inst, tally, listOf, rk)
  <1>0. Shape(inst, DOMAIN inst.val, own, rk, F) /\ HasKeys(inst, own)
    BY DEF Ordered
  <1>1. h \in DOMAIN inst.val /\ inst.val[h].count_to_use = w
    BY <1>0, KeyOfCount
  <1>2. Right(inst, DOMAIN inst.val, own, tally, listOf) /\ DOMAIN listOf = DOMAIN inst.val
    BY DEF Ordered
  <1>3. listOf[h] = l /\ tally[h] = inst.counts[w].count
    BY <1>1, <1>2 DEF Right
  <1>4. h \in KeysOf(listOf, l)
    BY <1>1, <1>2, <1>3 DEF KeysOf
  <1>5. Linked(Chain(inst, DOMAIN inst.val, w), rk, KeyNext(inst), KeyLast(inst), h)
    BY <1>0 DEF Shape, ChainsOf
  <1>6. Lowest(Chain(inst, DOMAIN inst.val, w), rk, h)
    BY <1>5 DEF Linked
  <1>7. ASSUME NEW j \in KeysOf(listOf, l), tally[j] = inst.counts[w].count PROVE rk[h] <= rk[j]
    <2>1. inst.val[j].count_to_use = w
      BY <1>1, <1>3, <1>4, <1>7, SameTally
    <2>2. j \in DOMAIN inst.val
      BY KeyFacts
    <2>3. j \in Chain(inst, DOMAIN inst.val, w)
      BY <2>1, <2>2 DEF Chain
    <2> QED
      BY <2>3, <1>6 DEF Lowest
  <1> QED
    BY <1>1, <1>3, <1>4, <1>7 DEF FirstKey

(* The next count of the list, either way, is the next that any key has. *)
NextCount(p, w, l, i, own, T, L) ==
    IF w = NONE THEN \A j \in KeysOf(L, l) : ~ (T[j] > T[p])
    ELSE /\ w \in DOMAIN own /\ own[w] = l /\ i.counts[w].count \in Nat /\ i.counts[w].count > T[p]
         /\ \A j \in KeysOf(L, l) : T[j] > T[p] => T[j] >= i.counts[w].count
LastCount(p, w, l, i, own, T, L) ==
    IF w = NONE THEN \A j \in KeysOf(L, l) : ~ (T[j] < T[p])
    ELSE /\ w \in DOMAIN own /\ own[w] = l /\ i.counts[w].count \in Nat /\ i.counts[w].count < T[p]
         /\ \A j \in KeysOf(L, l) : T[j] < T[p] => T[j] <= i.counts[w].count

LEMMA NextCountIs ==
    ASSUME NEW own, NEW rk, NEW F, Ordered(inst, tally, listOf, own, rk, F), NEW l \in List,
           NEW p \in KeysOf(listOf, l), NEW c, c = inst.val[p].count_to_use
    PROVE  /\ NextCount(p, inst.counts[c].next, l, inst, own, tally, listOf)
           /\ LastCount(p, inst.counts[c].last, l, inst, own, tally, listOf)
  <1>1. PICK U, ord : U = On(own, l) /\ ord = CountOf(inst)
    OBVIOUS
  <1>2. c \in U /\ ord[c] = tally[p] /\ c \in DOMAIN inst.counts
    BY <1>1, KeyFacts
  <1>3. Linked(U, ord, CountNext(inst), CountLast(inst), inst.counts_lo[l])
    BY <1>1 DEF Ordered, Shape, ListsOf
  <1>4. CountNext(inst)[c] = inst.counts[c].next /\ CountLast(inst)[c] = inst.counts[c].last
    BY <1>2 DEF CountNext, CountLast
  <1>5. /\ IsNext(U, ord, c, inst.counts[c].next) /\ IsLast(U, ord, c, inst.counts[c].last)
        /\ NONE \notin U /\ \A z \in U : ord[z] \in Int
    BY <1>2, <1>3, <1>4 DEF Linked
  <1>6. ASSUME NEW j \in KeysOf(listOf, l)
        PROVE  \E d \in U : ord[d] = tally[j]
    <2>1. PICK d : d = inst.val[j].count_to_use
      OBVIOUS
    <2>2. d \in On(own, l) /\ CountOf(inst)[d] = tally[j]
      BY <2>1, KeyFacts
    <2> QED
      BY <2>2, <1>1
  <1>7. ASSUME NEW d \in U
        PROVE  d \in DOMAIN own /\ own[d] = l /\ inst.counts[d].count \in Nat /\ inst.counts[d].count = ord[d]
    <2>1. d \in DOMAIN own /\ own[d] = l
      BY <1>1 DEF On
    <2>2. d \in DOMAIN inst.counts /\ inst.counts[d].count \in Nat
      BY <2>1, CountLinks DEF Ordered
    <2> QED
      BY <2>1, <2>2, <1>1 DEF CountOf
  <1>8. NextCount(p, inst.counts[c].next, l, inst, own, tally, listOf)
    <2>1. PICK w : w = inst.counts[c].next
      OBVIOUS
    <2>2. IsNext(U, ord, c, w)
      BY <2>1, <1>5
    <2>3. CASE w = NONE
      <3>1. \A z \in U : ~ (ord[z] > ord[c])
        BY <2>2, <2>3, <1>5 DEF IsNext
      <3>2. \A j \in KeysOf(listOf, l) : ~ (tally[j] > tally[p])
        BY <3>1, <1>2, <1>6
      <3> QED
        BY <2>1, <2>3, <3>2 DEF NextCount
    <2>4. CASE w # NONE
      <3>1. w \in U /\ ord[w] > ord[c] /\ \A z \in U : ord[z] > ord[c] => ord[z] >= ord[w]
        BY <2>2, <2>4 DEF IsNext
      <3>2. \A j \in KeysOf(listOf, l) : tally[j] > tally[p] => tally[j] >= ord[w]
        BY <3>1, <1>2, <1>6
      <3>3. /\ w \in DOMAIN own /\ own[w] = l /\ inst.counts[w].count \in Nat
            /\ inst.counts[w].count = ord[w]
        BY <3>1, <1>7
      <3> QED
        BY <2>1, <2>4, <3>1, <3>2, <3>3, <1>2 DEF NextCount
    <2> QED
      BY <2>3, <2>4
  <1>9. LastCount(p, inst.counts[c].last, l, inst, own, tally, listOf)
    <2>1. PICK w : w = inst.counts[c].last
      OBVIOUS
    <2>2. IsLast(U, ord, c, w)
      BY <2>1, <1>5
    <2>3. CASE w = NONE
      <3>1. \A z \in U : ~ (ord[z] < ord[c])
        BY <2>2, <2>3, <1>5 DEF IsLast
      <3>2. \A j \in KeysOf(listOf, l) : ~ (tally[j] < tally[p])
        BY <3>1, <1>2, <1>6
      <3> QED
        BY <2>1, <2>3, <3>2 DEF LastCount
    <2>4. CASE w # NONE
      <3>1. w \in U /\ ord[w] < ord[c] /\ \A z \in U : ord[z] < ord[c] => ord[z] <= ord[w]
        BY <2>2, <2>4 DEF IsLast
      <3>2. \A j \in KeysOf(listOf, l) : tally[j] < tally[p] => tally[j] <= ord[w]
        BY <3>1, <1>2, <1>6
      <3>3. /\ w \in DOMAIN own /\ own[w] = l /\ inst.counts[w].count \in Nat
            /\ inst.counts[w].count = ord[w]
        BY <3>1, <1>7
      <3> QED
        BY <2>1, <2>4, <3>1, <3>2, <3>3, <1>2 DEF LastCount
    <2> QED
      BY <2>3, <2>4
  <1> QED
    BY <1>8, <1>9

(* After p a walk is at h: the keys before h are p and those before p; or it is over,
   and there are no others. *)
Advances(p, to, h, dir, l, i, T, L, rk) ==
    IF to = NONE THEN \A j \in KeysOf(L, l) : j = p \/ Before(T, rk, dir, j, p)
    ELSE /\ h \in KeysOf(L, l) /\ i.val[h].count_to_use = to
         /\ \A j \in KeysOf(L, l) : Before(T, rk, dir, j, h) <=> (j = p \/ Before(T, rk, dir, j, p))

(* One call of sxe_cdb_instance_walk goes to the next key in that order. *)
LEMMA WalkAdvances ==
    ASSUME NEW own, NEW rk, NEW F, Ordered(inst, tally, listOf, own, rk, F), NEW l \in List,
           NEW p \in KeysOf(listOf, l), NEW c, c = inst.val[p].count_to_use, NEW q, q = inst.val[p].next,
           NEW dir, NEW to, to = IF q = NONE THEN Beyond(dir, c) ELSE c,
           NEW h, h = IF q = NONE THEN FirstOf(to) ELSE q
    PROVE  Advances(p, to, h, dir, l, inst, tally, listOf, rk)
  <1>1. \A j \in KeysOf(listOf, l) : tally[j] \in Nat /\ rk[j] \in Int
    BY KeyFacts
  <1>2. /\ NextKey(p, q, l, tally, listOf, rk)
        /\ q # NONE => inst.val[q].count_to_use = c
    BY NextKeyIs
  <1>3. \A j \in KeysOf(listOf, l) : tally[j] = tally[p] /\ rk[j] = rk[p] => j = p
    BY SameTally
  <1>4. c # NONE
    BY KeyFacts
  <1>5. CASE q # NONE
    <2>1. h = q /\ to = c /\ inst.val[h].count_to_use = to
      BY <1>2, <1>5
    <2>2. /\ q \in KeysOf(listOf, l) /\ tally[q] = tally[p] /\ rk[q] > rk[p]
          /\ \A j \in KeysOf(listOf, l) : tally[j] = tally[p] => rk[j] <= rk[p] \/ rk[j] >= rk[q]
      BY <1>2, <1>5 DEF NextKey
    <2>3. ASSUME NEW j \in KeysOf(listOf, l)
          PROVE  Before(tally, rk, dir, j, q) <=> (j = p \/ Before(tally, rk, dir, j, p))
      <3>1. tally[j] \in Nat /\ tally[p] \in Nat /\ rk[j] \in Int /\ rk[p] \in Int /\ rk[q] \in Int
        BY <2>2, <1>1
      <3>2. tally[j] = tally[p] => (rk[j] < rk[q] <=> rk[j] <= rk[p])
        BY <2>2, <3>1
      <3>3. tally[j] = tally[p] => (rk[j] <= rk[p] <=> j = p \/ rk[j] < rk[p])
        BY <3>1, <1>3
      <3> QED
        BY <2>2, <3>1, <3>2, <3>3 DEF Before
    <2> QED
      BY <2>1, <2>2, <2>3, <1>4 DEF Advances
  <1>6. CASE q = NONE
    <2>1. \A j \in KeysOf(listOf, l) : tally[j] = tally[p] => rk[j] <= rk[p]
      BY <1>2, <1>6 DEF NextKey
    <2>2. to = Beyond(dir, c) /\ h = FirstOf(to)
      BY <1>6
    <2>3. \A j \in KeysOf(listOf, l) : tally[j] = tally[p] => j = p \/ rk[j] < rk[p]
      BY <2>1, <1>1, <1>3
    <2>4. /\ NextCount(p, inst.counts[c].next, l, inst, own, tally, listOf)
          /\ LastCount(p, inst.counts[c].last, l, inst, own, tally, listOf)
      BY NextCountIs
    <2>5. CASE dir = "hi2lo"
      <3>1. LastCount(p, to, l, inst, own, tally, listOf)
        BY <2>2, <2>4, <2>5 DEF Beyond
      <3>2. CASE to = NONE
        <4>1. \A j \in KeysOf(listOf, l) : ~ (tally[j] < tally[p])
          BY <3>1, <3>2 DEF LastCount
        <4>2. ASSUME NEW j \in KeysOf(listOf, l) PROVE j = p \/ Before(tally, rk, dir, j, p)
          BY <4>1, <2>3, <2>5, <1>1 DEF Before
        <4> QED
          BY <3>2, <4>2 DEF Advances
      <3>3. CASE to # NONE
        <4>1. PICK n \in Nat : n = inst.counts[to].count
          BY <3>1, <3>3 DEF LastCount
        <4>2. /\ to \in DOMAIN own /\ own[to] = l /\ n < tally[p]
              /\ \A j \in KeysOf(listOf, l) : tally[j] < tally[p] => tally[j] <= n
          BY <3>1, <3>3, <4>1 DEF LastCount
        <4>3. h = inst.counts[to].hkv1
          BY <2>2, <3>3 DEF FirstOf
        <4>4. FirstKey(h, to, n, l, inst, tally, listOf, rk)
          BY <4>1, <4>2, <4>3, FirstKeyIs
        <4>5. /\ h \in KeysOf(listOf, l) /\ inst.val[h].count_to_use = to /\ tally[h] = n
              /\ \A j \in KeysOf(listOf, l) : tally[j] = n => rk[h] <= rk[j]
          BY <4>4 DEF FirstKey
        <4>6. ASSUME NEW j \in KeysOf(listOf, l)
              PROVE  Before(tally, rk, dir, j, h) <=> (j = p \/ Before(tally, rk, dir, j, p))
          <5>1. tally[j] \in Nat /\ tally[p] \in Nat /\ rk[j] \in Int /\ rk[p] \in Int /\ rk[h] \in Int
            BY <4>5, <1>1
          <5>2. Before(tally, rk, dir, j, h) <=> tally[j] > n
            BY <2>5, <4>5, <5>1 DEF Before
          <5>3. (j = p \/ Before(tally, rk, dir, j, p)) <=> tally[j] >= tally[p]
            BY <2>3, <2>5, <5>1 DEF Before
          <5>4. tally[j] > n <=> tally[j] >= tally[p]
            BY <4>2, <5>1
          <5> QED
            BY <5>2, <5>3, <5>4
        <4> QED
          BY <3>3, <4>5, <4>6 DEF Advances
      <3> QED
        BY <3>2, <3>3
    <2>6. CASE dir # "hi2lo"
      <3>1. NextCount(p, to, l, inst, own, tally, listOf)
        BY <2>2, <2>4, <2>6 DEF Beyond
      <3>2. CASE to = NONE
        <4>1. \A j \in KeysOf(listOf, l) : ~ (tally[j] > tally[p])
          BY <3>1, <3>2 DEF NextCount
        <4>2. ASSUME NEW j \in KeysOf(listOf, l) PROVE j = p \/ Before(tally, rk, dir, j, p)
          BY <4>1, <2>3, <2>6, <1>1 DEF Before
        <4> QED
          BY <3>2, <4>2 DEF Advances
      <3>3. CASE to # NONE
        <4>1. PICK n \in Nat : n = inst.counts[to].count
          BY <3>1, <3>3 DEF NextCount
        <4>2. /\ to \in DOMAIN own /\ own[to] = l /\ n > tally[p]
              /\ \A j \in KeysOf(listOf, l) : tally[j] > tally[p] => tally[j] >= n
          BY <3>1, <3>3, <4>1 DEF NextCount
        <4>3. h = inst.counts[to].hkv1
          BY <2>2, <3>3 DEF FirstOf
        <4>4. FirstKey(h, to, n, l, inst, tally, listOf, rk)
          BY <4>1, <4>2, <4>3, FirstKeyIs
        <4>5. /\ h \in KeysOf(listOf, l) /\ inst.val[h].count_to_use = to /\ tally[h] = n
              /\ \A j \in KeysOf(listOf, l) : tally[j] = n => rk[h] <= rk[j]
          BY <4>4 DEF FirstKey
        <4>6. ASSUME NEW j \in KeysOf(listOf, l)
              PROVE  Before(tally, rk, dir, j, h) <=> (j = p \/ Before(tally, rk, dir, j, p))
          <5>1. tally[j] \in Nat /\ tally[p] \in Nat /\ rk[j] \in Int /\ rk[p] \in Int /\ rk[h] \in Int
            BY <4>5, <1>1
          <5>2. Before(tally, rk, dir, j, h) <=> tally[j] < n
            BY <2>6, <4>5, <5>1 DEF Before
          <5>3. (j = p \/ Before(tally, rk, dir, j, p)) <=> tally[j] <= tally[p]
            BY <2>3, <2>6, <5>1 DEF Before
          <5>4. tally[j] < n <=> tally[j] <= tally[p]
            BY <4>2, <5>1
          <5> QED
            BY <5>2, <5>3, <5>4
        <4> QED
          BY <3>3, <4>5, <4>6 DEF Advances
      <3> QED
        BY <3>2, <3>3
    <2> QED
      BY <2>5, <2>6
  <1> QED
    BY <1>5, <1>6

(* A walk starts before all keys of the list. *)
Starts(c, h, dir, l, i, T, L, rk) ==
    IF c = NONE THEN KeysOf(L, l) = {}
    ELSE /\ h \in KeysOf(L, l) /\ i.val[h].count_to_use = c
         /\ \A j \in KeysOf(L, l) : ~ Before(T, rk, dir, j, h)

LEMMA WalkStarts ==
    ASSUME NEW own, NEW rk, NEW F, Ordered(inst, tally, listOf, own, rk, F), NEW l \in List,
           NEW dir, NEW c, c = StartOf(dir, l), NEW h, h = FirstOf(c)
    PROVE  Starts(c, h, dir, l, inst, tally, listOf, rk)
  <1>1. PICK U, ord : U = On(own, l) /\ ord = CountOf(inst)
    OBVIOUS
  <1>2. /\ Linked(U, ord, CountNext(inst), CountLast(inst), inst.counts_lo[l])
        /\ Highest(U, ord, inst.counts_hi[l])
    BY <1>1 DEF Ordered, Shape, ListsOf
  <1>3. Lowest(U, ord, inst.counts_lo[l]) /\ NONE \notin U /\ \A z \in U : ord[z] \in Int
    BY <1>2 DEF Linked
  <1>4. ASSUME NEW j \in KeysOf(listOf, l)
        PROVE  /\ tally[j] \in Nat /\ rk[j] \in Int /\ \E d \in U : ord[d] = tally[j]
    <2>1. PICK d : d = inst.val[j].count_to_use
      OBVIOUS
    <2>2. d \in On(own, l) /\ CountOf(inst)[d] = tally[j]
      BY <2>1, KeyFacts
    <2>3. tally[j] \in Nat /\ rk[j] \in Int
      BY KeyFacts
    <2> QED
      BY <2>2, <2>3, <1>1
  <1>5. CASE c = NONE
    <2>1. U = {}
      BY <1>2, <1>3, <1>5 DEF Lowest, Highest, StartOf
    <2> QED
      BY <2>1, <1>4, <1>5 DEF Starts
  <1>6. CASE c # NONE
    <2>1. /\ c \in U
          /\ IF dir = "hi2lo" THEN \A z \in U : ord[z] <= ord[c] ELSE \A z \in U : ord[c] <= ord[z]
      BY <1>2, <1>3, <1>6 DEF Lowest, Highest, StartOf
    <2>2. c \in DOMAIN own /\ own[c] = l
      BY <2>1, <1>1 DEF On
    <2>3. c \in DOMAIN inst.counts
      BY <2>2, CountLinks DEF Ordered
    <2>4. ord[c] = inst.counts[c].count
      BY <2>3, <1>1 DEF CountOf
    <2>5. h = inst.counts[c].hkv1
      BY <1>6 DEF FirstOf
    <2>6. FirstKey(h, c, inst.counts[c].count, l, inst, tally, listOf, rk)
      BY <2>2, <2>5, FirstKeyIs
    <2>7. /\ h \in KeysOf(listOf, l) /\ inst.val[h].count_to_use = c /\ tally[h] = ord[c]
          /\ \A j \in KeysOf(listOf, l) : tally[j] = ord[c] => rk[h] <= rk[j]
      BY <2>4, <2>6 DEF FirstKey
    <2>8. ASSUME NEW j \in KeysOf(listOf, l) PROVE ~ Before(tally, rk, dir, j, h)
      <3>1. tally[j] \in Nat /\ tally[h] \in Nat /\ rk[j] \in Int /\ rk[h] \in Int
        BY <2>7, <1>4
      <3>2. IF dir = "hi2lo" THEN tally[j] <= tally[h] ELSE tally[h] <= tally[j]
        BY <2>1, <2>7, <1>4
      <3> QED
        BY <2>7, <3>1, <3>2 DEF Before
    <2> QED
      BY <2>7, <2>8, <1>6 DEF Starts
  <1> QED
    BY <1>5, <1>6

(* A walk has seen the keys before the one it is at, in order, each once. *)
IsWalk(w) == w \in [dir : {"hi2lo", "lo2hi"}, list : List, cnt : Nat, hkv : Nat, seen : Seq(Counter \X Nat)]
SeenRight(s, dir, l, T, L, rk) ==
    /\ \A i \in DOMAIN s : s[i][1] \in KeysOf(L, l) /\ s[i][2] = T[s[i][1]]
    /\ \A i, j \in DOMAIN s : i < j => Before(T, rk, dir, s[i][1], s[j][1])
IsSeen(s, k) == \E i \in DOMAIN s : s[i][1] = k
SeenBefore(s, c, h, dir, l, i, T, L, rk) ==
    IF c = NONE THEN \A k \in KeysOf(L, l) : IsSeen(s, k)
    ELSE /\ h \in KeysOf(L, l) /\ i.val[h].count_to_use = c
         /\ \A k \in KeysOf(L, l) : IsSeen(s, k) <=> Before(T, rk, dir, k, h)
WalkOK(w, i, T, L, rk) ==
    /\ IsWalk(w) /\ SeenRight(w.seen, w.dir, w.list, T, L, rk)
    /\ SeenBefore(w.seen, w.cnt, w.hkv, w.dir, w.list, i, T, L, rk)
WalkInv ==
    \E own, rk, F : /\ Ordered(inst, tally, listOf, own, rk, F)
                    /\ walk = NoWalk \/ WalkOK(walk, inst, tally, listOf, rk)

(* The order the invariant promises. *)
LEMMA InvOrders == CountsInv => \E own, rk, F : Ordered(inst, tally, listOf, own, rk, F)
  BY DEF CountsInv, Good, Ordered

LEMMA NoWalkInv == CountsInv /\ walk = NoWalk => WalkInv
  BY InvOrders DEF WalkInv

LEMMA OrderedTyped ==
    ASSUME NEW own, NEW rk, NEW F, Ordered(inst, tally, listOf, own, rk, F)
    PROVE  /\ IsInst(inst) /\ inst.counts_size \in Nat /\ DOMAIN inst.counts = 1 .. inst.counts_size - 1
           /\ DOMAIN inst.val \subseteq Counter
           /\ \A k \in DOMAIN inst.val : inst.val[k].next \in Nat /\ inst.val[k].count_to_use \in Nat
           /\ \A c \in DOMAIN inst.counts : /\ inst.counts[c].next \in Nat /\ inst.counts[c].last \in Nat
                                            /\ inst.counts[c].hkv1 \in Nat
           /\ \A l \in List : inst.counts_lo[l] \in Nat /\ inst.counts_hi[l] \in Nat
  <1>1. IsInst(inst)
    BY DEF Ordered, Shape
  <1>2. /\ inst.counts \in [DOMAIN inst.counts -> Node] /\ inst.counts_size \in Nat
        /\ DOMAIN inst.counts = 1 .. inst.counts_size - 1 /\ DOMAIN inst.val \subseteq Counter
        /\ inst.counts_lo \in [List -> Nat] /\ inst.counts_hi \in [List -> Nat]
        /\ inst.val \in [DOMAIN inst.val -> Val]
    BY <1>1, InstTyped
  <1> QED
    BY <1>1, <1>2 DEF Node, Val

(* A walk that starts has seen nothing, and nothing is before it. *)
LEMMA StartKeepsWalkInv ==
    ASSUME NEW own, NEW rk, NEW F, Ordered(inst, tally, listOf, own, rk, F),
           NEW dir \in {"hi2lo", "lo2hi"}, NEW l \in List, WalkStart(dir, l)
    PROVE  WalkOK(walk', inst, tally, listOf, rk)
  <1>1. PICK c, h, w : c = StartOf(dir, l) /\ h = FirstOf(c) /\ w = walk'
    OBVIOUS
  <1>2. w = [dir |-> dir, list |-> l, cnt |-> c, hkv |-> h, seen |-> << >>]
    BY <1>1 DEF WalkStart
  <1>3. Starts(c, h, dir, l, inst, tally, listOf, rk)
    BY <1>1, WalkStarts
  <1>4. c \in Nat /\ h \in Nat
    <2>1. c \in Nat
      BY <1>1, OrderedTyped DEF StartOf
    <2>2. CASE c = NONE
      BY <1>1, <2>1, <2>2 DEF FirstOf, NONE
    <2>3. CASE c # NONE
      <3>1. h \in KeysOf(listOf, l)
        BY <2>3, <1>3 DEF Starts
      <3>2. h \in Counter
        BY <3>1, KeyFacts
      <3> QED
        BY <2>1, <3>2, NoneIsNoKey
    <2> QED
      BY <2>2, <2>3
  <1>5. /\ w.dir = dir /\ w.list = l /\ w.cnt = c /\ w.hkv = h /\ w.seen = << >> /\ IsWalk(w)
    <2>1. << >> \in Seq(Counter \X Nat)
      OBVIOUS
    <2> QED
      BY <2>1, <1>2, <1>4 DEF IsWalk
  <1>6. DOMAIN w.seen = {}
    BY <1>5
  <1>7. SeenRight(w.seen, dir, l, tally, listOf, rk) /\ \A k : ~ IsSeen(w.seen, k)
    BY <1>6 DEF SeenRight, IsSeen
  <1>8. SeenBefore(w.seen, c, h, dir, l, inst, tally, listOf, rk)
    BY <1>3, <1>7 DEF Starts, SeenBefore
  <1> QED
    BY <1>1, <1>5, <1>7, <1>8 DEF WalkOK

(* A step sees the key it was at; no position is ever bad. *)
LEMMA StepKeepsWalkInv ==
    ASSUME NEW own, NEW rk, NEW F, Ordered(inst, tally, listOf, own, rk, F),
           WalkOK(walk, inst, tally, listOf, rk), WalkStep
    PROVE  WalkOK(walk', inst, tally, listOf, rk)
  <1>w. PICK c, p, q, dir, l, s, w :
           /\ c = walk.cnt /\ p = walk.hkv /\ q = inst.val[p].next /\ dir = walk.dir /\ l = walk.list
           /\ s = walk.seen /\ w = walk'
    OBVIOUS
  <1>1. IsWalk(walk) /\ l \in List /\ dir \in {"hi2lo", "lo2hi"} /\ s \in Seq(Counter \X Nat)
    BY <1>w DEF WalkOK, IsWalk
  <1>2. c # NONE
    BY <1>w DEF WalkStep
  <1>3. /\ SeenRight(s, dir, l, tally, listOf, rk)
        /\ SeenBefore(s, c, p, dir, l, inst, tally, listOf, rk)
    BY <1>w DEF WalkOK
  <1>4. /\ p \in KeysOf(listOf, l) /\ inst.val[p].count_to_use = c
        /\ \A k \in KeysOf(listOf, l) : IsSeen(s, k) <=> Before(tally, rk, dir, k, p)
    BY <1>2, <1>3 DEF SeenBefore
  <1>5. /\ p \in DOMAIN inst.val /\ p \in Counter /\ tally[p] \in Nat /\ c \in DOMAIN inst.counts
        /\ inst.counts[c].count = tally[p] /\ p # NONE
    BY <1>1, <1>4, KeyFacts
  <1>6. /\ NextKey(p, q, l, tally, listOf, rk)
        /\ q # NONE => inst.val[q].count_to_use = c
    BY <1>1, <1>4, <1>w, NextKeyIs
  <1>7. q # NONE => q \in DOMAIN inst.val
    <2>1. SUFFICES ASSUME q # NONE PROVE q \in DOMAIN inst.val
      OBVIOUS
    <2>2. q \in KeysOf(listOf, l)
      BY <2>1, <1>6 DEF NextKey
    <2> QED
      BY <2>2, <1>1, KeyFacts
  <1>8. ~ PosIsBad(c, p) /\ ~ PosIsBad(c, q)
    <2>1. ~ (c > inst.counts_size)
      BY <1>5, OrderedTyped
    <2> QED
      BY <2>1, <1>4, <1>5, <1>6, <1>7 DEF PosIsBad
  <1>9. PICK to : to = IF q = NONE THEN Beyond(dir, c) ELSE c
    OBVIOUS
  <1>10. PICK h : h = IF q = NONE THEN FirstOf(to) ELSE q
    OBVIOUS
  <1>11. PICK e : e = <<p, tally[p]>>
    OBVIOUS
  <1>12. w = [walk EXCEPT !.cnt = to, !.hkv = h, !.seen = Append(walk.seen, e)]
    BY <1>5, <1>8, <1>9, <1>10, <1>11, <1>w DEF WalkStep
  <1>13. Advances(p, to, h, dir, l, inst, tally, listOf, rk)
    BY <1>1, <1>4, <1>9, <1>10, <1>w, WalkAdvances
  <1>14. to \in Nat /\ h \in Nat
    <2>1. to \in Nat
      BY <1>5, <1>9, OrderedTyped DEF Beyond
    <2>2. CASE to = NONE
      <3>1. q = NONE
        BY <1>2, <1>9, <2>2
      <3> QED
        BY <2>1, <2>2, <3>1, <1>10 DEF FirstOf, NONE
    <2>3. CASE to # NONE
      <3>1. h \in KeysOf(listOf, l)
        BY <2>3, <1>13 DEF Advances
      <3>2. h \in Counter
        BY <3>1, <1>1, KeyFacts
      <3> QED
        BY <2>1, <3>2, NoneIsNoKey
    <2> QED
      BY <2>2, <2>3
  <1>15. e \in Counter \X Nat /\ e[1] = p /\ e[2] = tally[p]
    BY <1>5, <1>11
  <1>16. PICK s2 : s2 = Append(s, e)
    OBVIOUS
  <1>17. s2 \in Seq(Counter \X Nat)
    BY <1>1, <1>15, <1>16
  <1>18. w.dir = dir /\ w.list = l /\ w.cnt = to /\ w.hkv = h /\ w.seen = s2 /\ IsWalk(w)
    BY <1>1, <1>12, <1>14, <1>16, <1>17, <1>w DEF IsWalk
  <1>19. PICK n \in Nat : /\ n = Len(s) /\ DOMAIN s = 1 .. n /\ DOMAIN s2 = 1 .. n + 1
                          /\ s2[n + 1] = e /\ \A i \in 1 .. n : s2[i] = s[i]
    BY <1>1, <1>16
  <1>20. ASSUME NEW k PROVE IsSeen(s2, k) <=> (k = p \/ IsSeen(s, k))
    <2>1. ASSUME NEW i \in 1 .. n + 1 PROVE i \in 1 .. n \/ i = n + 1
      OBVIOUS
    <2>2. ASSUME NEW i \in 1 .. n PROVE i \in 1 .. n + 1
      OBVIOUS
    <2>3. n + 1 \in 1 .. n + 1
      OBVIOUS
    <2> QED
      BY <2>1, <2>2, <2>3, <1>15, <1>19 DEF IsSeen
  <1>21. SeenRight(s2, dir, l, tally, listOf, rk)
    <2>1. ASSUME NEW i \in DOMAIN s2 PROVE s2[i][1] \in KeysOf(listOf, l) /\ s2[i][2] = tally[s2[i][1]]
      <3>1. CASE i = n + 1
        BY <3>1, <1>4, <1>15, <1>19
      <3>2. CASE i # n + 1
        <4>1. i \in 1 .. n
          BY <3>2, <1>19
        <4> QED
          BY <4>1, <1>3, <1>19 DEF SeenRight
      <3> QED
        BY <3>1, <3>2
    <2>2. ASSUME NEW i \in DOMAIN s2, NEW j \in DOMAIN s2, i < j
          PROVE  Before(tally, rk, dir, s2[i][1], s2[j][1])
      <3>0. i \in 1 .. n /\ s2[i] = s[i]
        BY <2>2, <1>19
      <3>1. CASE j = n + 1
        <4>1. IsSeen(s, s[i][1]) /\ s[i][1] \in KeysOf(listOf, l)
          BY <3>0, <1>3, <1>19 DEF IsSeen, SeenRight
        <4>2. Before(tally, rk, dir, s[i][1], p)
          BY <4>1, <1>4
        <4> QED
          BY <3>0, <3>1, <4>2, <1>15, <1>19
      <3>2. CASE j # n + 1
        <4>1. j \in 1 .. n
          BY <3>2, <1>19
        <4>2. Before(tally, rk, dir, s[i][1], s[j][1])
          BY <2>2, <3>0, <4>1, <1>3, <1>19 DEF SeenRight
        <4> QED
          BY <3>0, <4>1, <4>2, <1>19
      <3> QED
        BY <3>1, <3>2
    <2> QED
      BY <2>1, <2>2 DEF SeenRight
  <1>22. SeenBefore(s2, to, h, dir, l, inst, tally, listOf, rk)
    BY <1>4, <1>13, <1>20 DEF Advances, SeenBefore
  <1> QED
    BY <1>18, <1>21, <1>22, <1>w DEF WalkOK

(* At the end all keys of the list were seen. *)
LEMMA WalkInvComplete == WalkInv => WalkComplete
  <1> SUFFICES ASSUME WalkInv, walk # NoWalk, walk.cnt = NONE,
                      NEW ks, ks = {k \in DOMAIN listOf : listOf[k] = walk.list}
               PROVE  /\ Len(walk.seen) = Cardinality(ks)
                      /\ {walk.seen[i] : i \in DOMAIN walk.seen} = {<<k, tally[k]>> : k \in ks}
                      /\ \A i, j \in DOMAIN walk.seen : i < j =>
                            IF walk.dir = "hi2lo" THEN walk.seen[i][2] >= walk.seen[j][2]
                                                  ELSE walk.seen[i][2] <= walk.seen[j][2]
    BY DEF WalkComplete
  <1>1. PICK own, rk, F : /\ Ordered(inst, tally, listOf, own, rk, F)
                          /\ WalkOK(walk, inst, tally, listOf, rk)
    BY DEF WalkInv
  <1>2. PICK s, dir, l : s = walk.seen /\ dir = walk.dir /\ l = walk.list
    OBVIOUS
  <1>3. /\ s \in Seq(Counter \X Nat) /\ dir \in {"hi2lo", "lo2hi"} /\ l \in List
    BY <1>1, <1>2 DEF WalkOK, IsWalk
  <1>4. /\ SeenRight(s, dir, l, tally, listOf, rk)
        /\ \A k \in KeysOf(listOf, l) : IsSeen(s, k)
    BY <1>1, <1>2 DEF WalkOK, SeenBefore
  <1>5. ks = KeysOf(listOf, l)
    BY <1>2 DEF KeysOf
  <1>6. PICK n \in Nat : n = Len(s) /\ DOMAIN s = 1 .. n
    BY <1>3
  <1>7. ASSUME NEW i \in 1 .. n
        PROVE  /\ s[i] = <<s[i][1], tally[s[i][1]]>> /\ s[i][1] \in ks
               /\ s[i][2] = tally[s[i][1]] /\ tally[s[i][1]] \in Nat /\ rk[s[i][1]] \in Int
    <2>1. s[i] \in Counter \X Nat
      BY <1>3, <1>6
    <2>2. s[i] = <<s[i][1], s[i][2]>>
      BY <2>1
    <2>3. s[i][1] \in KeysOf(listOf, l) /\ s[i][2] = tally[s[i][1]]
      BY <1>4, <1>6 DEF SeenRight
    <2>4. tally[s[i][1]] \in Nat /\ rk[s[i][1]] \in Int
      <3>1. PICK k : k = s[i][1]
        OBVIOUS
      <3>2. k \in KeysOf(listOf, l)
        BY <3>1, <2>3
      <3>3. tally[k] \in Nat /\ rk[k] \in Int
        BY <3>2, <1>1, <1>3, KeyFacts
      <3> QED
        BY <3>1, <3>3
    <2> QED
      BY <2>2, <2>3, <2>4, <1>5
  <1>8. ASSUME NEW i \in 1 .. n, NEW j \in 1 .. n, i < j
        PROVE  /\ s[i][1] # s[j][1]
               /\ IF dir = "hi2lo" THEN s[i][2] >= s[j][2] ELSE s[i][2] <= s[j][2]
    <2>1. Before(tally, rk, dir, s[i][1], s[j][1])
      BY <1>4, <1>6, <1>8 DEF SeenRight
    <2>2. PICK x, y : x = s[i][1] /\ y = s[j][1]
      OBVIOUS
    <2>3. /\ tally[x] \in Nat /\ tally[y] \in Nat /\ rk[x] \in Int /\ rk[y] \in Int
          /\ s[i][2] = tally[x] /\ s[j][2] = tally[y]
      BY <2>2, <1>7
    <2>4. Before(tally, rk, dir, x, y)
      BY <2>1, <2>2
    <2>5. x # y
      BY <2>3, <2>4 DEF Before
    <2>6. IF dir = "hi2lo" THEN tally[x] >= tally[y] ELSE tally[x] <= tally[y]
      BY <2>3, <2>4 DEF Before
    <2> QED
      BY <2>2, <2>3, <2>5, <2>6
  <1>9. n = Cardinality(ks)
    <2>1. PICK g : g = [i \in 1 .. n |-> s[i][1]]
      OBVIOUS
    <2>2. g \in [1 .. n -> ks]
      BY <2>1, <1>7
    <2>3. \A i, j \in 1 .. n : g[i] = g[j] => i = j
      <3>1. SUFFICES ASSUME NEW i \in 1 .. n, NEW j \in 1 .. n, g[i] = g[j], i # j PROVE FALSE
        OBVIOUS
      <3>2. i < j \/ j < i
        BY <3>1
      <3>3. s[i][1] = s[j][1]
        BY <3>1, <2>1
      <3> QED
        BY <3>2, <3>3, <1>8
    <2>4. \A k \in ks : \E i \in 1 .. n : g[i] = k
      BY <2>1, <1>4, <1>5, <1>6 DEF IsSeen
    <2>5. g \in Bijection(1 .. n, ks)
      BY <2>2, <2>3, <2>4 DEF Bijection, Injection, Surjection, IsInjective
    <2> QED
      BY <2>5, FS_CountingElements DEF ExistsBijection
  <1>10. {s[i] : i \in DOMAIN s} = {<<k, tally[k]>> : k \in ks}
    <2>1. ASSUME NEW i \in DOMAIN s PROVE s[i] \in {<<k, tally[k]>> : k \in ks}
      BY <1>6, <1>7
    <2>2. ASSUME NEW k \in ks PROVE <<k, tally[k]>> \in {s[i] : i \in DOMAIN s}
      <3>1. PICK i \in 1 .. n : s[i][1] = k
        BY <1>4, <1>5, <1>6 DEF IsSeen
      <3>2. s[i] = <<k, tally[k]>>
        BY <3>1, <1>7
      <3> QED
        BY <3>2, <1>6
    <2> QED
      BY <2>1, <2>2
  <1> QED
    BY <1>2, <1>6, <1>8, <1>9, <1>10

(* A walk that no increment interrupts returns every key of its list once, in the
   order of the counts, each with its count, upwards and downwards. *)
THEOREM WalksComplete == ~ MixLists => (CountsSpec => []WalkComplete)
  <1>1. SUFFICES ASSUME ~ MixLists PROVE CountsSpec => []WalkComplete
    OBVIOUS
  <1>2. CountsInit => CountsInv /\ WalkInv
    BY FreshInv, NoWalkInv DEF CountsInit
  <1>3. ASSUME CountsInv, WalkInv, [CountsNext]_countVars PROVE CountsInv' /\ WalkInv'
    <2>1. CountsInv'
      BY <1>1, <1>3, NextKeepsCountsInv
    <2>2. PICK own, rk, F : /\ Ordered(inst, tally, listOf, own, rk, F)
                            /\ walk = NoWalk \/ WalkOK(walk, inst, tally, listOf, rk)
      BY <1>3 DEF WalkInv
    <2>3. CASE walk' = NoWalk
      <3>1. CountsInv' /\ walk' = NoWalk => WalkInv'
        <4>1. CountsInv' => (\E o, a, f : Ordered(inst, tally, listOf, o, a, f))'
          BY InvOrders DEF CountsInv, Good, Ordered
        <4> QED
          BY <4>1 DEF WalkInv, NoWalk
      <3> QED
        BY <2>1, <2>3, <3>1
    <2>4. CASE walk' # NoWalk
      <3>1. \/ \E dir \in {"hi2lo", "lo2hi"}, l \in List : WalkStart(dir, l)
            \/ walk # NoWalk /\ WalkStep
            \/ walk # NoWalk /\ UNCHANGED countVars
        <4>1. ASSUME NEW k \in Counter, NEW l \in List, Inc(k, l) PROVE FALSE
          BY <4>1, <2>4 DEF Inc
        <4>2. ASSUME NEW k \in Counter, PutPlain(k) PROVE FALSE
          BY <4>2, <2>4 DEF PutPlain
        <4>3. ASSUME CountsReboot PROVE FALSE
          BY <4>3, <2>4 DEF CountsReboot
        <4>4. ASSUME WalkEnd PROVE FALSE
          BY <4>4, <2>4 DEF WalkEnd
        <4>5. ASSUME WalkStep PROVE walk # NoWalk
          BY <4>5 DEF WalkStep
        <4>6. ASSUME UNCHANGED countVars PROVE walk # NoWalk
          BY <4>6, <2>4 DEF countVars
        <4> QED
          BY <4>1, <4>2, <4>3, <4>4, <4>5, <4>6, <1>3 DEF CountsNext
      <3>2. inst' = inst /\ tally' = tally /\ listOf' = listOf
        BY <3>1 DEF WalkStart, WalkStep, countVars
      <3>3. WalkOK(walk', inst, tally, listOf, rk)
        <4>1. CASE \E dir \in {"hi2lo", "lo2hi"}, l \in List : WalkStart(dir, l)
          BY <4>1, <2>2, StartKeepsWalkInv
        <4>2. CASE walk # NoWalk /\ WalkStep
          BY <4>2, <2>2, StepKeepsWalkInv
        <4>3. CASE walk # NoWalk /\ UNCHANGED countVars
          BY <4>3, <2>2 DEF countVars
        <4> QED
          BY <3>1, <4>1, <4>2, <4>3
      <3>4. PICK i, T, L, w : i = inst' /\ T = tally' /\ L = listOf' /\ w = walk'
        OBVIOUS
      <3>5. Ordered(i, T, L, own, rk, F) /\ WalkOK(w, i, T, L, rk)
        BY <2>2, <3>2, <3>3, <3>4
      <3>6. \E o, a, f : Ordered(i, T, L, o, a, f) /\ (w = NoWalk \/ WalkOK(w, i, T, L, a))
        BY <3>5
      <3>7. \E o, a, f : /\ Ordered(inst', tally', listOf', o, a, f)
                         /\ walk' = NoWalk \/ WalkOK(walk', inst', tally', listOf', a)
        BY <3>4, <3>6
      <3> QED
        BY <2>1, <3>7 DEF WalkInv, NoWalk
    <2> QED
      BY <2>1, <2>3, <2>4
  <1>4. WalkInv => WalkComplete
    BY WalkInvComplete
  <1> QED
    BY <1>2, <1>3, <1>4, PTL DEF CountsSpec
=============================================================================
