---------------------------- MODULE SxeCdbSheets -----------------------------
(***************************************************************************)
(* One sxe-cdb instance (lib-sxe-cdb/sxe-cdb.c): the sheets that index the *)
(* keys and the kvdata that holds them.  A key's hash names an entry of    *)
(* sheets_index, hence a sheet, and two rows of it; the key takes a free   *)
(* cell of the emptier row.  When both rows are full the sheet is split.   *)
(*                                                                         *)
(* An instance is used by one thread at a time.  sxe_cdb_instance_put_val  *)
(* loops over splits, and each round of that loop is a step; no other      *)
(* operation runs while a put is under way.  Lookups change nothing but    *)
(* statistics, so they are operators.                                      *)
(***************************************************************************)
EXTENDS Integers, FiniteSets

(***************************************************************************)
(* The headers of the keys and values in an sxe-cdb instance's kvdata      *)
(* (union SXE_CDB_HKV): the two lengths are packed in 1, 3, 5 or 8 bytes   *)
(* of bit fields that overlay each other, and the first byte tells which.  *)
(* A bit field of w bits is a number kept modulo 2^w.                      *)
(***************************************************************************)
CONSTANTS
    K1, V1, K3, V3, K5, V5, K8, V8  \* 2^w of every KEY_HEADER_LEN_n field

(* The fields have two bits or more. *)
ASSUME HkvAssumption ==
    \A f \in {K1, V1, K3, V3, K5, V5, K8, V8} : f \in Nat /\ f > 0 /\ f % 4 = 0

(* Mutant of LenMax: one more than the field can hold. *)
LenMaxOver(f) == f

(* KEY_HEADER_LEN_n_KEY_LEN_MAX and ..._VAL_LEN_MAX, for a field of f values. *)
LenMax(f) == ((f \div 4) - 1) * 4 + 3

Fits(k, v, fk, fv) == k <= LenMax(fk) /\ v <= LenMax(fv)

(* The header sxe_cdb_instance_put_val chooses; 0 when it appends nothing. *)
HeaderLen(k, v) ==
    IF k = 0 THEN 0
    ELSE IF Fits(k, v, K1, V1) THEN 1
    ELSE IF Fits(k, v, K3, V3) THEN 3
    ELSE IF Fits(k, v, K5, V5) THEN 5
    ELSE IF Fits(k, v, K8, V8) THEN 8
    ELSE 0

(* The bit fields of a header.  xxx and yyy are the key_len and the val_len of
   header_len_1; where flag is 1 their bits belong to key_len. *)
Pack(k, v) ==
    LET n == HeaderLen(k, v) IN
    IF n = 1 THEN [flag |-> 0, xxx |-> k % K1, yyy |-> v % V1, key |-> 0, val |-> 0]
    ELSE IF n = 3 THEN [flag |-> 1, xxx |-> 0, yyy |-> 0, key |-> k % K3, val |-> v % V3]
    ELSE IF n = 5 THEN [flag |-> 0, xxx |-> 0, yyy |-> 0, key |-> k % K5, val |-> v % V5]
    ELSE [flag |-> 0, xxx |-> 0, yyy |-> 1, key |-> k % K8, val |-> v % V8]

(* sxe_cdb_h_len: the size of a header, from its first byte. *)
HLen(h) ==
    IF h.flag = 0 /\ h.xxx = 0 /\ h.yyy = 1 THEN 8
    ELSE IF h.flag = 0 /\ h.xxx = 0 /\ h.yyy = 0 THEN 5
    ELSE IF h.flag = 0 /\ h.xxx # 0 THEN 1
    ELSE 3

(* The length of a whole hkv, in a uint32_t like the val_len of header_len_8. *)
HkvLen(h_len, k, v) == (h_len + k + v) % V8

(* sxe_cdb_hkv_unpack *)
Unpack(h) ==
    LET k == IF HLen(h) = 1 THEN h.xxx ELSE h.key
        v == IF HLen(h) = 1 THEN h.yyy ELSE h.val
    IN  [key_len |-> k, val_len |-> v, hkv_len |-> HkvLen(HLen(h), k, v)]
-----------------------------------------------------------------------------
CONSTANTS
    Key,            \* keys
    Hash,           \* Hash[k]: the three halfwords u16[0], u16[1], u16[2]
    KeyLen,         \* KeyLen[k]: the length of key k
    Value,          \* values: pairs of a length and a content
    SheetsMax,      \* SXE_CDB_SHEETS_MAX
    Rows,           \* SXE_CDB_ROWS_PER_SHEET
    Cells,          \* SXE_CDB_KEYS_PER_ROW
    SheetsAtStart,  \* sheets made by sxe_cdb_instance_new
    Page,           \* SXE_CDB_KERNEL_PAGE_BYTES
    KvMod,          \* kvdata_size and kvdata_used are kept modulo KvMod
    KvMaximum,      \* kvdata_maximum, or 0 for no limit
    MaxPuts         \* bound on the keys appended

Sheet == 0 .. SheetsMax - 1
Row   == 0 .. Rows - 1
Cell  == 0 .. Cells - 1

ASSUME CdbAssumption ==
    /\ {SheetsMax, Rows, Cells, Page} \subseteq Nat \ {0}
    /\ SheetsAtStart \in 1 .. SheetsMax
    /\ (\A k \in Key : KeyLen[k] \in Nat) /\ Value \subseteq Nat \X Nat
    /\ KvMaximum \in Nat /\ MaxPuts \in Nat
    /\ KvMod \in Nat /\ KvMod > Page
    \* sxe_cdb_prepare makes the second and the third halfword differ
    /\ \A k \in Key : Hash[k] \in Nat \X Nat \X Nat /\ Hash[k][2] # Hash[k][3]

VARIABLES
    sheets_index,   \* the sheet of every sheet index
    sheets,         \* sheets[s][r][c]: a cell, with the two halfwords and hkv_pos
    sheets_size,    \* sheets in use
    kvdata,         \* the intact hkvs: position, length, header, key and value
    kvdata_size, kvdata_used,
    job,            \* the put under way, or NoJob
    given           \* what was put, and last set, under every UID given out

vars == <<sheets_index, sheets, sheets_size, kvdata, kvdata_size, kvdata_used, job, given>>

NoUid   == <<>>
NoHkv   == <<>>
NoJob   == <<>>
Unused  == [pos |-> 0, hi |-> 0, lo |-> 0]
NoCells == [r \in Row |-> [c \in Cell |-> Unused]]

(* sxe_cdb_instance_new_init: indexes go round the sheets made at the start. *)
FreshIndex == [i \in Sheet |-> i % SheetsAtStart]

Init ==
    /\ sheets_index = FreshIndex
    /\ sheets = [s \in Sheet |-> NoCells]
    /\ sheets_size = SheetsAtStart
    /\ kvdata = {}
    /\ kvdata_size = Page /\ kvdata_used = 1
    /\ job = NoJob /\ given = << >>

SheetIndex(k) == Hash[k][1] % SheetsMax
Row1(k)       == Hash[k][2] % Rows
Row2(k)       == Hash[k][3] % Rows
SheetOf(k)    == sheets_index[SheetIndex(k)]

First(cells) == CHOOSE c \in cells : \A d \in cells : c <= d

Used(s, r)      == {c \in Cell : sheets[s][r][c].pos # 0}
FirstFree(s, r) == First(Cell \ Used(s, r))

(* Both rows that k may go to are full. *)
Full(k) == \A r \in {Row1(k), Row2(k)} : Used(SheetOf(k), r) = Cell
-----------------------------------------------------------------------------
(* sxe_cdb_instance_put_val *)

(* The limit is looked at before anything else, "so sheet splits can no longer
   happen"; past it the key is not appended, and nothing changes. *)
BelowMaximum == KvMaximum = 0 \/ kvdata_size <= KvMaximum

(* The bytes of an hkv, and key_bytes_want: their sum in 32 bits. *)
HkvSize(k, v) == HeaderLen(KeyLen[k], v[1]) + KeyLen[k] + v[1]
Want(k, v)    == HkvSize(k, v) % KvMod

(* Nothing is appended for lengths that no header has room for either. *)
PutVal(k, v) ==
    /\ job = NoJob /\ Cardinality(DOMAIN given) < MaxPuts
    /\ BelowMaximum
    /\ HeaderLen(KeyLen[k], v[1]) # 0
    /\ job' = [key |-> k, val |-> v]
    /\ UNCHANGED <<sheets_index, sheets, sheets_size, kvdata, kvdata_size, kvdata_used, given>>

(* Every second index of the sheet goes to the new one ... *)
SplitIndex(this, that) ==
    [i \in Sheet |->
        IF sheets_index[i] = this
             /\ Cardinality({j \in 0 .. i - 1 : sheets_index[j] = this}) % 2 = 1
        THEN that ELSE sheets_index[i]]

(* Mutant of MovesTo: the halfword that names the row is taken for the index. *)
MovesByRow(cell, that) == cell.pos # 0 /\ sheets_index'[cell.lo % SheetsMax] = that

(* ... and a cell goes where its halfword's index went, to the same row and cell. *)
MovesTo(cell, that) == cell.pos # 0 /\ sheets_index'[cell.hi % SheetsMax] = that

SplitCells(this, that) ==
    [sheets EXCEPT
        ![that] = [r \in Row |-> [c \in Cell |->
                      IF MovesTo(sheets[this][r][c], that) THEN sheets[this][r][c] ELSE @[r][c]]],
        ![this] = [r \in Row |-> [c \in Cell |->
                      IF MovesTo(@[r][c], that) THEN [@[r][c] EXCEPT !.pos = 0] ELSE @[r][c]]]]

SplitSheet ==
    LET this == SheetOf(job.key)
        that == sheets_size
    IN  /\ job # NoJob /\ Full(job.key) /\ sheets_size < SheetsMax
        /\ sheets_size' = sheets_size + 1
        /\ sheets_index' = SplitIndex(this, that)
        /\ sheets' = SplitCells(this, that)
        /\ UNCHANGED <<kvdata, kvdata_size, kvdata_used, job, given>>

(* No sheet is left to split into: the key is not appended. *)
CannotSplit ==
    /\ job # NoJob /\ Full(job.key) /\ sheets_size >= SheetsMax
    /\ job' = NoJob
    /\ UNCHANGED <<sheets_index, sheets, sheets_size, kvdata, kvdata_size, kvdata_used, given>>

(* The row for k: the first one only if fewer of its cells are used. *)
RowFor(k) ==
    LET s == SheetOf(k)
    IN  IF Cardinality(Used(s, Row1(k))) < Cardinality(Used(s, Row2(k))) THEN Row1(k) ELSE Row2(k)

(* key_bytes_free is a difference of 32 bit numbers. *)
Grows(w) == w > (kvdata_size - kvdata_used) % KvMod

(* Mutant of Pages: one page, whatever is wanted. *)
OnePage(w) == Page

(* want_size_rounded_to_kernel_pages: the pages wanted and one more. *)
Pages(w) == ((w + Page - 1) \div Page) * Page + Page

(* mremap gets the sum in 64 bits; what is stored in kvdata_size has 32.  The guard
   against a wrap adds in 64 bits too and so is never true. *)
Grown(w) == IF Grows(w) THEN (kvdata_size + Pages(w)) % KvMod ELSE kvdata_size

(* The hkvs that mremap keeps: it is told that kvdata has kvdata_size bytes. *)
Remapped(w) == IF Grows(w) THEN {h \in kvdata : h.pos + h.len <= kvdata_size} ELSE kvdata

(* The bytes of the new hkv are mapped, unless one of the sums above was cut off. *)
HasRoom(w, size) == size = w /\ (Grows(w) => kvdata_used + w <= kvdata_size + Pages(w))

Overlap(h, pos, len) == h.pos < pos + len /\ pos < h.pos + h.len

AppendHkv ==
    LET k    == job.key
        s    == SheetOf(k)
        r    == RowFor(k)
        c    == FirstFree(s, r)
        p    == kvdata_used
        w    == Want(k, job.val)
        size == HkvSize(k, job.val)
        hkv  == [pos |-> p, len |-> size, header |-> Pack(KeyLen[k], job.val[1]),
                 key |-> k, val |-> job.val]
    IN  /\ job # NoJob /\ ~ Full(k)
        /\ Grows(w) => kvdata_size # 0                   \* mremap of no bytes fails: abort
        /\ sheets' = [sheets EXCEPT ![s][r][c] = [pos |-> p, hi |-> Hash[k][1], lo |-> Hash[k][2]]]
        /\ kvdata' = {h \in Remapped(w) : ~ Overlap(h, p, size)}
                     \union {h \in {hkv} : HasRoom(w, size)}
        /\ kvdata_size' = Grown(w)
        /\ kvdata_used' = (kvdata_used + w) % KvMod
        /\ given' = [u \in DOMAIN given \union {<<SheetIndex(k), r, c>>} |->
                       IF u = <<SheetIndex(k), r, c>> THEN <<k, job.val>> ELSE given[u]]
        /\ job' = NoJob
        /\ UNCHANGED <<sheets_index, sheets_size>>
-----------------------------------------------------------------------------
(* What is read at a position: an hkv, or bytes that are no longer one. *)
HkvAt(p) == LET hs == {h \in kvdata : h.pos = p}
            IN  IF hs = {} THEN NoHkv ELSE CHOOSE h \in hs : TRUE

Matches(cell, k) ==
    /\ cell.lo = Hash[k][2] /\ cell.hi = Hash[k][1] /\ cell.pos # 0
    /\ HkvAt(cell.pos) # NoHkv /\ HkvAt(cell.pos).key = k

(* sxe_cdb_instance_get_uid: cell by cell, the first row before the second. *)
GetUid(k) ==
    LET s     == SheetOf(k)
        found == {c \in Cell : \E r \in {Row1(k), Row2(k)} : Matches(sheets[s][r][c], k)}
        c     == First(found)
    IN  IF found = {} THEN NoUid
        ELSE <<SheetIndex(k), IF Matches(sheets[s][Row1(k)][c], k) THEN Row1(k) ELSE Row2(k), c>>

(* sxe_cdb_instance_get_uid_hkv *)
PosOf(uid)     == sheets[sheets_index[uid[1]]][uid[2]][uid[3]].pos
GetUidHkv(uid) == IF PosOf(uid) = 0 THEN NoHkv ELSE HkvAt(PosOf(uid))

(* sxe_cdb_instance_set_uid_hkv: a value of the same length, which the caller wrote
   over the copy it had got, is written back where it was read. *)
SetUidHkv(uid, v) ==
    LET h == GetUidHkv(uid) IN
    /\ job = NoJob /\ h # NoHkv
    /\ v[1] = h.val[1]
    /\ kvdata' = (kvdata \ {h}) \union {[h EXCEPT !.val = v]}
    /\ given' = [given EXCEPT ![uid][2] = v]
    /\ UNCHANGED <<sheets_index, sheets, sheets_size, kvdata_size, kvdata_used, job>>

(* sxe_cdb_instance_reboot: the instance is unmapped and made anew. *)
Reboot ==
    /\ job = NoJob
    /\ sheets_index' = FreshIndex
    /\ sheets' = [s \in Sheet |-> NoCells]
    /\ sheets_size' = SheetsAtStart
    /\ kvdata' = {}
    /\ kvdata_size' = Page /\ kvdata_used' = 1
    /\ given' = << >>
    /\ UNCHANGED job

Next ==
    \/ \E k \in Key, v \in Value : PutVal(k, v)
    \/ SplitSheet \/ CannotSplit \/ AppendHkv
    \/ \E uid \in DOMAIN given, v \in Value : SetUidHkv(uid, v)
    \/ Reboot

Spec == Init /\ [][Next]_vars
-----------------------------------------------------------------------------
TypeOK ==
    /\ sheets_size \in SheetsAtStart .. SheetsMax
    /\ sheets_index \in [Sheet -> 0 .. sheets_size - 1]
    /\ sheets \in [Sheet -> [Row -> [Cell -> [pos : 0 .. KvMod - 1, hi : Nat, lo : Nat]]]]
    /\ kvdata_size \in 0 .. KvMod - 1 /\ kvdata_used \in 0 .. KvMod - 1
    /\ job = NoJob \/ job \in [key : Key, val : Value]
    /\ DOMAIN given \subseteq Sheet \X Row \X Cell

(* "row/cell never changes; not even for sheet split", "sheet index index never
   changes": a UID "will always reference the hkv", with the value last set,
   whatever was put and split since: no later put, split or growth of kvdata moves
   it, overwrites it or takes the memory it is in. *)
UidStable ==
    \A uid \in DOMAIN given :
       /\ GetUidHkv(uid) # NoHkv
       /\ <<GetUidHkv(uid).key, GetUidHkv(uid).val>> = given[uid]

(* A key that was appended is found, under a UID that was given out for it; a key
   that was not is not: a split moves every cell to the sheet its index names. *)
FoundIfPut ==
    \A k \in Key :
       LET uids == {u \in DOMAIN given : given[u][1] = k}
       IN  IF uids = {} THEN GetUid(k) = NoUid ELSE GetUid(k) \in uids

(* sxe_cdb_instance_debug_validate: a used cell is on the sheet that its halfword
   of the hash leads to. *)
DebugValidate ==
    \A s \in Sheet, r \in Row, c \in Cell :
       sheets[s][r][c].pos # 0 => sheets_index[sheets[s][r][c].hi % SheetsMax] = s

(* What sxe_cdb_hkv_unpack finds in the header of an intact hkv is what
   sxe_cdb_instance_put_val was given, at every boundary between the four kinds of
   header: no length is cut off by its bit field, no first byte is taken for another
   kind, and the whole is as long as the space that was taken for it. *)
RoundTrip ==
    \A h \in kvdata :
       Unpack(h.header) = [key_len |-> KeyLen[h.key], val_len |-> h.val[1], hkv_len |-> h.len % V8]
=============================================================================
