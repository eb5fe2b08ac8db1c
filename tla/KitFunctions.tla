---------------------------- MODULE KitFunctions -----------------------------
(***************************************************************************)
(* The functions of lib-kit that keep no state: the encodings of           *)
(* kit-base-encode.c, the conversions of kit-strto.c, the reads and writes *)
(* of kit-safe-rw.c, and the tensors of kit-tensor.c.                      *)
(***************************************************************************)
EXTENDS Integers, SequencesExt, FiniteSetsExt

(***************************************************************************)
(* The base 16, 32 and 64 encodings of lib-kit/kit-base-encode.c.  A       *)
(* character is its ASCII code, a text or a block of bytes a sequence; a   *)
(* loop of the code is a function of how many turns it has made.           *)
(***************************************************************************)

(* What a character means: a number, or one of these. *)
WS == 64
EQ == 65
INV == 66     \* IN in the code

Upper == 65 .. 90
Lower == 97 .. 122
Digit == 48 .. 57
Other(c) == CASE c \in {9, 10, 32} -> WS [] c = 61 -> EQ [] OTHER -> INV

base16txtmap == [c \in 0 .. 255 |->
    CASE c \in Digit    -> c - 48
      [] c \in 65 .. 70 -> c - 55
      [] c = 80         -> 15           \* the character P, in the table
      [] c \in 97 .. 102 -> c - 87
      [] OTHER -> Other(c)]

base32txtmap == [c \in 0 .. 255 |->
    CASE c \in 50 .. 55 -> c - 24 [] c \in Upper -> c - 65 [] OTHER -> Other(c)]

base32hextxtmap == [c \in 0 .. 255 |->
    CASE c \in Digit     -> c - 48
      [] c \in 65 .. 86  -> c - 55
      [] c \in 97 .. 118 -> c - 87
      [] OTHER -> Other(c)]

Letters64 == [c \in 0 .. 255 |->
    CASE c \in Upper -> c - 65
      [] c \in Lower -> c - 71
      [] c \in Digit -> c + 4
      [] OTHER -> Other(c)]

base64txtmap    == [Letters64 EXCEPT ![43] = 62, ![47] = 63]    \* + and /
base64urltxtmap == [Letters64 EXCEPT ![45] = 62, ![95] = 63]    \* - and _

(* binmap: the characters from code c on, n of them. *)
Run(c, n) == [i \in 1 .. n |-> c + i - 1]

Cfg(shval, wantpadding, txtmap, binmap) ==
    [shval |-> shval, wantpadding |-> wantpadding, txtmap |-> txtmap, binmap |-> binmap]

base16cfg    == Cfg(4, FALSE, base16txtmap, Run(48, 10) \o Run(97, 6))
BASE16CFG    == Cfg(4, FALSE, base16txtmap, Run(48, 10) \o Run(65, 6))
base32cfg    == Cfg(5, FALSE, base32txtmap, Run(65, 26) \o Run(50, 6))
base32hexcfg == Cfg(5, FALSE, base32hextxtmap, Run(48, 10) \o Run(65, 22))
base64cfg    == Cfg(6, TRUE, base64txtmap, Run(65, 26) \o Run(97, 26) \o Run(48, 10) \o <<43, 47>>)
base64urlcfg == Cfg(6, FALSE, base64urltxtmap, Run(65, 26) \o Run(97, 26) \o Run(48, 10) \o <<45, 95>>)
-----------------------------------------------------------------------------
(* The bits in hand are the low ones of buf; the higher ones, which nothing reads
   any more, are cut off here and not after 32. *)
Low(buf, bits) == buf % 2^bits

(* One more character, if there is room for it and a NUL. *)
Put(st, c, bits, maxolen) ==
    IF st.err \/ Len(st.out) >= maxolen - 1 THEN [st EXCEPT !.err = TRUE]
    ELSE [st EXCEPT !.out = Append(@, c), !.bits = bits]

(* The characters that the bits in hand are enough for. *)
Emit(st, cfg, maxolen) ==
    LET turns[n \in 0 .. 3] ==
          IF n = 0 THEN st
          ELSE LET s == turns[n - 1] IN
               IF s.bits < cfg.shval THEN s
               ELSE Put(s, cfg.binmap[((s.buf \div 2^(s.bits - cfg.shval)) % 2^cfg.shval) + 1],
                        s.bits - cfg.shval, maxolen)
    IN  turns[3]

(* "Push the remaining bits as high bits of an output char" *)
Rest(st, cfg, maxolen) ==
    IF st.err \/ st.bits = 0 THEN st
    ELSE Put(st, cfg.binmap[Low(st.buf, st.bits) * 2^(cfg.shval - st.bits) + 1],
             st.bits + 8 - cfg.shval, maxolen)

Pad(st, cfg, maxolen) ==
    LET turns[n \in 0 .. 4] ==
          IF n = 0 THEN st
          ELSE LET s == turns[n - 1] IN
               IF s.err \/ s.bits % 8 = 0 THEN s ELSE Put(s, 61, s.bits + 8 - cfg.shval, maxolen)
    IN  IF cfg.wantpadding THEN turns[4] ELSE st

(* The text, whether it overflowed the maxolen bytes of the output, and how much
   of the input was used. *)
encode(in, maxolen, cfg) ==
    LET turns[n \in 0 .. Len(in)] ==
          IF n = 0 THEN [out |-> <<>>, bits |-> 0, buf |-> 0, ilen |-> 0, err |-> FALSE]
          ELSE LET s == turns[n - 1] IN
               IF s.err THEN s
               ELSE Emit([s EXCEPT !.buf = Low(@, s.bits) * 256 + in[n], !.ilen = n, !.bits = @ + 8],
                         cfg, maxolen)
        end == Pad(Rest(turns[Len(in)], cfg, maxolen), cfg, maxolen)
    IN  IF maxolen = 0 THEN [out |-> <<>>, ilen |-> Len(in), err |-> TRUE]
        ELSE [out |-> end.out, ilen |-> end.ilen, err |-> end.err]
-----------------------------------------------------------------------------
(* One turn of the loop of decode; done ends it, and so does the end of the input. *)
DecodePad(s, cfg) ==
    LET open  == (s.bits + s.padding) % 8 # 0
        early == open /\ s.padding = 0 /\ s.bits >= cfg.shval /\ s.bits < 8
        t     == IF open THEN [s EXCEPT !.ilen = @ + 1, !.padding = @ + cfg.shval] ELSE s
    IN  IF ~ cfg.wantpadding \/ early THEN [s EXCEPT !.done = TRUE]
        ELSE [t EXCEPT !.done = (t.bits + t.padding) % 8 = 0]

DecodeDigit(s, c, maxolen, cfg) ==
    LET bits == s.bits + cfg.shval
        buf  == Low(s.buf, s.bits) * 2^cfg.shval + c
        t    == [s EXCEPT !.bits = bits, !.buf = buf, !.ilen = @ + 1]
    IN  IF s.padding # 0 THEN [s EXCEPT !.done = TRUE]
        ELSE IF bits < 8 THEN t
        ELSE IF Len(s.out) >= maxolen THEN [t EXCEPT !.err = TRUE, !.done = TRUE]
        ELSE [t EXCEPT !.out = Append(@, (buf \div 2^(bits - 8)) % 256), !.bits = bits - 8]

DecodeTurn(s, in, maxolen, skip, cfg) ==
    LET c == cfg.txtmap[in[s.ilen + 1]] IN
    CASE c = WS /\ skip           -> [s EXCEPT !.ilen = @ + 1]
      [] c = INV \/ (c = WS /\ ~ skip) -> [s EXCEPT !.done = TRUE]
      [] c = EQ                   -> DecodePad(s, cfg)
      [] OTHER                    -> DecodeDigit(s, c, maxolen, cfg)

(* The bytes, how much of the text was used, and an error. *)
decode(in, maxolen, skip, cfg) ==
    LET turns[n \in 0 .. Len(in) + 1] ==
          IF n = 0 THEN [out |-> <<>>, bits |-> 0, buf |-> 0, padding |-> 0, ilen |-> 0,
                         done |-> FALSE, err |-> FALSE]
          ELSE LET s == turns[n - 1] IN
               IF s.done \/ s.ilen = Len(in) THEN s ELSE DecodeTurn(s, in, maxolen, skip, cfg)
        end  == turns[Len(in) + 1]
        open == (end.bits + end.padding) % 8 # 0
    IN  IF end.err THEN [out |-> end.out, ilen |-> end.ilen, err |-> "Output overflow"]
        ELSE IF open /\ cfg.wantpadding
        THEN [out |-> end.out, ilen |-> end.ilen, err |-> "Padding characters missing"]
        ELSE [out |-> end.out, err |-> "",
              ilen |-> IF open /\ end.padding = 0 /\ end.bits >= cfg.shval /\ end.bits < 8
                       THEN end.ilen - 1 ELSE end.ilen]

(* "an easier-to-use hex API" *)
kit_bin2hex(bin, upper) == encode(bin, 2 * Len(bin) + 1, IF upper THEN BASE16CFG ELSE base16cfg).out
kit_hex2bin(hex)        == decode(hex, (Len(hex) + 1) \div 2, FALSE, base16cfg).out
-----------------------------------------------------------------------------
(* What the encodings promise, as a reader of RFC 4648 has it: character k of the
   text stands for the bits from (k - 1) * shval on, zeros behind the last. *)
BitAt(in, b) ==
    IF b \div 8 >= Len(in) THEN 0 ELSE (in[b \div 8 + 1] \div 2^(7 - (b % 8))) % 2
GroupAt(in, k, shval) ==
    LET g[j \in 0 .. shval] == IF j = 0 THEN 0 ELSE 2 * g[j - 1] + BitAt(in, (k - 1) * shval + j - 1)
    IN  g[shval]
TextOf(in, cfg) ==
    LET n == (8 * Len(in) + cfg.shval - 1) \div cfg.shval
        p == IF cfg.wantpadding THEN (4 - (n % 4)) % 4 ELSE 0
    IN  [k \in 1 .. n |-> cfg.binmap[GroupAt(in, k, cfg.shval) + 1]] \o [k \in 1 .. p |-> 61]

(* The text is the RFC's, or its beginning if there is no room for all of it and
   a NUL; it decodes to the same bytes, to the last character, and never past the
   room there is for them. *)
EncodedRight(in, cfg) ==
    /\ \A room \in 1 .. 2 * Len(in) + 4 :
          LET e == encode(in, room, cfg) IN
          /\ e.err <=> Len(TextOf(in, cfg)) > room - 1
          /\ e.out = SubSeq(TextOf(in, cfg), 1, Len(e.out)) /\ Len(e.out) < room
          /\ e.err => Len(e.out) = room - 1
          /\ ~ e.err => e.out = TextOf(in, cfg) /\ e.ilen = Len(in)
    /\ \A room \in 0 .. Len(in) : \A skip \in BOOLEAN :
          LET d == decode(TextOf(in, cfg), room, skip, cfg) IN
          /\ d.out = SubSeq(in, 1, room)
          /\ d.err = (IF room < Len(in) THEN "Output overflow" ELSE "")
          /\ room = Len(in) => d.ilen = Len(TextOf(in, cfg))
    /\ kit_hex2bin(kit_bin2hex(in, TRUE)) = in /\ kit_hex2bin(kit_bin2hex(in, FALSE)) = in

(* Of any text, decode gives the bytes of the characters it says it has used, and
   those are characters the encoder writes, in one case or the other. *)
DecodedRight(text, cfg) ==
    LET d == decode(text, Len(text), FALSE, cfg)
        used == {k \in 1 .. d.ilen : text[k] # 61}
    IN  d.err = "" =>
          /\ Len(d.out) = (Len(SelectSeq(SubSeq(text, 1, d.ilen), LAMBDA c : c # 61)) * cfg.shval) \div 8
          /\ \A k \in used : cfg.txtmap[text[k]] < 2^cfg.shval
-----------------------------------------------------------------------------
(***************************************************************************)
(* The conversions of lib-kit/kit-strto.c, which call the C library's and  *)
(* then find out whether a result of zero was one, and the reads and       *)
(* writes of lib-kit/kit-safe-rw.c, which go on until all is done.  A      *)
(* character is its code; the text ends with a NUL.                        *)
(***************************************************************************)

Space == 9 .. 13 \union {32}
Sign  == {43, 45}
Zero  == 48
X     == 120
Dot   == 46

Char(text, i) == IF i > Len(text) THEN 0 ELSE text[i]

(* The value of the character as a digit. *)
DigitValue(c) == IF c \in 48 .. 57 THEN c - 48 ELSE IF c \in 97 .. 122 THEN c - 87 ELSE 99

(* The first position from i on that holds no digit of the base. *)
Behind(text, i, base) == Min({j \in i .. Len(text) + 1 : DigitValue(Char(text, j)) >= base})

Lead(text) ==
    LET i == Min({j \in 1 .. Len(text) + 1 : Char(text, j) \notin Space})
    IN  [neg |-> Char(text, i) = 45, at |-> IF Char(text, i) \in Sign THEN i + 1 ELSE i]

(* strtoul and its kin, of the C library: what number there is at the beginning
   (numbers of max and more are out of range), and where it ends. *)
strtoul(text, base, max) ==
    LET l   == Lead(text).at
        hex == base \in {0, 16} /\ Char(text, l) = Zero /\ Char(text, l + 1) = X
               /\ DigitValue(Char(text, l + 2)) < 16
        rad == IF hex \/ base = 16 THEN 16 ELSE IF base # 0 THEN base ELSE IF Char(text, l) = Zero THEN 8 ELSE 10
        i   == IF hex THEN l + 2 ELSE l
        e   == Behind(text, i, rad)
        n   == FoldLeft(LAMBDA v, c : v * rad + DigitValue(c), 0, SubSeq(text, i, e - 1))
    IN  IF e = i THEN [ret |-> 0, end |-> 1, errno |-> "", neg |-> FALSE]
        ELSE IF n > max THEN [ret |-> max, end |-> e, errno |-> "ERANGE", neg |-> Lead(text).neg]
        ELSE [ret |-> n, end |-> e, errno |-> "", neg |-> Lead(text).neg]

(* A number with a sign has half of the range, and one negative number more. *)
strtol(text, base, max) == strtoul(text, base, IF Lead(text).neg THEN max \div 2 + 1 ELSE max \div 2)

(* strtod, of the C library: digits, a point and digits; only whether it is zero. *)
strtod(text) ==
    LET i == Lead(text).at
        j == Behind(text, i, 10)
        e == IF Char(text, j) = Dot THEN Behind(text, j + 1, 10) ELSE j
        digits == SelectSeq(SubSeq(text, i, e - 1), LAMBDA c : c # Dot)
    IN  IF digits = <<>> THEN [ret |-> 0, end |-> 1, errno |-> ""]
        ELSE [ret |-> IF \A k \in DOMAIN digits : digits[k] = Zero THEN 0 ELSE 1, end |-> e, errno |-> ""]

(* end is where the conversion stopped, or 0 if the caller does not ask. *)
check_zero_result(text, end, base) ==
    LET i == Lead(text).at IN
    IF end = 1 \/ Char(text, i) # Zero \/ (base \in {0, 16} /\ Char(text, i + 1) = X /\ Char(text, i + 2) # Zero)
    THEN "EINVAL" ELSE ""

Checked(r, text, ask, base) ==
    [r EXCEPT !.errno = IF r.ret = 0 /\ @ = "" THEN check_zero_result(text, IF ask THEN r.end ELSE 0, base) ELSE @]

kit_strtoul(text, ask, base, max)  == Checked(strtoul(text, base, max), text, ask, base)
kit_strtoull(text, ask, base, max) == Checked(strtoul(text, base, max), text, ask, base)
kit_strtol(text, ask, base, max)   == Checked(strtol(text, base, max), text, ask, base)
kit_strtoll(text, ask, base, max)  == Checked(strtol(text, base, max), text, ask, base)
kit_strtod(text, ask)              == Checked(strtod(text), text, ask, 10)

(* The number of the wider type, negated modulo its range if it has a minus. *)
kit_strtou32(text, ask, base, max, max32) ==
    LET r == Checked(strtoul(text, base, max), text, ask, base)
        v == IF r.neg /\ r.errno = "" THEN (max + 1 - r.ret) % (max + 1) ELSE r.ret
    IN  IF v > max32 THEN [r EXCEPT !.ret = max32, !.errno = "ERANGE"] ELSE [r EXCEPT !.ret = v]
-----------------------------------------------------------------------------
(* The answers of read and write, one after the other: n bytes, or n < 0 and err for
   errno; and what poll then says, if it is asked: "ready", "late" or "EINTR".  A call
   that does not fail leaves errno alone. *)
Answer == [n : {1, 2}, err : {""}, poll : {""}]
    \union [n : {0}, err : {""}, poll : {"ready", "late"}]
    \union [n : {-1}, err : {"EINTR", "EIO"}, poll : {""}]
    \union [n : {-1}, err : {"EAGAIN"}, poll : {"ready", "late", "EINTR"}]

(* calls is how many of the answers it took. *)
kit_safe_write(answers, count, errno) ==
    FoldLeft(LAMBDA s, a :
        LET t == [s EXCEPT !.calls = @ + 1, !.errno = IF a.n < 0 THEN a.err ELSE @] IN
        IF s.over \/ s.done = count THEN s
        ELSE IF a.n > 0 THEN [t EXCEPT !.done = @ + Min({a.n, count - @})]
        ELSE IF t.errno = "EAGAIN" /\ a.poll = "late" THEN [t EXCEPT !.over = TRUE, !.errno = "ETIMEDOUT"]
        ELSE IF t.errno = "EAGAIN" THEN [t EXCEPT !.errno = IF a.poll = "EINTR" THEN "EINTR" ELSE @]
        ELSE [t EXCEPT !.over = t.errno # "EINTR"],
        [done |-> 0, errno |-> errno, over |-> FALSE, calls |-> 0], answers)

(* An error other than EINTR forgets what was read; the end of the file does not. *)
kit_safe_read(answers, count) ==
    FoldLeft(LAMBDA s, a :
        LET t == [s EXCEPT !.calls = @ + 1] IN
        IF s.over \/ s.done = count THEN s
        ELSE IF a.n > 0 THEN [t EXCEPT !.done = @ + Min({a.n, count - @})]
        ELSE IF a.n = 0 THEN [t EXCEPT !.over = TRUE]
        ELSE IF a.err = "EINTR" THEN t
        ELSE [t EXCEPT !.over = TRUE, !.done = -1],
        [done |-> 0, over |-> FALSE, calls |-> 0], answers)
-----------------------------------------------------------------------------
(* Has the text a number of this base at its beginning? *)
IsNumber(text, base) ==
    LET l == Lead(text).at
        radix == IF base = 0 THEN IF Char(text, l) = Zero THEN 8 ELSE 10 ELSE base
    IN  \/ DigitValue(Char(text, l)) < radix
        \/ base \in {0, 16} /\ Char(text, l) = Zero /\ Char(text, l + 1) = X /\ DigitValue(Char(text, l + 2)) < 16

(* "0x" and no hexadecimal zero behind it: a zero, but refused. *)
BareX(text, base) ==
    LET l == Lead(text).at IN
    base \in {0, 16} /\ Char(text, l) = Zero /\ Char(text, l + 1) = X /\ DigitValue(Char(text, l + 2)) >= 16

(* errno is 0 exactly if the text begins with a number of the type: a zero is told
   from no number whether or not the caller asks where it ends, and what does not
   fit is out of range.  (A decimal fraction must begin with a digit, and a bare 0x
   is no zero.) *)
StrtoRight(text, base, ask) ==
    \A l \in {kit_strtol(text, ask, base, 31)}, u \in {kit_strtou32(text, ask, base, 31, 15)}, d \in {kit_strtod(text, ask)} :
        /\ l.errno = "EINVAL" <=> ~ IsNumber(text, base) \/ BareX(text, base)
        /\ l.errno = "" => kit_strtoul(text, ask, base, 31) = l
        /\ u.errno = "EINVAL" => l.errno = "EINVAL"
        /\ u.errno = "" => u.ret <= 15 /\ (~ u.neg => u.ret = l.ret)
        /\ d.errno = "" <=> DigitValue(Char(text, Lead(text).at)) < 10 \/ d.ret # 0

(* The bytes that the first answers have moved. *)
Moved(answers, calls) == FoldFunction(+, 0, [i \in 1 .. calls |-> Max({0, answers[i].n})])

(* What kit_safe_write returns has been written, and no more has; kit_safe_read returns
   what was read, or -1.  Neither gives up for an interrupted call, of poll included: a
   write stops short only for an error, when poll times out, or for a write of 0 bytes,
   which is an error or not as the last call that failed says; a read only at the end of
   the file, and for an error, EAGAIN included. *)
SafeRight(answers, count, errno) ==
    LET w == kit_safe_write(answers, count, errno)
        r == kit_safe_read(answers, count)
        all == Len(answers)
        Failed(i) == answers[i].n < 0
        left == {i \in 1 .. w.calls - 1 : Failed(i)}
        before == IF left = {} THEN errno ELSE answers[Max(left)].err
    IN  /\ w.done = Min({count, Moved(answers, w.calls)}) /\ (w.done = count \/ w.over \/ w.calls = all)
        /\ w.over => /\ w.done < count
                     /\ \/ answers[w.calls].err = "EIO" \/ w.errno = "ETIMEDOUT"
                        \/ answers[w.calls].n = 0 /\ before \notin {"EINTR", "EAGAIN"}
        /\ r.done # -1 => /\ r.done = Min({count, Moved(answers, r.calls)})
                          /\ r.done = count \/ r.calls = all \/ answers[r.calls].n = 0
        /\ r.done = -1 => Failed(r.calls) /\ answers[r.calls].err # "EINTR" /\ Moved(answers, r.calls) < count

(***************************************************************************)
(* The tensors of lib-kit/kit-tensor.c: up to three dimensions over one    *)
(* array of values, with the strides that kit_tensor_dimset sets.  A value *)
(* is an integer; what batchnorm computes of five of them is the tuple of  *)
(* them.  An operation gives its output tensor, or Refused.                *)
(***************************************************************************)

Refused == [ok |-> FALSE]
Done(t) == [ok |-> TRUE, t |-> t]

kit_tensor_dimset(a, dims) ==
    [a EXCEPT !.dimension = dims,
              !.num_dims = IF dims[1] > 1 THEN 3 ELSE IF dims[2] > 1 THEN 2 ELSE 1,
              !.sz = dims[1] * dims[2] * dims[3], !.b0 = dims[2] * dims[3], !.b1 = dims[3]]

(* kit_tensor_init: no strides and no size are set. *)
kit_tensor_init(a) == [a EXCEPT !.num_dims = 0, !.dimension = <<0, 0, 0>>]

Blank == [num_dims |-> 0, dimension |-> <<0, 0, 0>>, value |-> <<>>, sz |-> 0, b0 |-> 0, b1 |-> 0]

(* A tensor of these dimensions with these values. *)
Tensor(dims, f(_)) ==
    LET t == kit_tensor_dimset(kit_tensor_init(Blank), dims)
    IN  [t EXCEPT !.value = [i \in 1 .. t.sz |-> f(i)]]

kit_tensor_sz(a) == IF a.sz = 0 THEN a.dimension[1] * a.dimension[2] * a.dimension[3] ELSE a.sz

kit_tensor_num_values(a) ==
    a.dimension[1] * (IF a.num_dims > 1 THEN a.dimension[2] ELSE 1) * (IF a.num_dims > 2 THEN a.dimension[3] ELSE 1)

kit_tensor_get_k_m_n(a, k, m, n) == a.value[a.b0 * k + a.b1 * m + n + 1]

(* The values in the order in which the loops over k, m and n compute them. *)
Loops(d, f(_, _, _)) ==
    [i \in 1 .. d[1] * d[2] * d[3] |->
        f((i - 1) \div (d[2] * d[3]), ((i - 1) \div d[3]) % d[2], (i - 1) % d[3])]

(* The values of c begin with these; what is behind them stays. *)
Written(c, vals) == [c EXCEPT !.value = vals \o SubSeq(@, Len(vals) + 1, Len(@))]
-----------------------------------------------------------------------------
(* A line of dimensions, as the numbers in it.  Of a third one only the colon before
   it is read: there are three dimensions then, and the third is what it was. *)
kit_tensor_make_begin(t, nums) ==
    LET seen == IF Len(nums) > 2 THEN 2 ELSE Len(nums)
        n    == IF Len(nums) > 2 THEN 3 ELSE Len(nums)
        dims == [i \in 1 .. 3 |-> IF i <= seen THEN nums[i] ELSE t.dimension[i]]
    IN  IF nums = <<>> THEN Refused
        ELSE Done([t EXCEPT !.num_dims = n, !.dimension = dims, !.value = <<>>])

(* A line of values; the ones there is room for are kept even if there are more. *)
kit_tensor_make_add_values(t, vals) ==
    LET room == kit_tensor_num_values(t) - Len(t.value) IN
    [ok |-> Len(vals) <= room, t |-> [t EXCEPT !.value = @ \o SubSeq(vals, 1, Min({room, Len(vals)}))]]

kit_tensor_make_end(t, num_values) == num_values = kit_tensor_num_values(t)

kit_tensor_fini(t) == [t EXCEPT !.num_dims = 0, !.dimension = <<0, 0, 0>>, !.value = <<>>]
-----------------------------------------------------------------------------
(* Positions, as offsets, of the values multiplied. *)
kit_array_inner_product(a, aoff, askip, b, boff, bskip, len) ==
    FoldFunction(+, 0, [i \in 1 .. len |-> a[aoff + (i - 1) * askip + 1] * b[boff + (i - 1) * bskip + 1]])

kit_tensor_matmul(a, b, c) ==
    LET d == a.dimension e == b.dimension
        at(k, m, n) == kit_array_inner_product(a.value, k * d[2] * d[3] + m * d[3], 1,
                                               b.value, k * e[2] * e[3] + n, e[3], d[3])
    IN  IF d[3] # e[2] \/ d[1] # e[1] \/ d[1] * d[2] * e[3] # kit_tensor_sz(c) THEN Refused
        ELSE Done(Written([c EXCEPT !.num_dims = 2, !.dimension = <<d[1], d[2], e[3]>>],
                          Loops(<<d[1], d[2], e[3]>>, at)))

kit_tensor_embedding(a, indices, out) ==
    LET n    == Len(indices)
        wrap == IF a.num_dims = 2 THEN a.dimension[3] ELSE a.dimension[2] * a.dimension[3]
        dims == IF a.num_dims = 2 THEN <<1, n, a.dimension[3]>> ELSE <<n, a.dimension[2], a.dimension[3]>>
        vals == [i \in 1 .. n * wrap |-> a.value[wrap * indices[(i - 1) \div wrap + 1] + ((i - 1) % wrap) + 1]]
    IN  IF a.num_dims \notin {2, 3} THEN Refused
        ELSE Done(Written([out EXCEPT !.num_dims = a.num_dims, !.dimension = dims], vals))

kit_tensor_permute(a, dims, b) ==
    LET d == a.dimension
        base == <<kit_tensor_sz(a) \div d[1], (kit_tensor_sz(a) \div d[1]) \div d[2],
                  ((kit_tensor_sz(a) \div d[1]) \div d[2]) \div d[3]>>
        at(k, m, n) == a.value[base[dims[1]] * k + base[dims[2]] * m + base[dims[3]] * n + 1]
        dim == <<d[dims[1]], d[dims[2]], d[dims[3]]>>
    IN  IF kit_tensor_sz(a) # kit_tensor_sz(b) THEN Refused
        ELSE Done(Written([b EXCEPT !.dimension = dim], Loops(dim, at)))

kit_tensor_transpose(a, i, j, b) ==
    kit_tensor_permute(a, [<<1, 2, 3>> EXCEPT ![i] = j, ![j] = i], b)

kit_tensor_conv1d(a, b, stride, c) ==
    LET d == a.dimension e == b.dimension
        unfolds == IF e[3] < d[3] THEN 0 ELSE (e[3] - d[3]) \div stride + 1
        at(item, k, f) ==
            FoldFunction(+, 0, [i \in 1 .. d[2] * d[3] |->
                LET m == (i - 1) \div d[3] n == (i - 1) % d[3]
                IN  a.value[a.b0 * k + a.b1 * m + n + 1] * b.value[b.b0 * item + b.b1 * m + f * stride + n + 1]])
    IN  IF \/ d[1] # e[2] \/ d[1] # d[2] \/ d[1] # c.dimension[2] \/ unfolds # c.dimension[3]
           \/ e[1] # c.dimension[1]
        THEN Refused ELSE Done(Written(c, Loops(<<e[1], d[1], unfolds>>, at)))

(* The mean, the variance, gamma and beta of channel m, and the value they are of. *)
kit_tensor_batchnorm1d_affine(bn, x, c) ==
    LET of(m, j) == bn.value[bn.b1 * m + j + 1]
        at(k, m, n) == <<of(m, 2), kit_tensor_get_k_m_n(x, k, m, n), of(m, 0), of(m, 1), of(m, 3)>>
    IN  IF bn.dimension # <<1, x.dimension[2], 4>> \/ x.dimension # c.dimension THEN Refused
        ELSE Done(Written(c, Loops(x.dimension, at)))

kit_relu(x) == IF x > 0 THEN x ELSE 0

kit_tensor_apply(a, cb) ==
    [a EXCEPT !.value = [i \in DOMAIN @ |-> IF i <= kit_tensor_sz(a) THEN cb[@[i]] ELSE @[i]]]

kit_tensor_flatten(a) ==
    [a EXCEPT !.dimension = <<1, 1, @[1] * @[2] * @[3]>>]

kit_tensor_sum(a, b, c) ==
    IF a.dimension # b.dimension \/ b.dimension # c.dimension THEN Refused
    ELSE Done(Written(c, [i \in 1 .. kit_tensor_sz(a) |-> a.value[i] + b.value[i]]))

kit_tensor_zeros(a) == Written(a, [i \in 1 .. a.sz |-> 0])
-----------------------------------------------------------------------------
At(t, k, m, n) == kit_tensor_get_k_m_n(t, k, m, n)
Places(d) == (0 .. d[1] - 1) \X (0 .. d[2] - 1) \X (0 .. d[3] - 1)
SumOver(S, f(_)) == MapThenSumSet(f, S)
Shaped(dims) == LET v(i) == 100 + i IN Tensor(dims, v)

(* A tensor built from lines of one or two dimensions takes so many values, no more
   and no less; a third dimension is not read, so its place must hold one. *)
MadeRight(dims) ==
    LET begun == kit_tensor_make_begin([Blank EXCEPT !.dimension[3] = dims[3]], dims).t
        n     == dims[1] * dims[2] * dims[3]
        full  == kit_tensor_make_add_values(begun, [i \in 1 .. n |-> i])
    IN  /\ full.ok /\ kit_tensor_make_end(full.t, Len(full.t.value))
        /\ ~ kit_tensor_make_add_values(full.t, <<0>>).ok
        /\ ~ kit_tensor_make_end(full.t, n - 1)
        /\ kit_tensor_fini(full.t).value = <<>>

(* Every operation on tensors of the shapes d and e computes what its definition by
   coordinates says, whatever the output held before - given an output that was
   shaped for the result, as the functions assume - and refuses other outputs. *)
TensorRight(d, e) ==
    LET va(i) == 2 * i - 3
        vb(i) == i * i - 4
        a == Tensor(d, va)
        b == Tensor(e, vb)
    IN  /\ MadeRight(d)
        /\ LET r == kit_tensor_matmul(a, b, Shaped(<<d[1], d[2], e[3]>>)) IN
           /\ r.ok <=> d[1] = e[1] /\ d[3] = e[2]
           /\ r.ok => \A p \in Places(<<d[1], d[2], e[3]>>) :
                LET term(i) == At(a, p[1], p[2], i) * At(b, p[1], i, p[3])
                IN  At(r.t, p[1], p[2], p[3]) = SumOver(0 .. d[3] - 1, term)
        /\ \A q \in {s \in [1 .. 3 -> 1 .. 3] : Cardinality({s[i] : i \in 1 .. 3}) = 3} :
                LET dim == <<d[q[1]], d[q[2]], d[q[3]]>>
                    r == kit_tensor_permute(a, q, Shaped(dim))
                IN  /\ r.ok /\ r.t.dimension = dim
                    /\ \A p \in Places(d) : At(r.t, p[q[1]], p[q[2]], p[q[3]]) = At(a, p[1], p[2], p[3])
        /\ \A i, j \in 1 .. 3 :
                LET dim == [d EXCEPT ![i] = d[j], ![j] = d[i]]
                    r == kit_tensor_transpose(a, i, j, Shaped(dim))
                IN  kit_tensor_transpose(r.t, i, j, Shaped(d)).t.value = a.value
        /\ \A stride \in 1 .. 2 : \A w \in 1 .. 3 :
                LET r == kit_tensor_conv1d(a, b, stride, Shaped(<<e[1], d[1], w>>)) IN
                r.ok => \A p \in Places(<<e[1], d[1], w>>) :
                    LET term(i) == At(a, p[2], i[1], i[2]) * At(b, p[1], i[1], p[3] * stride + i[2])
                    IN  At(r.t, p[1], p[2], p[3]) = SumOver((0 .. d[2] - 1) \X (0 .. d[3] - 1), term)
        /\ LET r == kit_tensor_sum(a, b, Shaped(d)) IN
           r.ok => \A p \in Places(d) : At(r.t, p[1], p[2], p[3]) = At(a, p[1], p[2], p[3]) + At(b, p[1], p[2], p[3])
        /\ kit_tensor_flatten(kit_tensor_apply(a, [x \in ToSet(a.value) |-> kit_relu(x)])).value
              = [i \in DOMAIN a.value |-> IF a.value[i] < 0 THEN 0 ELSE a.value[i]]
        /\ LET bn == Tensor(<<1, d[2], 4>>, vb)
               r  == kit_tensor_batchnorm1d_affine(bn, a, kit_tensor_zeros(Shaped(d)))
           IN  r.ok /\ \A p \in Places(d) : At(r.t, p[1], p[2], p[3]) =
                  <<At(bn, 0, p[2], 2), At(a, p[1], p[2], p[3]), At(bn, 0, p[2], 0), At(bn, 0, p[2], 1), At(bn, 0, p[2], 3)>>
        /\ a.num_dims = 3 =>
              LET r == kit_tensor_embedding(a, <<d[1] - 1, 0>>, Shaped(<<2, d[2], d[3]>>)) IN
              r.ok /\ \A p \in Places(<<2, d[2], d[3]>>) :
                 At(r.t, p[1], p[2], p[3]) = At(a, IF p[1] = 0 THEN d[1] - 1 ELSE 0, p[2], p[3])
==============================================================================
