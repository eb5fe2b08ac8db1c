------------------------------ MODULE SxeLogLine ------------------------------
(***************************************************************************)
(* The lines of lib-sxe-log as text: how sxe_log and sxe_log_dump_memory   *)
(* put them together in a buffer of fixed size, how they are made          *)
(* printable, and sxe_strn_encode, which does the same into a caller's     *)
(* buffer.  A character is its code; a text has no NUL but the one at its  *)
(* end, which is left out.                                                 *)
(***************************************************************************)
EXTENDS Integers, SequencesExt, FiniteSetsExt

Newline   == 10
Return    == 13
Blank     == 32
Dot       == 46
Equal     == 61
Backslash == 92
Underline == 95
isprint(c) == c \in 32 .. 126
isspace(c) == c \in (9 .. 13) \union {32}
Spaces(n)  == [i \in 1 .. n |-> Blank]
Hex(n)     == IF n < 10 THEN 48 + n ELSE 55 + n
-----------------------------------------------------------------------------
(* sxe_log_safe_append: what does not fit is cut off, and the line ends in dots. *)
sxe_log_safe_append(st, text, size) ==
    LET all == st.buf \o text IN
    IF ~ st.ok THEN st
    ELSE IF Len(text) >= size - Len(st.buf)
         THEN [buf |-> SubSeq(all, 1, size - 4) \o <<Dot, Dot, Newline>>, ok |-> FALSE]
         ELSE [buf |-> all, ok |-> TRUE]

(* A line of pieces: nothing is added behind one that was cut off. *)
Assembled(pieces, size) ==
    FoldLeft(LAMBDA st, piece : sxe_log_safe_append(st, piece, size), [buf |-> <<>>, ok |-> TRUE], pieces).buf

(* sxe_log: prefix, indent, the function's name if the message begins with : or (,
   the message and the end. *)
sxe_log(prefix, indent, func, message, size) ==
    LET named == message # <<>> /\ message[1] \in {58, 40} IN
    Assembled(<<prefix, Spaces(2 * indent) \o <<45, Blank>>>> \o (IF named THEN <<func>> ELSE <<>>)
              \o <<message, <<Newline>>>>, size)

(* sxe_log_dump_memory: a line for every row bytes, and one for the rest even if there
   is none: the address, the bytes, and those that can be printed. *)
DumpRow(memory, k, row) == SubSeq(memory, k * row + 1, Min({(k + 1) * row, Len(memory)}))
DumpLine(prefix, indent, address, memory, k, row, size) ==
    LET bytes == DumpRow(memory, k, row)
        byte  == [j \in 1 .. row |-> IF j <= Len(bytes) THEN <<Blank, Hex(bytes[j] \div 16), Hex(bytes[j] % 16)>>
                                     ELSE Spaces(3)]
        shown == [j \in 1 .. Len(bytes) |-> <<IF isprint(bytes[j]) THEN bytes[j] ELSE Dot>>]
    IN  Assembled(<<prefix, Spaces(2 * indent) \o <<45, Blank>>, address>> \o byte \o <<<<Blank>>>> \o shown
                  \o <<<<Newline>>>>, size)
sxe_log_dump_memory(prefix, indent, address, memory, row, size) ==
    [k \in 1 .. Len(memory) \div row + 1 |-> DumpLine(prefix, indent, address, memory, k - 1, row, size)]
-----------------------------------------------------------------------------
Escaped(c) ==
    CASE c = Backslash -> <<Backslash, Backslash>>
      [] c = Newline   -> <<Backslash, 110>>
      [] c = Return    -> <<Backslash, 114>>
      [] isprint(c)    -> <<c>>
      [] OTHER         -> <<Backslash, 120, Hex(c \div 16), Hex(c % 16)>>

(* sxe_log_line_out_escaped: what comes before the first character that cannot be
   printed stays as it is; behind it everything is escaped.  The last two characters
   make way for the end of the line. *)
sxe_log_line_out_escaped(text, size) ==
    LET odd == {i \in DOMAIN text : ~ isprint(text[i])}
        all == SubSeq(text, 1, Min(odd) - 1)
               \o FlattenSeq([i \in 1 .. Len(text) - Min(odd) + 1 |-> Escaped(text[Min(odd) + i - 1])])
    IN  IF odd = {} THEN text
        ELSE IF Len(all) > size THEN SubSeq(all, 1, size - 4) \o <<Dot, Dot, Newline>>
        ELSE SubSeq(all, 1, Len(all) - 2) \o <<Newline>>
-----------------------------------------------------------------------------
(* sxe_strn_encode: the buffer, and how many characters of the text are in it; a byte
   above 127 is a negative int, of which two digits are written.  One that fills the
   buffer ends the loop before it is counted. *)
Coded(c) ==
    CASE c = Blank -> <<Underline>>
      [] c \in {Underline, Equal} \/ isspace(c) \/ ~ isprint(c) ->
            <<Equal>> \o (IF c > 127 THEN <<70, 70>> ELSE <<Hex(c \div 16), Hex(c % 16)>>)
      [] OTHER -> <<c>>
EncodeNext(st, c, size) ==
    LET code == Coded(c)
        full == Len(st.buf) + Len(code) = size - 1
    IN  IF st.stop THEN st
        ELSE IF Len(code) = 3 /\ Len(st.buf) + 3 >= size THEN [st EXCEPT !.stop = TRUE]
        ELSE [buf |-> st.buf \o code, stop |-> full, j |-> IF full THEN st.j ELSE st.j + 1]
sxe_strn_encode(size, text, length) ==
    LET taken == SubSeq(text, 1, Min({length, Len(text)}))
        end   == FoldLeft(LAMBDA st, c : EncodeNext(st, c, size), [buf |-> <<>>, stop |-> FALSE, j |-> 0], taken)
    IN  [buf |-> end.buf, null |-> end.j < Len(taken)]
-----------------------------------------------------------------------------
(* A message of any length comes out as one line: printable, ended by the only newline,
   not longer than the buffer, with all of the message if it fits and a dotted end if
   it does not.  Between the prefix and the end nothing is lost or added. *)
LogLineRight(prefix, indent, message, size) ==
    LET buf  == sxe_log(prefix, indent, <<102>>, message, size)
        out  == sxe_log_line_out_escaped(buf, size)
        head == Len(prefix) + 2 * indent + 2 + (IF message # <<>> /\ message[1] = 40 THEN 1 ELSE 0)
        full == head + Len(message)
        flat == FlattenSeq([i \in DOMAIN message |-> IF isprint(message[i]) THEN <<message[i]>> ELSE Escaped(message[i])])
    IN  /\ Len(buf) < size /\ buf[Len(buf)] = Newline
        /\ Len(out) < size /\ out[Len(out)] = Newline /\ \A i \in 1 .. Len(out) - 1 : isprint(out[i])
        /\ full + 1 < size <=> SubSeq(buf, Len(buf) - 2, Len(buf)) # <<Dot, Dot, Newline>>
        /\ full + 1 < size => IsSuffix(message \o <<Newline>>, buf)
        /\ full + 1 < size /\ Backslash \notin ToSet(message)
            /\ head + Len(flat) + 2 <= size => IsSuffix(flat \o <<Newline>>, out)

(* Every byte of memory is in the dump, in its place, as digits and as text. *)
DumpRight(memory, row) ==
    LET at    == Len(<<45, Blank>>) + 1
        lines == sxe_log_dump_memory(<<>>, 0, <<48>>, memory, row, 1024)
        digit(l, j, n) == lines[l][at + 3 * (j - 1) + n]
    IN  \A i \in DOMAIN memory :
            LET l == (i - 1) \div row + 1
                j == ((i - 1) % row) + 1
            IN  /\ digit(l, j, 2) = Hex(memory[i] \div 16) /\ digit(l, j, 3) = Hex(memory[i] % 16)
                /\ lines[l][at + 3 * row + 1 + j] = IF isprint(memory[i]) THEN memory[i] ELSE Dot

(* What sxe_strn_encode writes fits the buffer with its NUL, is made of whole codes,
   and is all of the text if it does not say otherwise. *)
EncodeRight(text, size, length) ==
    LET r     == sxe_strn_encode(size, text, length)
        taken == SubSeq(text, 1, Min({length, Len(text)}))
        codes(n) == FlattenSeq([i \in 1 .. n |-> Coded(taken[i])])
    IN  /\ Len(r.buf) < size
        /\ \E n \in 0 .. Len(taken) : r.buf = codes(n)
        /\ ~ r.null => r.buf = codes(Len(taken))
        /\ Len(codes(Len(taken))) + 1 < size => ~ r.null
=============================================================================
