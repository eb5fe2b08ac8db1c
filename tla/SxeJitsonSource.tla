--------------------------- MODULE SxeJitsonSource ---------------------------
(***************************************************************************)
(* The characters of a JSON text (lib-sxe-jitson/sxe-jitson-source.c), and *)
(* the string and the code points in it (sxe_jitson_stack_load_string,     *)
(* sxe-unicode.c).  A character is its code; a source is either a buffer   *)
(* with a length or a string that ends where its NUL is.                   *)
(***************************************************************************)
EXTENDS Integers, SequencesExt

CONSTANTS
    TOKEN_SIZE,     \* sizeof(struct sxe_jitson)
    STRING_SIZE     \* what of it is string space

NUL     == 0
Newline == 10
Quote   == 34
Escape  == 92
Minus   == 45
Plus    == 43
Dot     == 46
Space   == 9 .. 13 \union {32}
Digit   == 48 .. 57
Alpha   == 65 .. 90 \union 97 .. 122
Hex     == Digit \union 65 .. 70 \union 97 .. 102
Ident   == Digit \union Alpha \union {Dot, 95}      \* identifier_chars

(* sxe_jitson_source_from_buffer, and sxe_jitson_source_set_file_line *)
from_buffer(text, flags, line) == [text |-> text, next |-> 1, bounded |-> TRUE, flags |-> flags, line |-> line]

(* sxe_jitson_source_from_string: the NUL is one of the characters. *)
from_string(text, flags, line) ==
    [text |-> Append(text, NUL), next |-> 1, bounded |-> FALSE, flags |-> flags, line |-> line]

AtEnd(src) == src.next > Len(src.text)

peek_char(src) == IF AtEnd(src) THEN NUL ELSE src.text[src.next]

(* How many characters from position i on are in the set. *)
Span(src, i, set) ==
    LET n[k \in 0 .. Len(src.text)] ==
          IF i + k <= Len(src.text) /\ src.text[i + k] \in set THEN 1 + n[k + 1] ELSE 0
    IN  n[0]

Newlines(src, i, n) == Len(SelectSeq(SubSeq(src.text, i, i + n - 1), LAMBDA c : c = Newline))

(* n characters are passed, and their lines counted if lines are. *)
Pass(src, n) ==
    [src EXCEPT !.next = @ + n, !.line = IF @ = 0 THEN 0 ELSE @ + Newlines(src, src.next, n)]

get_char(src) ==
    IF AtEnd(src) \/ (~ src.bounded /\ peek_char(src) = NUL) THEN [c |-> NUL, src |-> src]
    ELSE [c |-> peek_char(src), src |-> Pass(src, 1)]

peek_nonspace(src) ==
    LET s == Pass(src, Span(src, src.next, Space)) IN [c |-> peek_char(s), src |-> s]

get_nonspace(src) == get_char(peek_nonspace(src).src)

(* sxe_jitson_source_consume: of the newlines passed, only one that comes first is
   counted - and it is even if nothing is passed. *)
consume(src, n) ==
    LET line == IF src.line # 0 /\ peek_char(src) = Newline THEN src.line + 1 ELSE src.line IN
    [src EXCEPT !.line = line, !.next = @ + n]

peek_identifier(src) == Span(src, src.next, Ident)

get_identifier(src) == [len |-> peek_identifier(src), src |-> consume(src, peek_identifier(src))]

(* Up to the next white space or the end: at least one character. *)
peek_token(src) ==
    LET s == peek_nonspace(src).src IN
    IF peek_char(s) = NUL THEN [len |-> 0, src |-> s]
    ELSE [len |-> 1 + Span(s, s.next + 1, (1 .. 255) \ Space), src |-> s]

(* sxe_jitson_source_get_number: how long it is, 0 if it is none, where the source
   is left, and whether it is unsigned.  At: the character n places on. *)
get_number(src) ==
    LET at(n) == IF src.next + n > Len(src.text) THEN NUL ELSE src.text[src.next + n]
        digits(n) == Span(src, src.next + n, Digit)
        sign == IF at(0) = Minus THEN 1 ELSE 0
        bad(n) == [len |-> 0, uint |-> FALSE, src |-> [src EXCEPT !.next = @ + n]]
        good(n, uint) == [len |-> n, uint |-> uint, src |-> [src EXCEPT !.next = @ + n]]
        hex  == 2 + Span(src, src.next + 2, Hex)
        int  == sign + digits(sign)
        frac == IF at(int) = Dot THEN int + 1 + digits(int + 1) ELSE int
        mark == IF at(frac) \in {69, 101} THEN frac + 1 + (IF at(frac + 1) \in {Minus, Plus} THEN 1 ELSE 0)
                                          ELSE frac
        exp  == IF mark > frac THEN mark + digits(mark) ELSE frac
    IN  IF at(sign) \notin Digit THEN bad(sign)
        ELSE IF "ALLOW_HEX" \in src.flags /\ at(0) = 48 /\ at(1) = 120
             THEN IF hex <= 2 THEN bad(hex) ELSE good(hex, TRUE)
        ELSE IF frac = int + 1 THEN bad(frac)
        ELSE IF mark > frac /\ exp = mark THEN bad(mark)
        ELSE good(exp, sign = 0 /\ exp = int)

(* sxe_jitson_source_get_literal: its length with both quotes, 0 if it has no end. *)
get_literal(src) ==
    LET n == Span(src, src.next + 1, (1 .. 255) \ {Quote})
        s == Pass(src, n + 1)
    IN  IF peek_char(src) # Quote THEN [len |-> 0, src |-> src]
        ELSE IF peek_char(s) # Quote THEN [len |-> 0, src |-> s]
        ELSE [len |-> n + 2, src |-> Pass(src, n + 2)]
-----------------------------------------------------------------------------
(* sxe_unicode_to_utf8 *)
unicode_to_utf8(u) ==
    LET tail(shift) == 128 + ((u \div 2^shift) % 64) IN
    IF u <= 127 THEN <<u>>
    ELSE IF u <= 2047 THEN <<192 + u \div 64, tail(0)>>
    ELSE IF u <= 65535 THEN <<224 + u \div 4096, tail(6), tail(0)>>
    ELSE IF u <= 1114111 THEN <<240 + u \div 262144, tail(12), tail(6), tail(0)>>
    ELSE <<>>

HexValue(c) == IF c \in Digit THEN c - 48 ELSE IF c > 96 THEN c - 87 ELSE c - 55

(* What is written for the escape whose character is at position i: the bytes, and
   where the text goes on; no bytes if it is none. *)
Escaped(src, i) ==
    LET c == IF i > Len(src.text) THEN NUL ELSE src.text[i]
        simple == [e \in {Quote, Escape, 47, 98, 102, 110, 114, 116} |->
                     CASE e = 98 -> 8 [] e = 102 -> 12 [] e = 110 -> 10 [] e = 114 -> 13
                       [] e = 116 -> 9 [] OTHER -> e]
        h(k) == HexValue(src.text[i + k])
    IN  IF c \in DOMAIN simple THEN [bytes |-> <<simple[c]>>, next |-> i + 1]
        ELSE IF c = 117 /\ Span(src, i + 1, Hex) >= 4
             THEN [bytes |-> unicode_to_utf8(4096 * h(1) + 256 * h(2) + 16 * h(3) + h(4)), next |-> i + 5]
        ELSE [bytes |-> <<>>, next |-> i]

(* Mutant of StringTurn: no byte is kept for the NUL. *)
StringTurnTight(src, st) ==
    LET i == st.next
        c == IF i > Len(src.text) THEN NUL ELSE src.text[i]
        e == IF c = Escape THEN Escaped(src, i + 1) ELSE [bytes |-> <<c>>, next |-> i + 1]
        space == st.space - 1
        grown == space < Len(e.bytes) - 1
    IN  IF c = Quote THEN [st EXCEPT !.done = TRUE, !.next = i + 1]
        ELSE IF c = NUL \/ e.bytes = <<>> THEN [st EXCEPT !.done = TRUE, !.err = TRUE]
        ELSE [st EXCEPT !.bytes = @ \o e.bytes, !.next = e.next,
                        !.tokens = IF grown THEN @ + 1 ELSE @,
                        !.space = space + (IF grown THEN TOKEN_SIZE ELSE 0) - (Len(e.bytes) - 1)]

(* One character of the string: stored, with another token on the stack if the
   rest of its bytes and the NUL do not fit. *)
StringTurn(src, st) ==
    LET i == st.next
        c == IF i > Len(src.text) THEN NUL ELSE src.text[i]
        e == IF c = Escape THEN Escaped(src, i + 1) ELSE [bytes |-> <<c>>, next |-> i + 1]
        space == st.space - 1
        grown == space < Len(e.bytes)
    IN  IF c = Quote THEN [st EXCEPT !.done = TRUE, !.next = i + 1]
        ELSE IF c = NUL \/ e.bytes = <<>> THEN [st EXCEPT !.done = TRUE, !.err = TRUE]
        ELSE [st EXCEPT !.bytes = @ \o e.bytes, !.next = e.next,
                        !.tokens = IF grown THEN @ + 1 ELSE @,
                        !.space = space + (IF grown THEN TOKEN_SIZE ELSE 0) - (Len(e.bytes) - 1)]

(* sxe_jitson_stack_load_string: the bytes, the tokens they are in and where the
   source is left.  On an error the tokens are given back; where the source is then
   left is not kept. *)
load_string(src) ==
    LET q == get_nonspace(src)
        first == [next |-> q.src.next, bytes |-> <<>>, tokens |-> 1, space |-> STRING_SIZE,
                  done |-> FALSE, err |-> FALSE]
        end == FoldLeft(LAMBDA st, c : IF st.done THEN st ELSE StringTurn(src, st), first, Append(src.text, NUL))
    IN  IF q.c # Quote \/ end.err THEN [ok |-> FALSE, bytes |-> <<>>, tokens |-> 0, next |-> 0]
        ELSE [ok |-> TRUE, bytes |-> end.bytes, tokens |-> end.tokens, next |-> end.next]
-----------------------------------------------------------------------------
(* Is this a number as json.org has it (leading zeros apart), or hexadecimal? *)
Digits(t) == t # <<>> /\ \A k \in DOMAIN t : t[k] \in Digit
Unsigned(t) ==
    \E i \in 0 .. Len(t), j \in 0 .. Len(t) :
        LET int == SubSeq(t, 1, i) frac == SubSeq(t, i + 1, j) exp == SubSeq(t, j + 1, Len(t)) IN
        /\ i <= j /\ Digits(int)
        /\ frac = <<>> \/ (frac[1] = Dot /\ Digits(Tail(frac)))
        /\ exp = <<>> \/ /\ exp[1] \in {69, 101}
                         /\ Digits(Tail(exp)) \/ (Len(exp) > 2 /\ exp[2] \in {Minus, Plus}
                                                  /\ Digits(SubSeq(exp, 3, Len(exp))))
IsHex(t) == Len(t) > 2 /\ t[1] = 48 /\ t[2] = 120 /\ \A k \in 3 .. Len(t) : t[k] \in Hex
IsNumber(t, flags) ==
    Unsigned(t) \/ (t # <<>> /\ t[1] = Minus /\ Unsigned(Tail(t))) \/ ("ALLOW_HEX" \in flags /\ IsHex(t))

(* A number is the longest one the text begins with; if there is none, or it goes
   on with a point or an exponent that is not complete, the text is refused.  What
   is taken for an unsigned integer is one. *)
NumberRight(text, flags) ==
    \A r \in {get_number(src) : src \in {from_buffer(text, flags, 0), from_string(text, flags, 0)}} :
        LET begins == {n \in 1 .. Len(text) : IsNumber(SubSeq(text, 1, n), flags)}
            n == r.len
        IN  /\ n > 0 => n \in begins /\ (\A k \in begins : k <= n) /\ r.src.next = n + 1
            /\ n > 0 => (r.uint <=> \A k \in 1 .. n : text[k] \in Digit \/ IsHex(SubSeq(text, 1, n)))
            /\ n = 0 /\ begins # {} =>
                  LET k == CHOOSE m \in begins : \A l \in begins : l <= m IN
                  k < Len(text) /\ text[k + 1] \in {Dot, 69, 101, 120}

(* What UTF-8 bytes stand for. *)
CodePoint(b) ==
    CASE Len(b) = 1 -> b[1]
      [] Len(b) = 2 -> (b[1] - 192) * 64 + b[2] - 128
      [] Len(b) = 3 -> (b[1] - 224) * 4096 + (b[2] - 128) * 64 + b[3] - 128

(* A string is loaded into as many tokens as sxe_jitson_size will say it has, so
   that the next value is found behind it, and all its bytes and the NUL are in
   them; where the source is, is right behind the closing quote. *)
StringRight(pieces) ==
    LET text == <<Quote>> \o pieces IN
    \A r \in {load_string(from_string(text, {}, 0))} :
        /\ r = load_string(from_buffer(text, {}, 0))
        /\ r.ok => /\ STRING_SIZE + (r.tokens - 1) * TOKEN_SIZE >= Len(r.bytes) + 1
                   /\ r.tokens = (STRING_SIZE + Len(r.bytes)) \div TOKEN_SIZE + 1
                   /\ text[r.next - 1] = Quote
        /\ \A u \in {65, 127, 128, 233, 2047, 2048, 8364, 65535} :
              CodePoint(unicode_to_utf8(u)) = u

(* However a text is read (an identifier as the parser does, once white space is
   skipped), the line is one more for every newline passed, and nothing behind the
   end is passed. *)
Moves(src) ==
    {get_char(src).src, get_nonspace(src).src, peek_nonspace(src).src, peek_token(src).src,
     get_literal(src).src, get_identifier(peek_nonspace(src).src).src}
LinesRight(text) ==
    \A first \in {from_buffer(text, {}, 1), from_string(text, {}, 1)} :
        LET second == UNION {Moves(s) : s \in Moves(first)} IN
        \A s \in second :
            /\ s.line = 1 + Newlines(first, 1, s.next - 1)
            /\ s.next <= Len(text) + 1
            /\ peek_token(s).len + peek_token(s).src.next <= Len(text) + 1
=============================================================================
