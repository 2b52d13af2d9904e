------------------------------- MODULE Glyphs -------------------------------
(***************************************************************************)
(* Between code points and glyphs: the pure functions of utf.c, utf8.c,    *)
(* utf16le.c and utf16be.c (utf8_utf16_transform/src) on a little-endian   *)
(* machine.  A glyph is its bytes in memory: four for a utf8_glyph_t, or   *)
(* the two halves of a utf16_glyph_t, upper_bytes at 0 and lower_bytes at  *)
(* 2; a result has only as many bytes as its size_of_glyph.                *)
(***************************************************************************)
EXTENDS Integers, Sequences

Short(mem, at) == mem[at + 1] + 256 * mem[at + 2]

Bytes(short) == <<short % 256, short \div 256>>

is_upper_surrogate_pair(mem) == \hD800 < Short(mem, 0) /\ Short(mem, 0) < \hDBFF
is_lower_surrogate_pair(mem) == \hDC00 < Short(mem, 2) /\ Short(mem, 2) < \hDFFF

utf16_glyph_to_code_point(mem) ==
    IF is_upper_surrogate_pair(mem)
    THEN (Short(mem, 0) - \hD800) * \h400 + ((Short(mem, 2) - \hDC00) % \h400) + \h10000
    ELSE Short(mem, 0)

\* Mutant of is_code_point_surrogate: decimal digits.
IsDecimalSurrogate(p) == p >= 10000

is_code_point_surrogate(p) == p >= \h10000

code_point_to_utf16le_glyph(p) ==
    IF is_code_point_surrogate(p)
    THEN Bytes((p - \h10000) \div \h400 + \hD800) \o Bytes(((p - \h10000) % \h400) + \hDC00)
    ELSE Bytes(p)

code_point_to_utf16be_glyph(p) ==
    LET g == code_point_to_utf16le_glyph(p)
    IN  IF Len(g) = 2 THEN <<g[2], g[1]>> ELSE <<g[2], g[1], g[4], g[3]>>

utf8_glyph_size_of_code_point(p) ==
    IF p <= \h7F THEN 1 ELSE IF p <= \h7FF THEN 2 ELSE IF p <= \hFFFF THEN 3 ELSE 4

\* A byte of six bits of p, those that are left when p is shifted by a power of 64.
Continued(p, shifted) == \h80 + ((p \div shifted) % 64)

code_point_to_utf8_glyph(p) ==
    LET size == utf8_glyph_size_of_code_point(p)
    IN  IF size = 1 THEN <<p>>
        ELSE IF size = 2 THEN <<\hC0 + ((p \div 64) % 32), Continued(p, 1)>>
        ELSE IF size = 3 THEN <<\hE0 + ((p \div 4096) % 16), Continued(p, 64), Continued(p, 1)>>
        ELSE <<\hF0 + ((p \div 262144) % 8), Continued(p, 4096), Continued(p, 64), Continued(p, 1)>>

remaining_utf8_bytes(first) ==
    IF first \div 8 = \h1E THEN 3
    ELSE IF first \div 16 = \hE THEN 2
    ELSE IF first \div 32 = \h6 THEN 1 ELSE 0

utf8_decode(mem, size) ==
    IF size = 1 THEN mem[1]
    ELSE IF size = 2 THEN (mem[1] % 32) * 64 + (mem[2] % 64)
    ELSE IF size = 3 THEN (mem[1] % 16) * 4096 + (mem[2] % 64) * 64 + (mem[3] % 64)
    ELSE (mem[1] % 8) * 262144 + (mem[2] % 64) * 4096 + (mem[3] % 64) * 64 + (mem[4] % 64)
=============================================================================
