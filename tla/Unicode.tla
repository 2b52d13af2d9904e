------------------------------- MODULE Unicode -------------------------------
(***************************************************************************)
(* What a text file in one of the three encodings is: a byte order mark    *)
(* and the encodings of its code points (the USAGE text of                 *)
(* utf8_utf16_transform/include/utf.h: files with a byte order mark,       *)
(* between utf-8, utf-16le and utf-16be).  Nothing here looks at the code. *)
(***************************************************************************)
EXTENDS Integers, Sequences

Formats == {"UTF8", "UTF16LE", "UTF16BE"}

Mark(f) == IF f = "UTF8" THEN <<\hEF, \hBB, \hBF>>
           ELSE IF f = "UTF16LE" THEN <<\hFF, \hFE>> ELSE <<\hFE, \hFF>>

IsScalar(p) == p \in Nat /\ (p < \hD800 \/ (\hE000 <= p /\ p <= \h10FFFF))

\* The code units of a code point in UTF-16.
Units(p) == IF p < \h10000 THEN <<p>>
            ELSE <<\hD800 + (p - \h10000) \div \h400, \hDC00 + ((p - \h10000) % \h400)>>

\* A code unit, the low byte first or the high one.
Unit(f, u) == IF f = "UTF16LE" THEN <<u % 256, u \div 256>> ELSE <<u \div 256, u % 256>>

Utf8(p) ==
    IF p < \h80 THEN <<p>>
    ELSE IF p < \h800 THEN <<\hC0 + p \div 64, \h80 + (p % 64)>>
    ELSE IF p < \h10000
    THEN <<\hE0 + p \div 4096, \h80 + ((p \div 64) % 64), \h80 + (p % 64)>>
    ELSE <<\hF0 + p \div 262144, \h80 + ((p \div 4096) % 64),
           \h80 + ((p \div 64) % 64), \h80 + (p % 64)>>

Character(f, p) ==
    IF f = "UTF8" THEN Utf8(p)
    ELSE IF Len(Units(p)) = 1 THEN Unit(f, p)
    ELSE Unit(f, Units(p)[1]) \o Unit(f, Units(p)[2])

Text(f, points) ==
    LET text[n \in 0 .. Len(points)] ==
            IF n = 0 THEN Mark(f) ELSE text[n - 1] \o Character(f, points[n])
    IN  text[Len(points)]
=============================================================================
