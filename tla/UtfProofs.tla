------------------------------ MODULE UtfProofs ------------------------------
(***************************************************************************)
(* Theorems about the functions of module Glyphs, for every code point,    *)
(* and about the sessions of module Utf: what a failure leaves, and that   *)
(* the conversions write the text that they read.                          *)
(***************************************************************************)
EXTENDS Utf, SequenceTheorems, WellFoundedInduction, NaturalsInduction, TLAPS

\* The lead byte that code_point_to_utf8_glyph writes announces exactly the bytes
\* that follow it, and decoding them gives the code point back.
THEOREM Utf8RoundTrip ==
    ASSUME NEW p \in Nat, p <= \h10FFFF
    PROVE  LET g == code_point_to_utf8_glyph(p)
           IN  /\ Len(g) = utf8_glyph_size_of_code_point(p)
               /\ remaining_utf8_bytes(g[1]) + 1 = Len(g)
               /\ utf8_decode(g, Len(g)) = p
<1> DEFINE g == code_point_to_utf8_glyph(p)
<1>1. CASE p <= \h7F
  <2>1. g = <<p>> BY <1>1, SMT DEF code_point_to_utf8_glyph, utf8_glyph_size_of_code_point
  <2>2. Len(g) = 1 /\ utf8_glyph_size_of_code_point(p) = 1
    BY <1>1, <2>1, SMT DEF utf8_glyph_size_of_code_point
  <2>3. remaining_utf8_bytes(g[1]) = 0 BY <1>1, <2>1, SMT DEF remaining_utf8_bytes
  <2>4. utf8_decode(g, 1) = p BY <2>1, SMT DEF utf8_decode
  <2> QED BY <2>2, <2>3, <2>4, SMT
<1>2. CASE p > \h7F /\ p <= \h7FF
  <2>1. g = <<\hC0 + ((p \div 64) % 32), \h80 + ((p \div 1) % 64)>>
    BY <1>2, SMT DEF code_point_to_utf8_glyph, utf8_glyph_size_of_code_point, Continued
  <2>2. Len(g) = 2 /\ utf8_glyph_size_of_code_point(p) = 2
    BY <1>2, <2>1, SMT DEF utf8_glyph_size_of_code_point
  <2>3. remaining_utf8_bytes(g[1]) = 1 BY <1>2, <2>1, SMT DEF remaining_utf8_bytes
  <2>4. utf8_decode(g, 2) = p BY <1>2, <2>1, SMT DEF utf8_decode
  <2> QED BY <2>2, <2>3, <2>4, SMT
<1>3. CASE p > \h7FF /\ p <= \hFFFF
  <2>1. g = <<\hE0 + ((p \div 4096) % 16), \h80 + ((p \div 64) % 64), \h80 + ((p \div 1) % 64)>>
    BY <1>3, SMT DEF code_point_to_utf8_glyph, utf8_glyph_size_of_code_point, Continued
  <2>2. Len(g) = 3 /\ utf8_glyph_size_of_code_point(p) = 3
    BY <1>3, <2>1, SMT DEF utf8_glyph_size_of_code_point
  <2>3. remaining_utf8_bytes(g[1]) = 2 BY <1>3, <2>1, SMT DEF remaining_utf8_bytes
  <2>4. utf8_decode(g, 3) = p BY <1>3, <2>1, SMT DEF utf8_decode
  <2> QED BY <2>2, <2>3, <2>4, SMT
<1>4. CASE p > \hFFFF
  <2>1. g = <<\hF0 + ((p \div 262144) % 8), \h80 + ((p \div 4096) % 64),
              \h80 + ((p \div 64) % 64), \h80 + ((p \div 1) % 64)>>
    BY <1>4, SMT DEF code_point_to_utf8_glyph, utf8_glyph_size_of_code_point, Continued
  <2>2. Len(g) = 4 /\ utf8_glyph_size_of_code_point(p) = 4
    BY <1>4, <2>1, SMT DEF utf8_glyph_size_of_code_point
  <2>3. remaining_utf8_bytes(g[1]) = 3 BY <1>4, <2>1, SMT DEF remaining_utf8_bytes
  <2>4. utf8_decode(g, 4) = p BY <1>4, <2>1, SMT DEF utf8_decode
  <2> QED BY <2>2, <2>3, <2>4, SMT
<1> QED BY <1>1, <1>2, <1>3, <1>4, SMT

-----------------------------------------------------------------------------
(***************************************************************************)
(* UTF-16.                                                                 *)
(***************************************************************************)
\* Two sequences of two.
LEMMA TwoAndTwo ==
    ASSUME NEW s \in Seq(Nat), NEW t \in Seq(Nat), Len(s) = 2, Len(t) = 2
    PROVE  /\ Len(s \o t) = 4
           /\ (s \o t)[1] = s[1] /\ (s \o t)[2] = s[2]
           /\ (s \o t)[3] = t[1] /\ (s \o t)[4] = t[2]
<1> DEFINE u == s \o t
<1>1. Len(u) = Len(s) + Len(t) BY ConcatProperties, Zenon
<1>2. \A i \in 1 .. Len(s) + Len(t) : u[i] = IF i <= Len(s) THEN s[i] ELSE t[i - Len(s)]
  BY ConcatProperties, Zenon
<1> HIDE DEF u
<1>3. Len(u) = 4 /\ u[1] = s[1] /\ u[2] = s[2] /\ u[3] = t[1] /\ u[4] = t[2]
  BY <1>1, <1>2, SMT
<1> QED BY <1>3, Zenon DEF u

\* The two units of a code point from \h10000 on, as the bytes in memory.
LEMMA PairInMemory ==
    ASSUME NEW p \in Nat, p >= \h10000, p <= \h10FFFF
    PROVE  LET g == code_point_to_utf16le_glyph(p)
           IN  /\ Len(g) = 4
               /\ Short(g, 0) = \hD800 + ((p - \h10000) \div \h400)
               /\ Short(g, 2) = \hDC00 + ((p - \h10000) % \h400)
<1> DEFINE upper == (p - \h10000) \div \h400 + \hD800
           lower == ((p - \h10000) % \h400) + \hDC00
           g == code_point_to_utf16le_glyph(p)
<1>1. upper \in Nat /\ lower \in Nat BY SMT
<1> HIDE DEF upper, lower
<1>2. g = Bytes(upper) \o Bytes(lower)
  BY SMT DEF code_point_to_utf16le_glyph, is_code_point_surrogate, upper, lower
<1>3. Bytes(upper) \in Seq(Nat) /\ Bytes(lower) \in Seq(Nat)
  BY <1>1, SMT DEF Bytes
<1>4. Len(Bytes(upper)) = 2 /\ Len(Bytes(lower)) = 2 BY SMT DEF Bytes
<1> DEFINE s == Bytes(upper)
           t == Bytes(lower)
<1> HIDE DEF g, s, t
<1>5. s \in Seq(Nat) /\ t \in Seq(Nat) /\ Len(s) = 2 /\ Len(t) = 2
  BY <1>3, <1>4 DEF s, t
<1>6. g = s \o t BY <1>2 DEF s, t
<1>7. Len(g) = 4 /\ g[1] = s[1] /\ g[2] = s[2] /\ g[3] = t[1] /\ g[4] = t[2]
  BY <1>5, <1>6, TwoAndTwo
<1>8. Short(g, 0) = upper /\ Short(g, 2) = lower BY <1>1, <1>7, SMT DEF Short, Bytes, s, t
<1> QED BY <1>7, <1>8, SMT DEF upper, lower, g

\* A code point of one unit.
LEMMA UnitInMemory ==
    ASSUME NEW p \in Nat, p < \h10000
    PROVE  LET g == code_point_to_utf16le_glyph(p) IN Len(g) = 2 /\ Short(g, 0) = p
<1> DEFINE g == code_point_to_utf16le_glyph(p)
<1>1. g = <<p % 256, p \div 256>>
  BY SMT DEF code_point_to_utf16le_glyph, is_code_point_surrogate, Bytes
<1> QED BY <1>1, SMT DEF Short

\* Every code point comes back from UTF-16, but for those whose upper surrogate is
\* the first or the last one (and the upper surrogates themselves, which are no
\* characters).
THEOREM Utf16RoundTrip ==
    ASSUME NEW p \in Nat, p < \h10FC00,
           p <= \hD800 \/ (\hDBFF <= p /\ p < \h10000) \/ \h10400 <= p
    PROVE  utf16_glyph_to_code_point(code_point_to_utf16le_glyph(p)) = p
<1> DEFINE g == code_point_to_utf16le_glyph(p)
<1>1. CASE p < \h10000
  <2>1. Short(g, 0) = p BY <1>1, UnitInMemory
  <2>2. ~is_upper_surrogate_pair(g) BY <1>1, <2>1, SMT DEF is_upper_surrogate_pair
  <2> QED BY <2>1, <2>2, SMT DEF utf16_glyph_to_code_point
<1>2. CASE p >= \h10400
  <2>1. /\ Short(g, 0) = \hD800 + ((p - \h10000) \div \h400)
        /\ Short(g, 2) = \hDC00 + ((p - \h10000) % \h400)
    BY <1>2, PairInMemory, SMT
  <2>2. is_upper_surrogate_pair(g) BY <1>2, <2>1, SMT DEF is_upper_surrogate_pair
  <2> QED BY <1>2, <2>1, <2>2, SMT DEF utf16_glyph_to_code_point
<1> QED BY <1>1, <1>2, SMT

\* Those others do not: the comparisons of is_upper_surrogate_pair (utf.c, line 100)
\* leave out the ends of the range, and the loops from UTF-16 to utf-8 take the upper
\* unit, and then the lower one, for a character.
THEOREM EndSurrogatesAreLost ==
    ASSUME NEW p \in Nat, p <= \h10FFFF, (\h10000 <= p /\ p < \h10400) \/ \h10FC00 <= p
    PROVE  utf16_glyph_to_code_point(code_point_to_utf16le_glyph(p)) \in {\hD800, \hDBFF}
<1> DEFINE g == code_point_to_utf16le_glyph(p)
<1>1. Short(g, 0) = \hD800 + ((p - \h10000) \div \h400) BY PairInMemory, SMT
<1>2. Short(g, 0) = \hD800 \/ Short(g, 0) = \hDBFF BY <1>1, SMT
<1>3. ~is_upper_surrogate_pair(g) BY <1>2, SMT DEF is_upper_surrogate_pair
<1> QED BY <1>2, <1>3, SMT DEF utf16_glyph_to_code_point
-----------------------------------------------------------------------------
(***************************************************************************)
(* The session.                                                            *)
(***************************************************************************)
\* Until the files have been opened nothing is written, and a session that fails does
\* so before that.
Unopened == pc \in {"args", "check", "open", "exit"} => outfile = Existing

\* It holds.
LEMMA UnopenedHolds == Spec => []Unopened
<1>1. Init => Unopened
  BY DEF Init, Unopened
<1>2. ASSUME Unopened, [Next]_vars PROVE Unopened'
  <2> USE <1>2 DEF Unopened
  <2>1. CASE Encoding \/ Positional \/ Usage
    BY <2>1 DEF Encoding, Positional, Usage, Parsing
  <2>2. CASE EndOfArgs \/ check_bom
    BY <2>2 DEF EndOfArgs, check_bom
  <2>3. CASE OpenFiles
    BY <2>3 DEF OpenFiles
  <2>4. CASE transcribe \/ Begin
    BY <2>4 DEF transcribe, Begin
  <2>5. CASE FromUtf8 \/ ToUtf8
    BY <2>5 DEF FromUtf8, ToUtf8, Turn
  <2>6. CASE Swap \/ EndOfFile
    BY <2>6 DEF Swap, Turn, EndOfFile
  <2>7. CASE UNCHANGED vars
    BY <2>7 DEF vars
  <2> QED BY <1>2, <2>1, <2>2, <2>3, <2>4, <2>5, <2>6, <2>7 DEF Next
<1> QED BY <1>1, <1>2, PTL DEF Spec

\* Of every command line, every input, with a mark or without, and every output that
\* is there: also of lines on which -e is given more than once, or last.
THEOREM FailuresKeepOutput == Spec => []FailureKeepsOutput
<1>1. Unopened => FailureKeepsOutput
  BY DEF Unopened, FailureKeepsOutput
<1> QED BY <1>1, UnopenedHolds, PTL

-----------------------------------------------------------------------------
(***************************************************************************)
(* Texts.                                                                  *)
(***************************************************************************)
\* Every set of numbers that is not empty has a least one.
LEMMA LeastIs ==
    ASSUME NEW S, S \subseteq Nat, S # {}
    PROVE  \E n \in S : \A m \in S : n <= m
<1> DEFINE less == {ss \in Nat \X Nat : ss[1] < ss[2]}
<1>1. IsWellFoundedOn(less, Nat)
  BY NatLessThanWellFounded DEF OpToRel
<1>2. \E n \in S : \A m \in S : ~ (<<m, n>> \in less)
  <2> HIDE DEF less
  <2> QED BY <1>1, WFMin
<1>3. \A m, n \in S : ~ (<<m, n>> \in less) => n <= m
  OBVIOUS
<1> QED BY <1>2, <1>3

\* The recursive function of Text, on the first characters of a text.
IsText(f, pts, t, N) ==
    t = [n \in 0 .. N |-> IF n = 0 THEN U!Mark(f) ELSE t[n - 1] \o U!Character(f, pts[n])]

\* There is one.
LEMMA TextExists == \A f, pts : \A N \in Nat : \E t : IsText(f, pts, t, N)
<1> SUFFICES ASSUME NEW f, NEW pts, NEW N \in Nat PROVE \E t : IsText(f, pts, t, N)
  OBVIOUS
<1> DEFINE S == {n \in Nat : ~ \E t : IsText(f, pts, t, n)}
<1>1. ASSUME S # {} PROVE FALSE
  <2>1. PICK k \in S : \A m \in S : k <= m
    <3>1. S \subseteq Nat OBVIOUS
    <3> HIDE DEF S
    <3> QED BY <1>1, <3>1, LeastIs
  <2>2. k \in Nat /\ ~ \E t : IsText(f, pts, t, k) OBVIOUS
  <2>3. k # 0
    <3> DEFINE t == [n \in 0 .. 0 |-> U!Mark(f)]
    <3>1. IsText(f, pts, t, 0) BY DEF IsText
    <3> QED BY <2>2, <3>1
  <2>4. PICK t : IsText(f, pts, t, k - 1)
    <3>1. k - 1 \in Nat /\ k - 1 \notin S BY <2>1, <2>2, <2>3
    <3> QED BY <3>1
  <2> DEFINE last == t[k - 1] \o U!Character(f, pts[k])
             new  == [n \in 0 .. k |-> IF n < k THEN t[n] ELSE last]
  <2>5. ASSUME NEW n \in 0 .. k
        PROVE  new[n] = IF n = 0 THEN U!Mark(f) ELSE new[n - 1] \o U!Character(f, pts[n])
    <3>1. n \in Nat /\ n <= k BY <2>2
    <3>2. CASE n < k
      <4>1. n \in 0 .. k - 1 BY <2>2, <3>1, <3>2
      <4>2. t[n] = IF n = 0 THEN U!Mark(f) ELSE t[n - 1] \o U!Character(f, pts[n])
        BY <2>4, <4>1 DEF IsText
      <4>3. new[n] = t[n] BY <3>2
      <4>4. n # 0 => n - 1 \in 0 .. k /\ n - 1 < k BY <2>2, <3>1, <3>2
      <4>5. n # 0 => new[n - 1] = t[n - 1] BY <4>4
      <4> HIDE DEF new
      <4> QED BY <4>2, <4>3, <4>5, Zenon
    <3>3. CASE n = k
      <4>1. new[n] = last
        <5>1. ~ (n < k) BY <2>2, <3>3
        <5> HIDE DEF last
        <5> QED BY <5>1
      <4>2. n - 1 \in 0 .. k /\ n - 1 < k BY <2>2, <2>3, <3>3
      <4>3. new[n - 1] = t[k - 1] BY <3>3, <4>2
      <4> HIDE DEF new
      <4> QED BY <2>3, <3>3, <4>1, <4>3, Zenon
    <3> QED BY <2>2, <3>1, <3>2, <3>3
  <2>6. IsText(f, pts, new, k)
    <3>1. new = [n \in 0 .. k |-> new[n]] OBVIOUS
    <3> HIDE DEF new
    <3> QED BY <2>5, <3>1 DEF IsText
  <2> QED BY <2>2, <2>6
<1>2. N \notin S BY <1>1
<1> QED BY <1>2

\* Two texts that begin with the same characters.
Alike(p, q, M) == \A i \in 1 .. M : p[i] = q[i]

\* Texts that begin with the same characters have functions that begin alike.
LEMMA TextsAgree ==
    ASSUME NEW f, NEW p, NEW q, NEW s, NEW t, NEW M \in Nat, NEW N \in Nat, M <= N,
           IsText(f, p, s, M), IsText(f, q, t, N), Alike(p, q, M)
    PROVE  s[M] = t[M]
<1> DEFINE S == {n \in 0 .. M : s[n] # t[n]}
<1>1. ASSUME S # {} PROVE FALSE
  <2>1. PICK k \in S : \A m \in S : k <= m
    <3>1. S \subseteq Nat OBVIOUS
    <3> HIDE DEF S
    <3> QED BY <1>1, <3>1, LeastIs
  <2>2. k \in 0 .. M /\ k \in 0 .. N /\ s[k] # t[k] OBVIOUS
  <2>3. s[k] = IF k = 0 THEN U!Mark(f) ELSE s[k - 1] \o U!Character(f, p[k])
    BY <2>2 DEF IsText
  <2>4. t[k] = IF k = 0 THEN U!Mark(f) ELSE t[k - 1] \o U!Character(f, q[k])
    BY <2>2 DEF IsText
  <2>5. k # 0 BY <2>2, <2>3, <2>4
  <2>6. k - 1 \in 0 .. M /\ k - 1 \notin S BY <2>1, <2>2, <2>5
  <2>7. s[k - 1] = t[k - 1] BY <2>6
  <2>8. p[k] = q[k] BY <2>2, <2>5 DEF Alike
  <2> QED BY <2>2, <2>3, <2>4, <2>5, <2>7, <2>8, Zenon
<1>2. M \notin S BY <1>1
<1> QED BY <1>2

\* The first characters of a text, encoded.
First(f, pts, n) == U!Text(f, SubSeq(pts, 1, n))

\* They are a value of the function.
LEMMA FirstIs ==
    ASSUME NEW f, NEW pts \in Seq(Nat), NEW t, IsText(f, pts, t, Len(pts)),
           NEW n \in 0 .. Len(pts)
    PROVE  First(f, pts, n) = t[n]
<1> DEFINE q == SubSeq(pts, 1, n)
<1>0. n \in Nat /\ Len(pts) \in Nat /\ n <= Len(pts) OBVIOUS
<1>1. Len(q) = n /\ \A i \in 1 .. n : q[i] = pts[i]
  <2>1. \A i \in 1 .. n : pts[i] \in Nat BY <1>0
  <2>2. /\ Len(q) = IF 1 <= n THEN n - 1 + 1 ELSE 0
        /\ \A i \in 1 .. n - 1 + 1 : q[i] = pts[1 + i - 1]
    BY <1>0, <2>1, SubSeqProperties
  <2> HIDE DEF q
  <2> QED BY <1>0, <2>2
<1> HIDE DEF q
<1>2. PICK g : IsText(f, q, g, n) BY <1>0, TextExists
<1> DEFINE text == CHOOSE g0 : IsText(f, q, g0, n)
<1>3. IsText(f, q, text, n) BY <1>2
<1>4. U!Text(f, q) = text[n] BY <1>1 DEF U!Text, IsText
<1> HIDE DEF text
<1>5. PICK s : IsText(f, q, s, n) /\ U!Text(f, q) = s[n] BY <1>3, <1>4
<1>6. s[n] = t[n]
  <2>1. IsText(f, pts, t, Len(pts)) /\ IsText(f, q, s, n) BY <1>5
  <2>2. Alike(q, pts, n) BY <1>1 DEF Alike
  <2> QED BY ONLY <1>0, <2>1, <2>2, TextsAgree
<1> QED BY <1>5, <1>6 DEF First, q

\* A text grows character by character.
LEMMA FirstSteps ==
    ASSUME NEW f, NEW pts \in Seq(Nat)
    PROVE  /\ First(f, pts, 0) = U!Mark(f)
           /\ \A n \in 0 .. Len(pts) - 1 :
                 First(f, pts, n + 1) = First(f, pts, n) \o U!Character(f, pts[n + 1])
           /\ First(f, pts, Len(pts)) = U!Text(f, pts)
<1>0. Len(pts) \in Nat OBVIOUS
<1>1. PICK t : IsText(f, pts, t, Len(pts)) BY <1>0, TextExists
<1>2. \A n \in 0 .. Len(pts) : First(f, pts, n) = t[n] BY <1>1, FirstIs
<1>3. \A n \in 0 .. Len(pts) :
        t[n] = IF n = 0 THEN U!Mark(f) ELSE t[n - 1] \o U!Character(f, pts[n])
  BY <1>1 DEF IsText
<1>4. First(f, pts, 0) = U!Mark(f) BY <1>0, <1>2, <1>3
<1>5. ASSUME NEW n \in 0 .. Len(pts) - 1
      PROVE  First(f, pts, n + 1) = First(f, pts, n) \o U!Character(f, pts[n + 1])
  <2> DEFINE m == n + 1
  <2>1. n \in 0 .. Len(pts) /\ m \in 0 .. Len(pts) /\ m # 0 /\ m - 1 = n BY <1>0
  <2> HIDE DEF m
  <2>2. t[m] = t[n] \o U!Character(f, pts[m]) BY <1>3, <2>1
  <2>3. First(f, pts, m) = First(f, pts, n) \o U!Character(f, pts[m])
    BY <1>2, <2>1, <2>2
  <2> QED BY <2>3 DEF m
<1>6. First(f, pts, Len(pts)) = U!Text(f, pts)
  <2>1. SubSeq(pts, 1, Len(pts)) = pts BY <1>0, SubSeqFull
  <2> QED BY <2>1 DEF First
<1> QED BY <1>4, <1>5, <1>6

-----------------------------------------------------------------------------
\* The code writes a character in utf-8 as module Unicode has it.
LEMMA Utf8Is ==
    ASSUME NEW p \in Nat, p <= \h10FFFF
    PROVE  /\ U!Utf8(p) = code_point_to_utf8_glyph(p)
           /\ U!Utf8(p) \in Seq(Byte) /\ Len(U!Utf8(p)) \in 1 .. 4
<1>1. CASE p <= \h7F
  <2>1. code_point_to_utf8_glyph(p) = <<p>>
    BY <1>1, SMT DEF code_point_to_utf8_glyph, utf8_glyph_size_of_code_point
  <2>2. U!Utf8(p) = <<p>> BY <1>1, SMT DEF U!Utf8
  <2>3. p \in Byte BY <1>1, SMT DEF Byte
  <2> QED BY <2>1, <2>2, <2>3, SMT
<1>2. CASE p > \h7F /\ p <= \h7FF
  <2> DEFINE a == \hC0 + p \div 64
             b == \h80 + (p % 64)
  <2>1. code_point_to_utf8_glyph(p) = <<a, b>>
    <3>1. code_point_to_utf8_glyph(p) = <<\hC0 + ((p \div 64) % 32), \h80 + ((p \div 1) % 64)>>
      BY <1>2, SMT DEF code_point_to_utf8_glyph, utf8_glyph_size_of_code_point, Continued
    <3>2. (p \div 64) % 32 = p \div 64 /\ p \div 1 = p BY <1>2, SMT
    <3> QED BY <3>1, <3>2, SMT
  <2>2. U!Utf8(p) = <<a, b>> BY <1>2, SMT DEF U!Utf8
  <2>3. a \in Byte /\ b \in Byte BY <1>2, SMT DEF Byte
  <2> HIDE DEF a, b
  <2> QED BY <2>1, <2>2, <2>3, SMT
<1>3. CASE p > \h7FF /\ p <= \hFFFF
  <2> DEFINE a == \hE0 + p \div 4096
             b == \h80 + ((p \div 64) % 64)
             c == \h80 + (p % 64)
  <2>1. code_point_to_utf8_glyph(p) = <<a, b, c>>
    <3>1. code_point_to_utf8_glyph(p) = <<\hE0 + ((p \div 4096) % 16), b, \h80 + ((p \div 1) % 64)>>
      BY <1>3, SMT DEF code_point_to_utf8_glyph, utf8_glyph_size_of_code_point, Continued
    <3>2. (p \div 4096) % 16 = p \div 4096 /\ p \div 1 = p BY <1>3, SMT
    <3> QED BY <3>1, <3>2, SMT
  <2>2. U!Utf8(p) = <<a, b, c>> BY <1>3, SMT DEF U!Utf8
  <2>3. a \in Byte /\ b \in Byte /\ c \in Byte BY <1>3, SMT DEF Byte
  <2> HIDE DEF a, b, c
  <2> QED BY <2>1, <2>2, <2>3, SMT
<1>4. CASE p > \hFFFF
  <2> DEFINE a == \hF0 + p \div 262144
             b == \h80 + ((p \div 4096) % 64)
             c == \h80 + ((p \div 64) % 64)
             d == \h80 + (p % 64)
  <2>1. code_point_to_utf8_glyph(p) = <<a, b, c, d>>
    <3>1. code_point_to_utf8_glyph(p)
            = <<\hF0 + ((p \div 262144) % 8), b, c, \h80 + ((p \div 1) % 64)>>
      BY <1>4, SMT DEF code_point_to_utf8_glyph, utf8_glyph_size_of_code_point, Continued
    <3>2. (p \div 262144) % 8 = p \div 262144 /\ p \div 1 = p BY <1>4, SMT
    <3> QED BY <3>1, <3>2, SMT
  <2>2. U!Utf8(p) = <<a, b, c, d>> BY <1>4, SMT DEF U!Utf8
  <2>3. a \in Byte /\ b \in Byte /\ c \in Byte /\ d \in Byte BY <1>4, SMT DEF Byte
  <2> HIDE DEF a, b, c, d
  <2> QED BY <2>1, <2>2, <2>3, SMT
<1> QED BY <1>1, <1>2, <1>3, <1>4, SMT

\* The bytes of a code point in UTF-16 in the two orders, of one unit or of two.
Ordered(p, le, be) ==
    IF p < \h10000
    THEN \E a, b \in Byte : le = <<a, b>> /\ be = <<b, a>> /\ a + 256 * b = p
    ELSE \E a, b, c, d \in Byte :
            /\ le = <<a, b, c, d>> /\ be = <<b, a, d, c>>
            /\ a + 256 * b = \hD800 + ((p - \h10000) \div \h400)
            /\ c + 256 * d = \hDC00 + ((p - \h10000) % \h400)

\* The code writes a character in UTF-16 as module Unicode has it.
LEMMA Utf16Is ==
    ASSUME NEW p \in Nat, p <= \h10FFFF
    PROVE  /\ U!Character("UTF16LE", p) = code_point_to_utf16le_glyph(p)
           /\ U!Character("UTF16BE", p) = code_point_to_utf16be_glyph(p)
           /\ Ordered(p, code_point_to_utf16le_glyph(p), code_point_to_utf16be_glyph(p))
<1>1. CASE p < \h10000
  <2> DEFINE a == p % 256
             b == p \div 256
  <2>1. a \in Byte /\ b \in Byte /\ a + 256 * b = p BY <1>1, SMT DEF Byte
  <2>2. code_point_to_utf16le_glyph(p) = <<a, b>>
    BY <1>1, SMT DEF code_point_to_utf16le_glyph, is_code_point_surrogate, Bytes
  <2>3. U!Character("UTF16LE", p) = <<a, b>> /\ U!Character("UTF16BE", p) = <<b, a>>
    BY <1>1, SMT DEF U!Character, U!Units, U!Unit
  <2> HIDE DEF a, b
  <2>4. code_point_to_utf16be_glyph(p) = <<b, a>>
    BY <2>1, <2>2, SMT DEF code_point_to_utf16be_glyph
  <2> DEFINE le == code_point_to_utf16le_glyph(p)
             be == code_point_to_utf16be_glyph(p)
  <2>5. le = <<a, b>> /\ be = <<b, a>> BY <2>2, <2>4
  <2> HIDE DEF le, be
  <2>6. p < \h10000 BY <1>1
  <2>7. \E aa, bb \in Byte : le = <<aa, bb>> /\ be = <<bb, aa>> /\ aa + 256 * bb = p
    BY <2>1, <2>5, SMT
  <2> QED BY <2>3, <2>5, <2>6, <2>7, SMT DEF le, be, Ordered
<1>2. CASE p >= \h10000
  <2> DEFINE u == \hD800 + ((p - \h10000) \div \h400)
             l == \hDC00 + ((p - \h10000) % \h400)
             a == u % 256
             b == u \div 256
             c == l % 256
             d == l \div 256
  <2>1. u \in Nat /\ u <= 65535 /\ l \in Nat /\ l <= 65535
    <3> DEFINE q == p - \h10000
    <3>1. q \in Nat /\ q <= \hFFFFF BY <1>2, SMT
    <3> HIDE DEF q
    <3>2. /\ q \div \h400 \in Nat /\ q \div \h400 <= \h3FF
          /\ q % \h400 \in Nat /\ q % \h400 <= \h3FF
      BY ONLY <3>1, SMT
    <3> QED BY <3>2, SMT DEF q
  <2>2. code_point_to_utf16le_glyph(p) = Bytes(u) \o Bytes(l)
    BY <1>2, SMT DEF code_point_to_utf16le_glyph, is_code_point_surrogate
  <2>3. U!Units(p) = <<u, l>> BY <1>2, SMT DEF U!Units
  <2> HIDE DEF u, l
  <2>4. /\ U!Character("UTF16LE", p) = <<a, b>> \o <<c, d>>
        /\ U!Character("UTF16BE", p) = <<b, a>> \o <<d, c>>
    <3>1. U!Unit("UTF16LE", u) = <<a, b>> /\ U!Unit("UTF16LE", l) = <<c, d>>
      BY SMT DEF U!Unit
    <3>2. U!Unit("UTF16BE", u) = <<b, a>> /\ U!Unit("UTF16BE", l) = <<d, c>>
      BY SMT DEF U!Unit
    <3> HIDE DEF a, b, c, d
    <3>3. Len(<<u, l>>) # 1 /\ <<u, l>>[1] = u /\ <<u, l>>[2] = l BY SMT
    <3>4. /\ U!Character("UTF16LE", p) = U!Unit("UTF16LE", u) \o U!Unit("UTF16LE", l)
          /\ U!Character("UTF16BE", p) = U!Unit("UTF16BE", u) \o U!Unit("UTF16BE", l)
      BY ONLY <2>3, <3>3, Zenon DEF U!Character
    <3> QED BY ONLY <3>1, <3>2, <3>4, Zenon
  <2>5. Bytes(u) = <<a, b>> /\ Bytes(l) = <<c, d>> BY DEF Bytes
  <2>6. /\ a \in Byte /\ b \in Byte /\ c \in Byte /\ d \in Byte
        /\ a + 256 * b = u /\ c + 256 * d = l
    BY <2>1, SMT DEF Byte
  <2> HIDE DEF a, b, c, d
  <2>7. <<a, b>> \o <<c, d>> = <<a, b, c, d>> /\ <<b, a>> \o <<d, c>> = <<b, a, d, c>>
    <3>1. \A x, y, z, w \in Byte : <<x, y>> \o <<z, w>> = <<x, y, z, w>>
      <4> TAKE x, y, z, w \in Byte
      <4>1. <<x, y>> \in Seq(Byte) /\ <<z, w>> \in Seq(Byte) /\ <<x, y, z, w>> \in Seq(Byte)
        BY SMT
      <4>2. Len(<<x, y>>) = 2 /\ Len(<<z, w>>) = 2 /\ Len(<<x, y, z, w>>) = 4 BY SMT
      <4> DEFINE s == <<x, y>>
                 t == <<z, w>>
                 v == <<x, y, z, w>>
      <4>3. /\ s[1] = x /\ s[2] = y /\ t[1] = z /\ t[2] = w
            /\ v[1] = x /\ v[2] = y /\ v[3] = z /\ v[4] = w
        BY SMT
      <4> HIDE DEF s, t, v
      <4>4. /\ s \o t \in Seq(Byte) /\ Len(s \o t) = Len(s) + Len(t)
            /\ \A i \in 1 .. Len(s) + Len(t) :
                  (s \o t)[i] = IF i <= Len(s) THEN s[i] ELSE t[i - Len(s)]
        BY <4>1, ConcatProperties, SMT DEF s, t
      <4>5. Len(s) = 2 /\ Len(t) = 2 /\ Len(v) = 4 /\ v \in Seq(Byte)
        BY <4>1, <4>2, SMT DEF s, t, v
      <4> DEFINE st == s \o t
      <4> HIDE DEF st
      <4>6. Len(st) = 4 /\ st \in Seq(Byte) BY <4>4, <4>5, SMT DEF st
      <4>7. \A i \in 1 .. 4 : st[i] = IF i <= 2 THEN s[i] ELSE t[i - 2]
        BY ONLY <4>4, <4>5, SMT DEF st
      <4>8. \A i \in 1 .. 4 : st[i] = v[i] BY ONLY <4>3, <4>7, SMT
      <4>9. st = v BY ONLY <4>5, <4>6, <4>8, SeqEqual, SMT
      <4> QED BY ONLY <4>9, Zenon DEF st, s, t, v
    <3> QED BY ONLY <2>6, <3>1, SMT
  <2>8. code_point_to_utf16be_glyph(p) = <<b, a, d, c>>
    BY <2>2, <2>5, <2>6, <2>7, SMT DEF code_point_to_utf16be_glyph
  <2> DEFINE le == code_point_to_utf16le_glyph(p)
             be == code_point_to_utf16be_glyph(p)
  <2>9. le = <<a, b, c, d>> /\ be = <<b, a, d, c>> BY <2>2, <2>5, <2>7, <2>8, SMT
  <2> HIDE DEF le, be
  <2>10. \E aa, bb, cc, dd \in Byte :
            /\ le = <<aa, bb, cc, dd>> /\ be = <<bb, aa, dd, cc>>
            /\ aa + 256 * bb = u /\ cc + 256 * dd = l
    BY ONLY <2>6, <2>9, SMT
  <2>11. U!Character("UTF16LE", p) = le /\ U!Character("UTF16BE", p) = be
    BY <2>4, <2>7, <2>9, SMT
  <2>12. ~ (p < \h10000) BY <1>2, SMT
  <2> QED BY <2>10, <2>11, <2>12, SMT DEF u, l, le, be, Ordered
<1> QED BY <1>1, <1>2, SMT

\* A code point.
IsPoint(p) == p \in Nat /\ p <= \h10FFFF

\* A character has one to four bytes, and two or four in UTF-16.
LEMMA CharacterType ==
    ASSUME NEW p, IsPoint(p), NEW f \in U!Formats
    PROVE  /\ U!Character(f, p) \in Seq(Byte) /\ Len(U!Character(f, p)) \in 1 .. 4
           /\ f # "UTF8" => Len(U!Character(f, p)) \in {2, 4}
<1>0. p \in Nat /\ p <= \h10FFFF BY SMT DEF IsPoint
<1>1. CASE f = "UTF8"
  BY <1>0, <1>1, Utf8Is, SMT DEF U!Character
<1>2. CASE f # "UTF8"
  <2>2. f = "UTF16LE" \/ f = "UTF16BE" BY <1>2, SMT DEF U!Formats
  <2> DEFINE s == U!Character(f, p)
             le == code_point_to_utf16le_glyph(p)
             be == code_point_to_utf16be_glyph(p)
  <2>3. (s = le \/ s = be) /\ Ordered(p, le, be) BY <1>0, <2>2, Utf16Is, SMT
  <2> HIDE DEF s, le, be
  <2>4. s \in Seq(Byte) /\ Len(s) \in {2, 4}
    <3>1. CASE p < \h10000
      <4>1. PICK a, b \in Byte : le = <<a, b>> /\ be = <<b, a>>
        BY ONLY <2>3, <3>1, SMT DEF Ordered
      <4>2. a \in Byte /\ b \in Byte BY <4>1
      <4>3. \A x, y \in Byte : <<x, y>> \in Seq(Byte) /\ Len(<<x, y>>) = 2 BY SMT
      <4> QED BY ONLY <2>3, <4>1, <4>2, <4>3, Zenon
    <3>2. CASE ~ (p < \h10000)
      <4>1. PICK a, b, c, d \in Byte : le = <<a, b, c, d>> /\ be = <<b, a, d, c>>
        BY ONLY <2>3, <3>2, SMT DEF Ordered
      <4>2. a \in Byte /\ b \in Byte /\ c \in Byte /\ d \in Byte BY <4>1
      <4>3. \A x, y, z, w \in Byte :
               <<x, y, z, w>> \in Seq(Byte) /\ Len(<<x, y, z, w>>) = 4
        BY SMT
      <4> QED BY ONLY <2>3, <4>1, <4>2, <4>3, Zenon
    <3> QED BY <3>1, <3>2, SMT
  <2> QED BY <1>2, <2>4, SMT DEF s
<1> QED BY <1>1, <1>2, SMT

-----------------------------------------------------------------------------
\* The texts that a file may hold.
Scalars(pts) == pts \in Seq(Nat) /\ \A i \in DOMAIN pts : U!IsScalar(pts[i])

\* A character of such a text is a scalar value, which the code encodes.
LEMMA ScalarIs ==
    ASSUME NEW pts, Scalars(pts), NEW n \in 0 .. Len(pts) - 1
    PROVE  IsPoint(pts[n + 1]) /\ U!IsScalar(pts[n + 1])
<1>1. n + 1 \in DOMAIN pts BY SMT DEF Scalars
<1>2. U!IsScalar(pts[n + 1]) BY <1>1, SMT DEF Scalars
<1>3. pts[n + 1] \in Nat BY <1>1, SMT DEF Scalars
<1>4. \A p \in Nat : U!IsScalar(p) => p <= \h10FFFF BY SMT DEF U!IsScalar
<1>5. pts[n + 1] <= \h10FFFF BY <1>2, <1>3, <1>4, SMT
<1> QED BY <1>2, <1>3, <1>5, SMT DEF IsPoint

\* A mark has two or three bytes.
LEMMA MarkIs ==
    ASSUME NEW f \in U!Formats
    PROVE  /\ U!Mark(f) \in Seq(Byte) /\ Len(U!Mark(f)) = IF f = "UTF8" THEN 3 ELSE 2
           /\ U!Mark(f)[1] = IF f = "UTF8" THEN \hEF ELSE IF f = "UTF16LE" THEN \hFF ELSE \hFE
<1>1. \hEF \in Byte /\ \hBB \in Byte /\ \hBF \in Byte /\ \hFF \in Byte /\ \hFE \in Byte
  BY SMT DEF Byte
<1>2. \A a, b, c \in Byte : /\ <<a, b>> \in Seq(Byte) /\ Len(<<a, b>>) = 2 /\ <<a, b>>[1] = a
                            /\ <<a, b, c>> \in Seq(Byte) /\ Len(<<a, b, c>>) = 3
                            /\ <<a, b, c>>[1] = a
  BY SMT
<1>3. CASE f = "UTF8" BY <1>1, <1>2, <1>3, SMT DEF U!Mark
<1>4. CASE f # "UTF8" /\ f = "UTF16LE" BY <1>1, <1>2, <1>4, SMT DEF U!Mark
<1>5. CASE f # "UTF8" /\ f # "UTF16LE" BY <1>1, <1>2, <1>5, SMT DEF U!Mark
<1> QED BY <1>3, <1>4, <1>5

\* One sequence begins with another.
Begins(t, s) == Len(s) <= Len(t) /\ \A i \in 1 .. Len(s) : t[i] = s[i]

\* Texts are bytes.
LEMMA FirstType ==
    ASSUME NEW f \in U!Formats, NEW pts, Scalars(pts)
    PROVE  \A n \in 0 .. Len(pts) : First(f, pts, n) \in Seq(Byte)
<1>0. pts \in Seq(Nat) /\ Len(pts) \in Nat BY DEF Scalars
<1> DEFINE S == {n \in 0 .. Len(pts) : First(f, pts, n) \notin Seq(Byte)}
<1>1. ASSUME S # {} PROVE FALSE
  <2>1. PICK k \in S : \A m \in S : k <= m
    <3>1. S \subseteq Nat BY <1>0
    <3> HIDE DEF S
    <3> QED BY <1>1, <3>1, LeastIs
  <2>2. k \in 0 .. Len(pts) /\ First(f, pts, k) \notin Seq(Byte) OBVIOUS
  <2>3. k # 0 BY <1>0, <2>2, FirstSteps, MarkIs
  <2> DEFINE j == k - 1
  <2>4. j \in 0 .. Len(pts) - 1 /\ j \in 0 .. Len(pts) /\ j + 1 = k /\ ~ (k <= j)
    BY <1>0, <2>2, <2>3
  <2> HIDE DEF j
  <2>5. First(f, pts, j) \in Seq(Byte) BY <2>1, <2>4
  <2>6. First(f, pts, k) = First(f, pts, j) \o U!Character(f, pts[j + 1])
    BY <1>0, <2>4, FirstSteps
  <2>7. U!Character(f, pts[j + 1]) \in Seq(Byte)
    <3>1. IsPoint(pts[j + 1]) BY <2>4, ScalarIs, Zenon
    <3> QED BY <3>1, CharacterType, Zenon
  <2>8. First(f, pts, k) \in Seq(Byte) BY <2>5, <2>6, <2>7, ConcatProperties, Zenon
  <2> QED BY <2>2, <2>8
<1> QED BY <1>1

\* A text with one more character is longer and begins with the text before.
LEMMA FirstGrows ==
    ASSUME NEW f \in U!Formats, NEW pts, Scalars(pts), NEW n \in 0 .. Len(pts) - 1
    PROVE  LET c == U!Character(f, pts[n + 1])
           IN  /\ First(f, pts, n) \in Seq(Byte) /\ First(f, pts, n + 1) \in Seq(Byte)
               /\ First(f, pts, n + 1) = First(f, pts, n) \o c
               /\ Len(First(f, pts, n + 1)) = Len(First(f, pts, n)) + Len(c)
               /\ Begins(First(f, pts, n + 1), First(f, pts, n))
               /\ \A i \in 1 .. Len(c) :
                     First(f, pts, n + 1)[Len(First(f, pts, n)) + i] = c[i]
<1> DEFINE c == U!Character(f, pts[n + 1])
           s == First(f, pts, n)
           t == First(f, pts, n + 1)
<1>0. pts \in Seq(Nat) /\ Len(pts) \in Nat /\ n \in 0 .. Len(pts) /\ n + 1 \in 0 .. Len(pts)
  BY DEF Scalars
<1>1. s \in Seq(Byte) /\ t \in Seq(Byte) BY <1>0, FirstType, Zenon
<1>2. c \in Seq(Byte) /\ Len(c) \in 1 .. 4
  <2>1. IsPoint(pts[n + 1]) BY ScalarIs, Zenon
  <2> QED BY <2>1, CharacterType, Zenon
<1>3. t = s \o c BY <1>0, FirstSteps, Zenon
<1> HIDE DEF c, s, t
<1>4. Len(t) = Len(s) + Len(c) BY <1>1, <1>2, <1>3, ConcatProperties, Zenon
<1>5. \A i \in 1 .. Len(s) + Len(c) : t[i] = IF i <= Len(s) THEN s[i] ELSE c[i - Len(s)]
  BY <1>1, <1>2, <1>3, ConcatProperties, Zenon
<1>6. Len(s) \in Nat /\ Len(c) \in Nat BY <1>1, <1>2
<1>7. Begins(t, s) BY <1>4, <1>5, <1>6 DEF Begins
<1>8. \A i \in 1 .. Len(c) : t[Len(s) + i] = c[i]
  <2> TAKE i \in 1 .. Len(c)
  <2>1. Len(s) + i \in 1 .. Len(s) + Len(c) /\ ~ (Len(s) + i <= Len(s)) /\ Len(s) + i - Len(s) = i
    BY <1>6
  <2> QED BY <1>5, <2>1
<1> QED BY <1>1, <1>3, <1>4, <1>7, <1>8 DEF c, s, t

\* A text begins with each of its first parts, and the parts are of different lengths.
LEMMA FirstBegins ==
    ASSUME NEW f \in U!Formats, NEW pts, Scalars(pts), NEW m \in 0 .. Len(pts)
    PROVE  \A n \in m .. Len(pts) : /\ Begins(First(f, pts, n), First(f, pts, m))
                                    /\ m < n => Len(First(f, pts, m)) < Len(First(f, pts, n))
<1>0. pts \in Seq(Nat) /\ Len(pts) \in Nat /\ m \in Nat BY DEF Scalars
<1> DEFINE Good(n) == /\ Begins(First(f, pts, n), First(f, pts, m))
                      /\ m < n => Len(First(f, pts, m)) < Len(First(f, pts, n))
           S == {n \in m .. Len(pts) : ~Good(n)}
<1>1. ASSUME S # {} PROVE FALSE
  <2>1. PICK k \in S : \A j \in S : k <= j
    <3>1. S \subseteq Nat BY <1>0
    <3> HIDE DEF S
    <3> QED BY <1>1, <3>1, LeastIs
  <2>2. k \in m .. Len(pts) /\ ~Good(k) OBVIOUS
  <2>3. k # m
    <3>1. First(f, pts, m) \in Seq(Byte) BY FirstType, Zenon
    <3>2. Good(m) BY <1>0, <3>1 DEF Begins
    <3> QED BY <2>2, <3>2
  <2> DEFINE j == k - 1
  <2>4. /\ j \in m .. Len(pts) /\ j \in 0 .. Len(pts) - 1 /\ j \in 0 .. Len(pts)
        /\ j + 1 = k /\ ~ (k <= j) /\ m < k
    BY <1>0, <2>2, <2>3
  <2> HIDE DEF j
  <2>5. Good(j) BY <2>1, <2>4
  <2> DEFINE r == First(f, pts, m)
             s == First(f, pts, j)
             t == First(f, pts, k)
  <2>6. r \in Seq(Byte) /\ s \in Seq(Byte) /\ t \in Seq(Byte)
    BY <1>0, <2>2, <2>4, FirstType
  <2>7. Begins(t, s) /\ Len(s) < Len(t)
    <3> DEFINE c == U!Character(f, pts[j + 1])
    <3>1. IsPoint(pts[j + 1]) BY <2>4, ScalarIs, Zenon
    <3>2. Len(c) \in 1 .. 4 BY <3>1, CharacterType, Zenon
    <3>3. Begins(First(f, pts, j + 1), s) /\ Len(First(f, pts, j + 1)) = Len(s) + Len(c)
      BY <2>4, FirstGrows, SMT
    <3> HIDE DEF c
    <3>4. Begins(t, s) /\ Len(t) = Len(s) + Len(c) BY <2>4, <3>3, Zenon
    <3> HIDE DEF s, t
    <3>5. Len(s) \in Nat BY <2>6
    <3>6. Begins(t, s) BY <3>4
    <3>7. Len(s) < Len(t)
      <4>1. \A x \in Nat, y \in 1 .. 4 : x < x + y BY SMT
      <4> QED BY ONLY <3>2, <3>4, <3>5, <4>1, Zenon
    <3> QED BY <3>6, <3>7, Zenon
  <2>8. Begins(s, r) BY <2>5
  <2> HIDE DEF r, s, t
  <2>9. Begins(t, r) /\ Len(r) < Len(t) BY <2>6, <2>7, <2>8 DEF Begins
  <2> QED BY <2>2, <2>9 DEF r, t
<1> QED BY <1>1

\* The parts are ordered by their lengths.
LEMMA FirstOrder ==
    ASSUME NEW f \in U!Formats, NEW pts, Scalars(pts),
           NEW m \in 0 .. Len(pts), NEW n \in 0 .. Len(pts)
    PROVE  /\ Len(First(f, pts, m)) < Len(First(f, pts, n)) => m < n
           /\ Len(First(f, pts, m)) <= Len(First(f, pts, n)) => m <= n
           /\ Len(First(f, pts, m)) = Len(First(f, pts, n)) => m = n
           /\ Len(First(f, pts, m)) \in Nat
<1>0. Len(pts) \in Nat BY DEF Scalars
<1>1. First(f, pts, m) \in Seq(Byte) /\ First(f, pts, n) \in Seq(Byte) BY FirstType, Zenon
<1> DEFINE a == Len(First(f, pts, m))
           b == Len(First(f, pts, n))
<1>2. a \in Nat /\ b \in Nat BY <1>1
<1>3. n \in m .. Len(pts) => (m < n => a < b)
  <2> SUFFICES ASSUME n \in m .. Len(pts) PROVE m < n => a < b OBVIOUS
  <2> QED BY FirstBegins, Zenon
<1>4. m \in n .. Len(pts) => (n < m => b < a)
  <2> SUFFICES ASSUME m \in n .. Len(pts) PROVE n < m => b < a OBVIOUS
  <2> QED BY FirstBegins, Zenon
<1> HIDE DEF a, b
<1>5. /\ a < b => m < n
      /\ a <= b => m <= n
      /\ a = b => m = n
  <2>1. m \in Nat /\ n \in Nat /\ m <= Len(pts) /\ n <= Len(pts) BY <1>0
  <2> DEFINE L == Len(pts)
  <2> HIDE DEF L
  <2>2. m \in Nat /\ n \in Nat /\ m <= L /\ n <= L /\ L \in Nat BY <1>0, <2>1 DEF L
  <2>3. (n \in m .. L => (m < n => a < b)) /\ (m \in n .. L => (n < m => b < a))
    BY <1>3, <1>4, Zenon DEF L
  <2>4. m < n => a < b BY ONLY <2>2, <2>3, SMT
  <2>5. n < m => b < a BY ONLY <2>2, <2>3, SMT
  <2>6. m = n => a = b BY Zenon DEF a, b
  <2> QED BY ONLY <1>2, <2>2, <2>4, <2>5, <2>6, SMT
<1> QED BY <1>2, <1>5 DEF a, b

-----------------------------------------------------------------------------
\* Two sequences of as many pairs, each pair of the one reversed in the other.
Even(n) == \E h \in Nat : n = 2 * h

Swapped(s, t) ==
    /\ Len(s) = Len(t) /\ Even(Len(s))
    /\ \A m \in Nat : 2 * m + 2 <= Len(s) =>
          s[2 * m + 1] = t[2 * m + 2] /\ s[2 * m + 2] = t[2 * m + 1]

\* It holds of what is put together from such sequences.
LEMMA SwappedConcat ==
    ASSUME NEW s \in Seq(Byte), NEW t \in Seq(Byte), NEW u \in Seq(Byte), NEW v \in Seq(Byte),
           Swapped(s, t), Swapped(u, v)
    PROVE  Swapped(s \o u, t \o v)
<1> DEFINE x == s \o u
           y == t \o v
           a == Len(s)
           b == Len(u)
<1>1. Len(x) = Len(s) + Len(u) /\ Len(y) = Len(t) + Len(v) BY ConcatProperties, Zenon
<1>2. \A i \in 1 .. Len(s) + Len(u) : x[i] = IF i <= Len(s) THEN s[i] ELSE u[i - Len(s)]
  BY ConcatProperties, Zenon
<1>3. \A i \in 1 .. Len(t) + Len(v) : y[i] = IF i <= Len(t) THEN t[i] ELSE v[i - Len(t)]
  BY ConcatProperties, Zenon
<1>4. a \in Nat /\ b \in Nat OBVIOUS
<1>5. Len(s) = a /\ Len(t) = a /\ Len(u) = b /\ Len(v) = b BY DEF Swapped
<1> HIDE DEF x, y, a, b
<1>6. PICK g \in Nat : a = 2 * g BY <1>5, Zenon DEF Swapped, Even
<1>7. PICK h \in Nat : b = 2 * h BY <1>5, Zenon DEF Swapped, Even
<1>8. Len(x) = a + b /\ Len(y) = a + b BY <1>1, <1>5
<1>9. Even(Len(x))
  <2>1. g + h \in Nat /\ a + b = 2 * (g + h) BY <1>6, <1>7
  <2> QED BY <1>8, <2>1 DEF Even
<1>10. ASSUME NEW m \in Nat, 2 * m + 2 <= Len(x)
       PROVE  x[2 * m + 1] = y[2 * m + 2] /\ x[2 * m + 2] = y[2 * m + 1]
  <2> DEFINE i == 2 * m + 1
             j == 2 * m + 2
  <2>1. i \in 1 .. a + b /\ j \in 1 .. a + b BY <1>4, <1>8, <1>10
  <2>2. /\ x[i] = IF i <= a THEN s[i] ELSE u[i - a]
        /\ x[j] = IF j <= a THEN s[j] ELSE u[j - a]
    BY <1>2, <1>5, <2>1
  <2>3. /\ y[i] = IF i <= a THEN t[i] ELSE v[i - a]
        /\ y[j] = IF j <= a THEN t[j] ELSE v[j - a]
    BY <1>3, <1>5, <2>1
  <2>4. CASE m < g
    <3>1. i <= a /\ j <= a /\ 2 * m + 2 <= Len(s) BY <1>5, <1>6, <2>4
    <3>2. s[i] = t[j] /\ s[j] = t[i] BY <3>1 DEF Swapped
    <3> HIDE DEF i, j
    <3>3. x[i] = y[j] /\ x[j] = y[i] BY <2>2, <2>3, <3>1, <3>2
    <3> QED BY <3>3 DEF i, j
  <2>5. CASE ~ (m < g)
    <3> DEFINE k == m - g
    <3>1. /\ k \in Nat /\ ~ (i <= a) /\ ~ (j <= a) /\ 2 * k + 2 <= Len(u)
          /\ i - a = 2 * k + 1 /\ j - a = 2 * k + 2
      BY <1>4, <1>5, <1>6, <1>8, <1>10, <2>5
    <3> HIDE DEF k
    <3>2. u[2 * k + 1] = v[2 * k + 2] /\ u[2 * k + 2] = v[2 * k + 1] BY <3>1 DEF Swapped
    <3>3. u[i - a] = v[j - a] /\ u[j - a] = v[i - a] BY <3>1, <3>2
    <3> HIDE DEF i, j
    <3>4. x[i] = y[j] /\ x[j] = y[i] BY <2>2, <2>3, <3>1, <3>3
    <3> QED BY <3>4 DEF i, j
  <2> QED BY <2>4, <2>5
<1> QED BY <1>5, <1>8, <1>9, <1>10 DEF Swapped, x, y

\* Of one pair, and of two.
LEMMA SwappedPairs ==
    ASSUME NEW a \in Byte, NEW b \in Byte, NEW c \in Byte, NEW d \in Byte
    PROVE  Swapped(<<a, b>>, <<b, a>>) /\ Swapped(<<a, b, c, d>>, <<b, a, d, c>>)
<1>1. Even(2) /\ Even(4)
  <2>1. 1 \in Nat /\ 2 \in Nat /\ 2 = 2 * 1 /\ 4 = 2 * 2 OBVIOUS
  <2> QED BY <2>1 DEF Even
<1>2. Swapped(<<a, b>>, <<b, a>>)
  <2> DEFINE s == <<a, b>>
             t == <<b, a>>
  <2>1. Len(s) = 2 /\ Len(t) = 2 /\ s[1] = t[2] /\ s[2] = t[1] OBVIOUS
  <2> HIDE DEF s, t
  <2>2. \A m \in Nat : 2 * m + 2 <= 2 => 2 * m + 1 = 1 /\ 2 * m + 2 = 2 OBVIOUS
  <2>3. Swapped(s, t) BY <1>1, <2>1, <2>2, Zenon DEF Swapped
  <2> QED BY <2>3 DEF s, t
<1>3. Swapped(<<a, b, c, d>>, <<b, a, d, c>>)
  <2> DEFINE s == <<a, b, c, d>>
             t == <<b, a, d, c>>
  <2>1. Len(s) = 4 /\ Len(t) = 4 /\ s[1] = t[2] /\ s[2] = t[1] /\ s[3] = t[4] /\ s[4] = t[3]
    OBVIOUS
  <2> HIDE DEF s, t
  <2>2. \A m \in Nat : 2 * m + 2 <= 4 => \/ 2 * m + 1 = 1 /\ 2 * m + 2 = 2
                                         \/ 2 * m + 1 = 3 /\ 2 * m + 2 = 4
    OBVIOUS
  <2>3. Swapped(s, t) BY <1>1, <2>1, <2>2, Zenon DEF Swapped
  <2> QED BY <2>3 DEF s, t
<1> QED BY <1>2, <1>3

\* It goes both ways.
LEMMA SwappedSymmetric ==
    ASSUME NEW s, NEW t, Swapped(s, t)
    PROVE  Swapped(t, s)
BY DEF Swapped

\* A character in the two orders of UTF-16.
LEMMA CharacterSwapped ==
    ASSUME NEW p, IsPoint(p)
    PROVE  Swapped(U!Character("UTF16LE", p), U!Character("UTF16BE", p))
<1>0. p \in Nat /\ p <= \h10FFFF BY SMT DEF IsPoint
<1> DEFINE s == U!Character("UTF16LE", p)
           t == U!Character("UTF16BE", p)
<1>1. Ordered(p, s, t) BY <1>0, Utf16Is, SMT
<1> HIDE DEF s, t
<1>2. CASE p < \h10000
  <2>1. PICK a, b \in Byte : s = <<a, b>> /\ t = <<b, a>> BY ONLY <1>1, <1>2, SMT DEF Ordered
  <2>2. a \in Byte /\ b \in Byte BY <2>1
  <2> QED BY ONLY <2>1, <2>2, SwappedPairs, Zenon DEF s, t
<1>3. CASE ~ (p < \h10000)
  <2>1. PICK a, b, c, d \in Byte : s = <<a, b, c, d>> /\ t = <<b, a, d, c>>
    BY ONLY <1>1, <1>3, SMT DEF Ordered
  <2>2. a \in Byte /\ b \in Byte /\ c \in Byte /\ d \in Byte BY <2>1
  <2> QED BY ONLY <2>1, <2>2, SwappedPairs, Zenon DEF s, t
<1> QED BY <1>2, <1>3, SMT

\* A text in the two orders.
LEMMA FirstSwapped ==
    ASSUME NEW pts, Scalars(pts)
    PROVE  \A n \in 0 .. Len(pts) :
              Swapped(First("UTF16LE", pts, n), First("UTF16BE", pts, n))
<1>0. pts \in Seq(Nat) /\ Len(pts) \in Nat BY DEF Scalars
<1>f. "UTF16LE" \in U!Formats /\ "UTF16BE" \in U!Formats BY DEF U!Formats
<1> DEFINE S == {n \in 0 .. Len(pts) : ~Swapped(First("UTF16LE", pts, n), First("UTF16BE", pts, n))}
<1>1. ASSUME S # {} PROVE FALSE
  <2>1. PICK k \in S : \A m \in S : k <= m
    <3>1. S \subseteq Nat BY <1>0
    <3> HIDE DEF S
    <3> QED BY <1>1, <3>1, LeastIs
  <2>2. /\ k \in 0 .. Len(pts)
        /\ ~Swapped(First("UTF16LE", pts, k), First("UTF16BE", pts, k))
    OBVIOUS
  <2>3. k # 0
    <3> DEFINE x == \hFF
               y == \hFE
    <3>1. U!Mark("UTF16LE") = <<x, y>> /\ U!Mark("UTF16BE") = <<y, x>>
      BY SMT DEF U!Mark
    <3>2. x \in Byte /\ y \in Byte BY SMT DEF Byte
    <3> HIDE DEF x, y
    <3>3. Swapped(U!Mark("UTF16LE"), U!Mark("UTF16BE"))
      BY ONLY <3>1, <3>2, SwappedPairs, Zenon
    <3>4. ASSUME k = 0 PROVE FALSE
      <4>1. /\ First("UTF16LE", pts, 0) = U!Mark("UTF16LE")
            /\ First("UTF16BE", pts, 0) = U!Mark("UTF16BE")
        BY <1>0, FirstSteps, Zenon
      <4> QED BY <2>2, <3>3, <3>4, <4>1, SMT
    <3> QED BY <3>4
  <2> DEFINE j == k - 1
  <2>4. j \in 0 .. Len(pts) - 1 /\ j \in 0 .. Len(pts) /\ j + 1 = k /\ ~ (k <= j)
    BY <1>0, <2>2, <2>3
  <2> HIDE DEF j
  <2>5. Swapped(First("UTF16LE", pts, j), First("UTF16BE", pts, j)) BY <2>1, <2>4
  <2>6. /\ First("UTF16LE", pts, j + 1)
             = First("UTF16LE", pts, j) \o U!Character("UTF16LE", pts[j + 1])
        /\ First("UTF16BE", pts, j + 1)
             = First("UTF16BE", pts, j) \o U!Character("UTF16BE", pts[j + 1])
    BY <1>0, <2>4, FirstSteps, Zenon
  <2>7. IsPoint(pts[j + 1]) BY <2>4, ScalarIs, Zenon
  <2>8. /\ U!Character("UTF16LE", pts[j + 1]) \in Seq(Byte)
        /\ U!Character("UTF16BE", pts[j + 1]) \in Seq(Byte)
    BY <1>f, <2>7, CharacterType, Zenon
  <2>9. First("UTF16LE", pts, j) \in Seq(Byte) /\ First("UTF16BE", pts, j) \in Seq(Byte)
    BY <1>f, <2>4, FirstType, Zenon
  <2>10. Swapped(U!Character("UTF16LE", pts[j + 1]), U!Character("UTF16BE", pts[j + 1]))
    BY <2>7, CharacterSwapped, Zenon
  <2>11. Swapped(First("UTF16LE", pts, j + 1), First("UTF16BE", pts, j + 1))
    BY <2>5, <2>6, <2>8, <2>9, <2>10, SwappedConcat, Zenon
  <2> QED BY <2>2, <2>4, <2>11, Zenon
<1> QED BY <1>1

-----------------------------------------------------------------------------
(***************************************************************************)
(* The invariant of a session.                                             *)
(***************************************************************************)
\* A file is a text in some encoding, whole or cut short; from the check of the mark
\* on that encoding is known.  Until the conversion begins the buffer holds what the
\* stack held.
Basic ==
    /\ pc \in {"args", "check", "open", "begin", "loop", "done", "exit", "crash", "same"}
    /\ Scalars(points)
    /\ infile \in Seq(Byte) /\ outfile \in Seq(Byte) /\ pos \in 0 .. Len(infile)
    /\ buf \in [1 .. 4 -> Byte] /\ stack \in [1 .. 4 -> Byte]
    /\ encoding_to \in U!Formats \union {"none"}
    /\ pc \in {"args", "check"} =>
          outfile = Existing /\ \E f \in U!Formats : Begins(U!Text(f, points), infile)
    /\ pc \in {"args", "check", "open", "begin"} => buf = stack /\ pos = 0
    /\ pc \in {"open", "begin", "loop", "done"} =>
          /\ in_file = "in" /\ encoding_from \in U!Formats
          /\ Len(infile) >= 3 /\ Begins(U!Text(encoding_from, points), infile)
    /\ pc \in {"begin", "loop", "done"} => encoding_to \in U!Formats
    /\ pc = "loop" => encoding_from # encoding_to

\* The first n characters as the input has them, and as the output is to have them.
ToRead(n)  == First(encoding_from, points, n)
ToWrite(n) == First(encoding_to, points, n)

\* What has been read and written, q bytes and the sequence o: the first n characters,
\* and when the input ends inside the next one, something more.
Position(n, q, o) ==
    \/ q = Len(ToRead(n)) /\ o = ToWrite(n)
    \/ /\ n < Len(points) /\ q = Len(infile)
       /\ Len(ToRead(n)) < q /\ q < Len(ToRead(n + 1))
       /\ Begins(o, ToWrite(n))

\* A conversion from or to utf-8 goes character by character.
ByCharacter == encoding_from # encoding_to /\ (encoding_from = "UTF8" \/ encoding_to = "UTF8")

Glyphwise ==
    pc \in {"loop", "done"} /\ ByCharacter /\ Convertible =>
        \E n \in 0 .. Len(points) : Position(n, pos, outfile)

\* Between the two orders of UTF-16 the bytes of each pair change places; which pairs
\* are taken together makes no difference to that.  The lower half of the buffer stays
\* what it was, unless it made the loop read a second unit.
ByPair == encoding_from # encoding_to /\ encoding_from # "UTF8" /\ encoding_to # "UTF8"

PairsSwapped(q, o) ==
    \A m \in Nat : 2 * m + 2 <= q /\ 2 * m + 2 <= Len(o) =>
        o[2 * m + 1] = infile[2 * m + 2] /\ o[2 * m + 2] = infile[2 * m + 1]

Pairwise ==
    pc \in {"loop", "done"} /\ ByPair =>
        /\ PairsSwapped(pos, outfile) /\ Even(Len(outfile))
        /\ pc = "loop" /\ pos < Len(infile) => Len(outfile) = pos /\ Even(pos)
        /\ ~Paired =>
              /\ buf[3] = stack[3] /\ buf[4] = stack[4]
              /\ \/ Len(outfile) = pos /\ Even(pos)
                 \/ Len(outfile) = pos + 1 /\ Even(pos + 1) /\ pos = Len(infile)

Copied == pc = "done" /\ encoding_from = encoding_to => outfile = infile

UInv == Basic /\ Glyphwise /\ Pairwise /\ Copied
-----------------------------------------------------------------------------
(***************************************************************************)
(* Memory.                                                                 *)
(***************************************************************************)
\* The least of two numbers.
LEMMA MinIs ==
    ASSUME NEW a \in Int, NEW b \in Int
    PROVE  Min({a, b}) = IF a <= b THEN a ELSE b
<1> DEFINE m == IF a <= b THEN a ELSE b
<1>1. m \in {a, b} /\ \A y \in {a, b} : m <= y OBVIOUS
<1>2. \A x \in {a, b} : (\A y \in {a, b} : x <= y) => x = m OBVIOUS
<1> HIDE DEF m
<1>3. (CHOOSE x \in {a, b} : \A y \in {a, b} : x <= y) = m BY <1>1, <1>2
<1> QED BY <1>3 DEF Min, m

\* Where a read ends.
LEMMA AfterIs ==
    ASSUME infile \in Seq(Byte), pos \in Nat, NEW n \in Nat
    PROVE  After(n) = IF pos + n <= Len(infile) THEN pos + n ELSE Len(infile)
<1>1. pos + n \in Int /\ Len(infile) \in Int OBVIOUS
<1> QED BY <1>1, MinIs, Zenon DEF After

\* The byte at i of the buffer after a read: one of the file, unless the file has none
\* for it.
Loaded(mem, at, skip, n, i) ==
    IF at < i /\ i <= at + n /\ pos + skip + (i - at) <= Len(infile)
    THEN infile[pos + skip + (i - at)] ELSE mem[i]

\* What a call of read leaves in the buffer.
LEMMA ReadIs ==
    ASSUME infile \in Seq(Byte), pos \in Nat, NEW mem \in [1 .. 4 -> Byte],
           NEW at \in Nat, NEW skip \in Nat, NEW n \in Nat
    PROVE  /\ Read(mem, at, skip, n) \in [1 .. 4 -> Byte]
           /\ \A i \in 1 .. 4 : Read(mem, at, skip, n)[i] = Loaded(mem, at, skip, n, i)
<1> DEFINE L == Len(infile)
           e == Min({pos + skip + n, L})
           d == pos + skip + 1
           bytes == SubSeq(infile, d, e)
           new == [i \in 1 .. 4 |-> IF i - at \in DOMAIN bytes THEN bytes[i - at] ELSE mem[i]]
<1>0. new = Read(mem, at, skip, n) BY DEF Read
<1>1. L \in Nat OBVIOUS
<1>2. e = IF pos + skip + n <= L THEN pos + skip + n ELSE L
  <2>1. pos + skip + n \in Int /\ L \in Int BY <1>1
  <2> HIDE DEF L
  <2> QED BY <2>1, MinIs, Zenon
<1> HIDE DEF e
<1>3. e \in Nat /\ d \in Nat /\ e <= L BY <1>1, <1>2
<1>4. \A i \in d .. e : infile[i] \in Byte BY <1>3
<1>5. /\ bytes \in Seq(Byte)
      /\ Len(bytes) = IF d <= e THEN e - d + 1 ELSE 0
      /\ \A i \in 1 .. e - d + 1 : bytes[i] = infile[d + i - 1]
  <2>1. e \in Int /\ d \in Int BY <1>3
  <2> HIDE DEF d
  <2> QED BY <2>1, <1>4, SubSeqProperties
<1>6. DOMAIN bytes = 1 .. Len(bytes) BY <1>5
<1> HIDE DEF L, bytes
<1>7. ASSUME NEW i \in 1 .. 4
      PROVE  new[i] \in Byte /\ new[i] = Loaded(mem, at, skip, n, i)
  <2> DEFINE inside == at < i /\ i <= at + n /\ pos + skip + (i - at) <= L
  <2>1. new[i] = IF i - at \in DOMAIN bytes THEN bytes[i - at] ELSE mem[i] OBVIOUS
  <2> HIDE DEF new
  <2>2. i - at \in 1 .. Len(bytes) <=> inside BY ONLY <1>1, <1>2, <1>3, <1>5, i \in 1 .. 4,
          at \in Nat, skip \in Nat, n \in Nat, pos \in Nat
  <2>3. CASE inside
    <3>1. i - at \in 1 .. e - d + 1 /\ d + (i - at) - 1 = pos + skip + (i - at)
      BY <1>1, <1>2, <1>3, <2>3
    <3>2. bytes[i - at] = infile[pos + skip + (i - at)] BY <1>5, <3>1
    <3>3. new[i] = infile[pos + skip + (i - at)] BY <1>6, <2>1, <2>2, <2>3, <3>2
    <3>4. pos + skip + (i - at) \in 1 .. L BY <1>1, <2>3
    <3>5. infile[pos + skip + (i - at)] \in Byte BY <3>4 DEF L
    <3>6. Loaded(mem, at, skip, n, i) = infile[pos + skip + (i - at)] BY <2>3, Zenon DEF Loaded, L
    <3> QED BY <3>3, <3>5, <3>6, Zenon
  <2>4. CASE ~inside
    <3>1. new[i] = mem[i] BY <1>6, <2>1, <2>2, <2>4
    <3>2. Loaded(mem, at, skip, n, i) = mem[i] BY <2>4, Zenon DEF Loaded, L
    <3>3. mem[i] \in Byte OBVIOUS
    <3> QED BY <3>1, <3>2, <3>3
  <2> QED BY <2>3, <2>4
<1>8. new = [i \in 1 .. 4 |-> new[i]] OBVIOUS
<1> HIDE DEF new
<1>9. new \in [1 .. 4 -> Byte] BY <1>7, <1>8
<1> QED BY <1>0, <1>7, <1>9

\* A byte of it.
LEMMA ReadAt ==
    ASSUME infile \in Seq(Byte), pos \in Nat, NEW mem \in [1 .. 4 -> Byte],
           NEW at \in Nat, NEW skip \in Nat, NEW n \in Nat, NEW i \in 1 .. 4
    PROVE  Read(mem, at, skip, n)[i] = Loaded(mem, at, skip, n, i)
<1>1. \A j \in 1 .. 4 : Read(mem, at, skip, n)[j] = Loaded(mem, at, skip, n, j)
  BY ReadIs, Zenon
<1> QED BY <1>1, Zenon

\* The rest of a character is read behind its first byte.
LEMMA ReadNext ==
    ASSUME infile \in Seq(Byte), pos \in Nat, NEW mem \in [1 .. 4 -> Byte], NEW n \in Nat
    PROVE  \A i \in 1 .. 4 : Read(mem, 1, 1, n)[i] = Loaded(mem, 1, 1, n, i)
<1>1. 1 \in Nat OBVIOUS
<1> QED BY ONLY <1>1, infile \in Seq(Byte), pos \in Nat, mem \in [1 .. 4 -> Byte], n \in Nat,
                ReadAt, SMT

\* What reverse_bytes makes of the two bytes that it is given.
LEMMA ReverseIs ==
    ASSUME NEW mem \in [1 .. 4 -> Byte], NEW at \in {0, 2}
    PROVE  /\ reverse_bytes(mem, at) \in [1 .. 4 -> Byte]
           /\ \A i \in 1 .. 4 : reverse_bytes(mem, at)[i] =
                 IF i = at + 1 THEN mem[at + 2] ELSE IF i = at + 2 THEN mem[at + 1] ELSE mem[i]
<1>1. at + 1 \in 1 .. 4 /\ at + 2 \in 1 .. 4 /\ at + 1 # at + 2 OBVIOUS
<1> DEFINE a == at + 1
           b == at + 2
<1> HIDE DEF a, b
<1>2. a \in 1 .. 4 /\ b \in 1 .. 4 /\ a # b BY <1>1 DEF a, b
<1>3. mem[a] \in Byte /\ mem[b] \in Byte BY <1>2
<1>4. reverse_bytes(mem, at) = [mem EXCEPT ![a] = mem[b], ![b] = mem[a]]
  BY DEF reverse_bytes, a, b
<1>5. /\ reverse_bytes(mem, at) \in [1 .. 4 -> Byte]
      /\ \A i \in 1 .. 4 : reverse_bytes(mem, at)[i] =
            IF i = a THEN mem[b] ELSE IF i = b THEN mem[a] ELSE mem[i]
  BY <1>2, <1>3, <1>4
<1> QED BY <1>5 DEF a, b

-----------------------------------------------------------------------------
\* What the decoders give is small enough for the encoders.
LEMMA BytesType ==
    ASSUME NEW u \in Nat, u <= 65535
    PROVE  Bytes(u) \in Seq(Byte) /\ Len(Bytes(u)) = 2
<1> DEFINE a == u % 256
           b == u \div 256
<1>1. a \in Byte /\ b \in Byte BY SMT DEF Byte
<1>2. Bytes(u) = <<a, b>> BY SMT DEF Bytes
<1> HIDE DEF a, b
<1> QED BY ONLY <1>1, <1>2, SMT

\* The code writes a UTF-16 character as two bytes or as four.
LEMMA Utf16Type ==
    ASSUME NEW p \in Nat, p <= \h1FFFFF
    PROVE  /\ code_point_to_utf16le_glyph(p) \in Seq(Byte)
           /\ code_point_to_utf16be_glyph(p) \in Seq(Byte)
<1> DEFINE g == code_point_to_utf16le_glyph(p)
           h == code_point_to_utf16be_glyph(p)
<1>1. CASE p < \h10000
  <2>1. g = Bytes(p) BY <1>1, SMT DEF code_point_to_utf16le_glyph, is_code_point_surrogate
  <2>2. p <= 65535 BY <1>1, SMT
  <2>3. Bytes(p) \in Seq(Byte) /\ Len(Bytes(p)) = 2 BY <2>2, BytesType, SMT
  <2>4. g \in Seq(Byte) /\ Len(g) = 2 BY <2>1, <2>3, SMT
  <2>5. h = <<g[2], g[1]>> BY <2>4, SMT DEF code_point_to_utf16be_glyph
  <2> HIDE DEF g, h
  <2>6. g[1] \in Byte /\ g[2] \in Byte
    <3>1. 1 \in 1 .. Len(g) /\ 2 \in 1 .. Len(g) BY ONLY <2>4, SMT
    <3> QED BY ONLY <2>4, <3>1, ElementOfSeq, Zenon
  <2>7. h \in Seq(Byte) BY ONLY <2>5, <2>6, SMT
  <2> QED BY ONLY <2>4, <2>7, SMT DEF g, h
<1>2. CASE ~ (p < \h10000)
  <2> DEFINE q == p - \h10000
             u == q \div \h400 + \hD800
             l == (q % \h400) + \hDC00
  <2>1. g = Bytes(u) \o Bytes(l)
    BY <1>2, SMT DEF code_point_to_utf16le_glyph, is_code_point_surrogate
  <2>2. q \in Nat /\ q <= \h1EFFFF BY <1>2, SMT
  <2> HIDE DEF q
  <2>3. u \in Nat /\ u <= 65535 /\ l \in Nat /\ l <= 65535 BY ONLY <2>2, SMT
  <2> HIDE DEF u, l
  <2>4. /\ Bytes(u) \in Seq(Byte) /\ Len(Bytes(u)) = 2
        /\ Bytes(l) \in Seq(Byte) /\ Len(Bytes(l)) = 2
    BY ONLY <2>3, BytesType, SMT
  <2> DEFINE s == Bytes(u)
             t == Bytes(l)
  <2>5. g = s \o t BY <2>1
  <2>6. s \in Seq(Byte) /\ t \in Seq(Byte) /\ Len(s) = 2 /\ Len(t) = 2 BY <2>4
  <2> HIDE DEF s, t, g
  <2>7. g \in Seq(Byte) /\ Len(g) = Len(s) + Len(t) BY ONLY <2>5, <2>6, ConcatProperties, Zenon
  <2>8. Len(g) = 4 BY ONLY <2>6, <2>7, SMT
  <2>9. h = <<g[2], g[1], g[4], g[3]>> BY ONLY <2>8, SMT DEF code_point_to_utf16be_glyph, g
  <2> HIDE DEF h
  <2>10. g[1] \in Byte /\ g[2] \in Byte /\ g[3] \in Byte /\ g[4] \in Byte
    BY ONLY <2>7, <2>8, SMT
  <2>11. h \in Seq(Byte)
    <3>1. \A x, y, z, w \in Byte : <<x, y, z, w>> \in Seq(Byte) BY SMT
    <3> QED BY ONLY <2>9, <2>10, <3>1, Zenon
  <2> QED BY ONLY <2>7, <2>11, SMT DEF g, h
<1> QED BY <1>1, <1>2, SMT

\* Four bytes or fewer give a number that the encoder takes.
LEMMA DecodeType ==
    ASSUME NEW mem \in [1 .. 4 -> Byte], NEW size \in 1 .. 4
    PROVE  utf8_decode(mem, size) \in Nat /\ utf8_decode(mem, size) <= \h1FFFFF
<1> DEFINE a == mem[1]
           b == mem[2]
           c == mem[3]
           d == mem[4]
<1>1. a \in Nat /\ b \in Nat /\ c \in Nat /\ d \in Nat /\ a <= 255 BY SMT DEF Byte
<1> HIDE DEF a, b, c, d
<1>2. /\ a % 32 \in Nat /\ a % 32 <= 31 /\ a % 16 \in Nat /\ a % 16 <= 15
      /\ a % 8 \in Nat /\ a % 8 <= 7
      /\ b % 64 \in Nat /\ b % 64 <= 63 /\ c % 64 \in Nat /\ c % 64 <= 63
      /\ d % 64 \in Nat /\ d % 64 <= 63
  BY ONLY <1>1, SMT
<1>3. /\ utf8_decode(mem, 1) = a
      /\ utf8_decode(mem, 2) = (a % 32) * 64 + (b % 64)
      /\ utf8_decode(mem, 3) = (a % 16) * 4096 + (b % 64) * 64 + (c % 64)
      /\ utf8_decode(mem, 4) = (a % 8) * 262144 + (b % 64) * 4096 + (c % 64) * 64 + (d % 64)
  BY ONLY SMT DEF utf8_decode, a, b, c, d
<1>4. CASE size = 1 BY ONLY <1>1, <1>3, <1>4, SMT
<1>5. CASE size = 2 BY ONLY <1>2, <1>3, <1>5, SMT
<1>6. CASE size = 3 BY ONLY <1>2, <1>3, <1>6, SMT
<1>7. CASE size = 4 BY ONLY <1>2, <1>3, <1>7, SMT
<1> QED BY <1>4, <1>5, <1>6, <1>7, SMT

\* So do two units of UTF-16.
LEMMA PointType ==
    ASSUME NEW mem \in [1 .. 4 -> Byte]
    PROVE  IsPoint(utf16_glyph_to_code_point(mem))
<1> DEFINE u == Short(mem, 0)
           l == Short(mem, 2)
<1>1. u \in Nat /\ u <= 65535 /\ l \in Nat
  <2>1. mem[1] \in Byte /\ mem[2] \in Byte /\ mem[3] \in Byte /\ mem[4] \in Byte BY SMT
  <2>2. u = mem[1] + 256 * mem[2] /\ l = mem[3] + 256 * mem[4] BY SMT DEF Short
  <2> HIDE DEF u, l
  <2>3. \A x, y \in Byte : x + 256 * y \in Nat /\ x + 256 * y <= 65535 BY SMT DEF Byte
  <2> QED BY ONLY <2>1, <2>2, <2>3, SMT
<1> HIDE DEF u, l
<1>2. utf16_glyph_to_code_point(mem) =
        IF \hD800 < u /\ u < \hDBFF THEN (u - \hD800) * \h400 + ((l - \hDC00) % \h400) + \h10000
        ELSE u
  BY SMT DEF utf16_glyph_to_code_point, is_upper_surrogate_pair, u, l
<1>3. (l - \hDC00) % \h400 \in Nat /\ (l - \hDC00) % \h400 <= \h3FF BY ONLY <1>1, SMT
<1>4. CASE \hD800 < u /\ u < \hDBFF BY ONLY <1>1, <1>2, <1>3, <1>4, SMT DEF IsPoint
<1>5. CASE ~ (\hD800 < u /\ u < \hDBFF) BY ONLY <1>1, <1>2, <1>5, SMT DEF IsPoint
<1> QED BY <1>4, <1>5, SMT
-----------------------------------------------------------------------------
\* The files.
LEMMA ContentIs ==
    ASSUME NEW name
    PROVE  \/ name = "in" /\ Content(name) = infile
           \/ name = "out" /\ Content(name) = outfile
           \/ name \notin {"in", "out"} /\ Content(name) = <<>>
BY DEF Content

\* A file that begins with a mark is a text in that encoding.
LEMMA MarkTells ==
    ASSUME Scalars(points), infile \in Seq(Byte), NEW f \in U!Formats, NEW g \in U!Formats,
           Begins(U!Text(f, points), infile), IsPrefix(U!Mark(g), infile), Len(infile) >= 3
    PROVE  g = f
<1>0. points \in Seq(Nat) /\ Len(points) \in Nat BY DEF Scalars
<1> DEFINE m == U!Mark(g)
           n == U!Mark(f)
           t == U!Text(f, points)
<1>1. m \in Seq(Byte) /\ Len(m) \in 2 .. 3 /\ n \in Seq(Byte) /\ Len(n) \in 2 .. 3
  BY MarkIs, SMT
<1>2. m[1] = infile[1]
  <2> HIDE DEF m
  <2>1. IsPrefix(m, infile) BY DEF m
  <2> QED BY <1>1, <2>1 DEF IsPrefix
<1>3. t[1] = infile[1] BY DEF Begins
<1>4. Begins(t, n)
  <2>1. First(f, points, Len(points)) = t /\ First(f, points, 0) = n BY <1>0, FirstSteps, Zenon
  <2>2. 0 \in 0 .. Len(points) /\ Len(points) \in 0 .. Len(points) BY <1>0
  <2> HIDE DEF t, n
  <2> QED BY <2>1, <2>2, FirstBegins
<1> HIDE DEF m, n, t
<1>5. t[1] = n[1] BY <1>1, <1>4 DEF Begins
<1>6. m[1] = n[1] BY <1>2, <1>3, <1>5
<1>7. m[1] = IF g = "UTF8" THEN \hEF ELSE IF g = "UTF16LE" THEN \hFF ELSE \hFE
  BY MarkIs, SMT DEF m
<1>8. n[1] = IF f = "UTF8" THEN \hEF ELSE IF f = "UTF16LE" THEN \hFF ELSE \hFE
  BY MarkIs, SMT DEF n
<1>9. f \in {"UTF8", "UTF16LE", "UTF16BE"} /\ g \in {"UTF8", "UTF16LE", "UTF16BE"}
  BY DEF U!Formats
<1> DEFINE a == m[1]
           b == n[1]
<1>10. /\ g = "UTF8" => a = 239
       /\ g = "UTF16LE" => a = 255
       /\ g = "UTF16BE" => a = 254
  BY ONLY <1>7, SMT
<1>11. /\ f = "UTF8" => b = 239
       /\ f = "UTF16LE" => b = 255
       /\ f = "UTF16BE" => b = 254
  BY ONLY <1>8, SMT
<1>12. a = b BY <1>6
<1> HIDE DEF a, b
<1> QED BY ONLY <1>9, <1>10, <1>11, <1>12, SMT

-----------------------------------------------------------------------------
(***************************************************************************)
(* Every action keeps the first part of the invariant.                     *)
(***************************************************************************)
\* A session begins there.
LEMMA BasicInit == Init => Basic
<1> SUFFICES ASSUME Init PROVE Basic OBVIOUS
<1>1. Scalars(points)
  <2>1. PICK s \in Sessions : points = s[2] BY DEF Init
  <2>2. s[2] \in Seq(Nat) /\ \A i \in DOMAIN s[2] : U!IsScalar(s[2][i]) BY <2>1, UtfAssumption
  <2> QED BY <2>1, <2>2, Zenon DEF Scalars
<1>2. PICK f \in U!Formats, cut \in 0 .. MaxCut :
         infile = SubSeq(U!Text(f, points), 1, Len(U!Text(f, points)) - cut)
  BY DEF Init
<1> DEFINE t == U!Text(f, points)
           e == Len(t) - cut
<1>3. t \in Seq(Byte)
  <2>1. points \in Seq(Nat) /\ Len(points) \in 0 .. Len(points) BY <1>1 DEF Scalars
  <2>2. t = First(f, points, Len(points)) BY <2>1, FirstSteps, Zenon
  <2> HIDE DEF t
  <2> QED BY <1>1, <2>1, <2>2, FirstType
<1> HIDE DEF t
<1>4. cut \in Nat /\ e \in Int /\ e <= Len(t) /\ Len(t) \in Nat BY <1>3, UtfAssumption
<1> HIDE DEF e
<1>5. infile = SubSeq(t, 1, e) BY <1>2, Zenon DEF t, e
<1>6. /\ infile \in Seq(Byte) /\ Len(infile) = IF 1 <= e THEN e - 1 + 1 ELSE 0
      /\ \A i \in 1 .. e - 1 + 1 : infile[i] = t[1 + i - 1]
  <2>1. \A i \in 1 .. e : t[i] \in Byte BY <1>3, <1>4
  <2> QED BY <1>4, <1>5, <2>1, SubSeqProperties
<1>7. Begins(t, infile) BY <1>4, <1>6 DEF Begins
<1>8. \E g \in U!Formats : Begins(U!Text(g, points), infile) BY <1>7, Zenon DEF t
<1>9. stack \in [1 .. 4 -> Byte] /\ buf = stack BY UtfAssumption, Zenon DEF Init
<1>10. pc = "args" /\ encoding_to = "none" /\ outfile = Existing /\ pos = 0 BY DEF Init
<1>11. Existing \in Seq(Byte) /\ pos \in 0 .. Len(infile) BY <1>6, <1>10, UtfAssumption
<1> QED BY <1>1, <1>6, <1>8, <1>9, <1>10, <1>11, Zenon DEF Basic

\* Reading the arguments keeps it.
LEMMA BasicReading ==
    ASSUME Basic, Encoding \/ Positional \/ Usage \/ EndOfArgs
    PROVE  Basic'
<1> USE DEF Basic
<1>1. CASE Encoding BY <1>1 DEF Encoding, Parsing, line
<1>2. CASE Positional BY <1>2 DEF Positional, Parsing
<1>3. CASE Usage BY <1>3 DEF Usage, Parsing, line
<1>4. CASE EndOfArgs BY <1>4 DEF EndOfArgs, line
<1> QED BY <1>1, <1>2, <1>3, <1>4

\* Telling the encoding by the mark keeps it: the mark is the text's.
LEMMA BasicCheck ==
    ASSUME Basic, check_bom
    PROVE  Basic'
<1>1. /\ pc = "check"
      /\ UNCHANGED <<line, encoding_to, infile, outfile, pos, buf, points, stack>>
  BY DEF check_bom
<1>2. CASE pc' = "exit"
  BY <1>1, <1>2 DEF Basic, line
<1>3. CASE pc' # "exit"
  <2>1. /\ pc' = "open" /\ encoding_from' \in U!Formats
        /\ IsPrefix(U!Mark(encoding_from'), Content(in_file)) /\ ~ (Len(Content(in_file)) < 3)
    BY <1>3, Zenon DEF check_bom
  <2>2. PICK f \in U!Formats : Begins(U!Text(f, points), infile) BY <1>1 DEF Basic
  <2>3. in_file = "in" /\ Content(in_file) = infile
    <3>1. Content(in_file) # Existing BY <2>1, UtfAssumption
    <3>2. outfile = Existing BY <1>1 DEF Basic
    <3>3. Content(in_file) # <<>> BY <2>1
    <3> QED BY <3>1, <3>2, <3>3, ContentIs
  <2>4. Scalars(points) /\ infile \in Seq(Byte) BY DEF Basic
  <2>5. Len(infile) >= 3 BY <2>1, <2>3, <2>4
  <2>6. encoding_from' = f BY <2>1, <2>2, <2>3, <2>4, <2>5, MarkTells
  <2> QED BY <1>1, <2>1, <2>2, <2>3, <2>5, <2>6 DEF Basic, line
<1> QED BY <1>2, <1>3

\* Opening the files keeps it.
LEMMA BasicOpen ==
    ASSUME Basic, OpenFiles
    PROVE  Basic'
<1>1. /\ pc = "open" /\ UNCHANGED <<line, encoding_from, encoding_to, pos, buf, points, stack>>
      /\ pos = 0
  BY DEF OpenFiles, Basic
<1>2. CASE out_file = "out" /\ in_file = "in" /\ outfile' = <<>> /\ UNCHANGED infile
           /\ pc' = IF encoding_to = "none" THEN "crash" ELSE "begin"
  BY <1>1, <1>2 DEF Basic, line
<1>3. CASE infile' = <<>> /\ pc' = "same" /\ UNCHANGED outfile
  BY <1>1, <1>3 DEF Basic, line
<1>4. CASE pc' = "exit" /\ UNCHANGED <<infile, outfile>>
  BY <1>1, <1>4 DEF Basic, line
<1> QED BY <1>2, <1>3, <1>4 DEF OpenFiles

\* Copying keeps it.
LEMMA BasicTranscribe ==
    ASSUME Basic, transcribe
    PROVE  Basic'
BY DEF Basic, transcribe, line

\* The start of a conversion keeps it.
LEMMA BasicBegin ==
    ASSUME Basic, Begin
    PROVE  Basic'
<1>1. /\ pc = "begin" /\ pc' = "loop" /\ encoding_from # encoding_to
      /\ outfile' = U!Mark(encoding_to) /\ pos' = Len(U!Mark(encoding_from))
      /\ buf' = IF encoding_from = "UTF8" THEN buf ELSE Read(buf, 0, 0, 2)
      /\ UNCHANGED <<line, encoding_from, encoding_to, infile, points, stack>>
  BY DEF Begin
<1>2. encoding_from \in U!Formats /\ encoding_to \in U!Formats /\ Len(infile) >= 3
  BY <1>1 DEF Basic
<1>3. outfile' \in Seq(Byte) BY <1>1, <1>2, MarkIs
<1>4. pos' \in 0 .. Len(infile)
  <2>1. infile \in Seq(Byte) BY DEF Basic
  <2>2. pos' \in {2, 3} BY <1>1, <1>2, MarkIs
  <2> QED BY <1>2, <2>1, <2>2
<1>5. buf' \in [1 .. 4 -> Byte]
  <2>1. infile \in Seq(Byte) /\ pos \in Nat /\ buf \in [1 .. 4 -> Byte] BY DEF Basic
  <2> QED BY <1>1, <2>1, ReadIs
<1> QED BY <1>1, <1>2, <1>3, <1>4, <1>5 DEF Basic, line

\* So does a turn that reads into the buffer, moves on in the input and writes bytes.
LEMMA BasicTurn ==
    ASSUME Basic, pc = "loop", pc' \in {"loop", "done"},
           UNCHANGED <<line, encoding_from, encoding_to, infile, points, stack>>,
           pos' \in 0 .. Len(infile), outfile' \in Seq(Byte), buf' \in [1 .. 4 -> Byte]
    PROVE  Basic'
BY DEF Basic, line

\* The types that a turn starts with.
LEMMA TurnTypes ==
    ASSUME Basic
    PROVE  /\ infile \in Seq(Byte) /\ outfile \in Seq(Byte) /\ Len(infile) \in Nat
           /\ pos \in Nat /\ pos <= Len(infile) /\ buf \in [1 .. 4 -> Byte]
BY DEF Basic

\* The file offset stays in the file.
LEMMA AfterType ==
    ASSUME infile \in Seq(Byte), pos \in Nat, pos <= Len(infile), NEW n \in Nat
    PROVE  After(n) \in 0 .. Len(infile)
<1>1. After(n) = IF pos + n <= Len(infile) THEN pos + n ELSE Len(infile) BY AfterIs, Zenon
<1> QED BY <1>1, SMT

\* A lead byte announces at most three more.
LEMMA RemainingType == \A b \in Nat : remaining_utf8_bytes(b) \in 0 .. 3
BY DEF remaining_utf8_bytes

\* A turn from utf-8 keeps it.
LEMMA BasicFromUtf8 ==
    ASSUME Basic, FromUtf8
    PROVE  Basic'
<1> DEFINE first == Read(buf, 0, 0, 1)
           rest == remaining_utf8_bytes(first[1])
           glyph == Read(first, 1, 1, rest)
           p == utf8_decode(glyph, rest + 1)
           unit == IF encoding_to = "UTF16LE" THEN code_point_to_utf16le_glyph(p)
                   ELSE code_point_to_utf16be_glyph(p)
<1>1. /\ pc = "loop" /\ pc' = pc
      /\ UNCHANGED <<line, encoding_from, encoding_to, infile, points, stack>>
      /\ buf' = glyph /\ pos' = After(1 + rest) /\ outfile' = outfile \o unit
  BY DEF FromUtf8, Turn
<1>2. /\ infile \in Seq(Byte) /\ outfile \in Seq(Byte) /\ pos \in Nat /\ pos <= Len(infile)
      /\ buf \in [1 .. 4 -> Byte]
  BY TurnTypes
<1>3. first \in [1 .. 4 -> Byte] BY <1>2, ReadIs
<1> HIDE DEF first
<1>4. first[1] \in Nat BY <1>3 DEF Byte
<1>5. rest \in 0 .. 3 BY <1>4, RemainingType
<1> HIDE DEF rest
<1>6. glyph \in [1 .. 4 -> Byte]
  <2>1. 1 \in Nat /\ rest \in Nat BY <1>5
  <2> QED BY ONLY <1>2, <1>3, <2>1, ReadIs
<1> HIDE DEF glyph
<1>7. p \in Nat /\ p <= \h1FFFFF
  <2>1. rest + 1 \in 1 .. 4 BY <1>5
  <2> QED BY <1>6, <2>1, DecodeType, SMT
<1> HIDE DEF p
<1>8. unit \in Seq(Byte)
  <2>1. /\ code_point_to_utf16le_glyph(p) \in Seq(Byte)
        /\ code_point_to_utf16be_glyph(p) \in Seq(Byte)
    BY <1>7, Utf16Type, SMT
  <2> QED BY ONLY <2>1, SMT
<1> HIDE DEF unit
<1>9. outfile' \in Seq(Byte) BY ONLY <1>1, <1>2, <1>8, ConcatProperties, SMT
<1>10. pos' \in 0 .. Len(infile)
  <2>1. 1 + rest \in Nat BY <1>5
  <2> QED BY ONLY <1>1, <1>2, <2>1, AfterType, SMT
<1> QED BY ONLY <1>1, <1>6, <1>9, <1>10, Basic, BasicTurn, SMT

\* The unit that is read.
LEMMA ReadUnitType ==
    ASSUME Basic, NEW mem \in [1 .. 4 -> Byte], NEW at \in {0, 2}, NEW skip \in {0, 2}
    PROVE  ReadUnit(mem, at, skip) \in [1 .. 4 -> Byte]
<1> DEFINE read == Read(mem, at, skip, 2)
<1>1. infile \in Seq(Byte) /\ pos \in Nat BY TurnTypes
<1>2. at \in Nat /\ skip \in Nat /\ 2 \in Nat OBVIOUS
<1>3. read \in [1 .. 4 -> Byte] BY <1>1, <1>2, ReadIs
<1> HIDE DEF read
<1>4. reverse_bytes(read, at) \in [1 .. 4 -> Byte] BY <1>3, ReverseIs
<1> QED BY <1>3, <1>4 DEF ReadUnit, read

\* A turn from UTF-16 to utf-8 keeps it.
LEMMA BasicToUtf8 ==
    ASSUME Basic, ToUtf8
    PROVE  Basic'
<1> DEFINE upper == ReadUnit(buf, 0, 0)
           pair == is_upper_surrogate_pair(upper)
           glyph == IF pair THEN ReadUnit(upper, 2, 2) ELSE upper
           p == utf16_glyph_to_code_point(glyph)
<1>1. /\ pc = "loop" /\ pc' = pc
      /\ UNCHANGED <<line, encoding_from, encoding_to, infile, points, stack>>
      /\ buf' = [i \in 1 .. 4 |-> 0] /\ pos' \in {After(2), After(4)}
      /\ outfile' = outfile \o code_point_to_utf8_glyph(p)
  BY DEF ToUtf8, Turn
<1>2. /\ infile \in Seq(Byte) /\ outfile \in Seq(Byte) /\ pos \in Nat /\ pos <= Len(infile)
      /\ buf \in [1 .. 4 -> Byte]
  BY TurnTypes
<1>3. upper \in [1 .. 4 -> Byte] BY <1>2, ReadUnitType
<1> HIDE DEF upper
<1>4. ReadUnit(upper, 2, 2) \in [1 .. 4 -> Byte] BY <1>3, ReadUnitType
<1> HIDE DEF pair
<1>5. glyph \in [1 .. 4 -> Byte] BY <1>3, <1>4
<1> HIDE DEF glyph
<1>6. IsPoint(p) BY <1>5, PointType
<1> HIDE DEF p
<1>7. code_point_to_utf8_glyph(p) \in Seq(Byte)
  <2>1. p \in Nat /\ p <= \h10FFFF BY ONLY <1>6, SMT DEF IsPoint
  <2> QED BY ONLY <2>1, Utf8Is, SMT
<1>8. outfile' \in Seq(Byte) BY ONLY <1>1, <1>2, <1>7, ConcatProperties, SMT
<1>9. pos' \in 0 .. Len(infile)
  <2>1. 2 \in Nat /\ 4 \in Nat OBVIOUS
  <2>2. After(2) \in 0 .. Len(infile) /\ After(4) \in 0 .. Len(infile)
    BY ONLY <1>2, <2>1, AfterType, SMT
  <2> QED BY ONLY <1>1, <2>2, Zenon
<1>10. buf' \in [1 .. 4 -> Byte]
  <2>1. 0 \in Byte BY SMT DEF Byte
  <2> QED BY ONLY <1>1, <2>1, SMT
<1> QED BY ONLY <1>1, <1>8, <1>9, <1>10, Basic, BasicTurn, SMT

\* The two buffers of a turn of Swap.
SwapUpper == reverse_bytes(Read(buf, 0, 0, 2), 0)
SwapBoth  == reverse_bytes(Read(SwapUpper, 2, 2, 2), 2)

\* The buffers of a turn between the two orders hold bytes.
LEMMA SwapTypes ==
    ASSUME Basic
    PROVE  /\ SwapUpper \in [1 .. 4 -> Byte] /\ SwapBoth \in [1 .. 4 -> Byte]
           /\ Read(SwapUpper, 2, 2, 2) \in [1 .. 4 -> Byte]
           /\ SwapBoth \in Seq(Byte) /\ Len(SwapBoth) = 4
           /\ SubSeq(SwapUpper, 1, 2) \in Seq(Byte) /\ Len(SubSeq(SwapUpper, 1, 2)) = 2
           /\ SubSeq(SwapUpper, 1, 2)[1] = SwapUpper[1]
           /\ SubSeq(SwapUpper, 1, 2)[2] = SwapUpper[2]
<1>1. infile \in Seq(Byte) /\ pos \in Nat /\ buf \in [1 .. 4 -> Byte] BY TurnTypes
<1>2. 0 \in Nat /\ 2 \in Nat OBVIOUS
<1> DEFINE u == SwapUpper
           v == SwapBoth
           r == Read(SwapUpper, 2, 2, 2)
<1>3. u \in [1 .. 4 -> Byte]
  <2>1. Read(buf, 0, 0, 2) \in [1 .. 4 -> Byte] BY <1>1, <1>2, ReadIs
  <2>2. 0 \in {0, 2} OBVIOUS
  <2> QED BY ONLY <2>1, <2>2, ReverseIs, SMT DEF SwapUpper
<1>4. r \in [1 .. 4 -> Byte]
  <2> HIDE DEF u
  <2>1. SwapUpper \in [1 .. 4 -> Byte] BY <1>3 DEF u
  <2> QED BY <1>1, <1>2, <2>1, ReadIs
<1>5. v \in [1 .. 4 -> Byte]
  <2>1. 2 \in {0, 2} OBVIOUS
  <2> QED BY ONLY <1>4, <2>1, ReverseIs, SMT DEF SwapBoth
<1> HIDE DEF u, v, r
<1>6. v \in Seq(Byte) /\ Len(v) = 4
  <2>1. 4 \in Nat OBVIOUS
  <2>2. v \in Seq(Byte) BY ONLY <1>5, <2>1, SeqDef, Zenon
  <2>3. DOMAIN v = 1 .. 4 /\ DOMAIN v = 1 .. Len(v) /\ Len(v) \in Nat
    BY <1>5, <2>2, LenProperties
  <2> QED BY <2>2, <2>3
<1>7. /\ SubSeq(u, 1, 2) \in Seq(Byte) /\ Len(SubSeq(u, 1, 2)) = 2
      /\ SubSeq(u, 1, 2)[1] = u[1] /\ SubSeq(u, 1, 2)[2] = u[2]
  <2>1. 1 \in Int /\ 2 \in Int /\ \A i \in 1 .. 2 : u[i] \in Byte BY <1>3
  <2>2. /\ SubSeq(u, 1, 2) \in Seq(Byte)
        /\ Len(SubSeq(u, 1, 2)) = IF 1 <= 2 THEN 2 - 1 + 1 ELSE 0
        /\ \A i \in 1 .. 2 - 1 + 1 : SubSeq(u, 1, 2)[i] = u[1 + i - 1]
    BY ONLY <2>1, SubSeqProperties, SMT
  <2> DEFINE w == SubSeq(u, 1, 2)
  <2> HIDE DEF w
  <2>3. w \in Seq(Byte) /\ Len(w) = 2 /\ \A i \in 1 .. 2 : w[i] = u[i] BY <2>2 DEF w
  <2>4. w[1] = u[1] /\ w[2] = u[2] BY <2>3
  <2> QED BY <2>3, <2>4 DEF w
<1> QED BY <1>3, <1>4, <1>5, <1>6, <1>7 DEF u, v, r

\* What a turn of Swap does.
SwapTurn ==
    /\ Turn /\ ByPair
    /\ UNCHANGED <<line, encoding_from, encoding_to, infile, points, stack>>
    /\ \/ /\ ~is_lower_surrogate_pair(SwapUpper) /\ pc' = "loop"
          /\ buf' = SwapUpper /\ pos' = After(2)
          /\ outfile' = outfile \o SubSeq(SwapUpper, 1, 2)
       \/ /\ is_lower_surrogate_pair(SwapUpper) /\ pc' = "loop"
          /\ buf' = SwapBoth /\ pos' = After(4) /\ outfile' = outfile \o SwapBoth
       \/ /\ is_lower_surrogate_pair(SwapUpper) /\ pc' = "done"
          /\ buf' = Read(SwapUpper, 2, 2, 2) /\ pos' = After(4) /\ outfile' = outfile

\* A turn between the two orders, as SwapTurn has it.
LEMMA SwapIs ==
    ASSUME Swap
    PROVE  SwapTurn
<1>1. ByPair
  <2>1. {encoding_from, encoding_to} = {"UTF16LE", "UTF16BE"} BY DEF Swap
  <2>2. encoding_from # encoding_to BY <2>1
  <2>3. encoding_from \in {"UTF16LE", "UTF16BE"} /\ encoding_to \in {"UTF16LE", "UTF16BE"} BY <2>1
  <2> QED BY <2>2, <2>3 DEF ByPair
<1>2. Turn /\ UNCHANGED <<line, encoding_from, encoding_to, infile, points, stack>>
  BY DEF Swap
<1>3. pc = "loop" BY <1>2 DEF Turn
<1>4. \/ /\ ~is_lower_surrogate_pair(SwapUpper)
         /\ buf' = SwapUpper /\ pos' = After(2) /\ UNCHANGED pc
         /\ outfile' = outfile \o SubSeq(SwapUpper, 1, 2)
      \/ /\ is_lower_surrogate_pair(SwapUpper)
         /\ buf' = SwapBoth /\ pos' = After(4) /\ UNCHANGED pc
         /\ outfile' = outfile \o SwapBoth
      \/ /\ is_lower_surrogate_pair(SwapUpper)
         /\ buf' = Read(SwapUpper, 2, 2, 2) /\ pos' = After(4) /\ pc' = "done"
         /\ UNCHANGED outfile
  BY Zenon DEF Swap, SwapUpper, SwapBoth
<1> QED BY <1>1, <1>2, <1>3, <1>4, Zenon DEF SwapTurn

\* It keeps the first part of the invariant.
LEMMA BasicSwap ==
    ASSUME Basic, SwapTurn
    PROVE  Basic'
<1>1. /\ pc = "loop" /\ pc' \in {"loop", "done"}
      /\ UNCHANGED <<line, encoding_from, encoding_to, infile, points, stack>>
      /\ pos' \in {After(2), After(4)}
  BY DEF SwapTurn, Turn
<1>2. /\ infile \in Seq(Byte) /\ outfile \in Seq(Byte) /\ pos \in Nat /\ pos <= Len(infile)
  BY TurnTypes
<1>3. /\ SwapUpper \in [1 .. 4 -> Byte] /\ SwapBoth \in [1 .. 4 -> Byte]
      /\ Read(SwapUpper, 2, 2, 2) \in [1 .. 4 -> Byte]
      /\ SwapBoth \in Seq(Byte) /\ SubSeq(SwapUpper, 1, 2) \in Seq(Byte)
  BY SwapTypes, Zenon
<1>4. buf' \in [1 .. 4 -> Byte] BY <1>3, Zenon DEF SwapTurn
<1>5. outfile' \in Seq(Byte)
  <2>1. /\ outfile \o SwapBoth \in Seq(Byte) /\ outfile \o SubSeq(SwapUpper, 1, 2) \in Seq(Byte)
    BY ONLY <1>2, <1>3, ConcatProperties, Zenon
  <2> QED BY <1>2, <2>1, Zenon DEF SwapTurn
<1>6. pos' \in 0 .. Len(infile)
  <2>1. 2 \in Nat /\ 4 \in Nat OBVIOUS
  <2>2. After(2) \in 0 .. Len(infile) /\ After(4) \in 0 .. Len(infile)
    BY ONLY <1>2, <2>1, AfterType, Zenon
  <2> QED BY ONLY <1>1, <2>2, Zenon
<1> QED BY ONLY <1>1, <1>4, <1>5, <1>6, Basic, BasicTurn, SMT

\* So do the end of the loop and the steps that leave everything alone.
LEMMA BasicEnd ==
    ASSUME Basic, EndOfFile
    PROVE  Basic'
BY DEF Basic, EndOfFile, line

-----------------------------------------------------------------------------
(***************************************************************************)
(* A turn that converts one character.                                     *)
(***************************************************************************)
\* The bytes of a character lie in the input, as far as the input goes.
Ahead(c) == \A i \in 1 .. Len(c) : pos + i <= Len(infile) => infile[pos + i] = c[i]

\* Where a turn begins.
LEMMA TurnBegins ==
    ASSUME Basic, pc = "loop", pos < Len(infile),
           NEW n \in 0 .. Len(points), Position(n, pos, outfile)
    PROVE  LET c == U!Character(encoding_from, points[n + 1])
           IN  /\ n \in 0 .. Len(points) - 1 /\ n + 1 \in 0 .. Len(points)
               /\ pos = Len(ToRead(n)) /\ outfile = ToWrite(n)
               /\ IsPoint(points[n + 1]) /\ U!IsScalar(points[n + 1])
               /\ Ahead(c) /\ Len(ToRead(n + 1)) = pos + Len(c)
<1> DEFINE c == U!Character(encoding_from, points[n + 1])
           t == U!Text(encoding_from, points)
           L == Len(points)
<1>1. /\ Scalars(points) /\ infile \in Seq(Byte) /\ encoding_from \in U!Formats
      /\ Begins(t, infile)
  BY DEF Basic
<1>2. L \in Nat /\ points \in Seq(Nat) BY <1>1 DEF Scalars
<1>3. pos \in Nat /\ Len(infile) \in Nat BY <1>1 DEF Basic
<1>4. pos = Len(ToRead(n)) /\ outfile = ToWrite(n) BY <1>3 DEF Position
<1>5. t = ToRead(L) BY <1>2, FirstSteps, Zenon DEF ToRead
<1>6. n # L
  <2>1. Len(infile) <= Len(t) BY <1>1 DEF Begins
  <2>2. n = L => Len(ToRead(n)) = Len(t) BY <1>5
  <2>3. t \in Seq(Byte)
    <3>1. L \in 0 .. Len(points) BY <1>2
    <3> QED BY <1>1, <1>5, <3>1, FirstType, Zenon DEF ToRead
  <2> HIDE DEF t, L
  <2>4. Len(t) \in Nat BY <2>3
  <2> QED BY <1>3, <1>4, <2>1, <2>2, <2>4
<1>7. n \in 0 .. Len(points) - 1 /\ n + 1 \in 0 .. Len(points) BY <1>2, <1>6
<1>8. IsPoint(points[n + 1]) /\ U!IsScalar(points[n + 1]) BY <1>1, <1>7, ScalarIs, Zenon
<1>9. c \in Seq(Byte) /\ Len(c) \in 1 .. 4 BY <1>1, <1>8, CharacterType, Zenon
<1> DEFINE r == ToRead(n)
           s == ToRead(n + 1)
<1>10. /\ r \in Seq(Byte) /\ s \in Seq(Byte) /\ Len(s) = Len(r) + Len(c)
       /\ \A i \in 1 .. Len(c) : s[Len(r) + i] = c[i]
  <2>1. r \in Seq(Byte) /\ s \in Seq(Byte) BY <1>1, <1>7, FirstGrows, Zenon DEF ToRead
  <2>2. Len(s) = Len(r) + Len(c) BY <1>1, <1>7, FirstGrows, SMT DEF ToRead
  <2>3. \A i \in 1 .. Len(c) : s[Len(r) + i] = c[i]
    <3> TAKE i \in 1 .. Len(c)
    <3> QED BY <1>1, <1>7, FirstGrows DEF ToRead
  <2> QED BY <2>1, <2>2, <2>3, Zenon
<1>11. Begins(t, s)
  <2>1. L \in (n + 1) .. Len(points) BY <1>2, <1>7
  <2>2. Begins(First(encoding_from, points, L), First(encoding_from, points, n + 1))
    BY <1>1, <1>7, <2>1, FirstBegins, Zenon
  <2> QED BY <1>5, <2>2 DEF ToRead
<1>12. pos = Len(r) BY <1>4
<1> HIDE DEF c, t, r, s, L
<1>13. Ahead(c)
  <2> SUFFICES ASSUME NEW i \in 1 .. Len(c), pos + i <= Len(infile) PROVE infile[pos + i] = c[i]
    BY DEF Ahead
  <2>1. pos + i \in 1 .. Len(infile) /\ pos + i \in 1 .. Len(s) BY <1>3, <1>9, <1>10, <1>12
  <2>2. infile[pos + i] = t[pos + i] BY <1>1, <2>1 DEF Begins
  <2>3. t[pos + i] = s[pos + i] BY <1>11, <2>1 DEF Begins
  <2>4. s[pos + i] = c[i] BY <1>10, <1>12
  <2> QED BY <2>2, <2>3, <2>4
<1>14. Len(s) = pos + Len(c) BY <1>10, <1>12
<1> QED BY <1>4, <1>7, <1>8, <1>13, <1>14 DEF c, s

\* Where it ends: at the next character, or at the end of an input that is cut.
LEMMA TurnEnds ==
    ASSUME Basic, pc = "loop", pos < Len(infile),
           NEW n \in 0 .. Len(points), Position(n, pos, outfile),
           NEW k \in Nat, NEW s \in Seq(Byte),
           pos + Len(U!Character(encoding_from, points[n + 1])) <= Len(infile) =>
              /\ k = Len(U!Character(encoding_from, points[n + 1]))
              /\ s = U!Character(encoding_to, points[n + 1]),
           pos + Len(U!Character(encoding_from, points[n + 1])) > Len(infile) =>
              pos + k >= Len(infile)
    PROVE  \E m \in 0 .. Len(points) : Position(m, After(k), outfile \o s)
<1> DEFINE c == U!Character(encoding_from, points[n + 1])
           L == Len(infile)
<1>1. /\ n \in 0 .. Len(points) - 1 /\ n + 1 \in 0 .. Len(points)
      /\ pos = Len(ToRead(n)) /\ outfile = ToWrite(n) /\ Len(ToRead(n + 1)) = pos + Len(c)
      /\ IsPoint(points[n + 1])
  BY TurnBegins, Zenon
<1>2. /\ Scalars(points) /\ infile \in Seq(Byte) /\ pos \in Nat /\ L \in Nat /\ pos < L
      /\ encoding_from \in U!Formats /\ encoding_to \in U!Formats /\ outfile \in Seq(Byte)
  BY DEF Basic
<1>3. Len(c) \in 1 .. 4 BY <1>1, <1>2, CharacterType, Zenon
<1>4. After(k) = IF pos + k <= L THEN pos + k ELSE L BY <1>2, AfterIs, Zenon
<1>5. points \in Seq(Nat) /\ Len(points) \in Nat BY <1>2 DEF Scalars
<1>6. pos + Len(c) <= L => k = Len(c) /\ s = U!Character(encoding_to, points[n + 1]) OBVIOUS
<1>7. pos + Len(c) > L => pos + k >= L OBVIOUS
<1> HIDE DEF c, L
<1>8. CASE pos + Len(c) <= L
  <2>1. After(k) = Len(ToRead(n + 1)) BY ONLY <1>1, <1>4, <1>6, <1>8, SMT
  <2>2. outfile \o s = ToWrite(n + 1)
    <3>1. ToWrite(n + 1) = ToWrite(n) \o U!Character(encoding_to, points[n + 1])
      BY <1>1, <1>5, FirstSteps, Zenon DEF ToWrite
    <3> QED BY <1>1, <1>6, <1>8, <3>1, Zenon
  <2>3. Position(n + 1, After(k), outfile \o s) BY <2>1, <2>2, Zenon DEF Position
  <2> QED BY <1>1, <2>3, Zenon
<1>9. CASE ~ (pos + Len(c) <= L)
  <2>1. After(k) = L BY ONLY <1>2, <1>3, <1>4, <1>7, <1>9, k \in Nat, SMT
  <2>2. Len(ToRead(n)) < L /\ L < Len(ToRead(n + 1)) /\ n < Len(points)
    <3>1. Len(c) \in Nat BY <1>3
    <3> QED BY ONLY <1>1, <1>2, <1>5, <1>9, <3>1, SMT
  <2>3. Begins(outfile \o s, ToWrite(n))
    <3>1. outfile \in Seq(Byte) BY <1>2
    <3>2. /\ Len(outfile \o s) = Len(outfile) + Len(s)
          /\ \A i \in 1 .. Len(outfile) + Len(s) :
                (outfile \o s)[i] = IF i <= Len(outfile) THEN outfile[i] ELSE s[i - Len(outfile)]
      BY <3>1, ConcatProperties, Zenon
    <3> DEFINE o == outfile \o s
    <3>3. Len(outfile) \in Nat /\ Len(s) \in Nat BY <3>1
    <3> HIDE DEF o
    <3>4. Len(o) = Len(outfile) + Len(s) /\ \A i \in 1 .. Len(outfile) + Len(s) :
             o[i] = IF i <= Len(outfile) THEN outfile[i] ELSE s[i - Len(outfile)]
      BY <3>2 DEF o
    <3>5. Begins(o, outfile) BY <3>3, <3>4 DEF Begins
    <3> QED BY <1>1, <3>5, Zenon DEF o
  <2>4. Position(n, After(k), outfile \o s) BY <2>1, <2>2, <2>3, Zenon DEF Position, L
  <2> QED BY <2>4, Zenon
<1> QED BY <1>8, <1>9

-----------------------------------------------------------------------------
\* A step that changes neither the input nor the encodings nor the text.
Same == UNCHANGED <<encoding_from, encoding_to, infile, points>>

\* A turn that reads the next character and writes its encoding goes on to the next
\* position, or to the end of an input that is cut inside it.
LEMMA GlyphwiseTurn ==
    ASSUME Basic, Glyphwise, pc = "loop", Same,
           NEW q, NEW o, pos' = q, outfile' = o,
           ByCharacter /\ Convertible => \E m \in 0 .. Len(points) : Position(m, q, o)
    PROVE  Glyphwise'
<1>1. SUFFICES ASSUME ByCharacter', Convertible'
               PROVE  \E m \in 0 .. Len(points') : Position(m, pos, outfile)'
  BY DEF Glyphwise
<1>2. ByCharacter BY <1>1 DEF ByCharacter, Same
<1>3. Convertible BY <1>1 DEF Convertible, Same
<1>4. PICK m \in 0 .. Len(points) : Position(m, q, o) BY <1>2, <1>3
<1>5. /\ ToRead(m)' = ToRead(m) /\ ToWrite(m)' = ToWrite(m)
      /\ ToRead(m + 1)' = ToRead(m + 1)
  BY DEF ToRead, ToWrite, First, Same
<1>6. Len(infile') = Len(infile) /\ Len(points') = Len(points) BY DEF Same
<1>7. Position(m, pos, outfile)' BY <1>4, <1>5, <1>6, Zenon DEF Position
<1> QED BY <1>4, <1>6, <1>7

\* Decoding looks at the bytes of the glyph only.
LEMMA DecodeAgrees ==
    ASSUME NEW mem, NEW c, NEW size \in 1 .. 4, \A i \in 1 .. size : mem[i] = c[i]
    PROVE  utf8_decode(mem, size) = utf8_decode(c, size)
<1>1. CASE size = 1
  <2>1. mem[1] = c[1] BY <1>1
  <2> QED BY <1>1, <2>1 DEF utf8_decode
<1>2. CASE size = 2
  <2>1. mem[1] = c[1] /\ mem[2] = c[2] BY <1>2
  <2> QED BY <1>2, <2>1 DEF utf8_decode
<1>3. CASE size = 3
  <2>1. mem[1] = c[1] /\ mem[2] = c[2] /\ mem[3] = c[3] BY <1>3
  <2> QED BY <1>3, <2>1 DEF utf8_decode
<1>4. CASE size = 4
  <2>1. mem[1] = c[1] /\ mem[2] = c[2] /\ mem[3] = c[3] /\ mem[4] = c[4] BY <1>4
  <2> QED BY <1>4, <2>1 DEF utf8_decode
<1> QED BY <1>1, <1>2, <1>3, <1>4

\* That is what a turn from utf-8 does.
LEMMA GlyphFromUtf8 ==
    ASSUME Basic, Glyphwise, FromUtf8
    PROVE  Glyphwise'
<1> DEFINE first == Read(buf, 0, 0, 1)
           rest == remaining_utf8_bytes(first[1])
           glyph == Read(first, 1, 1, rest)
           d == utf8_decode(glyph, rest + 1)
           unit == IF encoding_to = "UTF16LE" THEN code_point_to_utf16le_glyph(d)
                   ELSE code_point_to_utf16be_glyph(d)
<1>1. /\ pc = "loop" /\ pos < Len(infile) /\ encoding_from = "UTF8"
      /\ Same /\ pos' = After(1 + rest) /\ outfile' = outfile \o unit
  BY DEF FromUtf8, Turn, Same
<1>2. /\ infile \in Seq(Byte) /\ outfile \in Seq(Byte) /\ pos \in Nat /\ Len(infile) \in Nat
      /\ buf \in [1 .. 4 -> Byte]
  BY TurnTypes
<1>3. /\ first \in [1 .. 4 -> Byte] /\ first[1] = infile[pos + 1]
  <2>1. 0 \in Nat /\ 1 \in Nat /\ 1 \in 1 .. 4 OBVIOUS
  <2>2. /\ first \in [1 .. 4 -> Byte]
        /\ first[1] = Loaded(buf, 0, 0, 1, 1)
    BY ONLY <1>2, <2>1, ReadIs, SMT
  <2>3. Loaded(buf, 0, 0, 1, 1) = infile[pos + 1]
    <3>1. 0 < 1 /\ 1 <= 0 + 1 /\ pos + 0 + (1 - 0) <= Len(infile) /\ pos + 0 + (1 - 0) = pos + 1
      BY ONLY <1>1, <1>2, SMT
    <3> QED BY ONLY <3>1, SMT DEF Loaded
  <2> QED BY ONLY <2>2, <2>3, Zenon
<1> HIDE DEF first
<1>4. rest \in 0 .. 3
  <2>1. first[1] \in Nat BY <1>3 DEF Byte
  <2> QED BY <2>1, RemainingType
<1>5. unit \in Seq(Byte)
  <2>0. 1 \in Nat /\ rest \in Nat BY <1>4
  <2>1. glyph \in [1 .. 4 -> Byte] BY ONLY <1>2, <1>3, <2>0, ReadIs
  <2>2. rest + 1 \in 1 .. 4 BY <1>4
  <2> HIDE DEF rest, glyph
  <2>3. d \in Nat /\ d <= \h1FFFFF BY <2>1, <2>2, DecodeType, SMT
  <2> HIDE DEF d
  <2>4. /\ code_point_to_utf16le_glyph(d) \in Seq(Byte)
        /\ code_point_to_utf16be_glyph(d) \in Seq(Byte)
    BY <2>3, Utf16Type, SMT
  <2> QED BY ONLY <2>4, SMT
<1>6. ASSUME ByCharacter, Convertible
      PROVE  \E m \in 0 .. Len(points) : Position(m, After(1 + rest), outfile \o unit)
  <2>1. PICK n \in 0 .. Len(points) : Position(n, pos, outfile) BY <1>1, <1>6 DEF Glyphwise
  <2> DEFINE p == points[n + 1]
             c == U!Character(encoding_from, p)
  <2>2. IsPoint(p) /\ Ahead(c) BY <1>1, <2>1, TurnBegins, Zenon
  <2>3. c = code_point_to_utf8_glyph(p) /\ Len(c) \in 1 .. 4
    <3>1. p \in Nat /\ p <= \h10FFFF BY ONLY <2>2, SMT DEF IsPoint
    <3> HIDE DEF p
    <3>2. c = U!Utf8(p) BY <1>1, Zenon DEF U!Character
    <3> QED BY <3>1, <3>2, Utf8Is, SMT
  <2>4. remaining_utf8_bytes(c[1]) + 1 = Len(c) /\ utf8_decode(c, Len(c)) = p
    <3>1. p \in Nat /\ p <= \h10FFFF BY ONLY <2>2, SMT DEF IsPoint
    <3> HIDE DEF p, c
    <3> QED BY <2>3, <3>1, Utf8RoundTrip, SMT
  <2> HIDE DEF p, c
  <2>5. first[1] = c[1]
    <3>1. 1 \in 1 .. Len(c)
      <4>1. \A x \in 1 .. 4 : 1 \in 1 .. x OBVIOUS
      <4> QED BY <2>3, <4>1, Zenon
    <3>2. pos + 1 <= Len(infile)
      <4>1. \A x, y \in Nat : x < y => x + 1 <= y OBVIOUS
      <4> QED BY <1>1, <1>2, <4>1, Zenon
    <3> QED BY <1>3, <2>2, <3>1, <3>2, Zenon DEF Ahead
  <2>6. rest + 1 = Len(c) BY <2>4, <2>5
  <2>7. 1 + rest = Len(c) BY ONLY <1>4, <2>6, SMT
  <2>8. ASSUME pos + Len(c) <= Len(infile)
        PROVE  unit = U!Character(encoding_to, p)
    <3>1. ASSUME NEW i \in 1 .. Len(c) PROVE glyph[i] = c[i]
      <4>0. 1 \in Nat /\ rest \in Nat BY <1>4
      <4>1. i \in 1 .. 4 /\ i \in Nat
        <5>1. \A x \in 1 .. 4 : \A y \in 1 .. x : y \in 1 .. 4 /\ y \in Nat OBVIOUS
        <5> QED BY <2>3, <5>1, Zenon
      <4> HIDE DEF rest
      <4>2. glyph[i] = Loaded(first, 1, 1, rest, i)
        <5>1. infile \in Seq(Byte) /\ pos \in Nat BY <1>2
        <5>2. \A j \in 1 .. 4 : Read(first, 1, 1, rest)[j] = Loaded(first, 1, 1, rest, j)
          BY ONLY <1>3, <4>0, <5>1, ReadNext, Zenon
        <5> QED BY <4>1, <5>2, Zenon DEF rest
      <4>3. CASE i = 1
        <5>1. Loaded(first, 1, 1, rest, i) = first[i]
          <6>1. ~ (1 < i) BY <4>3
          <6> QED BY ONLY <6>1, Zenon DEF Loaded
        <5> QED BY <2>5, <4>2, <4>3, <5>1
      <4>4. CASE i # 1
        <5>1. /\ 1 < i /\ i <= 1 + rest /\ pos + 1 + (i - 1) <= Len(infile)
              /\ pos + 1 + (i - 1) = pos + i
          BY <1>2, <2>3, <2>7, <2>8, <4>1, <4>4
        <5>2. Loaded(first, 1, 1, rest, i) = infile[pos + i] BY ONLY <5>1, Zenon DEF Loaded
        <5>3. infile[pos + i] = c[i] BY <2>2, <5>1 DEF Ahead
        <5> QED BY <4>2, <5>2, <5>3
      <4> QED BY <4>3, <4>4
    <3> HIDE DEF glyph
    <3>2. utf8_decode(glyph, Len(c)) = utf8_decode(c, Len(c)) BY <2>3, <3>1, DecodeAgrees
    <3>3. d = p BY <2>4, <2>6, <3>2, Zenon
    <3> HIDE DEF d
    <3>4. encoding_to \in {"UTF16LE", "UTF16BE"}
      <4>1. encoding_to \in U!Formats /\ encoding_from # encoding_to BY <1>1 DEF Basic
      <4> QED BY <1>1, <4>1 DEF U!Formats
    <3>5. /\ U!Character("UTF16LE", p) = code_point_to_utf16le_glyph(p)
          /\ U!Character("UTF16BE", p) = code_point_to_utf16be_glyph(p)
      <4>1. p \in Nat /\ p <= \h10FFFF BY ONLY <2>2, SMT DEF IsPoint
      <4> QED BY ONLY <4>1, Utf16Is, SMT
    <3> QED BY ONLY <3>3, <3>4, <3>5, SMT
  <2>9. 1 + rest \in Nat BY <1>4
  <2> DEFINE k == 1 + rest
  <2> HIDE DEF unit, rest, first
  <2>10. pos + Len(c) > Len(infile) => pos + k >= Len(infile) BY <1>2, <2>7, <2>9
  <2>11. k \in Nat /\ k = Len(c) BY <2>7, <2>9
  <2> HIDE DEF k
  <2>12. \E m \in 0 .. Len(points) : Position(m, After(k), outfile \o unit)
    BY <1>1, <1>5, <2>1, <2>8, <2>10, <2>11, TurnEnds, Zenon DEF c, p
  <2> QED BY <2>12 DEF k
<1> HIDE DEF unit, rest
<1> QED BY <1>1, <1>6, GlyphwiseTurn

-----------------------------------------------------------------------------
\* A unit that is read whole is in memory as a number, whatever its order in the file.
LEMMA ReadUnitIs ==
    ASSUME Basic, NEW mem \in [1 .. 4 -> Byte], NEW at \in {0, 2}, pos + at + 2 <= Len(infile)
    PROVE  /\ ReadUnit(mem, at, at)[at + 1] =
                 IF encoding_from = "UTF16BE" THEN infile[pos + at + 2] ELSE infile[pos + at + 1]
           /\ ReadUnit(mem, at, at)[at + 2] =
                 IF encoding_from = "UTF16BE" THEN infile[pos + at + 1] ELSE infile[pos + at + 2]
           /\ at = 2 => ReadUnit(mem, at, at)[1] = mem[1] /\ ReadUnit(mem, at, at)[2] = mem[2]
<1> DEFINE r == Read(mem, at, at, 2)
           v == reverse_bytes(r, at)
<1>1. infile \in Seq(Byte) /\ pos \in Nat /\ Len(infile) \in Nat BY TurnTypes
<1>2. /\ at \in Nat /\ 2 \in Nat /\ at + 1 \in 1 .. 4 /\ at + 2 \in 1 .. 4 /\ at + 1 # at + 2
      /\ at = 2 => 1 # at + 1 /\ 1 # at + 2 /\ 2 # at + 1 /\ 2 # at + 2
      /\ 1 \in 1 .. 4 /\ 2 \in 1 .. 4
  OBVIOUS
<1>3. /\ r \in [1 .. 4 -> Byte]
      /\ \A i \in 1 .. 4 : r[i] = Loaded(mem, at, at, 2, i)
  <2>1. r \in [1 .. 4 -> Byte] BY ONLY <1>1, <1>2, mem \in [1 .. 4 -> Byte], ReadIs, Zenon
  <2>2. ASSUME NEW i \in 1 .. 4 PROVE r[i] = Loaded(mem, at, at, 2, i)
    <3>1. infile \in Seq(Byte) /\ pos \in Nat /\ at \in Nat /\ 2 \in Nat BY <1>1, <1>2
    <3> QED BY ONLY <3>1, mem \in [1 .. 4 -> Byte], i \in 1 .. 4, ReadAt, SMT
  <2> HIDE DEF r
  <2> QED BY <2>1, <2>2, Zenon
<1> HIDE DEF r
<1>4. r[at + 1] = infile[pos + at + 1]
  <2>1. at < at + 1 /\ at + 1 <= at + 2 /\ pos + at + (at + 1 - at) <= Len(infile)
        /\ pos + at + (at + 1 - at) = pos + at + 1
    BY <1>1, <1>2
  <2>2. Loaded(mem, at, at, 2, at + 1) = infile[pos + at + 1] BY <2>1 DEF Loaded
  <2> QED BY <1>2, <1>3, <2>2, Zenon
<1>5. r[at + 2] = infile[pos + at + 2]
  <2>1. at < at + 2 /\ at + 2 <= at + 2 /\ pos + at + (at + 2 - at) <= Len(infile)
        /\ pos + at + (at + 2 - at) = pos + at + 2
    BY <1>1, <1>2
  <2>2. Loaded(mem, at, at, 2, at + 2) = infile[pos + at + 2] BY <2>1 DEF Loaded
  <2> QED BY <1>2, <1>3, <2>2, Zenon
<1>6. at = 2 => r[1] = mem[1] /\ r[2] = mem[2]
  <2> SUFFICES ASSUME at = 2 PROVE r[1] = mem[1] /\ r[2] = mem[2] OBVIOUS
  <2>1. ~ (at < 1) /\ ~ (at < 2) OBVIOUS
  <2>2. Loaded(mem, at, at, 2, 1) = mem[1] /\ Loaded(mem, at, at, 2, 2) = mem[2]
    BY <2>1 DEF Loaded
  <2> QED BY <1>2, <1>3, <2>2, Zenon
<1>7. /\ \A i \in 1 .. 4 : v[i] =
            IF i = at + 1 THEN r[at + 2] ELSE IF i = at + 2 THEN r[at + 1] ELSE r[i]
  BY <1>3, ReverseIs
<1> HIDE DEF v
<1>8. /\ v[at + 1] = r[at + 2] /\ v[at + 2] = r[at + 1]
      /\ at = 2 => v[1] = r[1] /\ v[2] = r[2]
  BY <1>2, <1>7
<1>9. ReadUnit(mem, at, at) = IF encoding_from = "UTF16BE" THEN v ELSE r BY DEF ReadUnit, r, v
<1>10. CASE encoding_from = "UTF16BE"
  <2>1. ReadUnit(mem, at, at) = v BY <1>9, <1>10
  <2> QED BY <1>4, <1>5, <1>6, <1>8, <1>10, <2>1, Zenon
<1>11. CASE encoding_from # "UTF16BE"
  <2>1. ReadUnit(mem, at, at) = r BY <1>9, <1>11
  <2> QED BY <1>4, <1>5, <1>6, <1>11, <2>1, Zenon
<1> QED BY <1>10, <1>11

\* Of a character that lies ahead, the unit that is read is the one that
\* code_point_to_utf16le_glyph makes.
LEMMA UnitAhead ==
    ASSUME Basic, encoding_from \in {"UTF16LE", "UTF16BE"}, NEW p, IsPoint(p),
           Ahead(U!Character(encoding_from, p)),
           NEW mem \in [1 .. 4 -> Byte], NEW at \in {0, 2}, pos + at + 2 <= Len(infile),
           at + 2 <= Len(U!Character(encoding_from, p))
    PROVE  /\ ReadUnit(mem, at, at)[at + 1] = code_point_to_utf16le_glyph(p)[at + 1]
           /\ ReadUnit(mem, at, at)[at + 2] = code_point_to_utf16le_glyph(p)[at + 2]
<1> DEFINE c  == U!Character(encoding_from, p)
           le == U!Character("UTF16LE", p)
           be == U!Character("UTF16BE", p)
           g  == ReadUnit(mem, at, at)
<1>1. /\ g[at + 1] =
            IF encoding_from = "UTF16BE" THEN infile[pos + at + 2] ELSE infile[pos + at + 1]
      /\ g[at + 2] =
            IF encoding_from = "UTF16BE" THEN infile[pos + at + 1] ELSE infile[pos + at + 2]
  BY ReadUnitIs, Zenon
<1>2. infile \in Seq(Byte) /\ pos \in Nat /\ Len(infile) \in Nat BY TurnTypes
<1>3. c \in Seq(Byte) /\ Len(c) \in Nat
  <2>1. encoding_from \in U!Formats BY DEF U!Formats
  <2>2. c \in Seq(Byte) BY <2>1, CharacterType, Zenon
  <2> HIDE DEF c
  <2> QED BY <2>2
<1>4. Swapped(le, be) BY CharacterSwapped, Zenon
<1>5. le = code_point_to_utf16le_glyph(p)
  <2>1. p \in Nat /\ p <= \h10FFFF BY SMT DEF IsPoint
  <2> QED BY <2>1, Utf16Is, SMT
<1>6. Ahead(c) /\ at + 2 <= Len(c) OBVIOUS
<1>7. \/ encoding_from = "UTF16LE" /\ c = le
      \/ encoding_from = "UTF16BE" /\ c = be
  OBVIOUS
<1> HIDE DEF c, g, le, be
<1>8. infile[pos + at + 1] = c[at + 1] /\ infile[pos + at + 2] = c[at + 2]
  <2>1. at + 1 \in 1 .. Len(c) /\ pos + (at + 1) <= Len(infile) /\ pos + (at + 1) = pos + at + 1
    BY <1>2, <1>3, <1>6
  <2>2. at + 2 \in 1 .. Len(c) /\ pos + (at + 2) <= Len(infile) /\ pos + (at + 2) = pos + at + 2
    BY <1>2, <1>3, <1>6
  <2> QED BY <1>6, <2>1, <2>2 DEF Ahead
<1>9. g[at + 1] = le[at + 1] /\ g[at + 2] = le[at + 2]
  <2>1. CASE encoding_from = "UTF16LE" BY <1>1, <1>7, <1>8, <2>1
  <2>2. CASE encoding_from = "UTF16BE" /\ c = be
    <3>1. g[at + 1] = be[at + 2] /\ g[at + 2] = be[at + 1] BY <1>1, <1>8, <2>2
    <3>2. PICK m \in Nat : at = 2 * m
      <4>1. at = 2 * 0 \/ at = 2 * 1 OBVIOUS
      <4>2. 0 \in Nat /\ 1 \in Nat OBVIOUS
      <4> QED BY <4>1, <4>2, Zenon
    <3>3. 2 * m + 2 <= Len(le) BY <1>4, <1>6, <2>2, <3>2, Zenon DEF Swapped
    <3>4. le[2 * m + 1] = be[2 * m + 2] /\ le[2 * m + 2] = be[2 * m + 1]
      BY <1>4, <3>3, Zenon DEF Swapped
    <3> QED BY <3>1, <3>2, <3>4, Zenon
  <2> QED BY <1>7, <2>1, <2>2
<1> QED BY <1>5, <1>9 DEF g

\* What the decoder makes of a buffer depends on its two units only.
LEMMA CodePointAgrees ==
    ASSUME NEW mem, NEW g, Short(mem, 0) = Short(g, 0),
           is_upper_surrogate_pair(mem) => Short(mem, 2) = Short(g, 2)
    PROVE  /\ utf16_glyph_to_code_point(mem) = utf16_glyph_to_code_point(g)
           /\ is_upper_surrogate_pair(mem) <=> is_upper_surrogate_pair(g)
<1>1. is_upper_surrogate_pair(mem) <=> is_upper_surrogate_pair(g) BY DEF is_upper_surrogate_pair
<1>2. CASE is_upper_surrogate_pair(mem)
  <2> DEFINE Code(u, l) == (u - \hD800) * \h400 + ((l - \hDC00) % \h400) + \h10000
  <2>1. /\ utf16_glyph_to_code_point(mem) = Code(Short(mem, 0), Short(mem, 2))
        /\ utf16_glyph_to_code_point(g) = Code(Short(g, 0), Short(g, 2))
    BY <1>1, <1>2, SMT DEF utf16_glyph_to_code_point
  <2>2. Short(mem, 0) = Short(g, 0) /\ Short(mem, 2) = Short(g, 2) BY <1>2
  <2> HIDE DEF Code
  <2> QED BY ONLY <2>1, <2>2, <1>1, Zenon
<1>3. CASE ~is_upper_surrogate_pair(mem)
  BY <1>1, <1>3, SMT DEF utf16_glyph_to_code_point
<1> QED BY <1>1, <1>2, <1>3, SMT

\* The characters that the code reads from UTF-16.
Readable(p) == IsPoint(p) /\ (p < \hD800 \/ (\hE000 <= p /\ p < \h10000)
                              \/ (\h10400 <= p /\ p < \h10FC00))

\* A character that the code converts is written and read in the same number of units.
LEMMA ReadableIs ==
    ASSUME NEW p, Readable(p)
    PROVE  LET g == code_point_to_utf16le_glyph(p)
           IN  /\ utf16_glyph_to_code_point(g) = p
               /\ \/ Len(g) = 2 /\ ~is_upper_surrogate_pair(g)
                  \/ Len(g) = 4 /\ is_upper_surrogate_pair(g)
<1>1. p \in Nat /\ p <= \h10FFFF BY SMT DEF Readable, IsPoint
<1>2. p < \hD800 \/ (\hE000 <= p /\ p < \h10000) \/ (\h10400 <= p /\ p < \h10FC00)
  BY SMT DEF Readable
<1> DEFINE g == code_point_to_utf16le_glyph(p)
<1>3. utf16_glyph_to_code_point(g) = p
  <2>1. p < \h10FC00 BY <1>1, <1>2, SMT
  <2>2. p <= \hD800 \/ (\hDBFF <= p /\ p < \h10000) \/ \h10400 <= p BY <1>1, <1>2, SMT
  <2> QED BY <1>1, <2>1, <2>2, Utf16RoundTrip, SMT
<1>4. CASE p < \h10000
  <2>1. Len(g) = 2 /\ Short(g, 0) = p BY <1>1, <1>4, UnitInMemory, SMT
  <2> HIDE DEF g
  <2>2. ~is_upper_surrogate_pair(g)
    BY ONLY <1>1, <1>2, <1>4, <2>1, SMT DEF is_upper_surrogate_pair
  <2> QED BY <1>3, <2>1, <2>2, SMT DEF g
<1>5. CASE ~ (p < \h10000)
  <2>1. Len(g) = 4 /\ Short(g, 0) = \hD800 + ((p - \h10000) \div \h400)
    BY <1>1, <1>5, PairInMemory, SMT
  <2> HIDE DEF g
  <2>2. is_upper_surrogate_pair(g)
    <3>1. \h10400 <= p /\ p < \h10FC00 BY <1>1, <1>2, <1>5, SMT
    <3> QED BY ONLY <1>1, <2>1, <3>1, SMT DEF is_upper_surrogate_pair
  <2> QED BY <1>3, <2>1, <2>2, SMT DEF g
<1> QED BY <1>4, <1>5, SMT

-----------------------------------------------------------------------------
\* In a text that the code converts to utf-8 every character is one that it reads.
LEMMA ConvertibleIs ==
    ASSUME Basic, Convertible, encoding_from # "UTF8", encoding_to = "UTF8",
           NEW n \in 0 .. Len(points) - 1
    PROVE  Readable(points[n + 1])
<1> DEFINE p == points[n + 1]
<1>1. Scalars(points) BY DEF Basic
<1>2. n + 1 \in DOMAIN points BY <1>1 DEF Scalars
<1>3. IsPoint(p) /\ U!IsScalar(p) BY <1>1, ScalarIs, Zenon
<1>4. p \notin (\h10000 .. \h103FF) \union (\h10FC00 .. \h10FFFF) BY <1>2, SMT DEF Convertible
<1> HIDE DEF p
<1>5. p \in Nat /\ p <= \h10FFFF /\ (p < \hD800 \/ \hE000 <= p)
  BY ONLY <1>3, SMT DEF IsPoint, U!IsScalar
<1>6. (p < \h10000 \/ \h103FF < p) /\ p < \h10FC00 BY ONLY <1>4, <1>5, SMT
<1>7. Readable(p) BY ONLY <1>3, <1>5, <1>6, SMT DEF Readable
<1> QED BY <1>7 DEF p

\* That is what a turn from UTF-16 to utf-8 does, in a text that the code converts.
LEMMA GlyphToUtf8 ==
    ASSUME Basic, Glyphwise, ToUtf8
    PROVE  Glyphwise'
<1> DEFINE upper == ReadUnit(buf, 0, 0)
           pair == is_upper_surrogate_pair(upper)
           glyph == IF pair THEN ReadUnit(upper, 2, 2) ELSE upper
           d == utf16_glyph_to_code_point(glyph)
           unit == code_point_to_utf8_glyph(d)
           k == IF pair THEN 4 ELSE 2
<1>1. /\ pc = "loop" /\ pos < Len(infile) /\ encoding_from # "UTF8" /\ encoding_to = "UTF8"
      /\ Same /\ pos' = After(k) /\ outfile' = outfile \o unit
  BY DEF ToUtf8, Turn, Same
<1>2. /\ infile \in Seq(Byte) /\ outfile \in Seq(Byte) /\ pos \in Nat /\ Len(infile) \in Nat
      /\ buf \in [1 .. 4 -> Byte]
  BY TurnTypes
<1>3. upper \in [1 .. 4 -> Byte] BY <1>2, ReadUnitType
<1> HIDE DEF upper
<1>4. glyph \in [1 .. 4 -> Byte]
  <2>1. ReadUnit(upper, 2, 2) \in [1 .. 4 -> Byte] BY <1>3, ReadUnitType
  <2> QED BY <1>3, <2>1
<1>5. unit \in Seq(Byte)
  <2> HIDE DEF glyph
  <2>1. IsPoint(d) BY <1>4, PointType
  <2> HIDE DEF d
  <2>2. d \in Nat /\ d <= \h10FFFF BY ONLY <2>1, SMT DEF IsPoint
  <2> QED BY ONLY <2>2, Utf8Is, SMT
<1>6. k \in {2, 4} OBVIOUS
<1>7. encoding_from \in {"UTF16LE", "UTF16BE"}
  <2>1. encoding_from \in U!Formats BY <1>1 DEF Basic
  <2> QED BY <1>1, <2>1 DEF U!Formats
<1>8. ASSUME ByCharacter, Convertible
      PROVE  \E m \in 0 .. Len(points) : Position(m, After(k), outfile \o unit)
  <2>1. PICK n \in 0 .. Len(points) : Position(n, pos, outfile) BY <1>1, <1>8 DEF Glyphwise
  <2> DEFINE p == points[n + 1]
             c == U!Character(encoding_from, p)
             g == code_point_to_utf16le_glyph(p)
  <2>2. IsPoint(p) /\ Ahead(c) /\ n \in 0 .. Len(points) - 1
    BY <1>1, <2>1, TurnBegins, Zenon
  <2>3. Readable(p) BY <1>1, <1>8, <2>2, ConvertibleIs, Zenon
  <2>4. /\ utf16_glyph_to_code_point(g) = p
        /\ \/ Len(g) = 2 /\ ~is_upper_surrogate_pair(g)
           \/ Len(g) = 4 /\ is_upper_surrogate_pair(g)
    BY <2>3, ReadableIs, Zenon
  <2>5. Len(c) = Len(g)
    <3>1. Swapped(U!Character("UTF16LE", p), U!Character("UTF16BE", p))
      BY <2>2, CharacterSwapped, Zenon
    <3>2. U!Character("UTF16LE", p) = g
      <4>1. p \in Nat /\ p <= \h10FFFF BY ONLY <2>2, SMT DEF IsPoint
      <4> QED BY ONLY <4>1, Utf16Is, SMT
    <3>3. Len(U!Character("UTF16BE", p)) = Len(g) BY <3>1, <3>2, Zenon DEF Swapped
    <3> HIDE DEF p, g
    <3> QED BY <1>7, <3>2, <3>3
  <2> HIDE DEF p, c, g
  <2>6. Len(g) \in {2, 4} BY <2>4
  <2>7. ASSUME pos + 2 <= Len(infile)
        PROVE  /\ Short(upper, 0) = Short(g, 0) /\ (pair <=> is_upper_surrogate_pair(g))
               /\ k = Len(g)
    <3>1. upper[0 + 1] = g[0 + 1] /\ upper[0 + 2] = g[0 + 2]
      <4>1. 0 \in {0, 2} /\ pos + 0 + 2 <= Len(infile) /\ 0 + 2 <= Len(c)
        BY <1>2, <2>5, <2>6, <2>7
      <4> QED BY <1>2, <1>7, <2>2, <4>1, UnitAhead, Zenon DEF c, g, upper
    <3>2. upper[1] = g[1] /\ upper[2] = g[2] BY <3>1
    <3>3. Short(upper, 0) = Short(g, 0) BY <3>2, SMT DEF Short
    <3>4. pair <=> is_upper_surrogate_pair(g) BY ONLY <3>3, SMT DEF is_upper_surrogate_pair
    <3> QED BY <2>4, <3>3, <3>4
  <2>8. ASSUME pos + Len(c) <= Len(infile)
        PROVE  k = Len(c) /\ unit = U!Character(encoding_to, p)
    <3>1. pos + 2 <= Len(infile)
      <4>1. \A x, y \in Nat : \A z \in {2, 4} : x + z <= y => x + 2 <= y OBVIOUS
      <4> QED BY <1>2, <2>5, <2>6, <2>8, <4>1, Zenon
    <3>2. Short(upper, 0) = Short(g, 0) /\ (pair <=> is_upper_surrogate_pair(g)) /\ k = Len(g)
      BY <2>7, <3>1
    <3>3. d = utf16_glyph_to_code_point(g)
      <4>1. CASE pair
        <5>1. Len(g) = 4 BY <2>4, <3>2, <4>1
        <5>2. 2 \in {0, 2} /\ pos + 2 + 2 <= Len(infile) /\ 2 + 2 <= Len(c)
          BY <1>2, <2>5, <2>8, <5>1
        <5> DEFINE v == ReadUnit(upper, 2, 2)
        <5>3. v[2 + 1] = g[2 + 1] /\ v[2 + 2] = g[2 + 2]
          BY <1>3, <1>7, <2>2, <5>2, UnitAhead, Zenon DEF c, g
        <5>4. v[1] = upper[1] /\ v[2] = upper[2]
          <6>1. 2 = 2 OBVIOUS
          <6> QED BY <1>3, <5>2, <6>1, ReadUnitIs, Zenon
        <5>5. glyph = v BY <4>1
        <5> HIDE DEF v, glyph, pair
        <5>6. Short(v, 0) = Short(g, 0) /\ Short(v, 2) = Short(g, 2)
          BY <3>2, <5>3, <5>4, SMT DEF Short
        <5> QED BY <5>5, <5>6, CodePointAgrees, Zenon
      <4>2. CASE ~pair
        <5>1. glyph = upper BY <4>2
        <5>2. ~is_upper_surrogate_pair(upper) BY <4>2
        <5> HIDE DEF glyph, pair
        <5> QED BY <3>2, <5>1, <5>2, CodePointAgrees, Zenon
      <4> QED BY <4>1, <4>2
    <3> HIDE DEF glyph
    <3>4. d = p BY <2>4, <3>3, Zenon
    <3> HIDE DEF d
    <3>5. U!Character("UTF8", p) = U!Utf8(p) BY Zenon DEF U!Character
    <3>6. U!Utf8(p) = code_point_to_utf8_glyph(p)
      <4>1. p \in Nat /\ p <= \h10FFFF BY ONLY <2>2, SMT DEF IsPoint
      <4> QED BY ONLY <4>1, Utf8Is, SMT
    <3> QED BY <1>1, <2>5, <3>2, <3>4, <3>5, <3>6, Zenon
  <2>9. pos + Len(c) > Len(infile) => pos + k >= Len(infile)
    <3>1. CASE pos + 2 <= Len(infile)
      <4>1. k = Len(c) BY <2>5, <2>7, <3>1
      <4> HIDE DEF k
      <4> QED BY <1>2, <2>5, <2>6, <4>1
    <3>2. CASE ~ (pos + 2 <= Len(infile))
      <4> HIDE DEF k
      <4> QED BY <1>2, <1>6, <3>2
    <3> QED BY <3>1, <3>2
  <2>10. k \in Nat BY <1>6
  <2> HIDE DEF unit, k, upper
  <2> QED BY <1>1, <1>5, <2>1, <2>8, <2>9, <2>10, TurnEnds, Zenon DEF c, p
<1> HIDE DEF unit, k
<1> QED BY <1>1, <1>8, GlyphwiseTurn

-----------------------------------------------------------------------------
(***************************************************************************)
(* A turn between the two orders of UTF-16.                                *)
(***************************************************************************)
\* What one or two more pairs make of the output.
LEMMA PairsAppended ==
    ASSUME infile \in Seq(Byte), outfile \in Seq(Byte), pos \in Nat,
           Len(outfile) = pos, Even(pos), PairsSwapped(pos, outfile),
           NEW s \in Seq(Byte), Len(s) \in {2, 4}, NEW q \in Nat,
           q >= pos + 2 => s[1] = infile[pos + 2] /\ s[2] = infile[pos + 1],
           Len(s) = 4 /\ q >= pos + 4 => s[3] = infile[pos + 4] /\ s[4] = infile[pos + 3]
    PROVE  PairsSwapped(q, outfile \o s) /\ Len(outfile \o s) = pos + Len(s)
<1> DEFINE o == outfile \o s
<1>1. Len(o) = Len(outfile) + Len(s) BY ConcatProperties, Zenon
<1>2. \A i \in 1 .. Len(outfile) + Len(s) :
         o[i] = IF i <= Len(outfile) THEN outfile[i] ELSE s[i - Len(outfile)]
  BY ConcatProperties, Zenon
<1> HIDE DEF o
<1>3. PICK h \in Nat : pos = 2 * h BY DEF Even
<1>4. ASSUME NEW m \in Nat, 2 * m + 2 <= q, 2 * m + 2 <= Len(o)
      PROVE  o[2 * m + 1] = infile[2 * m + 2] /\ o[2 * m + 2] = infile[2 * m + 1]
  <2> DEFINE i == 2 * m + 1
             j == 2 * m + 2
  <2>1. i \in 1 .. pos + Len(s) /\ j \in 1 .. pos + Len(s) BY <1>1, <1>4
  <2>2. /\ o[i] = IF i <= pos THEN outfile[i] ELSE s[i - pos]
        /\ o[j] = IF j <= pos THEN outfile[j] ELSE s[j - pos]
    BY <1>2, <2>1
  <2>3. CASE m < h
    <3>1. i <= pos /\ j <= pos /\ 2 * m + 2 <= pos /\ 2 * m + 2 <= Len(outfile) BY <1>3, <2>3
    <3>2. outfile[i] = infile[j] /\ outfile[j] = infile[i] BY <3>1 DEF PairsSwapped
    <3> HIDE DEF i, j
    <3>3. o[i] = infile[j] /\ o[j] = infile[i] BY <2>2, <3>1, <3>2
    <3> QED BY <3>3 DEF i, j
  <2>4. CASE m = h
    <3>1. i = pos + 1 /\ j = pos + 2 /\ q >= pos + 2 BY <1>3, <1>4, <2>4
    <3>2. ~ (i <= pos) /\ ~ (j <= pos) /\ i - pos = 1 /\ j - pos = 2 BY <3>1
    <3>3. s[1] = infile[pos + 2] /\ s[2] = infile[pos + 1] BY <3>1
    <3> HIDE DEF i, j
    <3>4. o[i] = infile[j] /\ o[j] = infile[i] BY <2>2, <3>1, <3>2, <3>3
    <3> QED BY <3>4 DEF i, j
  <2>5. CASE m > h
    <3>1. Len(s) = 4 /\ m = h + 1
      <4>1. \A x \in {2, 4} : 2 * m + 2 <= 2 * h + x => x = 4 /\ m = h + 1
        BY ONLY m \in Nat, h \in Nat, <2>5, SMT
      <4>2. 2 * m + 2 <= 2 * h + Len(s) BY <1>1, <1>3, <1>4, Zenon
      <4> QED BY <4>1, <4>2, Zenon
    <3>2. i = pos + 3 /\ j = pos + 4 /\ q >= pos + 4 BY <1>3, <1>4, <3>1
    <3>3. ~ (i <= pos) /\ ~ (j <= pos) /\ i - pos = 3 /\ j - pos = 4 BY <3>2
    <3>4. s[3] = infile[pos + 4] /\ s[4] = infile[pos + 3] BY <3>1, <3>2
    <3> HIDE DEF i, j
    <3>5. o[i] = infile[j] /\ o[j] = infile[i] BY <2>2, <3>2, <3>3, <3>4
    <3> QED BY <3>5 DEF i, j
  <2> QED BY <2>3, <2>4, <2>5
<1>5. PairsSwapped(q, o) BY <1>4 DEF PairsSwapped
<1> QED BY <1>1, <1>5 DEF o

\* The bytes of the two buffers.
LEMMA SwapBytes ==
    ASSUME Basic
    PROVE  /\ pos + 2 <= Len(infile) =>
                SwapUpper[1] = infile[pos + 2] /\ SwapUpper[2] = infile[pos + 1]
           /\ SwapUpper[3] = buf[3] /\ SwapUpper[4] = buf[4]
           /\ SwapBoth[1] = SwapUpper[1] /\ SwapBoth[2] = SwapUpper[2]
           /\ pos + 4 <= Len(infile) =>
                SwapBoth[3] = infile[pos + 4] /\ SwapBoth[4] = infile[pos + 3]
<1> DEFINE r == Read(buf, 0, 0, 2)
           u == SwapUpper
           w == Read(u, 2, 2, 2)
           v == SwapBoth
<1>1. infile \in Seq(Byte) /\ pos \in Nat /\ Len(infile) \in Nat /\ buf \in [1 .. 4 -> Byte]
  BY TurnTypes
<1>2. 0 \in Nat /\ 2 \in Nat OBVIOUS
<1>3. r \in [1 .. 4 -> Byte] /\ \A i \in 1 .. 4 : r[i] = Loaded(buf, 0, 0, 2, i)
  BY ONLY <1>1, <1>2, ReadIs
<1>4. u = reverse_bytes(r, 0) BY DEF SwapUpper
<1>5. v = reverse_bytes(w, 2) BY DEF SwapBoth
<1> HIDE DEF r, u, v
<1>6. /\ u \in [1 .. 4 -> Byte]
      /\ \A i \in 1 .. 4 :
            u[i] = IF i = 0 + 1 THEN r[0 + 2] ELSE IF i = 0 + 2 THEN r[0 + 1] ELSE r[i]
  <2>1. 0 \in {0, 2} OBVIOUS
  <2> QED BY ONLY <1>3, <1>4, <2>1, ReverseIs
<1>7. u[1] = r[2] /\ u[2] = r[1] /\ u[3] = r[3] /\ u[4] = r[4] BY <1>6
<1>8. w \in [1 .. 4 -> Byte] /\ \A i \in 1 .. 4 : w[i] = Loaded(u, 2, 2, 2, i)
  BY ONLY <1>1, <1>2, <1>6, ReadIs
<1> HIDE DEF w
<1>9. \A i \in 1 .. 4 : v[i] = IF i = 2 + 1 THEN w[2 + 2] ELSE IF i = 2 + 2 THEN w[2 + 1] ELSE w[i]
  <2>1. 2 \in {0, 2} OBVIOUS
  <2> QED BY ONLY <1>5, <1>8, <2>1, ReverseIs
<1>10. v[1] = w[1] /\ v[2] = w[2] /\ v[3] = w[4] /\ v[4] = w[3] BY <1>9
<1>11. r[3] = buf[3] /\ r[4] = buf[4]
  <2>1. Loaded(buf, 0, 0, 2, 3) = buf[3] /\ Loaded(buf, 0, 0, 2, 4) = buf[4] BY DEF Loaded
  <2> QED BY <1>3, <2>1
<1>12. w[1] = u[1] /\ w[2] = u[2]
  <2>1. Loaded(u, 2, 2, 2, 1) = u[1] /\ Loaded(u, 2, 2, 2, 2) = u[2] BY DEF Loaded
  <2> QED BY <1>8, <2>1
<1>13. pos + 2 <= Len(infile) => r[1] = infile[pos + 1] /\ r[2] = infile[pos + 2]
  <2> SUFFICES ASSUME pos + 2 <= Len(infile)
               PROVE  r[1] = infile[pos + 1] /\ r[2] = infile[pos + 2]
    OBVIOUS
  <2>1. /\ pos + 0 + (1 - 0) = pos + 1 /\ pos + 0 + (2 - 0) = pos + 2
        /\ pos + 0 + (1 - 0) <= Len(infile) /\ pos + 0 + (2 - 0) <= Len(infile)
        /\ 0 < 1 /\ 1 <= 0 + 2 /\ 0 < 2 /\ 2 <= 0 + 2
    BY <1>1
  <2>2. Loaded(buf, 0, 0, 2, 1) = infile[pos + 1] /\ Loaded(buf, 0, 0, 2, 2) = infile[pos + 2]
    BY ONLY <2>1 DEF Loaded
  <2> QED BY <1>3, <2>2
<1>14. pos + 4 <= Len(infile) => w[3] = infile[pos + 3] /\ w[4] = infile[pos + 4]
  <2> SUFFICES ASSUME pos + 4 <= Len(infile)
               PROVE  w[3] = infile[pos + 3] /\ w[4] = infile[pos + 4]
    OBVIOUS
  <2>1. /\ pos + 2 + (3 - 2) = pos + 3 /\ pos + 2 + (4 - 2) = pos + 4
        /\ pos + 2 + (3 - 2) <= Len(infile) /\ pos + 2 + (4 - 2) <= Len(infile)
        /\ 2 < 3 /\ 3 <= 2 + 2 /\ 2 < 4 /\ 4 <= 2 + 2
    BY <1>1
  <2>2. Loaded(u, 2, 2, 2, 3) = infile[pos + 3] /\ Loaded(u, 2, 2, 2, 4) = infile[pos + 4]
    BY ONLY <2>1 DEF Loaded
  <2> QED BY <1>8, <2>2
<1>15. /\ pos + 2 <= Len(infile) => u[1] = infile[pos + 2] /\ u[2] = infile[pos + 1]
       /\ u[3] = buf[3] /\ u[4] = buf[4] /\ v[1] = u[1] /\ v[2] = u[2]
       /\ pos + 4 <= Len(infile) => v[3] = infile[pos + 4] /\ v[4] = infile[pos + 3]
  BY <1>7, <1>10, <1>11, <1>12, <1>13, <1>14
<1> QED BY <1>15 DEF u, v

\* One pair more, or two.
LEMMA EvenSteps == \A n \in Nat : Even(n) => Even(n + 2) /\ Even(n + 4)
<1> SUFFICES ASSUME NEW n \in Nat, Even(n) PROVE Even(n + 2) /\ Even(n + 4) OBVIOUS
<1>1. PICK h \in Nat : n = 2 * h BY DEF Even
<1>2. h + 1 \in Nat /\ h + 2 \in Nat /\ n + 2 = 2 * (h + 1) /\ n + 4 = 2 * (h + 2) BY <1>1
<1> QED BY <1>2 DEF Even

-----------------------------------------------------------------------------
\* What a turn of Swap does to the counts.
LEMMA PairwiseSwap ==
    ASSUME Basic, Pairwise, SwapTurn
    PROVE  Pairwise'
<1> DEFINE L == Len(infile)
<1>1. /\ pc = "loop" /\ pos < L /\ ByPair
      /\ encoding_from' = encoding_from /\ encoding_to' = encoding_to
      /\ infile' = infile /\ stack' = stack
  BY DEF SwapTurn, Turn
<1>2. /\ infile \in Seq(Byte) /\ outfile \in Seq(Byte) /\ pos \in Nat /\ L \in Nat
  BY TurnTypes
<1>3. PairsSwapped(pos, outfile) /\ Len(outfile) = pos /\ Even(pos) BY <1>1 DEF Pairwise
<1>4. /\ SwapBoth \in Seq(Byte) /\ Len(SwapBoth) = 4
      /\ SubSeq(SwapUpper, 1, 2) \in Seq(Byte) /\ Len(SubSeq(SwapUpper, 1, 2)) = 2
      /\ SubSeq(SwapUpper, 1, 2)[1] = SwapUpper[1]
      /\ SubSeq(SwapUpper, 1, 2)[2] = SwapUpper[2]
  BY SwapTypes, Zenon
<1>5. /\ pos + 2 <= L =>
            SwapUpper[1] = infile[pos + 2] /\ SwapUpper[2] = infile[pos + 1]
      /\ SwapUpper[3] = buf[3] /\ SwapUpper[4] = buf[4]
      /\ SwapBoth[1] = SwapUpper[1] /\ SwapBoth[2] = SwapUpper[2]
      /\ pos + 4 <= L => SwapBoth[3] = infile[pos + 4] /\ SwapBoth[4] = infile[pos + 3]
  BY SwapBytes, Zenon
<1>6. /\ After(2) = IF pos + 2 <= L THEN pos + 2 ELSE L
      /\ After(4) = IF pos + 4 <= L THEN pos + 4 ELSE L
  <2>1. 2 \in Nat /\ 4 \in Nat OBVIOUS
  <2> QED BY <1>2, <2>1, AfterIs, Zenon
<1> HIDE DEF L
<1>7. /\ After(2) \in Nat /\ After(4) \in Nat
      /\ After(2) >= pos + 2 => pos + 2 <= L /\ After(2) = pos + 2
      /\ After(4) >= pos + 2 => pos + 2 <= L
      /\ After(4) >= pos + 4 => pos + 4 <= L /\ After(4) = pos + 4
      /\ After(2) < L => After(2) = pos + 2
      /\ After(4) < L => After(4) = pos + 4
      /\ After(2) = pos + 2 \/ (After(2) = L /\ pos + 2 = After(2) + 1)
  BY ONLY <1>1, <1>2, <1>6, SMT
<1>8. Even(pos + 2) /\ Even(pos + 4) BY <1>2, <1>3, EvenSteps
<1>9. ByPair' BY <1>1 DEF ByPair
<1>10. Paired' <=> Paired BY <1>1 DEF Paired, is_lower_surrogate_pair, Short
<1>11. Len(infile') = L BY <1>1 DEF L
<1>12. \A q, o : PairsSwapped(q, o) => PairsSwapped(q, o)' BY <1>1 DEF PairsSwapped
<1>13. ASSUME ~is_lower_surrogate_pair(SwapUpper), pc' = "loop", buf' = SwapUpper,
              pos' = After(2), outfile' = outfile \o SubSeq(SwapUpper, 1, 2)
       PROVE  Pairwise'
  <2> DEFINE s == SubSeq(SwapUpper, 1, 2)
             o == outfile \o s
             q == After(2)
  <2>1. /\ q \in Nat /\ s \in Seq(Byte) /\ Len(s) \in {2, 4} /\ Len(s) = 2
        /\ q >= pos + 2 => s[1] = infile[pos + 2] /\ s[2] = infile[pos + 1]
        /\ Len(s) = 4 /\ q >= pos + 4 => s[3] = infile[pos + 4] /\ s[4] = infile[pos + 3]
    BY <1>4, <1>5, <1>7
  <2> HIDE DEF s, q
  <2>2. PairsSwapped(q, o) /\ Len(o) = pos + 2
    <3>1. PairsSwapped(q, outfile \o s) /\ Len(outfile \o s) = pos + Len(s)
      BY <1>2, <1>3, <2>1, PairsAppended, Zenon
    <3> QED BY <2>1, <3>1, Zenon
  <2> HIDE DEF o
  <2>3. pos' = q /\ outfile' = o BY <1>13, Zenon DEF q, o, s
  <2>4. PairsSwapped(pos, outfile)'
    <3>1. PairsSwapped(pos', outfile') BY <2>2, <2>3, Zenon
    <3> QED BY <1>1, <3>1 DEF PairsSwapped
  <2>5. q < L => Len(o) = q /\ Even(q)
    <3>1. q < L => q = pos + 2 BY <1>7, Zenon DEF q
    <3> QED BY <1>8, <2>2, <3>1, Zenon
  <2>6. q = pos + 2 \/ (q = L /\ pos + 2 = q + 1) BY <1>7, Zenon DEF q
  <2>7. \/ Len(o) = q /\ Even(q)
        \/ Len(o) = q + 1 /\ Even(q + 1) /\ q = L
    BY <1>8, <2>2, <2>6, Zenon
  <2>8. ~Paired' => buf'[3] = stack'[3] /\ buf'[4] = stack'[4]
    <3>1. ~Paired => buf[3] = stack[3] /\ buf[4] = stack[4] BY <1>1, Zenon DEF Pairwise
    <3> QED BY <1>1, <1>5, <1>10, <1>13, <3>1
  <2>9. Even(Len(o)) BY <1>8, <2>2, Zenon
  <2> QED BY <1>11, <1>13, <2>3, <2>4, <2>5, <2>7, <2>8, <2>9, Zenon DEF Pairwise
<1>14. ASSUME is_lower_surrogate_pair(SwapUpper) PROVE Paired
  <2>1. CASE ~Paired
    <3>1. buf[3] = stack[3] /\ buf[4] = stack[4] BY <1>1, <2>1 DEF Pairwise
    <3>2. SwapUpper[3] = stack[3] /\ SwapUpper[4] = stack[4] BY <1>5, <3>1, Zenon
    <3>3. Short(SwapUpper, 2) = Short(stack, 2)
      <4>1. Short(SwapUpper, 2) = SwapUpper[3] + 256 * SwapUpper[4] BY SMT DEF Short
      <4>2. Short(stack, 2) = stack[3] + 256 * stack[4] BY SMT DEF Short
      <4> QED BY ONLY <3>2, <4>1, <4>2, SMT
    <3>4. is_lower_surrogate_pair(stack) BY ONLY <1>14, <3>3, SMT DEF is_lower_surrogate_pair
    <3> QED BY <1>1, <3>4 DEF Paired, ByPair
  <2> QED BY <2>1
<1>15. ASSUME is_lower_surrogate_pair(SwapUpper), pc' = "loop", buf' = SwapBoth,
              pos' = After(4), outfile' = outfile \o SwapBoth
       PROVE  Pairwise'
  <2> DEFINE s == SwapBoth
             o == outfile \o s
             q == After(4)
  <2>1. /\ q \in Nat /\ s \in Seq(Byte) /\ Len(s) \in {2, 4} /\ Len(s) = 4
        /\ q >= pos + 2 => s[1] = infile[pos + 2] /\ s[2] = infile[pos + 1]
        /\ Len(s) = 4 /\ q >= pos + 4 => s[3] = infile[pos + 4] /\ s[4] = infile[pos + 3]
    BY <1>4, <1>5, <1>7
  <2> HIDE DEF s, q
  <2>2. PairsSwapped(q, o) /\ Len(o) = pos + 4
    <3>1. PairsSwapped(q, outfile \o s) /\ Len(outfile \o s) = pos + Len(s)
      BY <1>2, <1>3, <2>1, PairsAppended, Zenon
    <3> QED BY <2>1, <3>1, Zenon
  <2> HIDE DEF o
  <2>3. pos' = q /\ outfile' = o BY <1>15, Zenon DEF q, o, s
  <2>4. PairsSwapped(pos, outfile)'
    <3>1. PairsSwapped(pos', outfile') BY <2>2, <2>3, Zenon
    <3> QED BY <1>1, <3>1 DEF PairsSwapped
  <2>5. q < L => Len(o) = q /\ Even(q)
    <3>1. q < L => q = pos + 4 BY <1>7, Zenon DEF q
    <3> QED BY <1>8, <2>2, <3>1, Zenon
  <2>6. Paired' BY <1>10, <1>14, <1>15
  <2>7. Even(Len(o)) BY <1>8, <2>2, Zenon
  <2> QED BY <1>11, <1>15, <2>3, <2>4, <2>5, <2>6, <2>7, Zenon DEF Pairwise
<1>16. ASSUME is_lower_surrogate_pair(SwapUpper), pc' = "done",
              pos' = After(4), outfile' = outfile
       PROVE  Pairwise'
  <2>1. PairsSwapped(pos, outfile)'
    <3>1. \A m \in Nat : 2 * m + 2 <= Len(outfile) => 2 * m + 2 <= pos BY <1>3
    <3>2. PairsSwapped(pos', outfile') BY <1>3, <1>16, <3>1, Zenon DEF PairsSwapped
    <3> QED BY <1>1, <3>2 DEF PairsSwapped
  <2>2. Paired' BY <1>10, <1>14, <1>16
  <2>3. pc' # "loop" BY <1>16
  <2>4. Even(Len(outfile')) BY <1>3, <1>16, Zenon
  <2> QED BY <2>1, <2>2, <2>3, <2>4, Zenon DEF Pairwise
<1> QED BY <1>13, <1>15, <1>16, Zenon DEF SwapTurn

\* The start of a conversion between the two orders.
LEMMA PairwiseBegin ==
    ASSUME Basic, Begin
    PROVE  Pairwise'
<1>1. /\ pc = "begin" /\ pc' = "loop" /\ encoding_from # encoding_to
      /\ outfile' = U!Mark(encoding_to) /\ pos' = Len(U!Mark(encoding_from))
      /\ buf' = IF encoding_from = "UTF8" THEN buf ELSE Read(buf, 0, 0, 2)
      /\ encoding_from' = encoding_from /\ encoding_to' = encoding_to
      /\ infile' = infile /\ stack' = stack
  BY DEF Begin
<1>2. SUFFICES ASSUME ByPair'
               PROVE  /\ PairsSwapped(pos, outfile)'
                      /\ Len(outfile') = pos' /\ Even(pos')
                      /\ buf'[3] = stack'[3] /\ buf'[4] = stack'[4]
  BY Zenon DEF Pairwise
<1>3. /\ encoding_from \in U!Formats /\ encoding_to \in U!Formats /\ buf = stack
      /\ encoding_from # "UTF8" /\ encoding_to # "UTF8"
      /\ Scalars(points) /\ infile \in Seq(Byte) /\ Len(infile) >= 3 /\ pos = 0
      /\ Begins(U!Text(encoding_from, points), infile)
  BY <1>1, <1>2 DEF Basic, ByPair
<1> DEFINE m == U!Mark(encoding_from)
           n == U!Mark(encoding_to)
<1>4. m \in Seq(Byte) /\ n \in Seq(Byte) /\ Len(m) = 2 /\ Len(n) = 2 BY <1>3, MarkIs
<1>5. m[1] = n[2] /\ m[2] = n[1]
  <2>1. \/ encoding_from = "UTF16LE" /\ encoding_to = "UTF16BE"
        \/ encoding_from = "UTF16BE" /\ encoding_to = "UTF16LE"
    BY <1>1, <1>3 DEF U!Formats
  <2>2. U!Mark("UTF16LE") = <<\hFF, \hFE>> /\ U!Mark("UTF16BE") = <<\hFE, \hFF>>
    BY SMT DEF U!Mark
  <2> QED BY <2>1, <2>2
<1>6. infile[1] = m[1] /\ infile[2] = m[2]
  <2> DEFINE t == U!Text(encoding_from, points)
  <2>1. points \in Seq(Nat) /\ Len(points) \in Nat BY <1>3 DEF Scalars
  <2>2. First(encoding_from, points, Len(points)) = t /\ First(encoding_from, points, 0) = m
    BY <2>1, FirstSteps, Zenon
  <2>3. 0 \in 0 .. Len(points) /\ Len(points) \in 0 .. Len(points) BY <2>1
  <2> HIDE DEF t, m
  <2>4. Begins(t, m) BY <1>3, <2>2, <2>3, FirstBegins
  <2>5. t[1] = m[1] /\ t[2] = m[2] BY <1>4, <2>4 DEF Begins
  <2>6. t[1] = infile[1] /\ t[2] = infile[2] BY <1>3 DEF Begins, t
  <2> QED BY <2>5, <2>6
<1> HIDE DEF m, n
<1>7. outfile' = n /\ pos' = 2 BY <1>1, <1>4 DEF m, n
<1>8. PairsSwapped(pos, outfile)'
  <2>1. \A i \in Nat : 2 * i + 2 <= 2 => 2 * i + 1 = 1 /\ 2 * i + 2 = 2 OBVIOUS
  <2>2. PairsSwapped(2, n) BY <1>5, <1>6, <2>1, Zenon DEF PairsSwapped
  <2> QED BY <1>1, <1>7, <2>2 DEF PairsSwapped
<1>9. Len(outfile') = pos' BY <1>4, <1>7
<1>10. Even(pos')
  <2>1. 1 \in Nat /\ 2 = 2 * 1 OBVIOUS
  <2> QED BY <1>7, <2>1 DEF Even
<1>11. buf'[3] = stack'[3] /\ buf'[4] = stack'[4]
  <2>1. buf' = Read(buf, 0, 0, 2) BY <1>1, <1>3
  <2>2. pos \in Nat /\ buf \in [1 .. 4 -> Byte] BY TurnTypes
  <2>3. 0 \in Nat /\ 2 \in Nat OBVIOUS
  <2>4. ASSUME NEW i \in 1 .. 4
        PROVE  Read(buf, 0, 0, 2)[i] = Loaded(buf, 0, 0, 2, i)
    <3>1. infile \in Seq(Byte) BY <1>3
    <3> QED BY ONLY <2>2, <2>3, <3>1, i \in 1 .. 4, ReadAt, SMT
  <2>5. Loaded(buf, 0, 0, 2, 3) = buf[3] /\ Loaded(buf, 0, 0, 2, 4) = buf[4] BY DEF Loaded
  <2>6. Read(buf, 0, 0, 2)[3] = buf[3] /\ Read(buf, 0, 0, 2)[4] = buf[4] BY <2>4, <2>5
  <2> QED BY <1>1, <1>3, <2>1, <2>6
<1> QED BY <1>8, <1>9, <1>10, <1>11

-----------------------------------------------------------------------------
(***************************************************************************)
(* The other steps, and the invariant.                                     *)
(***************************************************************************)
\* The start of a conversion from or to utf-8: the mark has been read and written.
LEMMA GlyphwiseBegin ==
    ASSUME Basic, Begin
    PROVE  Glyphwise'
<1>1. /\ pc = "begin" /\ outfile' = U!Mark(encoding_to) /\ pos' = Len(U!Mark(encoding_from))
      /\ encoding_from' = encoding_from /\ encoding_to' = encoding_to
      /\ infile' = infile /\ points' = points
  BY DEF Begin
<1>2. points \in Seq(Nat) /\ Len(points) \in Nat BY DEF Basic, Scalars
<1>3. First(encoding_from, points, 0) = U!Mark(encoding_from)
      /\ First(encoding_to, points, 0) = U!Mark(encoding_to)
  BY <1>2, FirstSteps, Zenon
<1>4. ToRead(0)' = ToRead(0) /\ ToWrite(0)' = ToWrite(0) BY <1>1 DEF ToRead, ToWrite, First
<1>5. pos' = Len(ToRead(0)') /\ outfile' = ToWrite(0)'
  BY <1>1, <1>3, <1>4, Zenon DEF ToRead, ToWrite
<1>6. Position(0, pos, outfile)' BY <1>5, Zenon DEF Position
<1>7. 0 \in 0 .. Len(points') BY <1>1, <1>2
<1> QED BY <1>6, <1>7, Zenon DEF Glyphwise

\* The end of the input, and a step that changes nothing.
LEMMA StaysConverted ==
    ASSUME UInv, Same, UNCHANGED <<outfile, pos, buf, stack>>,
           pc' = pc \/ (pc = "loop" /\ pc' = "done")
    PROVE  Glyphwise' /\ Pairwise' /\ Copied'
<1>1. Glyphwise'
  <2> SUFFICES ASSUME pc' \in {"loop", "done"}, ByCharacter', Convertible'
               PROVE  \E n \in 0 .. Len(points') : Position(n, pos, outfile)'
    BY DEF Glyphwise
  <2>1. pc \in {"loop", "done"} /\ ByCharacter /\ Convertible
    BY DEF ByCharacter, Convertible, Same
  <2>2. PICK n \in 0 .. Len(points) : Position(n, pos, outfile)
    BY <2>1 DEF UInv, Glyphwise
  <2>3. /\ ToRead(n)' = ToRead(n) /\ ToWrite(n)' = ToWrite(n)
        /\ ToRead(n + 1)' = ToRead(n + 1)
    BY DEF ToRead, ToWrite, First, Same
  <2>4. Len(infile') = Len(infile) /\ Len(points') = Len(points) BY DEF Same
  <2>5. pos' = pos /\ outfile' = outfile OBVIOUS
  <2>6. Position(n, pos, outfile)' BY <2>2, <2>3, <2>4, <2>5, Zenon DEF Position
  <2> QED BY <2>2, <2>4, <2>6
<1>2. Pairwise'
  BY DEF UInv, Pairwise, Same, ByPair, PairsSwapped, Paired, is_lower_surrogate_pair, Short
<1>3. Copied' BY DEF UInv, Copied, Same, Basic
<1> QED BY <1>1, <1>2, <1>3

\* A session begins in the invariant.
LEMMA UInvInit == Init => UInv
<1> SUFFICES ASSUME Init PROVE UInv OBVIOUS
<1>1. pc = "args" BY DEF Init
<1>2. Glyphwise /\ Pairwise /\ Copied BY <1>1 DEF Glyphwise, Pairwise, Copied
<1> QED BY <1>2, BasicInit DEF UInv

\* Before the conversion there is nothing to say.
LEMMA NotYet ==
    ASSUME pc' \notin {"loop", "done"}
    PROVE  Glyphwise' /\ Pairwise' /\ Copied'
BY DEF Glyphwise, Pairwise, Copied

\* Every step keeps the invariant.
LEMMA UInvNext == UInv /\ [Next]_vars => UInv'
<1> SUFFICES ASSUME UInv, [Next]_vars PROVE UInv' OBVIOUS
<1>1. Basic /\ Glyphwise /\ Pairwise /\ Copied BY DEF UInv
<1>2. CASE Encoding \/ Positional \/ Usage \/ EndOfArgs
  <2>1. Basic' BY <1>1, <1>2, BasicReading
  <2>2. pc' \in {"args", "exit", "check"}
    BY <1>2 DEF Encoding, Positional, Usage, EndOfArgs, Parsing
  <2>3. pc' \notin {"loop", "done"} BY <2>2
  <2> QED BY <2>1, <2>3, NotYet, Zenon DEF UInv
<1>3. CASE check_bom
  <2>1. Basic' BY <1>1, <1>3, BasicCheck
  <2>2. pc' = "open" \/ pc' = "exit" BY <1>3, Zenon DEF check_bom
  <2>3. pc' \notin {"loop", "done"} BY <2>2
  <2> QED BY <2>1, <2>3, NotYet, Zenon DEF UInv
<1>4. CASE OpenFiles
  <2>1. Basic' BY <1>1, <1>4, BasicOpen
  <2>2. pc' \in {"crash", "begin", "same", "exit"} BY <1>4 DEF OpenFiles
  <2>3. pc' \notin {"loop", "done"} BY <2>2
  <2> QED BY <2>1, <2>3, NotYet, Zenon DEF UInv
<1>5. CASE transcribe
  <2>1. Basic' BY <1>1, <1>5, BasicTranscribe
  <2>2. /\ encoding_from' = encoding_to' /\ outfile' = infile' BY <1>5 DEF transcribe
  <2>3. Glyphwise' /\ Pairwise' /\ Copied'
    BY <2>2 DEF Glyphwise, Pairwise, Copied, ByCharacter, ByPair
  <2> QED BY <2>1, <2>3 DEF UInv
<1>6. CASE Begin
  <2>1. Basic' BY <1>1, <1>6, BasicBegin
  <2>2. pc' = "loop" BY <1>6 DEF Begin
  <2>3. Copied' BY <2>2 DEF Copied
  <2> QED BY <1>1, <1>6, <2>1, <2>3, GlyphwiseBegin, PairwiseBegin DEF UInv
<1>7. CASE FromUtf8
  <2>1. Basic' BY <1>1, <1>7, BasicFromUtf8
  <2>2. /\ pc' = "loop" /\ encoding_from' = "UTF8" BY <1>7 DEF FromUtf8, Turn
  <2>3. Copied' /\ Pairwise' BY <2>2 DEF Copied, Pairwise, ByPair
  <2> QED BY <1>1, <1>7, <2>1, <2>3, GlyphFromUtf8 DEF UInv
<1>8. CASE ToUtf8
  <2>1. Basic' BY <1>1, <1>8, BasicToUtf8
  <2>2. /\ pc' = "loop" /\ encoding_to' = "UTF8" BY <1>8 DEF ToUtf8, Turn
  <2>3. Copied' /\ Pairwise' BY <2>2 DEF Copied, Pairwise, ByPair
  <2> QED BY <1>1, <1>8, <2>1, <2>3, GlyphToUtf8 DEF UInv
<1>9. CASE Swap
  <2>0. SwapTurn BY <1>9, SwapIs
  <2>1. Basic' BY <1>1, <2>0, BasicSwap
  <2>2. Pairwise' BY <1>1, <2>0, PairwiseSwap
  <2>3. ByPair' BY <2>0 DEF SwapTurn, ByPair
  <2>4. Glyphwise' /\ Copied' BY <2>3 DEF Glyphwise, Copied, ByPair, ByCharacter
  <2> QED BY <2>1, <2>2, <2>4 DEF UInv
<1>10. CASE EndOfFile
  <2>1. Basic' BY <1>1, <1>10, BasicEnd
  <2>2. /\ Same /\ UNCHANGED <<outfile, pos, buf, stack>> /\ pc = "loop" /\ pc' = "done"
    BY <1>10 DEF EndOfFile, Same
  <2> QED BY <2>1, <2>2, StaysConverted DEF UInv
<1>11. CASE UNCHANGED vars
  <2>1. Basic' BY <1>1, <1>11 DEF Basic, vars, line
  <2>2. /\ Same /\ UNCHANGED <<outfile, pos, buf, stack>> /\ pc' = pc
    BY <1>11 DEF vars, Same
  <2> QED BY <2>1, <2>2, StaysConverted DEF UInv
<1> QED BY <1>2, <1>3, <1>4, <1>5, <1>6, <1>7, <1>8, <1>9, <1>10, <1>11 DEF Next
-----------------------------------------------------------------------------
(***************************************************************************)
(* What it says of the output.                                             *)
(***************************************************************************)
\* Sequences that agree as far as both go.
LEMMA CommonPart ==
    ASSUME NEW o \in Seq(Byte), NEW w \in Seq(Byte),
           \A i \in 1 .. Len(w) : i <= Len(o) => o[i] = w[i]
    PROVE  /\ LET least == Min({Len(w), Len(o)})
              IN  SubSeq(o, 1, least) = SubSeq(w, 1, least)
           /\ Len(w) <= Len(o) => SubSeq(o, 1, Len(w)) = w
           /\ Len(w) = Len(o) => o = w
<1> DEFINE least == Min({Len(w), Len(o)})
<1>1. Len(w) \in Nat /\ Len(o) \in Nat OBVIOUS
<1>2. least = IF Len(w) <= Len(o) THEN Len(w) ELSE Len(o)
  <2>1. Len(w) \in Int /\ Len(o) \in Int BY <1>1
  <2> QED BY <2>1, MinIs, Zenon
<1> HIDE DEF least
<1>3. least \in Nat /\ least <= Len(w) /\ least <= Len(o) BY <1>1, <1>2
<1>4. ASSUME NEW k \in Nat, k <= Len(w), k <= Len(o)
      PROVE  SubSeq(o, 1, k) = SubSeq(w, 1, k)
  <2>1. \A i \in 1 .. k : o[i] \in Byte /\ w[i] \in Byte BY <1>1, <1>4
  <2> DEFINE a == SubSeq(o, 1, k)
             b == SubSeq(w, 1, k)
  <2>2. /\ a \in Seq(Byte) /\ Len(a) = IF 1 <= k THEN k - 1 + 1 ELSE 0
        /\ \A i \in 1 .. k - 1 + 1 : a[i] = o[1 + i - 1]
    <3>1. 1 \in Int /\ k \in Int OBVIOUS
    <3> QED BY <2>1, <3>1, SubSeqProperties
  <2>3. /\ b \in Seq(Byte) /\ Len(b) = IF 1 <= k THEN k - 1 + 1 ELSE 0
        /\ \A i \in 1 .. k - 1 + 1 : b[i] = w[1 + i - 1]
    <3>1. 1 \in Int /\ k \in Int OBVIOUS
    <3> QED BY <2>1, <3>1, SubSeqProperties
  <2> HIDE DEF a, b
  <2>4. Len(a) = k /\ Len(b) = k BY <2>2, <2>3
  <2>5. \A i \in 1 .. k : a[i] = o[i] /\ b[i] = w[i] BY <2>2, <2>3
  <2>6. \A i \in 1 .. k : o[i] = w[i] BY <1>1, <1>4
  <2>7. \A i \in 1 .. Len(a) : a[i] = b[i] BY <2>4, <2>5, <2>6
  <2>8. a = b BY <2>2, <2>3, <2>4, <2>7, SeqEqual
  <2> QED BY <2>8 DEF a, b
<1>5. SubSeq(o, 1, least) = SubSeq(w, 1, least) BY <1>3, <1>4
<1>6. Len(w) <= Len(o) => SubSeq(o, 1, Len(w)) = w
  <2>1. Len(w) <= Len(o) => SubSeq(o, 1, Len(w)) = SubSeq(w, 1, Len(w)) BY <1>1, <1>4
  <2>2. SubSeq(w, 1, Len(w)) = w BY SubSeqFull, Zenon
  <2> QED BY <2>1, <2>2, Zenon
<1>7. Len(w) = Len(o) => o = w
  <2> SUFFICES ASSUME Len(w) = Len(o) PROVE o = w OBVIOUS
  <2>1. \A i \in 1 .. Len(o) : o[i] = w[i] BY <1>1
  <2> QED BY <2>1, SeqEqual
<1> QED BY <1>5, <1>6, <1>7 DEF least

\* The claim about the first n characters.
Written(n) ==
    IF Paired
    THEN LET least == Min({Len(ToWrite(n)), Len(outfile)})
         IN  SubSeq(outfile, 1, least) = SubSeq(ToWrite(n), 1, least)
    ELSE /\ SubSeq(outfile, 1, Len(ToWrite(n))) = ToWrite(n)
         /\ Len(ToRead(n)) = (IF encoding_from = encoding_to THEN Len(infile) ELSE pos)
               => outfile = ToWrite(n)

\* A copy holds the characters that its input holds.
LEMMA CopyWritten ==
    ASSUME UInv, pc \in {"loop", "done"}, encoding_from = encoding_to,
           NEW n \in 0 .. Len(points), Len(ToRead(n)) <= Len(infile)
    PROVE  Written(n)
<1>1. /\ outfile = infile /\ infile \in Seq(Byte) /\ encoding_from \in U!Formats
      /\ Scalars(points) /\ Begins(U!Text(encoding_from, points), infile)
  BY DEF UInv, Basic, Copied
<1>2. points \in Seq(Nat) /\ Len(points) \in Nat BY <1>1 DEF Scalars
<1> DEFINE t == U!Text(encoding_from, points)
           w == ToRead(n)
<1>3. w \in Seq(Byte) BY <1>1, FirstType, Zenon DEF ToRead
<1>4. Begins(t, w)
  <2>1. Len(points) \in n .. Len(points) BY <1>2
  <2>2. First(encoding_from, points, Len(points)) = t BY <1>2, FirstSteps, Zenon
  <2> HIDE DEF t
  <2> QED BY <1>1, <2>1, <2>2, FirstBegins, Zenon DEF ToRead
<1>5. Begins(t, infile) /\ Len(w) <= Len(infile) BY <1>1
<1>6. w = ToWrite(n) BY Zenon DEF ToRead, ToWrite
<1> HIDE DEF t, w
<1>7. \A i \in 1 .. Len(w) : i <= Len(infile) => infile[i] = w[i]
  BY <1>1, <1>3, <1>4, <1>5 DEF Begins
<1>8. /\ LET least == Min({Len(w), Len(infile)})
         IN  SubSeq(infile, 1, least) = SubSeq(w, 1, least)
      /\ Len(w) <= Len(infile) => SubSeq(infile, 1, Len(w)) = w
      /\ Len(w) = Len(infile) => infile = w
  BY <1>1, <1>3, <1>7, CommonPart, Zenon
<1> QED BY <1>1, <1>5, <1>6, <1>8, Zenon DEF Written, w

\* A conversion from or to utf-8 has written the characters that it has read.
LEMMA CharactersWritten ==
    ASSUME UInv, pc \in {"loop", "done"}, ByCharacter, Convertible,
           NEW n \in 0 .. Len(points), Len(ToRead(n)) <= pos
    PROVE  Written(n)
<1>1. /\ infile \in Seq(Byte) /\ outfile \in Seq(Byte) /\ pos \in Nat
      /\ encoding_from \in U!Formats /\ encoding_to \in U!Formats /\ Scalars(points)
  BY DEF UInv, Basic
<1>2. PICK k \in 0 .. Len(points) : Position(k, pos, outfile) BY DEF UInv, Glyphwise
<1>3. Len(points) \in Nat /\ n \in Nat /\ k \in Nat BY <1>1 DEF Scalars
<1>4. /\ Len(ToRead(n)) <= Len(ToRead(k)) => n <= k
      /\ Len(ToRead(n)) = Len(ToRead(k)) => n = k
      /\ Len(ToRead(n)) \in Nat
  BY <1>1, FirstOrder, Zenon DEF ToRead
<1>5. n <= k /\ Begins(outfile, ToWrite(k)) /\ (Len(ToRead(n)) = pos => outfile = ToWrite(n))
  <2>1. CASE pos = Len(ToRead(k)) /\ outfile = ToWrite(k)
    <3>1. Begins(outfile, ToWrite(k)) BY <1>1, <2>1 DEF Begins
    <3> QED BY <1>4, <2>1, <3>1
  <2>2. CASE /\ k < Len(points) /\ pos = Len(infile)
             /\ Len(ToRead(k)) < pos /\ pos < Len(ToRead(k + 1))
             /\ Begins(outfile, ToWrite(k))
    <3>1. k + 1 \in 0 .. Len(points) BY <1>3, <2>2
    <3>2. Len(ToRead(n)) < Len(ToRead(k + 1)) => n < k + 1
      BY <1>1, <3>1, FirstOrder, Zenon DEF ToRead
    <3>3. Len(ToRead(k + 1)) \in Nat /\ Len(ToRead(k)) \in Nat
      BY <1>1, <3>1, FirstOrder, Zenon DEF ToRead
    <3>4. n < k + 1 BY <1>1, <1>4, <2>2, <3>2, <3>3
    <3>5. n <= k BY <1>3, <3>4
    <3>6. Len(ToRead(n)) # pos
      <4>1. /\ Begins(First(encoding_from, points, k), First(encoding_from, points, n))
        <5>1. k \in n .. Len(points) BY <1>3, <3>5
        <5> QED BY <1>1, <5>1, FirstBegins, Zenon
      <4>2. Len(ToRead(n)) <= Len(ToRead(k)) BY <4>1 DEF Begins, ToRead
      <4> QED BY <1>1, <1>4, <2>2, <3>3, <4>2
    <3> QED BY <2>2, <3>5, <3>6
  <2> QED BY <1>2, <2>1, <2>2, Zenon DEF Position
<1> DEFINE w == ToWrite(n)
           x == ToWrite(k)
<1>6. w \in Seq(Byte) /\ x \in Seq(Byte) BY <1>1, FirstType, Zenon DEF ToWrite
<1>7. Begins(x, w)
  <2>1. k \in n .. Len(points) BY <1>3, <1>5
  <2> QED BY <1>1, <2>1, FirstBegins, Zenon DEF ToWrite
<1>8. Begins(outfile, x) /\ (Len(ToRead(n)) = pos => outfile = w) BY <1>5
<1> HIDE DEF w, x
<1>9. /\ Len(w) <= Len(outfile)
      /\ \A i \in 1 .. Len(w) : i <= Len(outfile) => outfile[i] = w[i]
  BY <1>1, <1>6, <1>7, <1>8 DEF Begins
<1>10. SubSeq(outfile, 1, Len(w)) = w BY <1>1, <1>6, <1>9, CommonPart, Zenon
<1>11. ~Paired /\ encoding_from # encoding_to BY DEF Paired, ByCharacter
<1> QED BY <1>8, <1>10, <1>11, Zenon DEF Written, w

\* So has one between the two orders of UTF-16.
LEMMA PairsWritten ==
    ASSUME UInv, pc \in {"loop", "done"}, ByPair,
           NEW n \in 0 .. Len(points), Len(ToRead(n)) <= pos
    PROVE  Written(n)
<1>1. /\ infile \in Seq(Byte) /\ outfile \in Seq(Byte) /\ pos \in Nat /\ pos <= Len(infile)
      /\ encoding_from \in U!Formats /\ encoding_to \in U!Formats /\ Scalars(points)
      /\ Begins(U!Text(encoding_from, points), infile)
  BY DEF UInv, Basic
<1>2. Len(points) \in Nat /\ points \in Seq(Nat) BY <1>1 DEF Scalars
<1> DEFINE r == ToRead(n)
           w == ToWrite(n)
           t == U!Text(encoding_from, points)
<1>3. r \in Seq(Byte) /\ w \in Seq(Byte) BY <1>1, FirstType, Zenon DEF ToRead, ToWrite
<1>4. Swapped(w, r)
  <2>1. \/ encoding_from = "UTF16LE" /\ encoding_to = "UTF16BE"
        \/ encoding_from = "UTF16BE" /\ encoding_to = "UTF16LE"
    BY <1>1 DEF U!Formats, ByPair
  <2>2. Swapped(First("UTF16LE", points, n), First("UTF16BE", points, n))
    BY <1>1, FirstSwapped, Zenon
  <2>3. Swapped(First("UTF16BE", points, n), First("UTF16LE", points, n))
    BY <2>2, SwappedSymmetric, Zenon
  <2> QED BY <2>1, <2>2, <2>3, Zenon DEF ToRead, ToWrite
<1>5. Begins(t, r)
  <2>1. Len(points) \in n .. Len(points) BY <1>2
  <2>2. First(encoding_from, points, Len(points)) = t BY <1>2, FirstSteps, Zenon
  <2> HIDE DEF t
  <2> QED BY <1>1, <2>1, <2>2, FirstBegins, Zenon DEF ToRead
<1>6. Begins(t, infile) /\ Len(r) <= pos BY <1>1
<1>7. /\ PairsSwapped(pos, outfile) /\ Even(Len(outfile))
      /\ ~Paired => \/ Len(outfile) = pos /\ Even(pos)
                    \/ Len(outfile) = pos + 1 /\ Even(pos + 1) /\ pos = Len(infile)
  BY Zenon DEF UInv, Pairwise
<1> HIDE DEF r, w, t
<1>8. PICK a \in Nat : Len(w) = 2 * a BY <1>4, Zenon DEF Swapped, Even
<1>9. PICK b \in Nat : Len(outfile) = 2 * b BY <1>7, Zenon DEF Even
<1>10. Len(r) = 2 * a BY <1>4, <1>8, Zenon DEF Swapped
<1>11. ASSUME NEW i \in 1 .. Len(w), i <= Len(outfile) PROVE outfile[i] = w[i]
  <2>1. PICK m \in Nat : 2 * m + 2 <= 2 * a /\ 2 * m + 2 <= 2 * b
                         /\ (i = 2 * m + 1 \/ i = 2 * m + 2)
    <3> DEFINE m == (i - 1) \div 2
    <3>1. i \in Nat /\ 1 <= i /\ i <= 2 * a /\ i <= 2 * b BY <1>8, <1>9, <1>11
    <3>2. m \in Nat /\ (i = 2 * m + 1 \/ i = 2 * m + 2) BY ONLY <3>1, SMT
    <3> HIDE DEF m
    <3>3. 2 * m + 2 <= 2 * a /\ 2 * m + 2 <= 2 * b BY ONLY <1>8, <1>9, <3>1, <3>2, SMT
    <3> QED BY <3>2, <3>3
  <2> DEFINE x == 2 * m + 1
             y == 2 * m + 2
  <2>2. y <= pos /\ y <= Len(outfile) /\ y <= Len(w) /\ y <= Len(r)
    <3>1. y <= 2 * a /\ y <= 2 * b BY <2>1
    <3>2. y \in Nat OBVIOUS
    <3> HIDE DEF y
    <3> QED BY <1>1, <1>6, <1>8, <1>9, <1>10, <3>1, <3>2
  <2>3. outfile[x] = infile[y] /\ outfile[y] = infile[x] BY <1>7, <2>2 DEF PairsSwapped
  <2>4. w[x] = r[y] /\ w[y] = r[x] BY <1>4, <2>2 DEF Swapped
  <2>5. x \in 1 .. Len(r) /\ y \in 1 .. Len(r) /\ x \in 1 .. Len(infile) /\ y \in 1 .. Len(infile)
    BY <1>1, <1>3, <2>2
  <2>6. infile[x] = r[x] /\ infile[y] = r[y]
    <3> HIDE DEF x, y
    <3> QED BY <1>5, <1>6, <2>5, Zenon DEF Begins
  <2>7. i = x \/ i = y BY <2>1
  <2> HIDE DEF x, y
  <2> QED BY <2>3, <2>4, <2>6, <2>7
<1>12. /\ LET least == Min({Len(w), Len(outfile)})
          IN  SubSeq(outfile, 1, least) = SubSeq(w, 1, least)
       /\ Len(w) <= Len(outfile) => SubSeq(outfile, 1, Len(w)) = w
       /\ Len(w) = Len(outfile) => outfile = w
  BY <1>1, <1>3, <1>11, CommonPart, Zenon
<1>13. ASSUME ~Paired PROVE Len(w) <= Len(outfile) /\ (Len(r) = pos => Len(w) = Len(outfile))
  <2>1. CASE Len(outfile) = pos BY <1>6, <1>8, <1>10, <2>1
  <2>2. CASE Len(outfile) = pos + 1 /\ Even(pos + 1)
    <3>1. PICK h \in Nat : pos + 1 = 2 * h BY <2>2 DEF Even
    <3>2. \A x, y \in Nat : 2 * x + 1 # 2 * y OBVIOUS
    <3>3. 2 * a + 1 # 2 * h BY <3>2, <1>8, <1>9
    <3>4. Len(r) # pos BY <1>10, <3>1, <3>3
    <3> QED BY <1>1, <1>6, <1>8, <1>10, <2>2, <3>4
  <2> QED BY <1>7, <1>13, <2>1, <2>2, Zenon
<1>14. encoding_from # encoding_to BY DEF ByPair
<1> QED BY <1>12, <1>13, <1>14, Zenon DEF Written, w, r

\* In the invariant, then, what the output should hold it holds.
LEMMA UInvConverts == UInv => Converts
<1> SUFFICES ASSUME UInv, pc \in {"loop", "done"}, Convertible,
                    NEW n \in 0 .. Len(points),
                    Len(ToRead(n)) <= IF encoding_from = encoding_to THEN Len(infile) ELSE pos
             PROVE  Written(n)
  BY Zenon DEF Converts, Written, ToRead, ToWrite, First
<1>1. CASE encoding_from = encoding_to BY <1>1, CopyWritten, Zenon
<1>2. CASE ByCharacter BY <1>2, CharactersWritten, Zenon DEF ByCharacter
<1>3. CASE ByPair BY <1>3, PairsWritten, Zenon DEF ByPair
<1> QED BY <1>1, <1>2, <1>3 DEF ByCharacter, ByPair

\* Whatever the input's text, its encoding and the one that is asked for, wherever the
\* input is cut and whatever the stack held, the conversion loops write what the code
\* promises, as far as the input has been read.
THEOREM ConversionsCorrect == Spec => []Converts
<1>1. Spec => []UInv BY UInvInit, UInvNext, PTL DEF Spec
<1> QED BY <1>1, UInvConverts, PTL
=============================================================================
