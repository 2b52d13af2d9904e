---------------------------- MODULE CipherProofs ----------------------------
(***************************************************************************)
(* Theorems about module Cipher, for every Morse table, command line and   *)
(* text.                                                                   *)
(***************************************************************************)
EXTENDS Cipher, SequenceTheorems, FiniteSetTheorems, WellFoundedInduction,
        NaturalsInduction, TLAPS

(***************************************************************************)
(* Cells.                                                                  *)
(***************************************************************************)
\* Two sequences of one.
LEMMA OneAndOne ==
    ASSUME NEW x \in Int, NEW y \in Int
    PROVE  /\ Len(<<x>> \o <<y>>) = 2
           /\ (<<x>> \o <<y>>)[1] = x /\ (<<x>> \o <<y>>)[2] = y
<1> <<x>> \in Seq(Int) /\ <<y>> \in Seq(Int) OBVIOUS
<1> QED BY ConcatProperties

\* A digit below 16 is one character, none that is white, and is read as what it was.
LEMMA OneDigit ==
    ASSUME NEW n \in 0 .. 15
    PROVE  /\ Digits(n) = <<n + (IF n < 10 THEN 48 ELSE 55)>>
           /\ Value(Digits(n)[1]) = n
           /\ Digits(n)[1] \notin White
<1>1. Hex(n) = <<n>>
  <2>1. n < 16 /\ n % 16 = n BY SMT
  <2> QED BY <2>1, SMT DEF Hex
<1>2. Digits(n) = <<n + (IF n < 10 THEN 48 ELSE 55)>> BY <1>1, SMT DEF Digits
<1> QED BY <1>2, SMT DEF Value, White, Tab, Newline, Blank

\* For every number of columns that validargs accepts, every cell of the alphabet is a row
\* and a column of one digit each, which are read as that cell again.
THEOREM CellsRoundTrip ==
    ASSUME col \in 9 .. 15, NEW n \in 0 .. 93
    PROVE  /\ Cell(n) = Digits(n \div col) \o Digits(n % col)
           /\ Len(Cell(n)) = 2
           /\ Cell(n)[1] \notin White /\ Cell(n)[2] \notin White
           /\ Value(Cell(n)[1]) * col + Value(Cell(n)[2]) = n
<1> DEFINE q == n \div col
           m == n - q * col
<1>1. q \in 0 .. 15 /\ m \in 0 .. 15 /\ q * col + m = n /\ m = n % col
  <2> HIDE DEF q, m
  <2> DEFINE k == col
  <2>1. k \in 9 .. 15 OBVIOUS
  <2> HIDE DEF k
  <2>2. n \div k \in 0 .. 15 /\ n - (n \div k) * k = n % k /\ n % k \in 0 .. 15
    <3>1. CASE k = 9 BY <3>1, SMT
    <3>2. CASE k = 10 BY <3>2, SMT
    <3>3. CASE k = 11 BY <3>3, SMT
    <3>4. CASE k = 12 BY <3>4, SMT
    <3>5. CASE k = 13 BY <3>5, SMT
    <3>6. CASE k = 14 BY <3>6, SMT
    <3>7. CASE k = 15 BY <3>7, SMT
    <3> QED BY <2>1, <3>1, <3>2, <3>3, <3>4, <3>5, <3>6, <3>7
  <2>3. \A a \in Int, j \in Int : a * j \in Int /\ a * j + (n - a * j) = n BY SMT
  <2>4. n \div col \in 0 .. 15 /\ n - (n \div col) * col = n % col /\ n % col \in 0 .. 15
    BY <2>2 DEF k
  <2> QED BY <2>1, <2>3, <2>4 DEF k, q, m
<1>2. Cell(n) = Digits(q) \o Digits(m) BY DEF Cell
<1> HIDE DEF q, m
<1>3. Digits(q) = <<Digits(q)[1]>> /\ Digits(m) = <<Digits(m)[1]>>
  BY <1>1, OneDigit
<1>4. Digits(q)[1] \in Int /\ Digits(m)[1] \in Int BY <1>1, OneDigit, SMT
<1>5. Len(Cell(n)) = 2 /\ Cell(n)[1] = Digits(q)[1] /\ Cell(n)[2] = Digits(m)[1]
  <2> DEFINE x == Digits(q)[1]
             y == Digits(m)[1]
  <2>1. Cell(n) = <<x>> \o <<y>> BY <1>2, <1>3
  <2>2. x \in Int /\ y \in Int BY <1>4
  <2> HIDE DEF x, y
  <2>3. Len(Cell(n)) = 2 /\ Cell(n)[1] = x /\ Cell(n)[2] = y BY <2>1, <2>2, OneAndOne
  <2> QED BY <2>3 DEF x, y
<1>6. /\ Value(Digits(q)[1]) = q /\ Digits(q)[1] \notin White
      /\ Value(Digits(m)[1]) = m /\ Digits(m)[1] \notin White
  BY <1>1, OneDigit
<1> QED BY <1>1, <1>2, <1>5, <1>6 DEF q
-----------------------------------------------------------------------------
(***************************************************************************)
(* The buffer.                                                             *)
(***************************************************************************)
\* Slots that are less than eight apart differ.
LEMMA SlotsDiffer ==
    ASSUME NEW r \in 0 .. 7, NEW j \in 0 .. 2, NEW k \in 0 .. 2, j < k
    PROVE  (r + j) % 8 # (r + k) % 8
BY SMT

\* The letters of the symbols up to place 3a, and those of the three places after it.
LEMMA Places ==
    ASSUME NEW a \in Nat, NEW n \in Nat, n >= 1
    PROVE  /\ n <= 3 * a => (n + 2) \div 3 \in 1 .. a
           /\ n > 3 * a /\ n <= 3 * a + 3 =>
                /\ (n + 2) \div 3 = a + 1
                /\ (n - 1) % 3 = n - 1 - 3 * a /\ n - 1 - 3 * a \in 0 .. 2
<1>1. n <= 3 * a => (n + 2) \div 3 \in 1 .. a BY SMT
<1>2. ASSUME n > 3 * a, n <= 3 * a + 3
      PROVE  (n + 2) \div 3 = a + 1 /\ (n - 1) % 3 = n - 1 - 3 * a /\ n - 1 - 3 * a \in 0 .. 2
  BY <1>2, SMT
<1> QED BY <1>1, <1>2

\* Where a place of a line with k symbols in the buffer is, and the one after it.
LEMMA Offsets ==
    ASSUME NEW a \in Nat, NEW z \in Nat, NEW r \in 0 .. 7, NEW k \in 0 .. 2, NEW n \in Nat,
           z = 3 * a + k, n >= 1, n <= z + 1
    PROVE  /\ n = z + 1 => ~(n <= 3 * a) /\ r + n - 1 - 3 * a = r + k
           /\ n # z + 1 => n \in 1 .. z
           /\ n # z + 1 /\ ~(n <= 3 * a) =>
                /\ n - 1 - 3 * a \in 0 .. 2 /\ n - 1 - 3 * a < k
                /\ r + n - 1 - 3 * a = r + (n - 1 - 3 * a)
BY SMT

\* The slot at distance 0 is the slot itself.
LEMMA FirstSlot == ASSUME NEW r \in 0 .. 7 PROVE (r + 0) % 8 = r
BY SMT

\* A symbol that is written is the newest one of the line.
LEMMA SymbolWritten ==
    ASSUME NEW b \in [0 .. 7 -> Int], NEW r \in 0 .. 7, NEW k \in 0 .. 2, NEW x \in Int,
           NEW s \in Seq(Int), NEW l \in Seq(0 .. 25), Exact(s, l, b, r, k)
    PROVE  Exact(Append(s, x), l, [b EXCEPT ![(r + k) % 8] = x], r, k + 1)
<1> DEFINE t == Append(s, x)
           c == [b EXCEPT ![(r + k) % 8] = x]
           Old(n) == Triple(l[(n + 2) \div 3])[((n - 1) % 3) + 1]
<1>1. Len(s) \in Nat /\ Len(l) \in Nat /\ Len(s) = 3 * Len(l) + k BY SMT DEF Exact
<1>2. /\ Len(t) = Len(s) + 1 /\ t[Len(s) + 1] = x
      /\ \A n \in 1 .. Len(s) : t[n] = s[n]
  OBVIOUS
<1>3. (r + k) % 8 \in 0 .. 7 BY SMT
<1>4. c[(r + k) % 8] = x /\ \A m \in 0 .. 7 : m # (r + k) % 8 => c[m] = b[m]
  BY <1>3
<1> HIDE DEF t, c, Old
<1>5. ASSUME NEW n \in 1 .. Len(t)
      PROVE  t[n] = IF n <= 3 * Len(l) THEN Old(n) ELSE c[(r + n - 1 - 3 * Len(l)) % 8]
  <2> n \in Nat /\ n >= 1 /\ n <= Len(s) + 1 BY <1>1, <1>2, SMT
  <2>1. CASE n = Len(s) + 1
    <3> DEFINE a == Len(l)
    <3>3. a \in Nat /\ n = 3 * a + k + 1 BY <1>1, <2>1
    <3> HIDE DEF a
    <3>4. ~(n <= 3 * a) /\ r + n - 1 - 3 * a = r + k BY <3>3, SMT
    <3>1. ~(n <= 3 * Len(l)) /\ r + n - 1 - 3 * Len(l) = r + k BY <3>4 DEF a
    <3>2. t[n] = x BY <1>2, <2>1
    <3> QED BY <1>4, <3>1, <3>2
  <2>2. CASE n # Len(s) + 1
    <3>5. n \in 1 .. Len(s) BY <1>1, <2>2, Offsets
    <3>1. n \in 1 .. Len(s) /\ t[n] = s[n] BY <1>2, <3>5
    <3>2. s[n] = IF n <= 3 * Len(l) THEN Old(n) ELSE b[(r + n - 1 - 3 * Len(l)) % 8]
      BY <3>1 DEF Exact, Old
    <3>3. CASE n <= 3 * Len(l) BY <3>1, <3>2, <3>3
    <3>4. CASE ~(n <= 3 * Len(l))
      <4> DEFINE j == n - 1 - 3 * Len(l)
      <4>1. j \in 0 .. 2 /\ j < k /\ r + n - 1 - 3 * Len(l) = r + j BY <1>1, <2>2, <3>4, Offsets
      <4> HIDE DEF j
      <4>2. (r + j) % 8 \in 0 .. 7 BY <4>1, SMT
      <4>3. (r + j) % 8 # (r + k) % 8 BY <4>1, SlotsDiffer
      <4>4. c[(r + j) % 8] = b[(r + j) % 8] BY <1>4, <4>2, <4>3
      <4> QED BY <3>1, <3>2, <3>4, <4>1, <4>4
    <3> QED BY <3>3, <3>4
  <2> QED BY <2>1, <2>2
<1>6. Len(t) = 3 * Len(l) + (k + 1) BY <1>1, <1>2, SMT
<1> QED BY <1>5, <1>6 DEF Exact, t, c, Old

\* The places of a triple.
LEMMA OfThree ==
    ASSUME NEW x, NEW y, NEW z
    PROVE  <<x, y, z>>[1] = x /\ <<x, y, z>>[2] = y /\ <<x, y, z>>[3] = z
OBVIOUS

\* Three symbols that make a letter are taken from the buffer.
LEMMA LetterTaken ==
    ASSUME NEW b \in [0 .. 7 -> Int], NEW r \in 0 .. 7, NEW i \in 0 .. 25,
           NEW s \in Seq(Int), NEW l \in Seq(0 .. 25), Exact(s, l, b, r, 3),
           Triple(i) = <<b[r], b[(r + 1) % 8], b[(r + 2) % 8]>>
    PROVE  Exact(s, Append(l, i), b, (r + 3) % 8, 0)
<1> DEFINE m == Append(l, i)
           Old(n) == Triple(l[(n + 2) \div 3])[((n - 1) % 3) + 1]
           New(n) == Triple(m[(n + 2) \div 3])[((n - 1) % 3) + 1]
<1>1. Len(s) \in Nat /\ Len(l) \in Nat /\ Len(s) = 3 * Len(l) + 3 BY SMT DEF Exact
<1>2. /\ Len(m) = Len(l) + 1 /\ m[Len(l) + 1] = i
      /\ \A n \in 1 .. Len(l) : m[n] = l[n]
  OBVIOUS
<1>3. Len(s) = 3 * Len(m) + 0 BY <1>1, <1>2, SMT
<1>4. /\ Triple(i)[1] = b[(r + 0) % 8]
      /\ Triple(i)[2] = b[(r + 1) % 8] /\ Triple(i)[3] = b[(r + 2) % 8]
  <2>1. (r + 0) % 8 = r BY FirstSlot, Zenon
  <2> DEFINE x == b[r]
             y == b[(r + 1) % 8]
             z == b[(r + 2) % 8]
  <2>2. Triple(i) = <<x, y, z>> OBVIOUS
  <2> HIDE DEF x, y, z
  <2>4. /\ <<x, y, z>>[1] = x /\ <<x, y, z>>[2] = y /\ <<x, y, z>>[3] = z
    BY OfThree, Zenon
  <2>3. Triple(i)[1] = x /\ Triple(i)[2] = y /\ Triple(i)[3] = z BY <2>2, <2>4
  <2> QED BY <2>1, <2>3 DEF x, y, z
<1> HIDE DEF m
<1>5. ASSUME NEW n \in 1 .. Len(s)
      PROVE  n <= 3 * Len(m) /\ s[n] = New(n)
  <2> n \in Nat /\ n >= 1 /\ n <= 3 * Len(l) + 3 BY <1>1, SMT
  <2>1. n <= 3 * Len(m) BY <1>1, <1>3, SMT
  <2>2. s[n] = IF n <= 3 * Len(l) THEN Old(n) ELSE b[(r + n - 1 - 3 * Len(l)) % 8]
    BY DEF Exact
  <2>3. CASE n <= 3 * Len(l)
    <3>1. (n + 2) \div 3 \in 1 .. Len(l) BY <1>1, <2>3, Places
    <3>2. m[(n + 2) \div 3] = l[(n + 2) \div 3] BY <1>2, <3>1
    <3> QED BY <2>1, <2>2, <2>3, <3>2
  <2>4. CASE ~(n <= 3 * Len(l))
    <3>1. n > 3 * Len(l) BY <1>1, <2>4, SMT
    <3>6. (n + 2) \div 3 = Len(l) + 1 BY <1>1, <3>1, Places
    <3>2. New(n) = Triple(i)[((n - 1) % 3) + 1] BY <1>2, <3>6
    <3> DEFINE j == n - 1 - 3 * Len(l)
    <3>7. r + n - 1 - 3 * Len(l) = r + j BY <1>1, SMT
    <3>3. j \in 0 .. 2 /\ (n - 1) % 3 = j /\ r + n - 1 - 3 * Len(l) = r + j
      BY <1>1, <3>1, <3>7, Places
    <3> HIDE DEF j
    <3>4. s[n] = b[(r + j) % 8] BY <2>2, <2>4, <3>3
    <3>5. Triple(i)[j + 1] = b[(r + j) % 8]
      <4>1. CASE j = 0 BY <1>4, <4>1
      <4>2. CASE j = 1 BY <1>4, <4>2
      <4>3. CASE j = 2 BY <1>4, <4>3
      <4> QED BY <3>3, <4>1, <4>2, <4>3
    <3> QED BY <2>1, <3>2, <3>3, <3>4, <3>5
  <2> QED BY <2>3, <2>4
<1> QED BY <1>3, <1>5 DEF Exact, m
-----------------------------------------------------------------------------
(***************************************************************************)
(* The invariant.                                                          *)
(***************************************************************************)
\* The types of what the buffer and its history are made of.
RingType ==
    /\ todo \in Seq(Int)
    /\ buffer \in [0 .. 7 -> Int]
    /\ write_flag \in 0 .. 7 /\ read_flag \in 0 .. 7
    /\ symbols \in Seq(Int) /\ letters \in Seq(0 .. 25)

RInv == RingType /\ RingExact

\* Symbols are numbers, and so triples are sequences of numbers.
LEMMA Symbols ==
    /\ Dot \in Int /\ Dash \in Int /\ X \in Int /\ Nul \in Int
    /\ \A n : Triple(n) \in Seq(Int)
<1>1. Dot \in Int /\ Dash \in Int /\ X \in Int /\ Nul \in Int BY DEF Dot, Dash, X, Nul
<1>2. ASSUME NEW n PROVE Triple(n) \in Seq(Int)
  <2>1. \A m : Symbol(m) \in Int BY <1>1 DEF Symbol
  <2> DEFINE x == Symbol(n \div 9)
             y == Symbol(n \div 3 % 3)
             z == Symbol(n % 3)
  <2>3. x \in Int /\ y \in Int /\ z \in Int BY <2>1
  <2>4. Triple(n) = <<x, y, z>> BY DEF Triple
  <2> HIDE DEF x, y, z
  <2> QED BY <2>3, <2>4
<1> QED BY <1>1, <1>2

\* A program that starts has an empty buffer.
LEMMA EmptyRing ==
    ASSUME buffer = Empty, buffer_number = 0, write_flag = 0, read_flag = 0,
           symbols = <<>>, letters = <<>>, todo = <<>>
    PROVE  RInv
<1>1. Empty \in [0 .. 7 -> Int] BY Symbols DEF Empty
<1>2. Exact(<<>>, <<>>, buffer, 0, 0) BY DEF Exact
<1>3. 0 = (0 + 0) % 8 BY SMT
<1> QED BY <1>1, <1>2, <1>3 DEF RInv, RingType, RingExact

\* The invariant holds when main starts, whatever the arguments.
LEMMA MainStarts == ASSUME NEW a, NEW in, main(a, in) PROVE RInv'
<1>1. (/\ buffer = Empty /\ buffer_number = 0 /\ write_flag = 0 /\ read_flag = 0
       /\ symbols = <<>> /\ letters = <<>> /\ todo = <<>>)'
  BY DEF main, clean_buffer
<1>2. Empty' = Empty BY DEF Empty
<1> QED BY <1>1, <1>2, EmptyRing, PTL

\* A symbol is written, and a letter printed when there are three.
LEMMA EncodeSymbolKeeps == ASSUME RInv, EncodeSymbol PROVE RInv'
<1> DEFINE x == Head(todo)
<1>1. x \in Int /\ todo' \in Seq(Int)
  <2>1. todo \in Seq(Int) /\ todo # <<>> /\ todo' = Tail(todo)
    BY DEF RInv, RingType, EncodeSymbol
  <2> QED BY <2>1, HeadTailProperties
<1>2. buffer' = [buffer EXCEPT ![write_flag] = x] /\ symbols' = Append(symbols, x)
  BY DEF EncodeSymbol, write_buffer
<1>3. buffer' \in [0 .. 7 -> Int] /\ symbols' \in Seq(Int)
  <2>1. /\ buffer \in [0 .. 7 -> Int] /\ write_flag \in 0 .. 7
        /\ symbols \in Seq(Int)
    BY DEF RInv, RingType
  <2> HIDE DEF x
  <2>2. [buffer EXCEPT ![write_flag] = x] \in [0 .. 7 -> Int] BY <1>1, <2>1
  <2>3. Append(symbols, x) \in Seq(Int) BY <1>1, <2>1
  <2> QED BY <1>2, <2>2, <2>3
<1>4. write_flag' = (write_flag + 1) % 8 /\ write_flag' \in 0 .. 7
  <2>1. write_flag' = (write_flag + 1) % 8 BY DEF EncodeSymbol, write_buffer
  <2>2. write_flag \in 0 .. 7 BY DEF RInv, RingType
  <2> QED BY <2>1, <2>2, SMT
<1>5. mode' = mode /\ pc = "encode" BY DEF EncodeSymbol, run
<1> HIDE DEF x
<1>6. IsMorse(mode) =>
        /\ buffer_number \in 0 .. 2
        /\ write_flag = (read_flag + buffer_number) % 8
        /\ Exact(symbols', letters, buffer', read_flag, buffer_number + 1)
  <2> SUFFICES ASSUME IsMorse(mode)
               PROVE  /\ buffer_number \in 0 .. 2
                      /\ write_flag = (read_flag + buffer_number) % 8
                      /\ Exact(symbols', letters, buffer', read_flag, buffer_number + 1)
    OBVIOUS
  <2>1. /\ buffer_number \in 0 .. 2
        /\ write_flag = (read_flag + buffer_number) % 8
        /\ Exact(symbols, letters, buffer, read_flag, buffer_number)
    BY <1>5 DEF RInv, RingExact
  <2>2. Exact(Append(symbols, x), letters,
              [buffer EXCEPT ![(read_flag + buffer_number) % 8] = x], read_flag, buffer_number + 1)
    BY <1>1, <2>1, SymbolWritten DEF RInv, RingType
  <2> QED BY <1>2, <2>1, <2>2
<1>7. CASE buffer_number < 2
  <2>1. buffer_number' = buffer_number + 1 /\ UNCHANGED <<pc, read_flag, letters>>
    BY <1>7 DEF EncodeSymbol
  <2>2. RingType' BY <1>1, <1>3, <1>4, <2>1 DEF RInv, RingType
  <2>3. ASSUME IsMorse(mode)
        PROVE  /\ buffer_number' \in 0 .. 2
               /\ write_flag' = (read_flag' + buffer_number') % 8
    <3>1. read_flag \in 0 .. 7 BY DEF RInv, RingType
    <3>2. \A a \in 0 .. 7, b \in 0 .. 1 : (((a + b) % 8) + 1) % 8 = (a + (b + 1)) % 8 BY SMT
    <3>3. buffer_number \in 0 .. 1 BY <1>6, <1>7, <2>3, SMT
    <3>4. buffer_number + 1 \in 0 .. 2 BY <3>3, SMT
    <3> QED BY <1>4, <1>6, <2>1, <2>3, <3>1, <3>2, <3>3, <3>4
  <2>4. RingExact' BY <1>5, <1>6, <2>1, <2>3 DEF RingExact, IsMorse
  <2> QED BY <2>2, <2>4 DEF RInv
<1>8. CASE ~(buffer_number < 2) /\ \E n \in 0 .. 25 : Triple(n) = Slots(buffer')
  <2> DEFINE n == CHOOSE n \in 0 .. 25 : Triple(n) = Slots(buffer')
  <2>1. n \in 0 .. 25 /\ Triple(n) = Slots(buffer') BY <1>8
  <2>2. /\ letters' = Append(letters, n) /\ buffer_number' = buffer_number - 2
        /\ read_flag' = (read_flag + 3) % 8 /\ pc' = pc
    BY <1>8 DEF EncodeSymbol
  <2> HIDE DEF n
  <2>3. read_flag' \in 0 .. 7 /\ read_flag \in 0 .. 7
    <3>1. read_flag \in 0 .. 7 BY DEF RInv, RingType
    <3> QED BY <2>2, <3>1, SMT
  <2>4. letters' \in Seq(0 .. 25) BY <2>1, <2>2 DEF RInv, RingType
  <2>5. RingType' BY <1>1, <1>3, <1>4, <2>3, <2>4 DEF RInv, RingType
  <2>6. ASSUME IsMorse(mode)
        PROVE  /\ buffer_number' = 0
               /\ write_flag' = (read_flag' + buffer_number') % 8
               /\ Exact(symbols', letters', buffer', read_flag', buffer_number')
    <3>1. buffer_number = 2 /\ buffer_number + 1 = 3 /\ buffer_number' = 0
      BY <1>6, <1>8, <2>2, <2>6, SMT
    <3>2. \A a \in 0 .. 7 : (((a + 2) % 8) + 1) % 8 = (((a + 3) % 8) + 0) % 8 BY SMT
    <3>3. write_flag' = (read_flag' + 0) % 8 BY <1>4, <1>6, <2>2, <2>3, <2>6, <3>1, <3>2
    <3>4. letters \in Seq(0 .. 25) BY DEF RInv, RingType
    <3>5. Exact(symbols', letters, buffer', read_flag, 3) BY <1>6, <2>6, <3>1
    <3>6. Triple(n) = <<buffer'[read_flag], buffer'[(read_flag + 1) % 8], buffer'[(read_flag + 2) % 8]>>
      BY <2>1 DEF Slots
    <3>7. Exact(symbols', Append(letters, n), buffer', (read_flag + 3) % 8, 0)
      BY <1>3, <2>1, <2>3, <3>4, <3>5, <3>6, LetterTaken
    <3> QED BY <2>2, <3>1, <3>3, <3>7
  <2>7. 0 \in 0 .. 2 OBVIOUS
  <2>8. RingExact' BY <1>5, <2>2, <2>6, <2>7 DEF RingExact, IsMorse
  <2> QED BY <2>5, <2>8 DEF RInv
<1>9. CASE ~(buffer_number < 2) /\ ~(\E n \in 0 .. 25 : Triple(n) = Slots(buffer'))
  <2>1. pc' = "failed" /\ UNCHANGED <<read_flag, letters>> BY <1>9 DEF EncodeSymbol
  <2>2. RingType' BY <1>1, <1>3, <1>4, <2>1 DEF RInv, RingType
  <2>3. RingExact' BY <2>1 DEF RingExact
  <2> QED BY <2>2, <2>3 DEF RInv
<1> QED BY <1>7, <1>8, <1>9

\* Every step keeps the invariant.
LEMMA StepKeeps == ASSUME RInv, Next PROVE RInv'
<1>1. ASSUME NEW session \in Sessions, Start(session[1], session[2]) PROVE RInv'
  BY <1>1, MainStarts DEF Start
<1>2. CASE PolybiusEncode
  <2>1. pc' \in {pc, "undefined"} BY <1>2 DEF PolybiusEncode
  <2>2. UNCHANGED <<mode, todo, ring, line>> BY <1>2 DEF PolybiusEncode, PolybiusQuiet, run
  <2> QED BY <2>1, <2>2 DEF RInv, RingType, RingExact, IsMorse, ring, line
<1>3. CASE PolybiusDecode
  <2>1. pc = "decode" /\ pc' \in {pc, "undefined"} BY <1>3 DEF PolybiusDecode, Turn
  <2>2. UNCHANGED <<mode, todo, ring, line>> BY <1>3 DEF PolybiusDecode, PolybiusQuiet, run
  <2> QED BY <2>1, <2>2 DEF RInv, RingType, RingExact, IsMorse, ring, line
<1>4. CASE MorseEncode
  <2>1. pc' \in {pc, "failed"} /\ UNCHANGED <<mode, ring, line>>
    BY <1>4 DEF MorseEncode, run
  <2>2. todo' \in Seq(Int)
    <3> DEFINE temp == Head(input)
               code == IF temp \in DOMAIN morse_table THEN morse_table[temp] ELSE <<>>
               ended == IF pre \notin {Blank, Newline} /\ temp # Tab THEN <<X>> ELSE <<>>
               newline == IF temp = Newline THEN <<Newline>> ELSE <<>>
    <3>1. todo' \in {ended \o newline, <<>>, code \o <<X>>} BY <1>4 DEF MorseEncode
    <3>2. <<X>> \in Seq(Int) /\ <<>> \in Seq(Int) /\ <<Newline>> \in Seq(Int)
      BY DEF X, Newline
    <3>3. code \in Seq(Int)
      <4>1. ASSUME NEW c \in DOMAIN morse_table PROVE morse_table[c] \in Seq(Int)
        <5>1. morse_table[c] \in Seq({Dot, Dash}) BY CipherAssumption
        <5>2. {Dot, Dash} \subseteq Int BY Symbols
        <5> QED BY <5>1, <5>2
      <4> QED BY <3>2, <4>1
    <3>4. ended \in Seq(Int) /\ newline \in Seq(Int) BY <3>2
    <3> HIDE DEF code, ended, newline
    <3>5. ended \o newline \in Seq(Int) /\ code \o <<X>> \in Seq(Int)
      BY <3>2, <3>3, <3>4, ConcatProperties
    <3> QED BY <3>1, <3>2, <3>5
  <2> QED BY <2>1, <2>2 DEF RInv, RingType, RingExact, IsMorse, ring, line
<1>5. CASE EncodeSymbol BY <1>5, EncodeSymbolKeeps
<1>6. CASE EncodeNewline
  <2>1. (/\ buffer = Empty /\ buffer_number = 0 /\ write_flag = 0 /\ read_flag = 0
         /\ symbols = <<>> /\ letters = <<>> /\ todo = <<>>)'
    BY <1>6 DEF EncodeNewline, clean_buffer, Empty
  <2> QED BY <2>1, EmptyRing, PTL
<1>7. CASE MorseDecode
  <2>1. pc = "decode" /\ pc' \in {pc, "undefined"} /\ UNCHANGED line
    BY <1>7 DEF MorseDecode, Turn
  <2>2. /\ todo' \in Seq(Int) /\ buffer' \in [0 .. 7 -> Int]
        /\ write_flag' \in 0 .. 7 /\ read_flag' \in 0 .. 7
    <3>1. CASE Head(input) = Newline
      <4>1. clean_buffer /\ UNCHANGED todo BY <1>7, <3>1 DEF MorseDecode
      <4>2. Empty \in [0 .. 7 -> Int] BY Symbols DEF Empty
      <4> QED BY <4>1, <4>2 DEF RInv, RingType, clean_buffer
    <3>2. CASE Head(input) # Newline
      <4>1. UNCHANGED ring BY <1>7, <3>2 DEF MorseDecode
      <4> DEFINE n == Min({m \in DOMAIN table : table[m] = Head(input)}) - 1
      <4>2. todo' = todo \/ todo' = Triple(n) BY <1>7, <3>2 DEF MorseDecode
      <4> HIDE DEF n
      <4>3. todo' \in Seq(Int) BY <4>2, Symbols DEF RInv, RingType
      <4> QED BY <4>1, <4>3 DEF ring, RInv, RingType
    <3> QED BY <3>1, <3>2
  <2> QED BY <2>1, <2>2 DEF RInv, RingType, RingExact, line
<1>8. CASE DecodeSymbol
  <2>1. pc = "decode" /\ pc' = pc /\ UNCHANGED line BY <1>8 DEF DecodeSymbol
  <2>2. todo' \in Seq(Int) /\ Head(todo) \in Int
    <3>1. todo \in Seq(Int) /\ todo # <<>> /\ todo' = Tail(todo)
      BY <1>8 DEF DecodeSymbol, RInv, RingType
    <3> QED BY <3>1, HeadTailProperties
  <2>3. \/ UNCHANGED ring \/ clean_buffer
        \/ write_buffer(Head(todo)) /\ UNCHANGED read_flag
    BY <1>8 DEF DecodeSymbol
  <2>4. \A n \in 0 .. 7 : (n + 1) % 8 \in 0 .. 7 BY SMT
  <2>5. buffer' \in [0 .. 7 -> Int] /\ write_flag' \in 0 .. 7 /\ read_flag' \in 0 .. 7
    <3>1. buffer \in [0 .. 7 -> Int] /\ write_flag \in 0 .. 7 /\ read_flag \in 0 .. 7
      BY DEF RInv, RingType
    <3>2. CASE UNCHANGED ring BY <3>1, <3>2 DEF ring
    <3>3. CASE clean_buffer
      <4>1. Empty \in [0 .. 7 -> Int] BY Symbols DEF Empty
      <4> QED BY <3>3, <4>1 DEF clean_buffer
    <3>4. CASE write_buffer(Head(todo)) /\ UNCHANGED read_flag
      <4> DEFINE x == Head(todo)
      <4>1. /\ buffer' = [buffer EXCEPT ![write_flag] = x]
            /\ write_flag' = (write_flag + 1) % 8 /\ read_flag' = read_flag
        BY <3>4 DEF write_buffer
      <4>2. x \in Int BY <2>2
      <4> HIDE DEF x
      <4>3. [buffer EXCEPT ![write_flag] = x] \in [0 .. 7 -> Int] BY <3>1, <4>2
      <4> QED BY <2>4, <3>1, <4>1, <4>3
    <3> QED BY <2>3, <3>2, <3>3, <3>4
  <2> QED BY <2>1, <2>2, <2>5 DEF RInv, RingType, RingExact, line
<1>9. CASE EndOfInput
  <2>1. CASE pc = "encode" BY <1>9, <2>1, MainStarts DEF EndOfInput
  <2>2. CASE pc # "encode"
    <3>1. pc' = "done" /\ UNCHANGED <<todo, ring, line>> BY <1>9, <2>2 DEF EndOfInput
    <3> QED BY <3>1 DEF RInv, RingType, RingExact, ring, line
  <2> QED BY <2>1, <2>2
<1> QED BY <1>1, <1>2, <1>3, <1>4, <1>5, <1>6, <1>7, <1>8, <1>9 DEF Next

\* The buffer is exact in every state, for every Morse table with codes of dots and
\* dashes, every command line and every text, however long.
THEOREM RingCorrect == Spec => []RingExact
<1>1. Init => RInv BY EmptyRing DEF Init
<1>2. RInv /\ [Next]_vars => RInv'
  <2>1. CASE Next BY <2>1, StepKeeps
  <2>2. CASE UNCHANGED vars
    BY <2>2 DEF vars, run, ring, line, RInv, RingType, RingExact, IsMorse
  <2> QED BY <2>1, <2>2
<1>3. RInv => RingExact BY DEF RInv
<1> QED BY <1>1, <1>2, <1>3, PTL DEF Spec

\* The least element of a set of natural numbers.
LEMMA LeastIs ==
    ASSUME NEW S, S \subseteq Nat, S # {}
    PROVE  \E n \in S : \A m \in S : n <= m
<1> DEFINE less == {ss \in Nat \X Nat : ss[1] < ss[2]}
<1>1. IsWellFoundedOn(less, Nat)
  BY NatLessThanWellFounded DEF OpToRel
<1>2. \E n \in S : \A m \in S : ~ (<<m, n>> \in less)
  <2> HIDE DEF less
  <2> QED BY <1>1, WFMin
<1>3. \A m, n \in S : ~ (<<m, n>> \in less) => n <= m
  OBVIOUS
<1> QED BY <1>2, <1>3

-----------------------------------------------------------------------------
(***************************************************************************)
(* The options.                                                            *)
(***************************************************************************)
Defaults == [row |-> 10, col |-> 10, key |-> <<>>, ok |-> TRUE]

\* so[n] is what the first n options and their values have set.
IsParsed(options, so, N) ==
    so = [n \in 0 .. N |-> IF n = 0 THEN Defaults
                           ELSE Option(so[n - 1], options[2 * n - 1], options[2 * n])]

\* A function by recursion on the pairs exists.
LEMMA ParsedExists == \A options : \A N \in Nat : \E so : IsParsed(options, so, N)
<1> SUFFICES ASSUME NEW options, NEW N \in Nat PROVE \E so : IsParsed(options, so, N)
  OBVIOUS
<1> DEFINE S == {n \in Nat : ~ \E so : IsParsed(options, so, n)}
<1>1. ASSUME S # {} PROVE FALSE
  <2>1. PICK k \in S : \A m \in S : k <= m
    <3>1. S \subseteq Nat OBVIOUS
    <3> HIDE DEF S
    <3> QED BY <1>1, <3>1, LeastIs
  <2>2. k \in Nat /\ ~ \E so : IsParsed(options, so, k) OBVIOUS
  <2>3. k # 0
    <3> DEFINE so == [n \in 0 .. 0 |-> Defaults]
    <3>1. IsParsed(options, so, 0) BY DEF IsParsed
    <3> QED BY <2>2, <3>1
  <2>4. PICK so : IsParsed(options, so, k - 1)
    <3>1. k - 1 \in Nat /\ k - 1 \notin S BY <2>1, <2>2, <2>3
    <3> QED BY <3>1
  <2> DEFINE last == Option(so[k - 1], options[2 * k - 1], options[2 * k])
             new  == [n \in 0 .. k |-> IF n < k THEN so[n] ELSE last]
  <2>5. ASSUME NEW n \in 0 .. k
        PROVE  new[n] = IF n = 0 THEN Defaults
                        ELSE Option(new[n - 1], options[2 * n - 1], options[2 * n])
    <3>1. n \in Nat /\ n <= k BY <2>2
    <3>2. CASE n < k
      <4>1. n \in 0 .. k - 1 BY <2>2, <3>1, <3>2
      <4>2. so[n] = IF n = 0 THEN Defaults
                    ELSE Option(so[n - 1], options[2 * n - 1], options[2 * n])
        BY <2>4, <4>1 DEF IsParsed
      <4>3. new[n] = so[n] BY <3>2
      <4>4. n # 0 => n - 1 \in 0 .. k /\ n - 1 < k BY <2>2, <3>1, <3>2
      <4>5. n # 0 => new[n - 1] = so[n - 1] BY <4>4
      <4> HIDE DEF new
      <4> QED BY <4>2, <4>3, <4>5
    <3>3. CASE n = k
      <4>1. new[n] = last BY <2>2, <3>3
      <4>2. n - 1 \in 0 .. k /\ n - 1 < k BY <2>2, <2>3, <3>3
      <4>3. new[n - 1] = so[k - 1] BY <3>3, <4>2
      <4> HIDE DEF new
      <4> QED BY <2>3, <3>3, <4>1, <4>3
    <3> QED BY <2>2, <3>1, <3>2, <3>3
  <2>6. IsParsed(options, new, k)
    <3>1. new = [n \in 0 .. k |-> new[n]] OBVIOUS
    <3> HIDE DEF new
    <3> QED BY <2>5, <3>1 DEF IsParsed
  <2> QED BY <2>2, <2>6
<1>2. N \notin S BY <1>1
<1> QED BY <1>2

\* What can be said of the options so far when none was refused.
Accepted(so) ==
    /\ so = [row |-> so.row, col |-> so.col, key |-> so.key, ok |-> so.ok]
    /\ so.row \in 0 .. 15 /\ so.col \in 9 .. 15
    /\ so.key \in Seq(Int) /\ ValidKey(so.key, polybius_alphabet)

\* An option keeps what is known of those before it; one that is refused changes nothing else.
LEMMA OptionAccepted ==
    ASSUME NEW so, Accepted(so), NEW flag, NEW value \in Seq(Int)
    PROVE  Accepted(Option(so, flag, value))
<1> DEFINE new == Option(so, flag, value)
<1>0. /\ so = [row |-> so.row, col |-> so.col, key |-> so.key, ok |-> so.ok]
      /\ so.row \in 0 .. 15 /\ so.col \in 9 .. 15
      /\ so.key \in Seq(Int) /\ ValidKey(so.key, polybius_alphabet)
  BY DEF Accepted
<1> DEFINE r == flag = Flags.r /\ ValidRows(value, so.col)
           c == flag = Flags.c /\ ValidColumns(value)
           k == flag = Flags.k /\ ValidKey(value, polybius_alphabet)
<1>1. CASE r
  <2>1. flag # Flags.c /\ flag # Flags.k BY <1>1 DEF Flags
  <2>2. new = [row |-> Number(value), col |-> so.col, key |-> so.key, ok |-> so.ok]
    BY <1>0, <1>1, <2>1 DEF Option
  <2>3. Number(value) \in 0 .. 15 BY <1>1 DEF ValidRows
  <2> HIDE DEF new
  <2>4. Accepted(new) BY <1>0, <2>2, <2>3 DEF Accepted
  <2> QED BY <2>4 DEF new
<1>2. CASE c
  <2>1. flag # Flags.r /\ flag # Flags.k BY <1>2 DEF Flags
  <2>2. new = [row |-> so.row, col |-> Number(value), key |-> so.key, ok |-> so.ok]
    BY <1>0, <1>2, <2>1 DEF Option
  <2>3. Number(value) \in 9 .. 15 BY <1>2 DEF ValidColumns
  <2> HIDE DEF new
  <2>4. Accepted(new) BY <1>0, <2>2, <2>3 DEF Accepted
  <2> QED BY <2>4 DEF new
<1>3. CASE k
  <2>1. flag # Flags.r /\ flag # Flags.c BY <1>3 DEF Flags
  <2>2. new = [row |-> so.row, col |-> so.col, key |-> value, ok |-> so.ok]
    BY <1>0, <1>3, <2>1 DEF Option
  <2>3. ValidKey(value, polybius_alphabet) BY <1>3
  <2> HIDE DEF new
  <2>4. Accepted(new) BY <1>0, <2>2, <2>3 DEF Accepted
  <2> QED BY <2>4 DEF new
<1>4. CASE ~r /\ ~c /\ ~k
  <2>1. new = [row |-> so.row, col |-> so.col, key |-> so.key, ok |-> FALSE]
    BY <1>0, <1>4 DEF Option
  <2> HIDE DEF new
  <2>4. Accepted(new) BY <1>0, <2>1 DEF Accepted
  <2> QED BY <2>4 DEF new
<1> QED BY <1>1, <1>2, <1>3, <1>4

\* The options that validargs has not refused make a row and a column of one digit each
\* and a key without repetitions.
LEMMA ParsedAccepted ==
    ASSUME NEW options \in Seq(Seq(Int)), NEW N \in Nat, 2 * N <= Len(options),
           NEW so, IsParsed(options, so, N)
    PROVE  Accepted(so[N])
<1> DEFINE S == {n \in 0 .. N : ~ Accepted(so[n])}
<1>1. ASSUME S # {} PROVE FALSE
  <2>1. PICK k \in S : \A m \in S : k <= m
    <3>1. S \subseteq Nat OBVIOUS
    <3> HIDE DEF S
    <3> QED BY <1>1, <3>1, LeastIs
  <2>2. k \in 0 .. N /\ ~ Accepted(so[k]) OBVIOUS
  <2>3. so[k] = IF k = 0 THEN Defaults
                ELSE Option(so[k - 1], options[2 * k - 1], options[2 * k])
    BY <2>2 DEF IsParsed
  <2>4. CASE k = 0
    <3>1. Accepted(Defaults)
      BY DEF Accepted, Defaults, ValidKey
    <3> QED BY <2>2, <2>3, <2>4, <3>1
  <2>5. CASE k # 0
    <3>1. k - 1 \in 0 .. N /\ k - 1 < k BY <2>2, <2>5
    <3>2. k - 1 \notin S BY <2>1, <2>2, <3>1
    <3>3. Accepted(so[k - 1]) BY <3>1, <3>2
    <3>4. 2 * k \in 1 .. Len(options) BY <2>2, <2>5
    <3>5. options[2 * k] \in Seq(Int) BY <3>4
    <3> QED BY <2>2, <2>3, <2>5, <3>3, <3>5, OptionAccepted
  <2> QED BY <2>4, <2>5
<1>2. N \notin S BY <1>1
<1>3. N \in 0 .. N OBVIOUS
<1> QED BY <1>2, <1>3
\* The same of all options of a command line, and of the function that parses them.
LEMMA ParsedIs ==
    ASSUME NEW options \in Seq(Seq(Int))
    PROVE  Accepted(Parsed(options))
<1> DEFINE N == Len(options) \div 2
<1>1. N \in Nat /\ 2 * N <= Len(options) BY SMT
<1>2. PICK f : IsParsed(options, f, N) BY <1>1, ParsedExists
<1> DEFINE so == CHOOSE so : IsParsed(options, so, N)
<1>3. IsParsed(options, so, N) BY <1>2
<1>4. Parsed(options) = so[N] BY DEF Parsed, IsParsed, Defaults
<1> HIDE DEF so, N
<1> QED BY <1>1, <1>3, <1>4, ParsedAccepted

\* What is known of a mode and a key with which a Polybius cipher runs.
PolybiusRuns(found) ==
    /\ found.mode \in 1 .. 255 /\ found.mode % 16 \in 9 .. 15
    /\ found.key \in Seq(Int) /\ ValidKey(found.key, polybius_alphabet)

\* A Polybius cipher is refused, crashes, or runs with one digit of columns and a valid key.
LEMMA PolybiusModeIs ==
    ASSUME NEW options \in Seq(Seq(Int)), NEW found, found = PolybiusMode(options)
    PROVE  /\ found = [mode |-> found.mode, key |-> found.key]
           /\ found.mode \in {Invalid, Crash} \/ PolybiusRuns(found)
<1> DEFINE so == Parsed(options)
<1>1. Accepted(so) BY ParsedIs
<1> HIDE DEF so
<1> DEFINE bits == IF ~so.ok THEN Invalid
                   ELSE IF Len(options) % 2 = 1
                   THEN IF Last(options) \in {Flags.r, Flags.c, Flags.k} THEN Crash ELSE Invalid
                   ELSE IF so.row * so.col < Len(polybius_alphabet) THEN Invalid
                   ELSE 16 * so.row + so.col
<1>2. found = [mode |-> bits, key |-> so.key] BY DEF PolybiusMode, so
<1>3. bits \in {Invalid, Crash, 16 * so.row + so.col} OBVIOUS
<1> HIDE DEF bits
<1>4. found.mode = bits /\ found.key = so.key /\ found = [mode |-> found.mode, key |-> found.key]
  BY <1>2
<1>5. CASE bits = 16 * so.row + so.col
  <2>1. \A a \in 0 .. 15, b \in 9 .. 15 : 16 * a + b \in 1 .. 255 /\ (16 * a + b) % 16 = b
    BY SMT
  <2>2. so.row \in 0 .. 15 /\ so.col \in 9 .. 15 BY <1>1 DEF Accepted
  <2>3. found.mode \in 1 .. 255 /\ found.mode % 16 \in 9 .. 15
    <3>1. 16 * so.row + so.col \in 1 .. 255 /\ (16 * so.row + so.col) % 16 = so.col
      BY <2>1, <2>2
    <3> QED BY ONLY <1>4, <1>5, <2>2, <3>1
  <2>4. found.key \in Seq(Int) /\ ValidKey(found.key, polybius_alphabet)
    BY <1>1, <1>4 DEF Accepted
  <2> QED BY ONLY <1>4, <2>3, <2>4, Zenon DEF PolybiusRuns
<1> QED BY <1>3, <1>4, <1>5

\* What a command line that encodes makes.
LEMMA EncodeArgs ==
    ASSUME NEW a \in Seq(Seq(Int)), Len(a) >= 2, a[1] = Flags.p, a[2] = Flags.e
    PROVE  validargs(a) = PolybiusMode(SubSeq(a, 3, Len(a)))
<1>1. Flags.p # Flags.h /\ Flags.e # Flags.d BY DEF Flags
<1>2. Len(a) # 1 OBVIOUS
<1> QED BY <1>1, <1>2 DEF validargs

\* The same command line with -d for -e sets one more bit, and nothing else.
LEMMA DecodeArgs ==
    ASSUME NEW a \in Seq(Seq(Int)), Len(a) >= 2, a[1] = Flags.p, a[2] = Flags.e,
           NEW found, found = validargs(a)
    PROVE  validargs([a EXCEPT ![2] = Flags.d]) =
               IF found.mode \notin {Invalid, Crash} THEN [found EXCEPT !.mode = @ + Decode]
               ELSE found
<1> DEFINE b == [a EXCEPT ![2] = Flags.d]
<1>0. Flags.d \in Seq(Int) BY DEF Flags
<1>1. /\ b \in Seq(Seq(Int)) /\ Len(b) = Len(a)
      /\ \A n \in 1 .. Len(a) : b[n] = IF n = 2 THEN Flags.d ELSE a[n]
  BY <1>0, ExceptSeq
<1>2. b[1] = Flags.p /\ b[2] = Flags.d BY <1>1
<1> HIDE DEF b
<1>3. SubSeq(b, 3, Len(b)) = SubSeq(a, 3, Len(a))
  <2> DEFINE s == SubSeq(b, 3, Len(b))
             t == SubSeq(a, 3, Len(a))
  <2>1. Len(a) \in Int /\ 3 \in Int /\ 1 - 3 \in Int OBVIOUS
  <2>2. \A i \in 3 .. Len(a) : a[i] \in Seq(Int) OBVIOUS
  <2>3. \A i \in 3 .. Len(b) : b[i] \in Seq(Int) BY <1>1
  <2>4. /\ t \in Seq(Seq(Int)) /\ Len(t) = IF 3 <= Len(a) THEN Len(a) - 3 + 1 ELSE 0
        /\ \A i \in 1 .. Len(a) - 3 + 1 : t[i] = a[3 + i - 1]
    BY ONLY <2>1, <2>2, SubSeqProperties
  <2>5. /\ s \in Seq(Seq(Int)) /\ Len(s) = IF 3 <= Len(b) THEN Len(b) - 3 + 1 ELSE 0
        /\ \A i \in 1 .. Len(b) - 3 + 1 : s[i] = b[3 + i - 1]
    BY <1>1, <2>1, <2>3, SubSeqProperties
  <2> HIDE DEF s, t
  <2>6. ASSUME NEW i \in 1 .. Len(s) PROVE s[i] = t[i]
    <3>1. i \in 1 .. Len(a) - 3 + 1 /\ 3 + i - 1 \in 1 .. Len(a) /\ 3 + i - 1 # 2
      BY <1>1, <2>5
    <3> QED BY <1>1, <2>4, <2>5, <3>1
  <2>8. Len(s) = Len(t) BY <1>1, <2>4, <2>5
  <2>7. s = t BY <2>4, <2>5, <2>6, <2>8, SeqEqual
  <2> QED BY <2>7 DEF s, t
<1>4. Flags.p # Flags.h BY DEF Flags
<1>5. Len(b) # 1
  <2>1. Len(b) = Len(a) BY <1>1
  <2>2. Len(a) # 1 OBVIOUS
  <2> QED BY ONLY <2>1, <2>2
<1>6. found = PolybiusMode(SubSeq(a, 3, Len(a))) BY EncodeArgs
<1>7. validargs(b) = IF found.mode \notin {Invalid, Crash} THEN [found EXCEPT !.mode = @ + Decode]
                     ELSE found
  BY <1>2, <1>3, <1>4, <1>5, <1>6 DEF validargs
<1> QED BY <1>7 DEF b

-----------------------------------------------------------------------------
(***************************************************************************)
(* The table.                                                              *)
(***************************************************************************)
Distinct(s) == \A i, j \in 1 .. Len(s) : s[i] = s[j] => i = j

\* f[n] is the table after n letters of the alphabet.
IsTable(key, alphabet, f, N) ==
    f = [n \in 0 .. N |-> IF n = 0 THEN key
                          ELSE IF alphabet[n] \in Range(key) THEN f[n - 1]
                          ELSE Append(f[n - 1], alphabet[n])]

\* A function by recursion on the letters exists.
LEMMA TableExists == \A key, alphabet : \A N \in Nat : \E f : IsTable(key, alphabet, f, N)
<1> SUFFICES ASSUME NEW key, NEW alphabet, NEW N \in Nat PROVE \E f : IsTable(key, alphabet, f, N)
  OBVIOUS
<1> DEFINE S == {n \in Nat : ~ \E f : IsTable(key, alphabet, f, n)}
<1>1. ASSUME S # {} PROVE FALSE
  <2>1. PICK k \in S : \A m \in S : k <= m
    <3>1. S \subseteq Nat OBVIOUS
    <3> HIDE DEF S
    <3> QED BY <1>1, <3>1, LeastIs
  <2>2. k \in Nat /\ ~ \E f : IsTable(key, alphabet, f, k) OBVIOUS
  <2>3. k # 0
    <3> DEFINE f == [n \in 0 .. 0 |-> key]
    <3>1. IsTable(key, alphabet, f, 0) BY DEF IsTable
    <3> QED BY <2>2, <3>1
  <2>4. PICK f : IsTable(key, alphabet, f, k - 1)
    <3>1. k - 1 \in Nat /\ k - 1 \notin S BY <2>1, <2>2, <2>3
    <3> QED BY <3>1
  <2> DEFINE last == IF alphabet[k] \in Range(key) THEN f[k - 1] ELSE Append(f[k - 1], alphabet[k])
             new  == [n \in 0 .. k |-> IF n < k THEN f[n] ELSE last]
  <2>5. ASSUME NEW n \in 0 .. k
        PROVE  new[n] = IF n = 0 THEN key
                        ELSE IF alphabet[n] \in Range(key) THEN new[n - 1]
                        ELSE Append(new[n - 1], alphabet[n])
    <3>1. n \in Nat /\ n <= k BY <2>2
    <3>2. CASE n < k
      <4>1. n \in 0 .. k - 1 BY <2>2, <3>1, <3>2
      <4>2. f[n] = IF n = 0 THEN key
                   ELSE IF alphabet[n] \in Range(key) THEN f[n - 1]
                   ELSE Append(f[n - 1], alphabet[n])
        BY <2>4, <4>1 DEF IsTable
      <4>3. new[n] = f[n] BY <3>2
      <4>4. n # 0 => n - 1 \in 0 .. k /\ n - 1 < k BY <2>2, <3>1, <3>2
      <4>5. n # 0 => new[n - 1] = f[n - 1] BY <4>4
      <4> HIDE DEF new
      <4> QED BY <4>2, <4>3, <4>5
    <3>3. CASE n = k
      <4>1. new[n] = last BY <2>2, <3>3
      <4>2. n - 1 \in 0 .. k /\ n - 1 < k BY <2>2, <2>3, <3>3
      <4>3. new[n - 1] = f[k - 1] BY <3>3, <4>2
      <4> HIDE DEF new
      <4> QED BY <2>3, <3>3, <4>1, <4>3
    <3> QED BY <2>2, <3>1, <3>2, <3>3
  <2>6. IsTable(key, alphabet, new, k)
    <3>1. new = [n \in 0 .. k |-> new[n]] OBVIOUS
    <3> HIDE DEF new
    <3> QED BY <2>5, <3>1 DEF IsTable
  <2> QED BY <2>2, <2>6
<1>2. N \notin S BY <1>1
<1> QED BY <1>2

\* The table after n letters: those and the key's, each once.
Filled(t, key, alphabet, n) ==
    /\ t \in Seq(Int) /\ Distinct(t)
    /\ \A i \in 1 .. Len(t) : t[i] \in Range(key) \/ \E m \in 1 .. n : t[i] = alphabet[m]
    /\ \A i \in 1 .. Len(key) : \E j \in 1 .. Len(t) : t[j] = key[i]
    /\ \A m \in 1 .. n : \E j \in 1 .. Len(t) : t[j] = alphabet[m]

\* The table is filled by one letter more.
LEMMA LetterFilled ==
    ASSUME NEW key \in Seq(Int), NEW alphabet \in Seq(Int), Distinct(alphabet),
           NEW n \in 1 .. Len(alphabet), NEW t, Filled(t, key, alphabet, n - 1),
           NEW u, u = IF alphabet[n] \in Range(key) THEN t ELSE Append(t, alphabet[n])
    PROVE  Filled(u, key, alphabet, n)
<1> DEFINE x == alphabet[n]
<1>1. x \in Int BY ElementOfSeq
<1>2. /\ t \in Seq(Int) /\ Distinct(t)
      /\ \A i \in 1 .. Len(t) : t[i] \in Range(key) \/ \E m \in 1 .. n - 1 : t[i] = alphabet[m]
      /\ \A i \in 1 .. Len(key) : \E j \in 1 .. Len(t) : t[j] = key[i]
      /\ \A m \in 1 .. n - 1 : \E j \in 1 .. Len(t) : t[j] = alphabet[m]
  BY DEF Filled
<1>3. /\ \A m \in 1 .. n - 1 : m \in 1 .. n /\ m \in 1 .. Len(alphabet) /\ m # n
      /\ \A m \in 1 .. n : m # n => m \in 1 .. n - 1
      /\ n \in 1 .. n
  OBVIOUS
<1>4. CASE x \in Range(key)
  <2>1. u = t BY <1>4
  <2>5. /\ t \in Seq(Int) /\ Distinct(t)
        /\ \A i \in 1 .. Len(key) : \E j \in 1 .. Len(t) : t[j] = key[i]
    BY <1>2
  <2>2. PICK i \in 1 .. Len(key) : key[i] = x BY <1>4, RangeEquality
  <2>3. \A m \in 1 .. n : \E j \in 1 .. Len(t) : t[j] = alphabet[m] BY <1>2, <1>3, <2>2
  <2>4. \A y \in 1 .. Len(t) : t[y] \in Range(key) \/ \E m \in 1 .. n : t[y] = alphabet[m]
    BY <1>2, <1>3
  <2> QED BY ONLY <2>1, <2>3, <2>4, <2>5 DEF Filled
<1>5. CASE x \notin Range(key)
  <2>1. u = Append(t, x) BY <1>5
  <2> HIDE DEF x
  <2>2. /\ u \in Seq(Int) /\ Len(u) = Len(t) + 1 /\ Len(t) \in Nat
        /\ \A i \in 1 .. Len(t) : u[i] = t[i]
        /\ u[Len(t) + 1] = x
    BY <1>1, <1>2, <2>1, AppendProperties, LenProperties
  <2>3. \A i \in 1 .. Len(u) : i \in 1 .. Len(t) \/ i = Len(t) + 1 BY <2>2
  <2>4. \A i \in 1 .. Len(t) : i \in 1 .. Len(u) BY <2>2
  <2>5. Len(t) + 1 \in 1 .. Len(u) BY <2>2
  <2>6. \A i \in 1 .. Len(t) : t[i] # x
    <3>1. \A m \in 1 .. n - 1 : alphabet[m] # x BY <1>3 DEF Distinct, x
    <3> QED BY <1>2, <1>5, <3>1
  <2>7. Distinct(u) BY <1>2, <2>2, <2>3, <2>6 DEF Distinct
  <2>8. \A i \in 1 .. Len(u) : u[i] \in Range(key) \/ \E m \in 1 .. n : u[i] = alphabet[m]
    BY <1>2, <1>3, <2>2, <2>3 DEF x
  <2>9. \A i \in 1 .. Len(key) : \E j \in 1 .. Len(u) : u[j] = key[i] BY <1>2, <2>2, <2>4
  <2>10. \A m \in 1 .. n : \E j \in 1 .. Len(u) : u[j] = alphabet[m]
    <3> SUFFICES ASSUME NEW m \in 1 .. n PROVE \E j \in 1 .. Len(u) : u[j] = alphabet[m]
      OBVIOUS
    <3>1. CASE m = n BY <2>2, <2>5, <3>1 DEF x
    <3>2. CASE m # n
      <4>1. PICK j \in 1 .. Len(t) : t[j] = alphabet[m] BY <1>2, <1>3, <3>2
      <4> QED BY <2>2, <2>4, <4>1
    <3> QED BY <3>1, <3>2
  <2> QED BY <2>2, <2>7, <2>8, <2>9, <2>10 DEF Filled
<1> QED BY <1>4, <1>5

\* The table after all letters of the alphabet.
LEMMA TableFilled ==
    ASSUME NEW key \in Seq(Int), NEW alphabet \in Seq(Int), Distinct(alphabet),
           ValidKey(key, alphabet),
           NEW N, N = Len(alphabet), NEW f, IsTable(key, alphabet, f, N)
    PROVE  Filled(f[N], key, alphabet, N)
<1>0. N \in Nat BY LenProperties
<1> DEFINE S == {n \in 0 .. N : ~ Filled(f[n], key, alphabet, n)}
<1>1. ASSUME S # {} PROVE FALSE
  <2>1. PICK k \in S : \A m \in S : k <= m
    <3>1. S \subseteq Nat OBVIOUS
    <3> HIDE DEF S
    <3> QED BY <1>1, <3>1, LeastIs
  <2>2. k \in 0 .. N /\ ~ Filled(f[k], key, alphabet, k) OBVIOUS
  <2>3. f[k] = IF k = 0 THEN key
               ELSE IF alphabet[k] \in Range(key) THEN f[k - 1]
               ELSE Append(f[k - 1], alphabet[k])
    BY <2>2 DEF IsTable
  <2>4. CASE k = 0
    <3>1. Len(key) \in Nat /\ DOMAIN key = 1 .. Len(key) BY LenProperties
    <3>2. Distinct(key)
      <4> SUFFICES ASSUME NEW i \in 1 .. Len(key), NEW j \in 1 .. Len(key), i # j
                   PROVE  key[i] # key[j]
        BY DEF Distinct
      <4>1. i < j \/ j < i OBVIOUS
      <4> QED BY <3>1, <4>1 DEF ValidKey
    <3>3. \A i \in 1 .. Len(key) : key[i] \in Range(key) BY <3>1 DEF Range
    <3>4. 1 .. 0 = {} OBVIOUS
    <3>5. Filled(key, key, alphabet, 0) BY <3>2, <3>3, <3>4 DEF Filled
    <3> QED BY <2>2, <2>3, <2>4, <3>5
  <2>5. CASE k # 0
    <3>1. k - 1 \in 0 .. N /\ k - 1 < k /\ k \in 1 .. Len(alphabet) BY <1>0, <2>2, <2>5
    <3>2. k - 1 \notin S BY <2>1, <2>2, <3>1
    <3>3. Filled(f[k - 1], key, alphabet, k - 1) BY <3>1, <3>2
    <3>4. f[k] = IF alphabet[k] \in Range(key) THEN f[k - 1] ELSE Append(f[k - 1], alphabet[k])
      BY <2>3, <2>5
    <3> QED BY <2>2, <3>1, <3>3, <3>4, LetterFilled
  <2> QED BY <2>4, <2>5
<1>2. N \notin S BY <1>1
<1>3. N \in 0 .. N BY <1>0
<1> QED BY <1>2, <1>3

\* With every valid key the table has every letter of the alphabet, each in one cell.
LEMMA KeyTableIs ==
    ASSUME NEW key \in Seq(Int), NEW alphabet \in Seq(Int), Distinct(alphabet),
           ValidKey(key, alphabet), NEW t, t = KeyTable(key, alphabet)
    PROVE  /\ t \in Seq(Int) /\ Len(t) = Len(alphabet) /\ Distinct(t)
           /\ Range(t) = Range(alphabet)
<1>1. ASSUME NEW N, N = Len(alphabet) PROVE Filled(t, key, alphabet, N)
  <2>1. N \in Nat BY <1>1, LenProperties
  <2>2. PICK g : IsTable(key, alphabet, g, N) BY <2>1, TableExists
  <2> DEFINE f == CHOOSE f : IsTable(key, alphabet, f, N)
  <2>3. IsTable(key, alphabet, f, N) BY <2>2
  <2>4. t = f[N] BY <1>1 DEF KeyTable, IsTable
  <2> HIDE DEF f
  <2> QED BY <1>1, <2>3, <2>4, TableFilled
<1>2. Filled(t, key, alphabet, Len(alphabet)) BY <1>1
<1>3. t \in Seq(Int) /\ Distinct(t) BY <1>2 DEF Filled
<1>4. /\ Len(t) \in Nat /\ DOMAIN t = 1 .. Len(t) /\ t \in [1 .. Len(t) -> Int]
      /\ Len(alphabet) \in Nat /\ DOMAIN alphabet = 1 .. Len(alphabet)
      /\ alphabet \in [1 .. Len(alphabet) -> Int]
  BY <1>3, LenProperties
<1>5. Range(t) = Range(alphabet)
  <2>1. ASSUME NEW i \in 1 .. Len(t) PROVE t[i] \in Range(alphabet)
    <3>1. CASE t[i] \in Range(key)
      BY <3>1 DEF ValidKey, Range
    <3>2. CASE \E m \in 1 .. Len(alphabet) : t[i] = alphabet[m]
      BY <1>4, <3>2 DEF Range
    <3> QED BY <1>2, <3>1, <3>2 DEF Filled
  <2>2. ASSUME NEW m \in 1 .. Len(alphabet) PROVE alphabet[m] \in Range(t)
    BY <1>2, <1>4 DEF Filled, Range
  <2> QED BY <1>4, <2>1, <2>2 DEF Range
<1>6. Len(t) = Len(alphabet)
  <2> DEFINE R == Range(alphabet)
  <2>1. t \in Bijection(1 .. Len(t), R)
    <3>1. R = {t[i] : i \in 1 .. Len(t)}
      <4>1. Range(t) = {t[i] : i \in 1 .. Len(t)} BY <1>4 DEF Range
      <4> QED BY <1>5, <4>1
    <3> HIDE DEF R
    <3>2. t \in [1 .. Len(t) -> R] BY <1>4, <3>1
    <3> QED BY <1>3, <1>4, <3>1, <3>2
         DEF Bijection, Injection, Surjection, IsInjective, Distinct
  <2>2. alphabet \in Bijection(1 .. Len(alphabet), R)
    BY <1>4 DEF Bijection, Injection, Surjection, IsInjective, Distinct, Range
  <2> HIDE DEF R
  <2>3. Cardinality(R) = Len(t) BY <1>4, <2>1, FS_CountingElements DEF ExistsBijection
  <2>4. Cardinality(R) = Len(alphabet) BY <1>4, <2>2, FS_CountingElements DEF ExistsBijection
  <2> QED BY <2>3, <2>4
<1> QED BY <1>3, <1>5, <1>6

-----------------------------------------------------------------------------
(***************************************************************************)
(* The round trip of Polybius.                                             *)
(***************************************************************************)
Letters == Range(polybius_alphabet) \cup White

\* Table t has every letter of the alphabet, each in one cell.
FullTable(t) ==
    /\ t \in Seq(Int) /\ Len(t) = 94 /\ Distinct(t)
    /\ Range(t) = Range(polybius_alphabet)

\* In c columns, x and y are the row and the column of a cell of table t with ch.
Pair(t, c, x, y, ch) ==
    /\ x \notin White /\ y \notin White
    /\ Value(x) * c + Value(y) \in 0 .. 93
    /\ t[Value(x) * c + Value(y) + 1] = ch

\* out is the code of the first k characters of s: character n ends at place at[n].
Coded(t, c, s, k, out, at) ==
    /\ at \in [0 .. k -> 0 .. Len(out)] /\ at[0] = 0 /\ at[k] = Len(out)
    /\ \A n \in 1 .. k :
          IF s[n] \in White THEN at[n] = at[n - 1] + 1 /\ out[at[n]] = s[n]
          ELSE at[n] = at[n - 1] + 2 /\ Pair(t, c, out[at[n] - 1], out[at[n]], s[n])

\* The code of a character is appended to that of those before it.
LEMMA CodedAppend ==
    ASSUME NEW t, NEW c, NEW s, NEW k \in Nat, NEW out \in Seq(Int), NEW at,
           Coded(t, c, s, k, out, at), NEW code \in Seq(Int),
           IF s[k + 1] \in White THEN Len(code) = 1 /\ code[1] = s[k + 1]
           ELSE Len(code) = 2 /\ Pair(t, c, code[1], code[2], s[k + 1])
    PROVE  \E next : Coded(t, c, s, k + 1, out \o code, next)
<1> DEFINE all  == out \o code
           next == [n \in 0 .. k + 1 |-> IF n <= k THEN at[n] ELSE Len(all)]
           w    == Len(code)
<1>1. /\ all \in Seq(Int) /\ Len(all) = Len(out) + Len(code)
      /\ \A i \in 1 .. Len(out) + Len(code) :
            all[i] = IF i <= Len(out) THEN out[i] ELSE code[i - Len(out)]
  BY ConcatProperties
<1>2. Len(out) \in Nat /\ w \in {1, 2} OBVIOUS
<1>3. /\ at \in [0 .. k -> 0 .. Len(out)] /\ at[0] = 0 /\ at[k] = Len(out)
      /\ \A n \in 1 .. k :
            IF s[n] \in White THEN at[n] = at[n - 1] + 1 /\ out[at[n]] = s[n]
            ELSE at[n] = at[n - 1] + 2 /\ Pair(t, c, out[at[n] - 1], out[at[n]], s[n])
  BY DEF Coded
<1>4. /\ DOMAIN next = 0 .. k + 1 /\ next[k + 1] = Len(out) + w
      /\ \A n \in 0 .. k : next[n] = at[n]
  BY <1>1
<1>5. next \in [0 .. k + 1 -> 0 .. Len(all)]
  <2>1. \A n \in 0 .. k : at[n] \in 0 .. Len(all) BY <1>1, <1>2, <1>3
  <2>2. Len(all) \in 0 .. Len(all) BY <1>1
  <2> HIDE DEF all
  <2> QED BY <2>1, <2>2
<1>6. \A n \in 1 .. k + 1 : n - 1 \in 0 .. k /\ (n # k + 1 => n \in 1 .. k /\ n \in 0 .. k)
  OBVIOUS
<1> HIDE DEF next, w
<1>7. ASSUME NEW n \in 1 .. k
      PROVE  IF s[n] \in White THEN next[n] = next[n - 1] + 1 /\ all[next[n]] = s[n]
             ELSE next[n] = next[n - 1] + 2 /\ Pair(t, c, all[next[n] - 1], all[next[n]], s[n])
  <2>1. n \in 0 .. k /\ n - 1 \in 0 .. k OBVIOUS
  <2>2. next[n] = at[n] /\ next[n - 1] = at[n - 1] BY <1>4, <2>1
  <2>3. at[n] \in 0 .. Len(out) /\ at[n - 1] \in 0 .. Len(out) BY <1>3, <2>1
  <2>4. at[n] >= 1 => all[at[n]] = out[at[n]] BY <1>1, <1>2, <2>3
  <2>5. \A v \in 0 .. Len(out) : v >= 2 =>
          v - 1 \in 1 .. Len(out) + Len(code) /\ v - 1 <= Len(out)
    BY <1>2
  <2>6. CASE s[n] \in White
    <3>1. at[n] = at[n - 1] + 1 /\ out[at[n]] = s[n] BY <1>3, <2>6
    <3> QED BY <2>2, <2>3, <2>4, <2>6, <3>1
  <2>7. CASE s[n] \notin White
    <3>1. at[n] = at[n - 1] + 2 /\ Pair(t, c, out[at[n] - 1], out[at[n]], s[n]) BY <1>3, <2>7
    <3>6. \A u, v \in 0 .. Len(out) : v = u + 2 => v >= 2 /\ v >= 1 BY <1>2
    <3>2. at[n] >= 2 /\ at[n] >= 1 BY <2>3, <3>1, <3>6
    <3>3. at[n] - 1 \in 1 .. Len(out) + Len(code) /\ at[n] - 1 <= Len(out)
      BY <2>3, <2>5, <3>2
    <3>4. all[at[n] - 1] = out[at[n] - 1] /\ all[at[n]] = out[at[n]]
      BY <1>1, <2>4, <3>2, <3>3
    <3>5. Pair(t, c, all[at[n] - 1], all[at[n]], s[n]) BY <3>1, <3>4
    <3> QED BY <2>2, <2>7, <3>1, <3>5
  <2> QED BY <2>6, <2>7
<1>8. IF s[k + 1] \in White THEN next[k + 1] = next[k] + 1 /\ all[next[k + 1]] = s[k + 1]
      ELSE next[k + 1] = next[k] + 2 /\ Pair(t, c, all[next[k + 1] - 1], all[next[k + 1]], s[k + 1])
  <2>1. next[k] = Len(out) /\ next[k + 1] = Len(out) + w BY <1>3, <1>4
  <2>2. CASE w = 1
    <3>1. Len(out) + 1 \in 1 .. Len(out) + Len(code) /\ ~(Len(out) + 1 <= Len(out))
          /\ Len(out) + 1 - Len(out) = 1
      BY <1>2, <2>2 DEF w
    <3>2. all[Len(out) + 1] = code[1] BY <1>1, <3>1
    <3> QED BY <2>1, <2>2, <3>2 DEF w
  <2>3. CASE w = 2
    <3>1. /\ Len(out) + 1 \in 1 .. Len(out) + Len(code) /\ ~(Len(out) + 1 <= Len(out))
          /\ Len(out) + 2 \in 1 .. Len(out) + Len(code) /\ ~(Len(out) + 2 <= Len(out))
          /\ Len(out) + 1 - Len(out) = 1 /\ Len(out) + 2 - Len(out) = 2
          /\ Len(out) + 2 - 1 = Len(out) + 1
      BY <1>2, <2>3 DEF w
    <3>2. all[Len(out) + 1] = code[1] /\ all[Len(out) + 2] = code[2] BY <1>1, <3>1
    <3> QED BY <2>1, <2>3, <3>1, <3>2 DEF w
  <2> QED BY <1>2, <2>2, <2>3
<1>9. Coded(t, c, s, k + 1, all, next)
  <2>1. next[0] = 0 /\ next[k + 1] = Len(all)
    <3>1. 0 \in 0 .. k OBVIOUS
    <3>2. next[0] = 0 BY <1>3, <1>4, <3>1
    <3> QED BY <1>1, <1>4, <3>2 DEF w
  <2>2. \A n \in 1 .. k + 1 :
          IF s[n] \in White THEN next[n] = next[n - 1] + 1 /\ all[next[n]] = s[n]
          ELSE next[n] = next[n - 1] + 2 /\ Pair(t, c, all[next[n] - 1], all[next[n]], s[n])
    <3> SUFFICES ASSUME NEW n \in 1 .. k + 1
                 PROVE  IF s[n] \in White THEN next[n] = next[n - 1] + 1 /\ all[next[n]] = s[n]
                        ELSE /\ next[n] = next[n - 1] + 2
                             /\ Pair(t, c, all[next[n] - 1], all[next[n]], s[n])
      OBVIOUS
    <3>1. CASE n = k + 1
      <4>1. n - 1 = k BY <3>1
      <4> QED BY <1>8, <3>1, <4>1
    <3>2. CASE n # k + 1 BY <1>6, <1>7, <3>2
    <3> QED BY <3>1, <3>2
  <2> HIDE DEF all
  <2> QED BY <1>5, <2>1, <2>2 DEF Coded
<1> QED BY <1>9 DEF all

\* The cell of a letter is found again.
LEMMA CellIsPair ==
    ASSUME FullTable(table), col \in 9 .. 15, NEW ch \in Range(polybius_alphabet),
           NEW cell, cell = Cell(Min({n \in DOMAIN table : table[n] = ch}) - 1)
    PROVE  /\ ch \in Range(table)
           /\ cell \in Seq(Int) /\ Len(cell) = 2 /\ Pair(table, col, cell[1], cell[2], ch)
<1>1. table \in Seq(Int) /\ DOMAIN table = 1 .. 94 /\ Distinct(table) /\ Len(table) = 94
  BY LenProperties DEF FullTable
<1>2. ch \in Range(table) BY DEF FullTable
<1>3. PICK i \in 1 .. 94 : table[i] = ch BY <1>1, <1>2 DEF Range
<1>4. {n \in DOMAIN table : table[n] = ch} = {i}
  <2>1. \A n \in 1 .. 94 : table[n] = ch => n = i BY <1>1, <1>3 DEF Distinct
  <2> DEFINE D == DOMAIN table
  <2>2. D = 1 .. 94 BY <1>1
  <2> HIDE DEF D
  <2>3. {n \in D : table[n] = ch} = {i} BY ONLY <1>3, <2>1, <2>2, i \in 1 .. 94
  <2> QED BY <2>3 DEF D
<1>5. Min({i}) = i BY <1>3 DEF Min
<1>6. cell = Cell(i - 1) BY <1>4, <1>5
<1>7. i - 1 \in 0 .. 93 /\ i - 1 + 1 = i BY <1>3
<1> DEFINE n == i - 1
<1>8. n \in 0 .. 93 /\ n + 1 = i /\ cell = Cell(n) BY <1>6, <1>7
<1> HIDE DEF n
<1>9. /\ Cell(n) = Digits(n \div col) \o Digits(n % col)
      /\ Len(Cell(n)) = 2
      /\ Cell(n)[1] \notin White /\ Cell(n)[2] \notin White
      /\ Value(Cell(n)[1]) * col + Value(Cell(n)[2]) = n
  BY <1>8, CellsRoundTrip
<1>10. Pair(table, col, cell[1], cell[2], ch)
  <2>1. /\ cell[1] \notin White /\ cell[2] \notin White
        /\ Value(cell[1]) * col + Value(cell[2]) = n
    BY <1>8, <1>9
  <2>2. table[n + 1] = ch BY <1>3, <1>8
  <2> QED BY ONLY <1>8, <2>1, <2>2 DEF Pair
<1>11. cell \in Seq(Int)
  <2> DEFINE c == col
  <2>1. c \in 9 .. 15 OBVIOUS
  <2> HIDE DEF c
  <2>2. n \div c \in 0 .. 15 /\ n % c \in 0 .. 15
    <3>1. CASE c = 9 BY <1>8, <3>1, SMT
    <3>2. CASE c = 10 BY <1>8, <3>2, SMT
    <3>3. CASE c = 11 BY <1>8, <3>3, SMT
    <3>4. CASE c = 12 BY <1>8, <3>4, SMT
    <3>5. CASE c = 13 BY <1>8, <3>5, SMT
    <3>6. CASE c = 14 BY <1>8, <3>6, SMT
    <3>7. CASE c = 15 BY <1>8, <3>7, SMT
    <3> QED BY <2>1, <3>1, <3>2, <3>3, <3>4, <3>5, <3>6, <3>7
  <2>3. \A m \in 0 .. 15 : Digits(m) \in Seq(Int)
    <3> TAKE m \in 0 .. 15
    <3>1. Digits(m) = <<m + (IF m < 10 THEN 48 ELSE 55)>> BY OneDigit
    <3>2. m + (IF m < 10 THEN 48 ELSE 55) \in Int OBVIOUS
    <3> QED BY <3>1, <3>2
  <2>4. Digits(n \div c) \in Seq(Int) /\ Digits(n % c) \in Seq(Int) BY <2>2, <2>3
  <2>5. cell = Digits(n \div c) \o Digits(n % c) BY <1>8, <1>9 DEF c
  <2> QED BY <2>4, <2>5, ConcatProperties
<1> QED BY <1>2, <1>8, <1>9, <1>10, <1>11

\* The bits of a mode with which a Polybius cipher runs.
LEMMA PolybiusBits ==
    ASSUME NEW m \in 1 .. 255
    PROVE  /\ m \notin {Crash, Help, Invalid} /\ ~IsMorse(m) /\ ~IsDecode(m)
           /\ m + Decode \notin {Crash, Help, Invalid}
           /\ ~IsMorse(m + Decode) /\ IsDecode(m + Decode)
           /\ (m + Decode) % 16 = m % 16
<1>1. m \div 16384 = 0 /\ m \div 8192 = 0 BY SMT
<1>2. (m + 8192) \div 16384 = 0 /\ (m + 8192) \div 8192 = 1 BY SMT
<1>3. (m + 8192) % 16 = m % 16 BY SMT
<1>4. 0 % 2 = 0 /\ 1 % 2 = 1 BY SMT
<1>5. m + 8192 # -1 /\ m + 8192 # 0 /\ m + 8192 # 32768 BY SMT
<1>6. ~IsMorse(m) /\ ~IsDecode(m) BY <1>1, <1>4 DEF IsMorse, IsDecode, Morse, Decode
<1>7. ~IsMorse(m + Decode) /\ IsDecode(m + Decode)
  BY <1>2, <1>4 DEF IsMorse, IsDecode, Morse, Decode
<1>8. m \notin {Crash, Help, Invalid} BY DEF Crash, Help, Invalid
<1> QED BY <1>3, <1>5, <1>6, <1>7, <1>8 DEF Crash, Help, Invalid, Decode

\* The alphabet has 94 characters, each once, and none is white.
LEMMA AlphabetIs ==
    /\ polybius_alphabet \in Seq(Int) /\ Len(polybius_alphabet) = 94
    /\ Distinct(polybius_alphabet)
    /\ Range(polybius_alphabet) = 33 .. 126
<1>1. polybius_alphabet \in Seq(Int) /\ Len(polybius_alphabet) = 94
  BY DEF polybius_alphabet
<1>2. \A n \in 1 .. 94 : polybius_alphabet[n] = 32 + n BY DEF polybius_alphabet
<1>3. DOMAIN polybius_alphabet = 1 .. 94 BY DEF polybius_alphabet
<1>4. Distinct(polybius_alphabet)
  <2>1. \A i, j \in 1 .. 94 : 32 + i = 32 + j => i = j OBVIOUS
  <2>2. \A i, j \in 1 .. 94 : polybius_alphabet[i] = polybius_alphabet[j] => i = j
    BY <1>2, <2>1
  <2> QED BY <1>1, <2>2 DEF Distinct
<1>5. Range(polybius_alphabet) = 33 .. 126
  <2>1. \A x \in 33 .. 126 : x - 32 \in 1 .. 94 /\ 32 + (x - 32) = x OBVIOUS
  <2>2. \A n \in 1 .. 94 : 32 + n \in 33 .. 126 OBVIOUS
  <2> QED BY <1>2, <1>3, <2>1, <2>2 DEF Range
<1> QED BY <1>1, <1>4, <1>5

\* The table of a key that a Polybius cipher runs with is full.
LEMMA TableIsFull ==
    ASSUME NEW key \in Seq(Int), ValidKey(key, polybius_alphabet)
    PROVE  FullTable(KeyTable(key, polybius_alphabet))
BY AlphabetIs, KeyTableIs DEF FullTable

-----------------------------------------------------------------------------
\* A Polybius cipher encodes a text in the characters of the alphabet.
Meant == Encoding(Flags.p) /\ Range(text) \subseteq Letters

\* What main has made of the arguments when it encodes.
Started ==
    LET found == validargs(args)
    IN  /\ PolybiusRuns(found) /\ mode = found.mode
        /\ table = KeyTable(found.key, polybius_alphabet)

\* The first k characters of the text are in the output.
EncodedSoFar ==
    /\ output \in Seq(Int)
    /\ \E k \in 0 .. Len(text) :
          /\ input = SubSeq(text, k + 1, Len(text))
          /\ \E at : Coded(table, col, text, k, output, at)

\* The first k characters of the text have come back, and the input is the code of the rest.
DecodedSoFar ==
    \E k \in 0 .. Len(text), code \in Seq(Int) : \E at :
        /\ output = SubSeq(text, 1, k)
        /\ input = SubSeq(code, at[k] + 1, Len(code))
        /\ Coded(table, col, text, Len(text), code, at)

Trip ==
    /\ pc \in {"encode", "decode", "done", "crashed", "failed"}
    /\ pc \in {"encode", "decode"} =>
          /\ todo = <<>> /\ ~IsMorse(mode)
          /\ col \in 9 .. 15 /\ FullTable(table)
    /\ pc = "encode" => Started /\ EncodedSoFar
    /\ pc = "decode" => DecodedSoFar
    /\ pc = "done" => output = text

PInv ==
    /\ args \in Seq(Seq(Int)) /\ text \in Seq(Int)
    /\ pc = "start" => args = <<>>
    /\ Meant => Trip

-----------------------------------------------------------------------------
\* A text before a program has read it.
LEMMA NothingCoded ==
    ASSUME NEW t, NEW c, NEW s
    PROVE  \E at : Coded(t, c, s, 0, <<>>, at)
<1> DEFINE at == [n \in 0 .. 0 |-> 0]
<1>1. at \in [0 .. 0 -> 0 .. 0] /\ at[0] = 0 OBVIOUS
<1>2. 1 .. 0 = {} OBVIOUS
<1>3. Len(<<>>) = 0 OBVIOUS
<1> HIDE DEF at
<1>4. Coded(t, c, s, 0, <<>>, at) BY <1>1, <1>2, <1>3 DEF Coded
<1> QED BY <1>4

\* The types of a session.
LEMMA SessionTypes ==
    ASSUME NEW session \in Sessions
    PROVE  session[1] \in Seq(Seq(Int)) /\ session[2] \in Seq(Int)
<1>1. session \in Seq(Seq(1 .. 127)) \X Seq(1 .. 127) BY CipherAssumption
<1>2. session[1] \in Seq(Seq(1 .. 127)) /\ session[2] \in Seq(1 .. 127) BY <1>1
<1>3. 1 .. 127 \subseteq Int OBVIOUS
<1>4. Seq(1 .. 127) \subseteq Seq(Int) BY <1>3, SeqMonotonic
<1> QED BY <1>2, <1>4, SeqMonotonic

\* The program starts.
LEMMA StartTrip ==
    ASSUME NEW session \in Sessions, Start(session[1], session[2])
    PROVE  PInv'
<1> DEFINE a == session[1]
           in == session[2]
<1>1. a \in Seq(Seq(Int)) /\ in \in Seq(Int) BY SessionTypes
<1>2. args' = a /\ text' = in /\ main(a, in) BY DEF Start
<1> HIDE DEF a, in
<1>3. pc' # "start" BY <1>2 DEF main
<1>4. ASSUME Meant' PROVE Trip'
  <2>1. a # <<>> /\ Len(a) >= 2 /\ a[1] = Flags.p /\ a[2] = Flags.e
    BY <1>2, <1>4 DEF Meant, Encoding
  <2> DEFINE found == validargs(a)
  <2>2. found = PolybiusMode(SubSeq(a, 3, Len(a))) BY <1>1, <2>1, EncodeArgs
  <2>3. SubSeq(a, 3, Len(a)) \in Seq(Seq(Int))
    <3>1. \A i \in 3 .. Len(a) : a[i] \in Seq(Int) BY <1>1
    <3>2. 3 \in Int /\ Len(a) \in Int BY <1>1
    <3> QED BY <3>1, <3>2, SubSeqProperties
  <2>4. found.mode \in {Invalid, Crash} \/ PolybiusRuns(found) BY <2>2, <2>3, PolybiusModeIs
  <2>5. /\ input' = in /\ output' = <<>> /\ todo' = <<>> /\ mode' = found.mode
        /\ table' = KeyTable(found.key, IF IsMorse(found.mode) THEN fm_alphabet
                                                               ELSE polybius_alphabet)
        /\ pc' = CASE found.mode = Crash   -> "crashed"
                   [] found.mode = Help    -> "help"
                   [] found.mode = Invalid -> "failed"
                   [] OTHER -> IF IsDecode(found.mode) THEN "decode" ELSE "encode"
    BY <1>2, <2>1 DEF main
  <2>6. (validargs(args))' = found BY <1>2 DEF validargs, PolybiusMode, Parsed
  <2> HIDE DEF found
  <2>7. CASE found.mode \in {Invalid, Crash}
    <3>1. pc' \in {"crashed", "failed"} BY <2>5, <2>7 DEF Invalid, Crash, Help
    <3> QED BY <3>1 DEF Trip
  <2>8. CASE PolybiusRuns(found)
    <3>1. found.mode \in 1 .. 255 /\ found.mode % 16 \in 9 .. 15
      BY <2>8 DEF PolybiusRuns
    <3>2. /\ found.mode \notin {Crash, Help, Invalid}
          /\ ~IsMorse(found.mode) /\ ~IsDecode(found.mode)
      BY <3>1, PolybiusBits
    <3>3. pc' = "encode" /\ table' = KeyTable(found.key, polybius_alphabet)
      BY <2>5, <3>2
    <3>4. FullTable(table') BY <2>8, <3>3, TableIsFull DEF PolybiusRuns
    <3>5. col' \in 9 .. 15 /\ ~IsMorse(mode') /\ todo' = <<>> BY <2>5, <3>1, <3>2 DEF col
    <3>6. Started' BY <2>5, <2>6, <2>8, <3>3 DEF Started
    <3>7. EncodedSoFar'
      <4>1. output' = <<>> /\ <<>> \in Seq(Int) /\ input' = in BY <2>5
      <4>2. 0 \in 0 .. Len(in) /\ in = SubSeq(in, 0 + 1, Len(in))
        BY <1>1, SubSeqFull, LenProperties
      <4>3. \E at : Coded(table', col', in, 0, <<>>, at) BY NothingCoded
      <4> QED BY <1>2, <4>1, <4>2, <4>3 DEF EncodedSoFar
    <3> QED BY <3>3, <3>4, <3>5, <3>6, <3>7 DEF Trip, IsMorse
  <2> QED BY <2>4, <2>7, <2>8
<1> QED BY <1>1, <1>2, <1>3, <1>4 DEF PInv

\* r is the rest of sequence s from place k + 1 on, and not empty.
RestOf(s, k, r) ==
    /\ k + 1 \in 1 .. Len(s)
    /\ r \in Seq(Int) /\ Len(r) = Len(s) - k
    /\ \A i \in 1 .. Len(r) : r[i] = s[k + i]
    /\ Head(r) = s[k + 1] /\ Tail(r) = SubSeq(s, k + 1 + 1, Len(s))
    /\ SubSeq(r, 3, Len(r)) = SubSeq(s, k + 2 + 1, Len(s))

\* The places of such a rest.
LEMMA RestIs ==
    ASSUME NEW s \in Seq(Int), NEW k \in 0 .. Len(s),
           NEW r, r = SubSeq(s, k + 1, Len(s)), r # <<>>
    PROVE  RestOf(s, k, r)
<1>1. Len(s) \in Nat /\ k \in Nat BY LenProperties
<1>2. \A i \in k + 1 .. Len(s) : s[i] \in Int BY <1>1
<1>3. /\ r \in Seq(Int) /\ Len(r) = IF k + 1 <= Len(s) THEN Len(s) - (k + 1) + 1 ELSE 0
      /\ \A i \in 1 .. Len(s) - (k + 1) + 1 : r[i] = s[(k + 1) + i - 1]
  BY <1>1, <1>2, SubSeqProperties
<1>4. k + 1 \in 1 .. Len(s)
  <2>1. k + 1 <= Len(s)
    <3> SUFFICES ASSUME ~(k + 1 <= Len(s)) PROVE FALSE OBVIOUS
    <3>1. Len(r) = 0 BY <1>3
    <3> QED BY <1>3, <3>1, EmptySeq
  <2> QED BY <1>1, <2>1
<1>5. Len(r) = Len(s) - k BY <1>1, <1>3, <1>4
<1>6. \A i \in 1 .. Len(r) : r[i] = s[k + i]
  <2> TAKE i \in 1 .. Len(r)
  <2>1. i \in 1 .. Len(s) - (k + 1) + 1 /\ (k + 1) + i - 1 = k + i BY <1>1, <1>5
  <2> QED BY <1>3, <2>1
<1>7. Len(s) \in k + 1 .. Len(s) BY <1>1, <1>4
<1>8. Head(r) = s[k + 1] /\ Tail(r) = SubSeq(s, k + 1 + 1, Len(s))
  BY <1>4, <1>7, HeadTailOfSubSeq
<1>9. SubSeq(r, 3, Len(r)) = SubSeq(s, k + 2 + 1, Len(s))
  <2> DEFINE u == SubSeq(r, 3, Len(r))
             v == SubSeq(s, k + 2 + 1, Len(s))
  <2>1. \A i \in 3 .. Len(r) : r[i] \in Int BY <1>3
  <2>2. \A i \in k + 2 + 1 .. Len(s) : s[i] \in Int BY <1>1
  <2>3. 3 \in Int /\ Len(r) \in Int /\ k + 2 + 1 \in Int /\ Len(s) \in Int BY <1>1, <1>5
  <2>4. /\ u \in Seq(Int) /\ Len(u) = IF 3 <= Len(r) THEN Len(r) - 3 + 1 ELSE 0
        /\ \A i \in 1 .. Len(r) - 3 + 1 : u[i] = r[3 + i - 1]
    BY <2>1, <2>3, SubSeqProperties
  <2>5. /\ v \in Seq(Int)
        /\ Len(v) = IF k + 2 + 1 <= Len(s) THEN Len(s) - (k + 2 + 1) + 1 ELSE 0
        /\ \A i \in 1 .. Len(s) - (k + 2 + 1) + 1 : v[i] = s[(k + 2 + 1) + i - 1]
    BY <2>2, <2>3, SubSeqProperties
  <2> HIDE DEF u, v
  <2>6. Len(u) = Len(v) BY <1>1, <1>5, <2>4, <2>5
  <2>7. ASSUME NEW i \in 1 .. Len(u) PROVE u[i] = v[i]
    <3>1. i \in 1 .. Len(r) - 3 + 1 /\ 3 + i - 1 \in 1 .. Len(r)
      BY <1>1, <1>5, <2>4
    <3>2. i \in 1 .. Len(s) - (k + 2 + 1) + 1 /\ (k + 2 + 1) + i - 1 = k + (3 + i - 1)
      BY <1>1, <1>5, <3>1
    <3> QED BY <1>6, <2>4, <2>5, <3>1, <3>2
  <2>8. u = v BY <2>4, <2>5, <2>6, <2>7, SeqEqual
  <2> QED BY <2>8 DEF u, v
<1> QED BY <1>3, <1>4, <1>5, <1>6, <1>8, <1>9 DEF RestOf

\* A prefix grows by one.
LEMMA PrefixGrows ==
    ASSUME NEW s \in Seq(Int), NEW k \in 0 .. Len(s), k + 1 \in 1 .. Len(s)
    PROVE  Append(SubSeq(s, 1, k), s[k + 1]) = SubSeq(s, 1, k + 1)
<1>1. k + 1 \in 1 .. Len(s) /\ 1 \in 1 .. Len(s) /\ k + 1 - 1 = k OBVIOUS
<1>2. SubSeq(s, 1, k + 1) = SubSeq(s, 1, k) \o <<s[k + 1]>>
  BY <1>1, SubSeqRecursiveSecond
<1>3. SubSeq(s, 1, k) \in Seq(Int)
  <2>1. \A i \in 1 .. k : s[i] \in Int OBVIOUS
  <2> QED BY <2>1, SubSeqProperties
<1>4. s[k + 1] \in Int BY <1>1
<1> QED BY <1>2, <1>3, <1>4, AppendIsConcat

\* Nothing is left of a sequence when all of it is read.
LEMMA NothingLeft ==
    ASSUME NEW s \in Seq(Int), NEW k \in 0 .. Len(s), SubSeq(s, k + 1, Len(s)) = <<>>
    PROVE  k = Len(s)
<1>1. Len(s) \in Nat BY LenProperties
<1>2. \A i \in k + 1 .. Len(s) : s[i] \in Int BY <1>1
<1>3. Len(SubSeq(s, k + 1, Len(s))) = IF k + 1 <= Len(s) THEN Len(s) - (k + 1) + 1 ELSE 0
  BY <1>1, <1>2, SubSeqProperties
<1>4. Len(SubSeq(s, k + 1, Len(s))) = 0
  <2>1. Len(<<>>) = 0 OBVIOUS
  <2> QED BY <2>1, Zenon
<1>5. ~(k + 1 <= Len(s)) BY <1>1, <1>3, <1>4
<1> QED BY <1>1, <1>5

-----------------------------------------------------------------------------
\* A character is encoded.
LEMMA EncodeTrip ==
    ASSUME PInv, Meant, PolybiusEncode
    PROVE  Trip'
<1>1. /\ pc = "encode" /\ input # <<>>
      /\ UNCHANGED <<args, text, mode, table, todo>>
      /\ input' = Tail(input)
  BY DEF PolybiusEncode, Turn, PolybiusQuiet, run
<1>2. /\ todo = <<>> /\ ~IsMorse(mode) /\ col \in 9 .. 15 /\ FullTable(table)
      /\ Started /\ EncodedSoFar /\ text \in Seq(Int)
  BY <1>1 DEF PInv, Trip
<1>14. PICK k \in 0 .. Len(text) :
         input = SubSeq(text, k + 1, Len(text)) /\ \E at : Coded(table, col, text, k, output, at)
  BY <1>2 DEF EncodedSoFar
<1>15. PICK at : Coded(table, col, text, k, output, at) BY <1>14
<1>3. input = SubSeq(text, k + 1, Len(text)) /\ Coded(table, col, text, k, output, at)
  BY <1>14, <1>15
<1>4. k + 1 \in 1 .. Len(text) /\ Head(input) = text[k + 1]
      /\ Tail(input) = SubSeq(text, k + 1 + 1, Len(text))
  BY <1>1, <1>2, <1>3, RestIs DEF RestOf
<1> DEFINE ch == text[k + 1]
           cell == Cell(Min({n \in DOMAIN table : table[n] = ch}) - 1)
           code == IF ch \in White THEN <<ch>> ELSE cell
<1>5. ch \in Letters /\ ch \in Int
  <2>1. ch \in Int BY <1>2, <1>4
  <2>2. DOMAIN text = 1 .. Len(text) BY <1>2, LenProperties
  <2>3. ch \in Range(text) BY <1>4, <2>2 DEF Range
  <2> QED BY <2>1, <2>3 DEF Meant
<1>6. /\ ch \in Range(table) \/ ch \in White
      /\ code \in Seq(Int)
      /\ IF ch \in White THEN Len(code) = 1 /\ code[1] = ch
         ELSE Len(code) = 2 /\ Pair(table, col, code[1], code[2], ch)
  <2>1. CASE ch \in White
    <3> HIDE DEF ch
    <3>1. code = <<ch>> BY <2>1
    <3> QED BY <1>5, <2>1, <3>1
  <2>2. CASE ch \notin White
    <3>1. ch \in Range(polybius_alphabet) BY <1>5, <2>2 DEF Letters
    <3> HIDE DEF ch
    <3>2. /\ ch \in Range(table)
          /\ cell \in Seq(Int) /\ Len(cell) = 2 /\ Pair(table, col, cell[1], cell[2], ch)
      BY <1>2, <3>1, CellIsPair
    <3>3. code = cell BY <2>2
    <3> HIDE DEF code, cell
    <3> QED BY <2>2, <3>2, <3>3
  <2> QED BY <2>1, <2>2
<1>7. output' = output \o code /\ pc' = pc
  BY <1>4, <1>6 DEF PolybiusEncode
<1> HIDE DEF code
<1>8. output \in Seq(Int) /\ k \in Nat BY <1>2 DEF EncodedSoFar
<1>9. \E next : Coded(table, col, text, k + 1, output \o code, next)
  BY <1>3, <1>6, <1>8, CodedAppend
<1>10. output \o code \in Seq(Int) BY <1>6, <1>8, ConcatProperties
<1>11. col' = col BY <1>1 DEF col
<1>12. EncodedSoFar'
  <2>1. k + 1 \in 0 .. Len(text) BY <1>4
  <2> QED BY <1>1, <1>4, <1>7, <1>9, <1>10, <1>11, <2>1 DEF EncodedSoFar
<1>13. Started' 
  <2>1. (validargs(args))' = validargs(args) BY <1>1 DEF validargs, PolybiusMode, Parsed
  <2> QED BY <1>1, <1>2, <2>1 DEF Started
<1> QED BY <1>1, <1>2, <1>7, <1>11, <1>12, <1>13 DEF Trip, IsMorse

\* The end of the first run, and of the second.
LEMMA EndTrip ==
    ASSUME PInv, Meant, EndOfInput
    PROVE  Trip'
<1>1. pc \in {"encode", "decode"} /\ input = <<>> /\ UNCHANGED <<args, text>>
  BY DEF EndOfInput, run
<1>2. /\ todo = <<>> /\ ~IsMorse(mode) /\ col \in 9 .. 15 /\ FullTable(table)
      /\ text \in Seq(Int) /\ args \in Seq(Seq(Int))
  BY <1>1 DEF PInv, Trip
<1>3. CASE pc = "encode"
  <2> DEFINE b == [args EXCEPT ![2] = Flags.d]
             found == validargs(args)
             second == validargs(b)
  <2>1. main(b, output) BY <1>3 DEF EndOfInput
  <2>2. /\ Started /\ EncodedSoFar
        /\ Len(args) >= 2 /\ args[1] = Flags.p /\ args[2] = Flags.e
    BY <1>3 DEF PInv, Trip, Meant, Encoding
  <2>3. PolybiusRuns(found) /\ mode = found.mode /\ table = KeyTable(found.key, polybius_alphabet)
    BY <2>2 DEF Started
  <2>4. second = IF found.mode \notin {Invalid, Crash} THEN [found EXCEPT !.mode = @ + Decode]
                 ELSE found
    BY <1>2, <2>2, DecodeArgs
  <2>5. found = [mode |-> found.mode, key |-> found.key]
    <3>1. found = PolybiusMode(SubSeq(args, 3, Len(args))) BY <1>2, <2>2, EncodeArgs
    <3>2. SubSeq(args, 3, Len(args)) \in Seq(Seq(Int))
      <4>1. \A i \in 3 .. Len(args) : args[i] \in Seq(Int) BY <1>2
      <4>2. 3 \in Int /\ Len(args) \in Int BY <1>2
      <4> QED BY <4>1, <4>2, SubSeqProperties
    <3> HIDE DEF found
    <3> QED BY <3>1, <3>2, PolybiusModeIs
  <2>6. b # <<>>
    <3>1. b \in Seq(Seq(Int)) /\ Len(b) = Len(args)
      <4>1. Flags.d \in Seq(Int) BY DEF Flags
      <4>2. 2 \in 1 .. Len(args) BY <1>2, <2>2
      <4> QED BY <1>2, <4>1, <4>2, ExceptSeq
    <3> HIDE DEF b
    <3>2. Len(b) # 0 BY <1>2, <2>2, <3>1
    <3> QED BY <3>1, <3>2
  <2> DEFINE m == found.mode
  <2>7. m \in 1 .. 255 BY <2>3 DEF PolybiusRuns
  <2>8. /\ input' = output /\ output' = <<>> /\ todo' = <<>> /\ mode' = second.mode
        /\ table' = KeyTable(second.key, IF IsMorse(second.mode) THEN fm_alphabet
                                                                 ELSE polybius_alphabet)
        /\ pc' = CASE second.mode = Crash   -> "crashed"
                   [] second.mode = Help    -> "help"
                   [] second.mode = Invalid -> "failed"
                   [] OTHER -> IF IsDecode(second.mode) THEN "decode" ELSE "encode"
    BY <2>1, <2>6 DEF main
  <2> HIDE DEF found, second, b
  <2>9. /\ m \notin {Crash, Help, Invalid} /\ ~IsMorse(m)
        /\ m + Decode \notin {Crash, Help, Invalid}
        /\ ~IsMorse(m + Decode) /\ IsDecode(m + Decode) /\ (m + Decode) % 16 = m % 16
    BY <2>7, PolybiusBits
  <2>10. second.mode = m + Decode /\ second.key = found.key
    BY <2>4, <2>5, <2>9
  <2> HIDE DEF m
  <2>11. pc' = "decode" /\ table' = table BY <2>3, <2>8, <2>9, <2>10
  <2>12. col' = col /\ ~IsMorse(mode') BY <2>3, <2>8, <2>9, <2>10 DEF col, m
  <2>13. DecodedSoFar'
    <3>9. PICK k \in 0 .. Len(text) :
            input = SubSeq(text, k + 1, Len(text)) /\ \E at : Coded(table, col, text, k, output, at)
      BY <2>2 DEF EncodedSoFar
    <3>10. PICK at : Coded(table, col, text, k, output, at) BY <3>9
    <3>1. input = SubSeq(text, k + 1, Len(text)) /\ Coded(table, col, text, k, output, at)
      BY <3>9, <3>10
    <3>2. k = Len(text) BY <1>1, <1>2, <3>1, NothingLeft
    <3>3. Coded(table, col, text, Len(text), output, at) BY <3>1, <3>2
    <3>4. output \in Seq(Int) BY <2>2 DEF EncodedSoFar
    <3>5. at[0] = 0 BY <3>3 DEF Coded
    <3>6. output' = SubSeq(text, 1, 0) BY <2>8, <1>2, SubSeqEmpty
    <3>7. input' = SubSeq(output, at[0] + 1, Len(output)) BY <2>8, <3>4, <3>5, SubSeqFull
    <3>8. 0 \in 0 .. Len(text) BY <1>2
    <3> QED BY <1>1, <2>11, <2>12, <3>3, <3>4, <3>6, <3>7, <3>8 DEF DecodedSoFar
  <2> QED BY <1>2, <2>8, <2>11, <2>12, <2>13 DEF Trip, IsMorse
<1>4. CASE pc = "decode"
  <2>1. pc' = "done" /\ output' = output BY <1>4 DEF EndOfInput
  <2>2. PICK k \in 0 .. Len(text), code \in Seq(Int) : \E at :
          /\ output = SubSeq(text, 1, k)
          /\ input = SubSeq(code, at[k] + 1, Len(code))
          /\ Coded(table, col, text, Len(text), code, at)
    BY <1>4 DEF PInv, Trip, DecodedSoFar
  <2>5. PICK at :
          /\ output = SubSeq(text, 1, k)
          /\ input = SubSeq(code, at[k] + 1, Len(code))
          /\ Coded(table, col, text, Len(text), code, at)
    BY <2>2
  <2>3. k = Len(text)
    <3> SUFFICES ASSUME k # Len(text) PROVE FALSE OBVIOUS
    <3>1. k + 1 \in 1 .. Len(text) /\ k + 1 \in 0 .. Len(text) /\ k \in 0 .. Len(text)
          /\ k + 1 - 1 = k
      BY <1>2
    <3>2. at[k] \in 0 .. Len(code) /\ at[k + 1] \in 0 .. Len(code) BY <2>5, <3>1 DEF Coded
    <3>3. at[k] = Len(code) BY <1>1, <2>5, <3>2, NothingLeft
    <3>4. at[k + 1] = at[k] + 1 \/ at[k + 1] = at[k] + 2
      <4>1. \A n \in 1 .. Len(text) : at[n] = at[n - 1] + 1 \/ at[n] = at[n - 1] + 2
        BY <2>5 DEF Coded
      <4>2. at[k + 1] = at[k + 1 - 1] + 1 \/ at[k + 1] = at[k + 1 - 1] + 2 BY <3>1, <4>1
      <4> QED BY <3>1, <4>2
    <3>5. Len(code) \in Nat BY <2>5, LenProperties
    <3> QED BY <3>2, <3>3, <3>4, <3>5
  <2>4. output = text BY <1>2, <2>5, <2>3, SubSeqFull
  <2> QED BY <1>1, <2>1, <2>4 DEF Trip
<1> QED BY <1>1, <1>3, <1>4

\* A character of the code is decoded.
LEMMA DecodeTrip ==
    ASSUME PInv, Meant, PolybiusDecode
    PROVE  Trip'
<1>1. /\ pc = "decode" /\ input # <<>>
      /\ UNCHANGED <<args, text, mode, table, todo>>
  BY DEF PolybiusDecode, Turn, PolybiusQuiet, run
<1>2. /\ todo = <<>> /\ ~IsMorse(mode) /\ col \in 9 .. 15 /\ FullTable(table)
      /\ DecodedSoFar /\ text \in Seq(Int)
  BY <1>1 DEF PInv, Trip
<1>15. PICK k \in 0 .. Len(text), code \in Seq(Int) : \E at :
        /\ output = SubSeq(text, 1, k)
        /\ input = SubSeq(code, at[k] + 1, Len(code))
        /\ Coded(table, col, text, Len(text), code, at)
  BY <1>2 DEF DecodedSoFar
<1>3. PICK at :
        /\ output = SubSeq(text, 1, k)
        /\ input = SubSeq(code, at[k] + 1, Len(code))
        /\ Coded(table, col, text, Len(text), code, at)
  BY <1>15
<1>4. Len(text) \in Nat /\ Len(code) \in Nat BY <1>2, LenProperties
<1>5. /\ at \in [0 .. Len(text) -> 0 .. Len(code)] /\ at[Len(text)] = Len(code)
      /\ \A n \in 1 .. Len(text) :
            IF text[n] \in White THEN at[n] = at[n - 1] + 1 /\ code[at[n]] = text[n]
            ELSE at[n] = at[n - 1] + 2 /\ Pair(table, col, code[at[n] - 1], code[at[n]], text[n])
  BY <1>3 DEF Coded
<1> DEFINE a == at[k]
           ch == text[k + 1]
<1>6. a \in 0 .. Len(code) /\ input = SubSeq(code, a + 1, Len(code)) BY <1>3, <1>5
<1> HIDE DEF a
<1>7. /\ a + 1 \in 1 .. Len(code) /\ Len(input) = Len(code) - a
      /\ \A i \in 1 .. Len(input) : input[i] = code[a + i]
      /\ Head(input) = code[a + 1] /\ Tail(input) = SubSeq(code, a + 1 + 1, Len(code))
      /\ SubSeq(input, 3, Len(input)) = SubSeq(code, a + 2 + 1, Len(code))
  <2>1. input # <<>> BY <1>1
  <2>2. code \in Seq(Int) OBVIOUS
  <2>3. RestOf(code, a, input) BY ONLY <1>6, <2>1, <2>2, RestIs
  <2> QED BY ONLY <2>3 DEF RestOf
<1>8. k + 1 \in 1 .. Len(text) /\ k + 1 - 1 = k
  <2>1. k # Len(text)
    <3> SUFFICES ASSUME k = Len(text) PROVE FALSE OBVIOUS
    <3>1. a = Len(code) BY <1>5 DEF a
    <3> QED BY <1>4, <1>7, <3>1
  <2> QED BY <1>4, <2>1
<1>9. IF ch \in White THEN at[k + 1] = a + 1 /\ code[at[k + 1]] = ch
      ELSE at[k + 1] = a + 2 /\ Pair(table, col, code[at[k + 1] - 1], code[at[k + 1]], ch)
  <2>1. IF ch \in White THEN at[k + 1] = at[k + 1 - 1] + 1 /\ code[at[k + 1]] = ch
        ELSE /\ at[k + 1] = at[k + 1 - 1] + 2
             /\ Pair(table, col, code[at[k + 1] - 1], code[at[k + 1]], ch)
    BY <1>5, <1>8
  <2> QED BY <1>8, <2>1 DEF a
<1>10. at[k + 1] \in 0 .. Len(code)
  <2>1. k + 1 \in 0 .. Len(text) BY <1>8
  <2> QED BY <1>5, <2>1
<1>11. Append(output, ch) = SubSeq(text, 1, k + 1) BY <1>2, <1>3, <1>8, PrefixGrows
<1>12. /\ output' = Append(output, ch) /\ pc' = pc
       /\ input' = SubSeq(code, at[k + 1] + 1, Len(code))
  <2> HIDE DEF ch
  <2>1. CASE ch \in White
    <3>1. at[k + 1] = a + 1 /\ code[a + 1] = ch BY <1>9, <2>1
    <3>2. Head(input) = ch BY <1>7, <3>1
    <3>3. input' = Tail(input) /\ output' = Append(output, ch) /\ pc' = pc
      BY <2>1, <3>2 DEF PolybiusDecode
    <3> QED BY <1>7, <3>1, <3>3
  <2>2. CASE ch \notin White
    <3>1. at[k + 1] = a + 2 /\ Pair(table, col, code[at[k + 1] - 1], code[at[k + 1]], ch)
      BY <1>9, <2>2
    <3>2. a + 2 <= Len(code) /\ a + 2 - 1 = a + 1 BY <1>4, <1>6, <1>10, <3>1
    <3>13. \A u, v \in 0 .. Len(code) : v = u + 2 => v - 1 = u + 1 BY <1>4
    <3>11. at[k + 1] - 1 = a + 1 BY <1>6, <1>10, <3>1, <3>13
    <3>3. Pair(table, col, code[a + 1], code[a + 2], ch)
      BY ONLY <3>1, <3>11
    <3>10. \A l, m \in Nat : m + 2 <= l => l - m >= 2 /\ l - m \in Nat OBVIOUS
    <3>12. a \in Nat BY <1>6
    <3>4. 2 \in 1 .. Len(input) /\ Len(input) # 1
      <4>1. Len(input) >= 2 /\ Len(input) \in Nat BY ONLY <1>4, <1>7, <3>2, <3>10, <3>12
      <4>2. \A m \in Nat : m >= 2 => 2 \in 1 .. m /\ m # 1 OBVIOUS
      <4> QED BY <4>1, <4>2, Zenon
    <3>5. input[2] = code[a + 2] BY <1>7, <3>4
    <3> DEFINE x == code[a + 1]
               y == code[a + 2]
               n == Value(x) * col + Value(y)
    <3>6. Head(input) = x /\ input[2] = y BY <1>7, <3>5
    <3>7. x \notin White /\ y \notin White /\ n \in 0 .. 93 /\ table[n + 1] = ch
      BY <3>3 DEF Pair
    <3> HIDE DEF x, y
    <3>8. n \in 0 .. 256 /\ n < Len(table)
      <4>1. Len(table) = 94 BY <1>2 DEF FullTable
      <4> HIDE DEF n
      <4> QED BY <3>7, <4>1
    <3>9. /\ input' = SubSeq(input, 3, Len(input)) /\ pc' = pc
          /\ output' = Append(output, table[n + 1])
      BY <3>4, <3>6, <3>7, <3>8 DEF PolybiusDecode
    <3> QED BY <1>7, <3>1, <3>7, <3>9
  <2> QED BY <2>1, <2>2
<1>13. DecodedSoFar'
  <2>1. k + 1 \in 0 .. Len(text) BY <1>8
  <2>2. col' = col BY <1>1 DEF col
  <2> HIDE DEF ch
  <2>3. /\ output' = SubSeq(text, 1, k + 1)
        /\ input' = SubSeq(code, at[k + 1] + 1, Len(code))
        /\ Coded(table', col', text, Len(text), code, at)
    BY <1>1, <1>3, <1>11, <1>12, <2>2
  <2>4. text' = text BY <1>1
  <2> QED BY ONLY <2>1, <2>3, <2>4, code \in Seq(Int) DEF DecodedSoFar
<1>14. col' = col BY <1>1 DEF col
<1> QED BY <1>1, <1>2, <1>12, <1>13, <1>14 DEF Trip, IsMorse

\* Every step keeps the invariant of the round trip.
LEMMA TripKeeps == ASSUME PInv, Next PROVE PInv'
<1>1. ASSUME NEW session \in Sessions, Start(session[1], session[2]) PROVE PInv'
  BY <1>1, StartTrip
<1>2. ASSUME /\ UNCHANGED <<args, text>> /\ pc # "start" /\ pc' # "start"
             /\ Meant => Trip'
      PROVE  PInv'
  <2>1. Meant' = Meant BY <1>2 DEF Meant, Encoding
  <2> QED BY <1>2, <2>1 DEF PInv
<1>3. CASE PolybiusEncode
  <2>1. UNCHANGED <<args, text>> /\ pc = "encode" /\ pc' \in {pc, "undefined"}
    BY <1>3 DEF PolybiusEncode, PolybiusQuiet, Turn, run
  <2> QED BY <1>2, <1>3, <2>1, EncodeTrip
<1>4. CASE PolybiusDecode
  <2>1. UNCHANGED <<args, text>> /\ pc = "decode" /\ pc' \in {pc, "undefined"}
    BY <1>4 DEF PolybiusDecode, PolybiusQuiet, Turn, run
  <2> QED BY <1>2, <1>4, <2>1, DecodeTrip
<1>5. CASE MorseEncode \/ EncodeSymbol \/ EncodeNewline \/ MorseDecode \/ DecodeSymbol
  <2>1. UNCHANGED <<args, text>> /\ pc \in {"encode", "decode"}
    BY <1>5 DEF MorseEncode, EncodeSymbol, EncodeNewline, MorseDecode, DecodeSymbol, Turn, run
  <2>2. pc' \in {pc, "undefined", "failed"}
    BY <1>5 DEF MorseEncode, EncodeSymbol, EncodeNewline, MorseDecode, DecodeSymbol
  <2>3. IsMorse(mode) \/ todo # <<>>
    <3>1. CASE MorseEncode BY <3>1 DEF MorseEncode, Turn
    <3>2. CASE EncodeSymbol BY <3>2 DEF EncodeSymbol
    <3>3. CASE EncodeNewline BY <3>3 DEF EncodeNewline
    <3>4. CASE MorseDecode BY <3>4 DEF MorseDecode, Turn
    <3>5. CASE DecodeSymbol BY <3>5 DEF DecodeSymbol
    <3> QED BY <1>5, <3>1, <3>2, <3>3, <3>4, <3>5
  <2>4. ~Meant BY <2>1, <2>3 DEF PInv, Trip
  <2> QED BY <1>2, <2>1, <2>2, <2>4
<1>6. CASE EndOfInput
  <2>1. UNCHANGED <<args, text>> /\ pc \in {"encode", "decode"}
    BY <1>6 DEF EndOfInput, run
  <2>2. pc' # "start" BY <1>6 DEF EndOfInput, main
  <2> QED BY <1>2, <1>6, <2>1, <2>2, EndTrip
<1> QED BY <1>1, <1>3, <1>4, <1>5, <1>6 DEF Next

\* Every text in the characters of the alphabet comes back, for every key, every number of
\* rows and of columns that validargs accepts, and every length.
THEOREM PolybiusCorrect == Spec => []PolybiusRoundTrip
<1>1. Init => PInv
  <2> SUFFICES ASSUME Init PROVE PInv OBVIOUS
  <2>1. args = <<>> /\ text = <<>> BY DEF Init
  <2>2. <<>> \in Seq(Int) /\ <<>> \in Seq(Seq(Int)) OBVIOUS
  <2> QED BY <2>1, <2>2 DEF PInv, Meant, Encoding
<1>2. PInv /\ [Next]_vars => PInv'
  <2>1. CASE Next BY <2>1, TripKeeps
  <2>2. CASE UNCHANGED vars
    <3>1. UNCHANGED <<args, text, mode, table, pc, input, output, todo>>
      BY <2>2 DEF vars, run
    <3>2. (validargs(args))' = validargs(args)
      BY <3>1 DEF validargs, PolybiusMode, Parsed
    <3>3. /\ Meant' = Meant /\ col' = col /\ Started' = Started
          /\ EncodedSoFar' = EncodedSoFar /\ DecodedSoFar' = DecodedSoFar
      BY <3>1, <3>2 DEF Meant, Encoding, col, Started, EncodedSoFar, DecodedSoFar
    <3> QED BY <3>1, <3>3 DEF PInv, Trip, IsMorse
  <2> QED BY <2>1, <2>2
<1>3. PInv => PolybiusRoundTrip
  BY DEF PInv, Trip, Meant, Letters, PolybiusRoundTrip
<1> QED BY <1>1, <1>2, <1>3, PTL DEF Spec
=============================================================================
