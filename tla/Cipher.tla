------------------------------- MODULE Cipher -------------------------------
(***************************************************************************)
(* The cipher program (shell_parser/src/main.c, and the buffer of hw1.c).  *)
(* One run of it encodes a text and a second one decodes what the first    *)
(* has written, with the same key; or a single run decodes what somebody   *)
(* has typed.  A step is a turn of a loop over the characters of the       *)
(* input, or what is done with one Morse symbol.                           *)
(***************************************************************************)
EXTENDS CipherArgs, FiniteSetsExt

CONSTANTS
    Sessions,   \* command lines, without the name of the program, and inputs
    morse_table \* the Morse code of the characters that have one

Tab == 9
Newline == 10
Blank == 32
White == {Tab, Newline, Blank}

\* The symbols of the buffer, and what pre is set to.
Nul == 0
Dot == 46
Dash == 45
X == 120
Unset == 63

ASSUME CipherAssumption ==
    /\ Sessions \subseteq Seq(Seq(1 .. 127)) \X Seq(1 .. 127)
    /\ DOMAIN morse_table \subseteq 33 .. 90
    /\ \A s \in DOMAIN morse_table : /\ morse_table[s] \in Seq({Dot, Dash})
                                     /\ Len(morse_table[s]) \in 1 .. 6
    /\ \A s, t \in DOMAIN morse_table : morse_table[s] = morse_table[t] => s = t

VARIABLES
    args, text,         \* history: the command line and the input of the first run
    pc,                 \* where the program is, or how it ended
    mode, table,        \* validargs's result; polybius_table or fm_key
    input, output,
    todo,               \* the symbols of the character at hand that are not done yet
    pre, newline_flag,
    buffer, buffer_number, write_flag, read_flag,
    symbols, letters    \* history: the symbols of this line, the letters they have become

ring == <<buffer, buffer_number, write_flag, read_flag>>
run  == <<args, text, mode, table>>
line == <<symbols, letters>>
vars == <<run, pc, input, output, todo, pre, newline_flag, ring, line>>

col == mode % 16
IsMorse(m) == m \div Morse % 2 = 1
IsDecode(m) == m \div Decode % 2 = 1

Empty == [n \in 0 .. 7 |-> Nul]
clean_buffer == buffer' = Empty /\ buffer_number' = 0 /\ write_flag' = 0 /\ read_flag' = 0

\* The program starts with arguments a; only its results in these cases are of interest.
main(a, in) ==
    LET valid == IF a = <<>> THEN [mode |-> Invalid, key |-> <<>>] ELSE validargs(a)
    IN  /\ input' = in /\ output' = <<>> /\ todo' = <<>>
        /\ mode' = valid.mode
        /\ table' = KeyTable(valid.key, IF IsMorse(valid.mode) THEN fm_alphabet
                                                               ELSE polybius_alphabet)
        /\ pc' = CASE valid.mode = Crash   -> "crashed"
                   [] valid.mode = Help    -> "help"
                   [] valid.mode = Invalid -> "failed"
                   [] OTHER -> IF IsDecode(valid.mode) THEN "decode" ELSE "encode"
        /\ pre' = Unset /\ newline_flag' = FALSE
        /\ clean_buffer
        /\ symbols' = <<>> /\ letters' = <<>>

Init ==
    /\ pc = "start"
    /\ args = <<>> /\ text = <<>> /\ mode = Invalid /\ table = <<>>
    /\ input = <<>> /\ output = <<>> /\ todo = <<>>
    /\ pre = Unset /\ newline_flag = FALSE
    /\ buffer = Empty /\ buffer_number = 0 /\ write_flag = 0 /\ read_flag = 0
    /\ symbols = <<>> /\ letters = <<>>

Start(a, in) ==
    /\ pc = "start"
    /\ args' = a /\ text' = in
    /\ main(a, in)

\* A turn of a loop begins.
Turn(phase, morse) == pc = phase /\ IsMorse(mode) = morse /\ todo = <<>> /\ input # <<>>

\* There is no more input; what has been encoded is decoded next.
EndOfInput ==
    /\ pc \in {"encode", "decode"} /\ todo = <<>> /\ input = <<>>
    /\ IF pc = "encode" THEN main([args EXCEPT ![2] = Flags.d], output) /\ UNCHANGED <<args, text>>
       ELSE pc' = "done" /\ UNCHANGED <<run, input, output, todo, pre, newline_flag, ring, line>>
-----------------------------------------------------------------------------
(***************************************************************************)
(* Polybius.                                                               *)
(***************************************************************************)
\* printf's %X and how it is read.
Hex(n) == (IF n < 16 THEN <<>> ELSE <<n \div 16>>) \o <<n % 16>>
Digits(n) == [m \in DOMAIN Hex(n) |-> Hex(n)[m] + (IF Hex(n)[m] < 10 THEN 48 ELSE 55)]
Value(ch) == ch - (IF ch \in 48 .. 57 THEN 48 ELSE 55)

\* A cell, counted from 0, is written as its row and its column.
Cell(n) == Digits(n \div col) \o Digits(n - (n \div col) * col)

PolybiusQuiet == UNCHANGED <<run, todo, pre, newline_flag, ring, line>>

\* White space is copied.  The search for a character that is in no cell leaves the table.
PolybiusEncode ==
    /\ Turn("encode", FALSE)
    /\ LET ch == Head(input)
       IN  IF ch \in Range(table) \/ ch \in White
           THEN /\ output' = output \o (IF ch \in White THEN <<ch>>
                                        ELSE Cell(Min({n \in DOMAIN table : table[n] = ch}) - 1))
                /\ UNCHANGED pc
           ELSE pc' = "undefined" /\ UNCHANGED output
    /\ input' = Tail(input)
    /\ PolybiusQuiet

\* Two characters make a cell, of the 257 that there are; EOF is the second of the last one
\* alone.  White space in second place is lost, and its value as a digit printed.
PolybiusDecode ==
    /\ Turn("decode", FALSE)
    /\ LET first  == Head(input)
           second == IF Len(input) = 1 THEN -1 ELSE input[2]
           n      == Value(first) * col + Value(second)
       IN  IF first \in White
           THEN input' = Tail(input) /\ output' = Append(output, first) /\ UNCHANGED pc
           ELSE /\ input' = SubSeq(input, 3, Len(input))
                /\ IF second \in White
                   THEN output' = Append(output, Value(second) % 256) /\ UNCHANGED pc
                   ELSE IF n \in 0 .. 256
                   THEN /\ output' = Append(output, IF n < Len(table) THEN table[n + 1] ELSE Nul)
                        /\ UNCHANGED pc
                   ELSE pc' = "undefined" /\ UNCHANGED output
    /\ PolybiusQuiet
-----------------------------------------------------------------------------
(***************************************************************************)
(* Fractionated Morse.                                                     *)
(***************************************************************************)
\* fractionated_table: the triples of symbols, in lexical order; xxx would be the 26th.
Symbol(n) == IF n = 0 THEN Dot ELSE IF n = 1 THEN Dash ELSE X
Triple(n) == <<Symbol(n \div 9), Symbol(n \div 3 % 3), Symbol(n % 3)>>

\* A blank ends a word and a newline a line, unless the last character did; a character
\* without a code, for which the code has a test that is never true, is an x.
MorseEncode ==
    /\ Turn("encode", TRUE)
    /\ LET temp == Head(input)
       IN  IF temp \in White
           THEN /\ todo' = (IF pre \notin {Blank, Newline} /\ temp # Tab THEN <<X>> ELSE <<>>)
                              \o (IF temp = Newline THEN <<Newline>> ELSE <<>>)
                /\ pc' = pc
           ELSE IF temp \notin 33 .. 122 THEN pc' = "failed" /\ todo' = <<>>
           ELSE /\ todo' = (IF temp \in DOMAIN morse_table THEN morse_table[temp] ELSE <<>>) \o <<X>>
                /\ pc' = pc
    /\ pre' = Head(input)
    /\ input' = Tail(input)
    /\ UNCHANGED <<run, output, newline_flag, ring, line>>

\* Mutant: the slots are taken from the beginning of the buffer.
SlotsFromStart(b) == <<b[0], b[1], b[2]>>

\* The three oldest symbols.
Slots(b) == <<b[read_flag], b[(read_flag + 1) % 8], b[(read_flag + 2) % 8]>>

write_buffer(symbol) ==
    /\ buffer' = [buffer EXCEPT ![write_flag] = symbol]
    /\ write_flag' = (write_flag + 1) % 8

\* A symbol is written to the buffer, and three become a letter.
EncodeSymbol ==
    /\ pc = "encode" /\ todo # <<>> /\ Head(todo) # Newline
    /\ write_buffer(Head(todo))
    /\ symbols' = Append(symbols, Head(todo))
    /\ IF buffer_number < 2
       THEN buffer_number' = buffer_number + 1 /\ UNCHANGED <<pc, output, read_flag, letters>>
       ELSE IF \E n \in 0 .. 25 : Triple(n) = Slots(buffer')
       THEN LET n == CHOOSE n \in 0 .. 25 : Triple(n) = Slots(buffer')
            IN  /\ output' = Append(output, table[n + 1])
                /\ letters' = Append(letters, n)
                /\ buffer_number' = buffer_number - 2
                /\ read_flag' = (read_flag + 3) % 8
                /\ UNCHANGED pc
       ELSE /\ pc' = "failed" /\ buffer_number' = buffer_number + 1
            /\ UNCHANGED <<output, read_flag, letters>>
    /\ todo' = Tail(todo)
    /\ UNCHANGED <<run, input, pre, newline_flag>>

\* A newline drops the symbols that are left.
EncodeNewline ==
    /\ pc = "encode" /\ todo = <<Newline>>
    /\ output' = Append(output, Newline) /\ todo' = <<>>
    /\ clean_buffer /\ symbols' = <<>> /\ letters' = <<>>
    /\ UNCHANGED <<run, pc, input, pre, newline_flag>>

\* print_buffer_decode: the character with the code that is in the buffer, if there is one.
Decoded(b) ==
    LET ends == {n \in 0 .. 7 : b[n] = Nul} \cup {8}
        code == [n \in 1 .. Min(ends) |-> b[n - 1]]
    IN  SetToSeq({s \in DOMAIN morse_table : morse_table[s] = code})

MorseDecode ==
    /\ Turn("decode", TRUE)
    /\ LET temp == Head(input)
       IN  IF temp = Newline
           THEN /\ output' = output \o (IF buffer[0] # Nul THEN Decoded(buffer) ELSE <<>>)
                                    \o <<Newline>>
                /\ clean_buffer /\ UNCHANGED <<pc, todo>>
           ELSE /\ IF temp \in Range(table)
                   THEN /\ todo' = Triple(Min({n \in DOMAIN table : table[n] = temp}) - 1)
                        /\ UNCHANGED pc
                   ELSE pc' = "undefined" /\ UNCHANGED todo
                /\ UNCHANGED <<output, ring>>
    /\ newline_flag' = (Len(input) > 1 /\ input[2] = Newline)
    /\ input' = Tail(input)
    /\ UNCHANGED <<run, pre, line>>

\* An x ends a character; a second one is a blank, but for the last triple of a line.
DecodeSymbol ==
    /\ pc = "decode" /\ todo # <<>>
    /\ IF Head(todo) = X
       THEN IF pre = X /\ ~newline_flag
            THEN output' = Append(output, Blank) /\ UNCHANGED ring
            ELSE /\ output' = output \o Decoded([buffer EXCEPT ![write_flag] = Nul])
                 /\ clean_buffer
       ELSE /\ write_buffer(Head(todo)) /\ buffer_number' = buffer_number + 1
            /\ UNCHANGED <<output, read_flag>>
    /\ pre' = Head(todo)
    /\ todo' = Tail(todo)
    /\ UNCHANGED <<run, pc, input, newline_flag, line>>
-----------------------------------------------------------------------------
Next ==
    \/ \E session \in Sessions : Start(session[1], session[2])
    \/ PolybiusEncode \/ PolybiusDecode
    \/ MorseEncode \/ EncodeSymbol \/ EncodeNewline \/ MorseDecode \/ DecodeSymbol
    \/ EndOfInput

Spec == Init /\ [][Next]_vars
-----------------------------------------------------------------------------
(***************************************************************************)
(* Properties.                                                             *)
(***************************************************************************)
\* Symbols s are those of letters l, and then the k in buffer b from slot r on.
Exact(s, l, b, r, k) ==
    /\ Len(s) = 3 * Len(l) + k
    /\ \A n \in 1 .. Len(s) :
          s[n] = IF n <= 3 * Len(l) THEN Triple(l[(n + 2) \div 3])[((n - 1) % 3) + 1]
                 ELSE b[(r + n - 1 - 3 * Len(l)) % 8]

\* The buffer of eight slots is a queue, however often its ends have gone round: the
\* symbols of the line are those of the letters that have been printed and then those in
\* the slots from read_flag on, of which there are at most two between two symbols.
RingExact ==
    (pc = "encode" /\ IsMorse(mode)) =>
        /\ buffer_number \in 0 .. 2
        /\ write_flag = (read_flag + buffer_number) % 8
        /\ Exact(symbols, letters, buffer, read_flag, buffer_number)

Encoding(cipher) == args # <<>> /\ Len(args) >= 2 /\ args[1] = cipher /\ args[2] = Flags.e

\* Every text in the characters of the alphabet, with white space, comes back, with every
\* command line that validargs accepts: no key makes two cells of one character, and a row
\* and a column are one digit each.
PolybiusRoundTrip ==
    (Encoding(Flags.p) /\ Range(text) \subseteq Range(polybius_alphabet) \cup White) =>
        /\ pc # "undefined"
        /\ pc = "done" => output = text

\* Lines of words with one blank between them, in characters that have a code.
Plain ==
    /\ Range(text) \subseteq DOMAIN morse_table \cup {Blank, Newline}
    /\ text # <<>> => Last(text) = Newline
    /\ \A n \in DOMAIN text : text[n] = Blank =>
          n > 1 /\ text[n - 1] \notin White /\ text[n + 1] \notin White

\* How many symbols places m to n of the text become.
Count(m, n) ==
    MapThenSumSet(LAMBDA l : IF text[l] \in White THEN 1 ELSE Len(morse_table[text[l]]) + 1, m .. n)

\* The blank before the last word of a line, when the x that it becomes is in the last
\* triple of the line: the word has one or two symbols.
Lost(n) ==
    LET end   == Min({m \in n .. Len(text) : text[m] = Newline})
        start == Max({m \in 1 .. n : m = 1 \/ text[m - 1] = Newline})
    IN  /\ text[n] = Blank /\ \A m \in n + 1 .. end : text[m] # Blank
        /\ Count(n + 1, end) < 3 + (Count(start, end) % 3)

\* Every plain text is encoded and comes back: no letter is lost to the symbols that are
\* dropped at the end of a line, and no blank but the ones that are Lost.
MorseRoundTrip ==
    (pc \in {"done", "failed", "undefined"} /\ Encoding(Flags.f) /\ Plain) =>
        /\ pc = "done" \/ mode = Invalid
        /\ pc = "done" =>
             LET kept == SelectSeq([n \in DOMAIN text |-> n], LAMBDA n : ~Lost(n))
             IN  output = [n \in DOMAIN kept |-> text[kept[n]]]
=============================================================================
