----------------------------- MODULE CipherArgs -----------------------------
(***************************************************************************)
(* The command line of the ciphers (shell_parser/src/hw1.c, validargs) and *)
(* the table that main makes of a key (shell_parser/src/main.c).  A        *)
(* character is its code, an argument a sequence of characters.            *)
(***************************************************************************)
EXTENDS Integers, Sequences, SequencesExt

polybius_alphabet == [n \in 1 .. 94 |-> 32 + n]     \* from ! to ~
fm_alphabet       == [n \in 1 .. 26 |-> 64 + n]     \* from A to Z

Flags == [h |-> <<45, 104>>, p |-> <<45, 112>>, f |-> <<45, 102>>, e |-> <<45, 101>>,
          d |-> <<45, 100>>, k |-> <<45, 107>>, r |-> <<45, 114>>, c |-> <<45, 99>>]

\* The bits of a mode; Crash is a null argument that is followed.
Help == 32768
Morse == 16384
Decode == 8192
Invalid == 0
Crash == -1
-----------------------------------------------------------------------------
\* Mutant: a repeated character is overlooked.
ValidKeyRepeats(key, alphabet) == \A n \in DOMAIN key : key[n] \in Range(alphabet)

ValidKey(key, alphabet) ==
    \A n \in DOMAIN key :
        /\ key[n] \in Range(alphabet)
        /\ \A m \in DOMAIN key : m > n => key[n] # key[m]

IsNumber(s) == \A n \in DOMAIN s : s[n] \in 48 .. 57
Number(s) == FoldLeft(LAMBDA v, digit : 10 * v + digit - 48, 0, s)

\* Mutant: the upper bound is not tested.
ValidColumnsUnbounded(s) == IsNumber(s) /\ Number(s) >= 9

ValidColumns(s) == IsNumber(s) /\ Number(s) \in 9 .. 15

\* The lower bound is tested on the columns so far.
ValidRows(s, col) == IsNumber(s) /\ Number(s) \in 0 .. 15 /\ col >= 9

\* One turn of the loop over -r, -c and -k; each may come again.
Option(so, flag, value) ==
    CASE flag = Flags.r /\ ValidRows(value, so.col) -> [so EXCEPT !.row = Number(value)]
      [] flag = Flags.c /\ ValidColumns(value) -> [so EXCEPT !.col = Number(value)]
      [] flag = Flags.k /\ ValidKey(value, polybius_alphabet) -> [so EXCEPT !.key = value]
      [] OTHER -> [so EXCEPT !.ok = FALSE]

\* What the options and their values have set, one after the other.
Parsed(options) ==
    LET so[n \in 0 .. Len(options) \div 2] ==
            IF n = 0 THEN [row |-> 10, col |-> 10, key |-> <<>>, ok |-> TRUE]
            ELSE Option(so[n - 1], options[2 * n - 1], options[2 * n])
    IN  so[Len(options) \div 2]

\* The mode of a Polybius cipher, with the key, from the arguments after -e or -d.
PolybiusMode(options) ==
    LET so   == Parsed(options)
        mode == IF ~so.ok THEN Invalid
                ELSE IF Len(options) % 2 = 1
                THEN IF Last(options) \in {Flags.r, Flags.c, Flags.k} THEN Crash ELSE Invalid
                ELSE IF so.row * so.col < Len(polybius_alphabet) THEN Invalid
                ELSE 16 * so.row + so.col
    IN  [mode |-> mode, key |-> so.key]

MorseMode(options) ==
    CASE Len(options) = 0 -> [mode |-> Morse, key |-> <<>>]
      [] Len(options) = 2 -> [mode |-> IF options[1] = Flags.k /\ ValidKey(options[2], fm_alphabet)
                                       THEN Morse ELSE Invalid,
                              key |-> options[2]]
      [] OTHER -> [mode |-> Invalid, key |-> <<>>]

validargs(args) ==
    LET options == SubSeq(args, 3, Len(args))
        found   == IF args[1] = Flags.p THEN PolybiusMode(options) ELSE MorseMode(options)
        Only(m) == [mode |-> m, key |-> <<>>]
    IN  IF args[1] = Flags.h THEN Only(Help)
        ELSE IF args[1] \notin {Flags.p, Flags.f} THEN Only(Invalid)
        ELSE IF Len(args) = 1 THEN Only(Crash)
        ELSE IF args[2] \notin {Flags.e, Flags.d} THEN Only(Invalid)
        ELSE IF args[2] = Flags.d /\ found.mode \notin {Invalid, Crash}
        THEN [found EXCEPT !.mode = @ + Decode]
        ELSE found
-----------------------------------------------------------------------------
\* The key, and then the letters of the alphabet that are not in it.
KeyTable(key, alphabet) ==
    LET table[n \in 0 .. Len(alphabet)] ==
            IF n = 0 THEN key
            ELSE IF alphabet[n] \in Range(key) THEN table[n - 1]
            ELSE Append(table[n - 1], alphabet[n])
    IN  table[Len(alphabet)]
=============================================================================
