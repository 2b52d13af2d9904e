------------------------------ MODULE MCCipher ------------------------------
(***************************************************************************)
(* A small instance of module Cipher.                                      *)
(***************************************************************************)
EXTENDS Cipher

Upto(n, S) == UNION {[1 .. m -> S] : m \in 0 .. n}

\* E, T, A, S and ?, which leave every remainder of symbols, with their real codes.
MCMorse == [s \in {69, 84, 65, 83, 63} |->
    CASE s = 69 -> <<46>>
      [] s = 84 -> <<45>>
      [] s = 65 -> <<46, 45>>
      [] s = 83 -> <<46, 46, 46>>
      [] s = 63 -> <<46, 46, 45, 45, 46, 46>>]

\* Keys that a cipher takes, and that it refuses: in lower case, with a letter twice.
Key  == <<69, 65, 90>>
Odd  == <<101, 65>>
Same == <<65, 66, 65>>

MorseCommands == {<<Flags.f, Flags.e>>, <<Flags.f, Flags.e, Flags.k, Key>>, <<Flags.f, Flags.e, Flags.k, Same>>}
Number9  == <<57>>
Number11 == <<49, 49>>
Number15 == <<49, 53>>
Number16 == <<49, 54>>
Number17 == <<49, 55>>
PolybiusCommands ==
    {<<Flags.p, Flags.e>> \o options : options \in
        {<<>>, <<Flags.k, Key>>, <<Flags.k, Odd>>, <<Flags.k, Same>>, <<Flags.r>>, <<Flags.e>>,
         <<Flags.c, Number9>>, <<Flags.c, Number9, Flags.r, Number11>>,
         <<Flags.r, Number9, Flags.c, Number15>>, <<Flags.c, Number17>>,
         <<Flags.r, Number16>>, <<Flags.r, Odd>>, <<Flags.k, Key, Flags.k, <<126>>>>}}
OtherCommands ==
    {<<>>, <<Flags.h>>, <<Flags.e>>, <<Flags.f>>, <<Flags.p, Flags.k>>, <<Flags.f, Flags.e, Flags.k>>,
     <<Flags.f, Flags.e, Flags.k, Odd>>}

\* Plain texts and odd ones, among them tabs, characters without a code, and ciphertexts
\* that nobody has written.
MCSessions ==
    ({<<Flags.f, Flags.e>>} \X Upto(5, {69, 65, 83, 32, 10}))
      \cup (MorseCommands \X Upto(3, {69, 83, 63, 84, 35, 126, 32, 10, 9}))
      \cup (PolybiusCommands \X Upto(2, {33, 65, 79, 126, 32, 10, 127}))
      \cup (OtherCommands \X {<<69, 10>>})
      \cup ({<<Flags.p, Flags.d>>} \X Upto(3, {52, 70, 122, 32}))
      \cup ({<<Flags.f, Flags.d>>} \X Upto(4, {65, 67, 89, 32, 10}))
=============================================================================
