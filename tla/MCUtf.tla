------------------------------- MODULE MCUtf -------------------------------
(***************************************************************************)
(* A small instance of module Utf: texts of at most two code points around *)
(* the places where the encodings change.                                  *)
(***************************************************************************)
EXTENDS Utf

\* Where the length of a code point in utf-8 changes, on both sides of the code
\* points that are kept for surrogates, at the ends of the range, where upper or
\* lower surrogates begin and end, and two with bytes that look like surrogates
\* in the other order.
Edges == {0, \h7F, \h80, \h7FF, \h800, \hD7FF, \hE000, \hFFFD, \hFFFF,
          \h10000, \h103FF, \h10400, \h1F913, \h10FBFF, \h10FFFF, \h01DC, \hDCD7 - \h8000}

EdgeTexts == {<<>>} \union {<<p>> : p \in Edges} \union (Edges \X Edges)

\* Every text with a complete command line; every command line of at most MaxWords
\* words with one text.
Words == {"-e", "-h", "UTF8", "UTF16LE", "in", "out"}
MaxWords == 4

ConversionsAndLines ==
    ({<<"-e", f, "in", "out">> : f \in {"UTF8", "UTF16LE", "UTF16BE"}} \X EdgeTexts)
    \union (BoundedSeq(Words, MaxWords) \X {<<\h1F913>>})
    \union {<<<<"-e", "UTF8", "in", "out", "-x">>, <<>>>>, <<<<"in", "-e", "UTF8", "locked">>, <<>>>>,
            <<<<"in", "-e", "UTF8", "-e", "UTF16BE", "out">>, <<\hE000>>>>,
            <<<<"-e", "UTF8", "in", "out", "out">>, <<>>>>}

\* A text without a mark.
NoMark == <<\h41, \h42, \h43>>

\* Nothing, and bytes that is_lower_surrogate_pair takes for a surrogate.
Stack == {<<0, 0, 0, 0>>, <<\hA5, \hA5, \h05, \hDD>>}
=============================================================================
