-------------------------------- MODULE Utf --------------------------------
(***************************************************************************)
(* The converter between utf-8, utf-16le and utf-16be                      *)
(* (utf8_utf16_transform/src: main.c, args.c, utf.c, utf8.c, utf16le.c,    *)
(* utf16be.c) on a little-endian machine.  One step reads one word of the  *)
(* command line or is one turn of a conversion loop.                       *)
(***************************************************************************)
EXTENDS Glyphs, FiniteSetsExt, SequencesExt

CONSTANTS
    Sessions,   \* the command lines, each with the text that the file "in" holds
    Existing,   \* what the file "out" holds
    MaxCut,     \* how many bytes an input file may lack at its end
    Leftovers   \* what the stack may hold where a conversion puts its buffer

U == INSTANCE Unicode

Byte == 0 .. 255

ASSUME UtfAssumption ==
    /\ \A s \in Sessions : /\ s[1] \in Seq(STRING) /\ s[2] \in Seq(Nat)
                           /\ \A i \in DOMAIN s[2] : U!IsScalar(s[2][i])
    /\ Existing \in Seq(Byte) /\ \A f \in U!Formats : ~IsPrefix(U!Mark(f), Existing)
    /\ MaxCut \in Nat
    /\ Leftovers \subseteq [1 .. 4 -> Byte]

VARIABLES
    pc,                 \* "args", "check", "open", "begin" or "loop"; at the end "done",
                        \* "exit", "crash", or "same" when the output is the input
    argv,               \* the words of the command line that are left
    in_file, out_file,  \* the names of the two files, or "none"
    encoding_from, encoding_to,
    infile, outfile,    \* the bytes of the files "in" and "out"
    pos,                \* how many bytes of infile have been read
    buf,                \* the conversion's buffer
    points,             \* the text of which infile is the beginning
    stack               \* what the stack held: history, for Paired

line == <<argv, in_file, out_file>>
vars == <<pc, line, encoding_from, encoding_to, infile, outfile, pos, buf, points, stack>>
-----------------------------------------------------------------------------
(***************************************************************************)
(* Memory.                                                                 *)
(***************************************************************************)
After(n) == Min({pos + n, Len(infile)})

\* The buffer when the bytes of infile after skip more ones, n at most, are read
\* into it at a place.
Read(mem, at, skip, n) ==
    LET bytes == SubSeq(infile, pos + skip + 1, Min({pos + skip + n, Len(infile)}))
    IN  [i \in 1 .. 4 |-> IF i - at \in DOMAIN bytes THEN bytes[i - at] ELSE mem[i]]

reverse_bytes(mem, at) == [mem EXCEPT ![at + 1] = mem[at + 2], ![at + 2] = mem[at + 1]]
-----------------------------------------------------------------------------
(***************************************************************************)
(* The program.                                                            *)
(***************************************************************************)
\* The file is a text in some encoding, whole or cut short.
Init ==
    /\ \E s \in Sessions : argv = s[1] /\ points = s[2]
    /\ \E f \in U!Formats, cut \in 0 .. MaxCut :
          LET text == U!Text(f, points) IN infile = SubSeq(text, 1, Len(text) - cut)
    /\ pc = "args" /\ in_file = "none" /\ out_file = "none"
    /\ encoding_from = "none" /\ encoding_to = "none"
    /\ outfile = Existing /\ pos = 0
    /\ stack \in Leftovers /\ buf = stack

Parsing == pc = "args" /\ argv # <<>>

\* What an option is given.
Value == IF Len(argv) > 1 THEN argv[2] ELSE "none"

\* -e and a format, each time it is given.
Encoding ==
    /\ Parsing /\ Head(argv) = "-e"
    /\ Value \in U!Formats
    /\ encoding_to' = Value /\ argv' = SubSeq(argv, 3, Len(argv))
    /\ UNCHANGED <<pc, in_file, out_file, encoding_from, infile, outfile, pos, buf, points, stack>>

Options == {"-e", "-h", "-x"}

\* Mutant of Positional: the output is opened as soon as it is named.
PositionalOpens ==
    /\ Parsing /\ Head(argv) \notin Options
    /\ \/ in_file = "none" /\ in_file' = Head(argv) /\ UNCHANGED <<out_file, outfile>>
       \/ /\ in_file # "none" /\ out_file = "none" /\ UNCHANGED in_file
          /\ out_file' = Head(argv)
          /\ outfile' = IF out_file' = "out" THEN <<>> ELSE outfile
    /\ argv' = Tail(argv)
    /\ UNCHANGED <<pc, encoding_from, encoding_to, infile, pos, buf, points, stack>>

\* The first word that is no option names the input, the second the output.
Positional ==
    /\ Parsing /\ Head(argv) \notin Options
    /\ \/ in_file = "none" /\ in_file' = Head(argv) /\ UNCHANGED out_file
       \/ in_file # "none" /\ out_file = "none" /\ out_file' = Head(argv) /\ UNCHANGED in_file
    /\ argv' = Tail(argv)
    /\ UNCHANGED <<pc, encoding_from, encoding_to, infile, outfile, pos, buf, points, stack>>

\* The usage, for -h and for what cannot be understood.
Usage ==
    /\ Parsing
    /\ \/ Head(argv) \in Options \ {"-e"}
       \/ Head(argv) = "-e" /\ Value \notin U!Formats
       \/ Head(argv) \notin Options /\ out_file # "none"
    /\ pc' = "exit"
    /\ UNCHANGED <<line, encoding_from, encoding_to, infile, outfile, pos, buf, points, stack>>

EndOfArgs ==
    /\ pc = "args" /\ argv = <<>>
    /\ pc' = "check"
    /\ UNCHANGED <<line, encoding_from, encoding_to, infile, outfile, pos, buf, points, stack>>

\* The files; any other name cannot be opened.
Content(name) == CASE name = "in" -> infile [] name = "out" -> outfile [] OTHER -> <<>>

check_bom ==
    /\ pc = "check"
    /\ LET marked == {f \in U!Formats : IsPrefix(U!Mark(f), Content(in_file))}
           short == Len(Content(in_file)) < 3
       IN  \/ ~short /\ encoding_from' \in marked /\ pc' = "open"
           \/ (short \/ marked = {}) /\ pc' = "exit" /\ UNCHANGED encoding_from
    /\ UNCHANGED <<line, encoding_to, infile, outfile, pos, buf, points, stack>>

\* The output is emptied when it is opened, also when it is the input, whose bytes
\* are then those that the conversion writes, which is not followed here; and also
\* when there is no conversion to call.
OpenFiles ==
    /\ pc = "open"
    /\ \/ out_file = "out" /\ in_file = "in"
          /\ outfile' = <<>> /\ UNCHANGED infile
          /\ pc' = IF encoding_to = "none" THEN "crash" ELSE "begin"
       \/ out_file = in_file /\ infile' = <<>> /\ pc' = "same" /\ UNCHANGED outfile
       \/ out_file \notin {"in", "out"} /\ pc' = "exit" /\ UNCHANGED <<infile, outfile>>
    /\ UNCHANGED <<line, encoding_from, encoding_to, pos, buf, points, stack>>

transcribe ==
    /\ pc = "begin" /\ encoding_from = encoding_to
    /\ outfile' = infile /\ pc' = "done"
    /\ UNCHANGED <<line, encoding_from, encoding_to, infile, pos, buf, points, stack>>

\* The conversions write a mark and read one; those from UTF-16 read it into the
\* buffer.
Begin ==
    /\ pc = "begin" /\ encoding_from # encoding_to
    /\ outfile' = U!Mark(encoding_to)
    /\ pos' = Len(U!Mark(encoding_from))
    /\ buf' = IF encoding_from = "UTF8" THEN buf ELSE Read(buf, 0, 0, 2)
    /\ pc' = "loop"
    /\ UNCHANGED <<line, encoding_from, encoding_to, infile, points, stack>>

Turn == pc = "loop" /\ pos < Len(infile)

\* Bytes that a cut file does not give are those of the glyph before.
FromUtf8 ==
    /\ Turn /\ encoding_from = "UTF8"
    /\ LET first == Read(buf, 0, 0, 1)
           rest == remaining_utf8_bytes(first[1])
           glyph == Read(first, 1, 1, rest)
           p == utf8_decode(glyph, rest + 1)
       IN  /\ buf' = glyph
           /\ pos' = After(1 + rest)
           /\ outfile' = outfile \o (IF encoding_to = "UTF16LE" THEN code_point_to_utf16le_glyph(p)
                                     ELSE code_point_to_utf16be_glyph(p))
    /\ UNCHANGED <<pc, line, encoding_from, encoding_to, infile, points, stack>>

\* The unit that is read into one half of the buffer, as a number in memory.
ReadUnit(mem, at, skip) ==
    LET read == Read(mem, at, skip, 2)
    IN  IF encoding_from = "UTF16BE" THEN reverse_bytes(read, at) ELSE read

ToUtf8 ==
    /\ Turn /\ encoding_from # "UTF8" /\ encoding_to = "UTF8"
    /\ LET upper == ReadUnit(buf, 0, 0)
           pair == is_upper_surrogate_pair(upper)
           glyph == IF pair THEN ReadUnit(upper, 2, 2) ELSE upper
       IN  /\ outfile' = outfile \o code_point_to_utf8_glyph(utf16_glyph_to_code_point(glyph))
           /\ pos' = IF pair THEN After(4) ELSE After(2)
    /\ buf' = [i \in 1 .. 4 |-> 0]
    /\ UNCHANGED <<pc, line, encoding_from, encoding_to, infile, points, stack>>

\* Between the two orders of UTF-16 the loop decides whether a second unit follows
\* by what lower_bytes holds from before.  From big to little endian it then ends
\* when it has read a second unit.
Swap ==
    /\ Turn /\ {encoding_from, encoding_to} = {"UTF16LE", "UTF16BE"}
    /\ LET upper == reverse_bytes(Read(buf, 0, 0, 2), 0)
           both == reverse_bytes(Read(upper, 2, 2, 2), 2)
       IN  \/ /\ ~is_lower_surrogate_pair(upper)
              /\ buf' = upper /\ pos' = After(2) /\ UNCHANGED pc
              /\ outfile' = outfile \o SubSeq(upper, 1, 2)
           \/ /\ is_lower_surrogate_pair(upper)
              /\ encoding_from = "UTF16BE" => After(2) = Len(infile)
              /\ buf' = both /\ pos' = After(4) /\ UNCHANGED pc
              /\ outfile' = outfile \o both
           \/ /\ is_lower_surrogate_pair(upper)
              /\ encoding_from = "UTF16BE" /\ After(2) < Len(infile)
              /\ buf' = Read(upper, 2, 2, 2) /\ pos' = After(4) /\ pc' = "done"
              /\ UNCHANGED outfile
    /\ UNCHANGED <<line, encoding_from, encoding_to, infile, points, stack>>

EndOfFile ==
    /\ pc = "loop" /\ pos = Len(infile)
    /\ pc' = "done"
    /\ UNCHANGED <<line, encoding_from, encoding_to, infile, outfile, pos, buf, points, stack>>

Next == Encoding \/ Positional \/ Usage \/ EndOfArgs \/ check_bom \/ OpenFiles
        \/ transcribe \/ Begin \/ FromUtf8 \/ ToUtf8 \/ Swap \/ EndOfFile

Spec == Init /\ [][Next]_vars
-----------------------------------------------------------------------------
(***************************************************************************)
(* Properties.                                                             *)
(***************************************************************************)
TypeOK ==
    /\ pc \in {"args", "check", "open", "begin", "loop", "done", "exit", "crash", "same"}
    /\ argv \in Seq(STRING) /\ in_file \in STRING /\ out_file \in STRING
    /\ encoding_from \in U!Formats \union {"none"}
    /\ encoding_to \in U!Formats \union {"none"}
    /\ infile \in Seq(Byte) /\ outfile \in Seq(Byte)
    /\ pos \in 0 .. Len(infile)
    /\ buf \in [1 .. 4 -> Byte] /\ stack \in Leftovers

\* The texts that the code converts: to utf-8, the comparisons of
\* is_upper_surrogate_pair leave out the first and the last upper surrogate.
Convertible ==
    encoding_from = "UTF8" \/ encoding_to # "UTF8" \/
        \A i \in DOMAIN points : points[i] \notin (\h10000 .. \h103FF) \union (\h10FC00 .. \h10FFFF)

\* What the stack held makes Swap take units in pairs.
Paired == encoding_from # "UTF8" /\ encoding_to # "UTF8" /\ is_lower_surrogate_pair(stack)

\* As far as the input has been read, up to its last complete character, the output
\* is the same text in the other encoding, whatever the stack held and wherever the
\* input is cut; at the end of a character it is nothing else.  Where Swap takes
\* units in pairs, the output may be too short or have a unit too many.
Converts ==
    LET read(n) == U!Text(encoding_from, SubSeq(points, 1, n))
        written(n) == U!Text(encoding_to, SubSeq(points, 1, n))
        used == IF encoding_from = encoding_to THEN Len(infile) ELSE pos
    IN  pc \in {"loop", "done"} /\ Convertible =>
            \A n \in 0 .. Len(points) :
               Len(read(n)) <= used =>
                  IF Paired
                  THEN LET least == Min({Len(written(n)), Len(outfile)})
                       IN  SubSeq(outfile, 1, least) = SubSeq(written(n), 1, least)
                  ELSE /\ SubSeq(outfile, 1, Len(written(n))) = written(n)
                       /\ Len(read(n)) = used => outfile = written(n)

\* A session that ends with the usage or a failure leaves the output file as it
\* was: the code opens it, and so empties it, only when the whole command line has
\* been understood and the input has been found to begin with a mark.
FailureKeepsOutput == pc = "exit" => outfile = Existing
=============================================================================
