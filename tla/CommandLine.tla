---------------------------- MODULE CommandLine -----------------------------
(***************************************************************************)
(* How the shell reads a line (shell/src/main.c: stripwhite, find_command, *)
(* the first half of execute_line, parsing_arg).  A line is a sequence of  *)
(* characters: blanks, the operators, and names, each of which stands for  *)
(* a run of ordinary characters.                                           *)
(***************************************************************************)
EXTENDS Naturals, Sequences, FiniteSetsExt

CONSTANTS Programs, Files   \* the names that are known

Blank == " "
Operators == {"|", "<", ">"}
Builtins == {"cd", "pwd", "help", "exit"}

Places(s, c) == {n \in DOMAIN s : s[n] = c}
Has(s, c) == Places(s, c) # {}

\* strsep, one call after the other: each cuts at the next place of a character, the
\* last one at the end.
Fields(s, c) ==
    LET calls == Cardinality(Places(s, c)) + 1
        cut[n \in 0 .. calls] ==
            IF n = 0 THEN 0 ELSE Min({m \in Places(s, c) \cup {Len(s) + 1} : m > cut[n - 1]})
    IN  [n \in 1 .. calls |-> SubSeq(s, cut[n - 1] + 1, cut[n] - 1)]

\* The words that are kept, in order.
NonEmpty(words) ==
    LET kept[n \in 0 .. Len(words)] ==
            IF n = 0 THEN <<>>
            ELSE IF words[n] = <<>> THEN kept[n - 1] ELSE Append(kept[n - 1], words[n])
    IN  kept[Len(words)]

stripwhite(s) ==
    LET inked == {n \in DOMAIN s : s[n] # Blank}
    IN  IF inked = {} THEN <<>> ELSE SubSeq(s, Min(inked), Max(inked))

\* The word before the first blank, and the rest without the blanks before it.
Word(s) == IF Has(s, Blank) THEN SubSeq(s, 1, Min(Places(s, Blank)) - 1) ELSE s
Rest(s) == stripwhite(SubSeq(s, Len(Word(s)) + 1, Len(s)))

find_command(s) == IF \E b \in Builtins : Word(s) = <<b>> THEN Word(s)[1] ELSE "null"

\* What exec and open make of words: an empty argv and unknown names are not found.
ProgramOf(words) ==
    IF words # <<>> /\ words[1] \in {<<p>> : p \in Programs} THEN words[1][1] ELSE "missing"
FileOf(s) ==
    LET name == stripwhite(s) IN IF name \in {<<f>> : f \in Files} THEN name[1] ELSE "none"

\* The words before the first one that holds an operator.
com_argv(s) ==
    LET words == Fields(s, Blank)
        ends  == {n \in DOMAIN words : \E o \in Operators : Has(words[n], o)}
    IN  NonEmpty(IF ends = {} THEN words ELSE SubSeq(words, 1, Min(ends) - 1))

\* Mutant of Operand: the text up to the end of the line.
OperandToEnd(s, o) ==
    IF ~Has(s, o) THEN "none" ELSE FileOf(SubSeq(s, Min(Places(s, o)) + 1, Len(s)))

\* What follows the first < or > up to the first of the other one, or to the end.
Operand(s, o) ==
    LET at    == Min(Places(s, o))
        other == Min(Places(s, IF o = "<" THEN ">" ELSE "<") \cup {Len(s) + 1})
    IN  IF ~Has(s, o) THEN "none"
        ELSE FileOf(SubSeq(s, at + 1, IF other > at THEN other - 1 ELSE Len(s)))

\* In a pipeline < and > are words like others.
parsing_arg(s) ==
    IF Has(s, "|")
    THEN [stages |-> [n \in DOMAIN Fields(s, "|") |->
                         ProgramOf(NonEmpty(Fields(Fields(s, "|")[n], Blank)))],
          input |-> "none", output |-> "none", piped |-> TRUE]
    ELSE [stages |-> <<ProgramOf(com_argv(s))>>,
          input |-> Operand(s, "<"), output |-> Operand(s, ">"), piped |-> FALSE]
=============================================================================
