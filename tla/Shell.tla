-------------------------------- MODULE Shell -------------------------------
(***************************************************************************)
(* The shell as its user sees it (shell/src/main.c): lines that are typed  *)
(* at the prompt, built-in commands, and what module Pipeline does with    *)
(* the others.  Descriptors that one line leaves open are there when the   *)
(* next one is run.                                                        *)
(***************************************************************************)
EXTENDS Pipeline

CONSTANTS
    Meanings,   \* the commands that a user may have in mind
    OtherLines, \* other lines that may be typed: built-in commands, odd ones
    Dirs, Home, \* the directories, and $HOME
    MaxLines    \* how many lines are typed

CL == INSTANCE CommandLine

ASSUME ShellAssumption ==
    /\ Meanings \subseteq Jobs /\ Home \in Dirs /\ MaxLines \in Nat
    /\ \A l \in OtherLines : CL!stripwhite(l) = l

\* Names are no operators, and a command in mind is one that a line can say: a pipeline
\* of two stages or more, or a command with its files.
ASSUME MeaningsAssumption ==
    /\ Files \cap ({CL!Blank} \cup CL!Operators) = {}
    /\ \A j \in Meanings :
          j.piped => Len(j.stages) > 1 /\ j.input = "none" /\ j.output = "none"

VARIABLES
    cwd, pwd,   \* the current directory; the variable, where the last cd was given
    typed,      \* how many lines have been typed
    meant       \* history: the command that was meant

shellvars == <<vars, cwd, pwd, typed, meant>>
-----------------------------------------------------------------------------
(***************************************************************************)
(* What the user types for a command.                                      *)
(***************************************************************************)
\* The stages with bars between them.
PipeLine(j, bar) ==
    LET step == Len(bar) + 1
    IN  [n \in 1 .. (Len(j.stages) - 1) * step + 1 |->
            IF (n - 1) % step = 0 THEN j.stages[(n - 1) \div step + 1] ELSE bar[(n - 1) % step]]

\* The program with its files, in some order.
CommandWith(j, in1, to1, outFirst) ==
    LET input  == IF j.input = "none" THEN <<>> ELSE in1 \o <<j.input>>
        output == IF j.output = "none" THEN <<>> ELSE to1 \o <<j.output>>
    IN  <<j.stages[1]>> \o (IF outFirst THEN output \o input ELSE input \o output)

\* With blanks around the operators, or with as few as the shell wants.
Lines(j) ==
    IF j.piped THEN {PipeLine(j, <<" ", "|", " ">>), PipeLine(j, <<"|">>)}
    ELSE {CommandWith(j, <<" ", "<", " ">>, <<" ", ">", " ">>, o) : o \in BOOLEAN}
           \cup {CommandWith(j, <<" ", "<">>, <<" ", ">">>, o) : o \in BOOLEAN}

\* No other line has more parts than there are arrays for their words.
ASSUME LinesAssumption ==
    \A line \in OtherLines :
        LET j == CL!parsing_arg(line)
        IN  j \in Job /\ Len(j.stages) \in 1 .. MaxStages
-----------------------------------------------------------------------------
ShellInit ==
    /\ Init
    /\ cwd = Home /\ pwd = Home /\ typed = 0 /\ meant = job

Prompt == pc = "prompt" /\ typed < MaxLines /\ typed' = typed + 1

\* A line that is no built-in command.
External(line, j) ==
    /\ Prompt
    /\ CL!find_command(line) = "null"
    /\ Begin(CL!parsing_arg(line))
    /\ meant' = j
    /\ UNCHANGED <<cwd, pwd>>

\* pwd is set to where the shell is, but by "cd -"; also when chdir fails after that.
com_cd(arg) ==
    LET path == IF arg = <<>> THEN Home ELSE IF arg = <<"-">> THEN pwd
                ELSE IF Len(arg) = 1 THEN arg[1] ELSE "nowhere"
    IN  /\ cwd' = IF path \in Dirs THEN path ELSE cwd
        /\ pwd' = IF arg = <<"-">> THEN pwd ELSE cwd

Cd(line) ==
    /\ Prompt /\ CL!find_command(line) = "cd"
    /\ com_cd(CL!Rest(line))
    /\ UNCHANGED <<vars, meant>>

\* pwd and help print, and so does a line of blanks, which is not run.
Prints(line) ==
    /\ Prompt /\ (CL!find_command(line) \in {"pwd", "help"} \/ line = <<>>)
    /\ UNCHANGED <<vars, cwd, pwd, meant>>

com_exit(line) ==
    /\ Prompt /\ CL!find_command(line) = "exit"
    /\ Leave
    /\ UNCHANGED <<cwd, pwd, meant>>

ShellNext ==
    \/ \E j \in Meanings : \E line \in Lines(j) : External(line, j)
    \/ \E line \in OtherLines :
          \/ line # <<>> /\ External(line, CL!parsing_arg(line))
          \/ Cd(line) \/ Prints(line) \/ com_exit(line)
    \/ JobStep /\ UNCHANGED <<cwd, pwd, typed, meant>>

ShellSpec == ShellInit /\ [][ShellNext]_shellvars /\ Fairness
-----------------------------------------------------------------------------
\* The shell runs what was meant: a pipeline has the stages between its bars, with or
\* without blanks, and a command has its program and its two files, in either order.
RunsWhatIsMeant == job = meant
=============================================================================
