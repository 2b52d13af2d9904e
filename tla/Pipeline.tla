------------------------------ MODULE Pipeline ------------------------------
(***************************************************************************)
(* What the shell does with a parsed command line (shell/src/main.c, the   *)
(* second half of execute_line, and pipe_proc).  For a pipeline it makes a *)
(* pipe and a child for every stage in turn and waits for all of them; for *)
(* a single command it makes one child, which opens the files it is        *)
(* redirected to.  Descriptors are numbers, the kernel gives the lowest    *)
(* ones that are free, and a child inherits all that the shell has open.   *)
(*                                                                         *)
(* Stage s runs in process s; the shell is process -1.  The programs, the  *)
(* pipes and the files are external: a source writes units of data and     *)
(* exits, a filter copies its input to the end, a head copies one unit and *)
(* exits; exec does not find a missing one.                                *)
(***************************************************************************)
EXTENDS Integers, Sequences, FiniteSets

CONSTANTS
    Jobs,       \* the parsed command lines
    Files,      \* the names of files
    ReadOnly,   \* those that cannot be opened for writing
    Units,      \* what a source writes: 1 .. Units
    PipeSize,   \* how many units a pipe holds
    MaxStages,  \* how many stages a line may have: there are ten com_argv_pipe arrays
    MaxFd,      \* how many descriptors a process may have
    MaxNoise    \* how often a second shell is followed round its loop

Programs == {"source", "filter", "head", "missing"}

Job == [stages : Seq(Programs), input : Files \cup {"none"},
        output : Files \cup {"none"}, piped : BOOLEAN]

ASSUME PipelineAssumption ==
    /\ Jobs \subseteq Job
    /\ \A j \in Jobs : Len(j.stages) \in 1 .. MaxStages /\ (~j.piped => Len(j.stages) = 1)
    /\ "none" \notin Files /\ ReadOnly \subseteq Files
    /\ Units \in Nat /\ PipeSize \in Nat \ {0}
    /\ MaxStages \in 1 .. 10 /\ MaxFd \in Nat /\ MaxFd >= 5 /\ MaxNoise \in Nat

VARIABLES
    job,
    pc, i, in, fd,  \* the shell: where it is, and its variables; fd[1] is fd[0] in C
    fds,            \* fds[p][n]: what descriptor n of process p stands for
    state,          \* of a stage: "none", "forked", "running", "shell", "zombie", "reaped"
    stack,          \* of a stage: the in and fd it has from the shell
    held, sent,     \* of a stage: what it has read and not written; how often it wrote
    data,           \* the units in each pipe
    content,        \* the units in each file, or Absent
    taken,          \* how many units of its file a single command has read
    out,            \* the units that this job has written to the terminal
    made, room,     \* history: the pipe of each stage; free descriptors at the start
    failed          \* history: a fork failed

shell  == <<pc, i, in, fd>>
stages == <<state, stack, held, sent, taken>>
world  == <<data, content, out>>
history == <<made, room, failed>>
vars   == <<job, shell, fds, stages, world, history>>

Shell  == -1
Stages == 0 .. MaxStages - 1
Processes == Stages \cup {Shell}
Last   == Len(job.stages) - 1
Program(s) == job.stages[s + 1]

Numbers == 0 .. MaxFd - 1
Pipes   == 0 .. MaxFd + MaxStages
NoPipe  == -1
Absent  == <<-1>>

\* What a descriptor may stand for.
Free   == <<"free", "none">>
Tty    == <<"tty", "none">>
R(k)   == <<"read", k>>
W(k)   == <<"write", k>>
From(f) == <<"from", f>>
To(f)   == <<"to", f>>

Holders(e) == {p \in Processes : \E n \in Numbers : fds[p][n] = e}
InUse(k) == Holders(R(k)) \cup Holders(W(k)) # {}
Unused(table) == {n \in Numbers : table[n] = Free}
Lowest(S) == CHOOSE n \in S : \A m \in S : n <= m

\* close, dup2 and open on a table of descriptors; those that fail change nothing.
Close(table, n) == [m \in Numbers |-> IF m = n THEN Free ELSE table[m]]
Dup2(table, n, m) ==
    IF n \in Numbers /\ table[n] # Free THEN [table EXCEPT ![m] = table[n]] ELSE table
Redirect(table, e, m) ==
    IF Unused(table) = {} THEN table
    ELSE LET n == Lowest(Unused(table)) IN Close(Dup2([table EXCEPT ![n] = e], n, m), n)
-----------------------------------------------------------------------------
(***************************************************************************)
(* The shell.                                                              *)
(***************************************************************************)
Init ==
    /\ job = [stages |-> <<>>, input |-> "none", output |-> "none", piped |-> FALSE]
    /\ pc = "prompt" /\ i = 0 /\ in = 0 /\ fd = <<-1, -1>>
    /\ fds = [p \in Processes |-> [n \in Numbers |-> IF p = Shell /\ n < 3 THEN Tty ELSE Free]]
    /\ state = [s \in Stages |-> "none"]
    /\ stack = [s \in Stages |-> [in |-> 0, fd |-> <<-1, -1>>]]
    /\ held = [s \in Stages |-> <<>>] /\ sent = [s \in Stages |-> 0] /\ taken = 0
    /\ data = [k \in Pipes |-> <<>>] /\ out = <<>>
    /\ content \in [Files -> {Absent, <<1, 2>>}]
    /\ made = [s \in Stages |-> NoPipe] /\ room = 0 /\ failed = FALSE

\* The rest of the line is for the kernel: in is 0, i is 0, and fd is not set.
Begin(j) ==
    /\ pc = "prompt"
    /\ job' = j
    /\ pc' = IF j.piped THEN "pipe" ELSE "command"
    /\ i' = 0 /\ in' = 0 /\ fd' = <<-1, -1>>
    /\ state' = [s \in Stages |-> "none"]
    /\ stack' = [s \in Stages |-> [in |-> 0, fd |-> <<-1, -1>>]]
    /\ held' = [s \in Stages |-> <<>>] /\ sent' = [s \in Stages |-> 0] /\ taken' = 0
    /\ out' = <<>>
    /\ made' = [s \in Stages |-> NoPipe] /\ failed' = FALSE
    /\ room' = Cardinality(Unused(fds[Shell]))
    /\ UNCHANGED <<fds, data, content>>

\* The shell makes a pipe for every stage, for the last one too.
MakePipe ==
    /\ pc = "pipe" /\ Cardinality(Unused(fds[Shell])) >= 2
    /\ pc' = "fork"
    /\ LET r == Lowest(Unused(fds[Shell]))
           w == Lowest(Unused(fds[Shell]) \ {r})
           k == Lowest({p \in Pipes : ~InUse(p)})
       IN  /\ fds' = [fds EXCEPT ![Shell] = [@ EXCEPT ![r] = R(k), ![w] = W(k)]]
           /\ fd' = <<r, w>>
           /\ made' = [made EXCEPT ![i] = k]
           /\ data' = [data EXCEPT ![k] = <<>>]
    /\ UNCHANGED <<job, i, in, stages, content, out, room, failed>>

\* The shell does not look whether it got one: fd is that of the stage before, or,
\* in the first turn, whatever is on the stack, and is not followed any further.
PipeFails ==
    /\ pc = "pipe" /\ Cardinality(Unused(fds[Shell])) < 2
    /\ pc' = IF i = 0 THEN "undefined" ELSE "fork"
    /\ UNCHANGED <<job, i, in, fd, fds, stages, world, history>>

\* A child has the descriptors of the shell, and its variables.
Child(s) ==
    /\ state' = [state EXCEPT ![s] = "forked"]
    /\ stack' = [stack EXCEPT ![s] = [in |-> in, fd |-> fd]]
    /\ fds' = [fds EXCEPT ![s] = fds[Shell]]
    /\ UNCHANGED <<job, i, in, fd, held, sent, taken, world, history>>

Fork ==
    /\ pc = "fork"
    /\ pc' = IF i = Last THEN "close" ELSE "next"
    /\ Child(i)

\* fork returns -1: the loop is left.
ForkFails ==
    /\ pc = "fork"
    /\ pc' = "close" /\ failed' = TRUE
    /\ UNCHANGED <<job, i, in, fd, fds, stages, world, made, room>>

\* Mutant: the shell keeps the write end.
NextStageKeepsEnd ==
    /\ pc = "next"
    /\ in' = fd[1]
    /\ i' = i + 1 /\ pc' = "pipe"
    /\ UNCHANGED <<job, fd, fds, stages, world, history>>

\* Mutant: every stage reads from the first pipe.
NextStageKeepsIn ==
    /\ pc = "next"
    /\ fds' = [fds EXCEPT ![Shell] = Close(@, fd[2])]
    /\ in' = IF in = 0 THEN fd[1] ELSE in
    /\ i' = i + 1 /\ pc' = "pipe"
    /\ UNCHANGED <<job, fd, stages, world, history>>

\* The shell gives the write end up; the next stage will read from this pipe.
NextStage ==
    /\ pc = "next"
    /\ fds' = [fds EXCEPT ![Shell] = Close(@, fd[2])]
    /\ in' = fd[1]
    /\ i' = i + 1 /\ pc' = "pipe"
    /\ UNCHANGED <<job, fd, stages, world, history>>

\* Mutant: the write end of the last pipe stays open.
CloseLastRead ==
    /\ pc = "close"
    /\ pc' = "wait"
    /\ fds' = [fds EXCEPT ![Shell] = Close(@, fd[1])]
    /\ UNCHANGED <<job, i, in, fd, stages, world, history>>

\* The ends of the last pipe; the read ends of the others stay open in the shell.
CloseLast ==
    /\ pc = "close"
    /\ pc' = "wait"
    /\ fds' = [fds EXCEPT ![Shell] = Close(Close(@, fd[1]), fd[2])]
    /\ UNCHANGED <<job, i, in, fd, stages, world, history>>

Reap(s) ==
    /\ pc \in {"wait", "waitpid"} /\ state[s] = "zombie"
    /\ state' = [state EXCEPT ![s] = "reaped"]
    /\ pc' = IF pc = "wait" THEN "wait" ELSE "prompt"
    /\ UNCHANGED <<job, i, in, fd, fds, stack, held, sent, taken, world, history>>

\* Mutant: one waitpid, for whichever child ends first.
WaitOnce ==
    /\ pc = "wait" /\ \E s \in Stages : state[s] = "reaped"
    /\ pc' = "prompt"
    /\ UNCHANGED <<job, i, in, fd, fds, stages, world, history>>

\* waitpid finds no child any more, and the shell reads its next command.
Waited ==
    /\ pc = "wait" /\ \A s \in Stages : state[s] \in {"none", "reaped"}
    /\ pc' = "prompt"
    /\ UNCHANGED <<job, i, in, fd, fds, stages, world, history>>

\* A single command has one child, and the shell waits for that one.
Command ==
    /\ pc = "command"
    /\ pc' = "waitpid"
    /\ Child(0)

\* waitpid(-1) after a fork that failed finds no child.
CommandFails ==
    /\ pc = "command"
    /\ pc' = "prompt" /\ failed' = TRUE
    /\ UNCHANGED <<job, i, in, fd, fds, stages, world, made, room>>
-----------------------------------------------------------------------------
(***************************************************************************)
(* The children.                                                           *)
(***************************************************************************)
\* The table of a stage when it runs its program: its ends are its standard input
\* and output.  The last one keeps the originals, and writes where the shell does.
Wired(s) ==
    LET from == stack[s].in
        to   == stack[s].fd[2]
        read == IF from = 0 THEN fds[s] ELSE Dup2(fds[s], from, 0)
    IN  IF s = Last THEN read
        ELSE Close(Dup2(IF from = 0 THEN read ELSE Close(read, from), to, 1), to)

\* A child whose exec fails leaves the loop in execute_line, closes its pipe, has no
\* child to wait for, and returns to main: it is a second shell.
Start(s) ==
    /\ job.piped /\ state[s] = "forked"
    /\ IF Program(s) = "missing"
       THEN /\ state' = [state EXCEPT ![s] = "shell"]
            /\ fds' = [fds EXCEPT ![s] = Close(Close(Wired(s), stack[s].fd[1]), stack[s].fd[2])]
       ELSE /\ state' = [state EXCEPT ![s] = "running"]
            /\ fds' = [fds EXCEPT ![s] = Wired(s)]
    /\ UNCHANGED <<job, shell, stack, held, sent, taken, world, history>>

\* Mutant: a file that exists is not truncated.
OpenOutputKeeps == [content EXCEPT ![job.output] = IF @ = Absent THEN <<>> ELSE @]

\* What the files hold when the output has been opened: it is created or truncated.
OpenOutput == [content EXCEPT ![job.output] = <<>>]

\* The child of a single command opens its output, then its input, and runs the
\* program with what could be opened.  It exits when exec fails.
StartCommand ==
    /\ ~job.piped /\ state[0] = "forked"
    /\ LET writes == job.output \notin ReadOnly \cup {"none"} /\ Unused(fds[0]) # {}
           files  == IF writes THEN OpenOutput ELSE content
           output == IF writes THEN Redirect(fds[0], To(job.output), 1) ELSE fds[0]
           reads  == job.input # "none" /\ files[job.input] # Absent
           input  == IF reads THEN Redirect(output, From(job.input), 0) ELSE output
       IN  /\ content' = files
           /\ IF Program(0) = "missing"
              THEN /\ state' = [state EXCEPT ![0] = "zombie"]
                   /\ fds' = [fds EXCEPT ![0] = [n \in Numbers |-> Free]]
              ELSE /\ state' = [state EXCEPT ![0] = "running"]
                   /\ fds' = [fds EXCEPT ![0] = input]
    /\ UNCHANGED <<job, shell, stack, held, sent, taken, data, out, history>>

Exit(s) ==
    /\ state' = [state EXCEPT ![s] = "zombie"]
    /\ fds' = [fds EXCEPT ![s] = [n \in Numbers |-> Free]]
    /\ held' = [held EXCEPT ![s] = <<>>]
    /\ UNCHANGED <<job, shell, stack, sent, taken, world, history>>

\* What a process could take from its standard input, and whether that has ended.
\* The user may end the terminal's input at any time.
Input(s) ==
    LET e == fds[s][0]
    IN  IF e[1] = "read" THEN data[e[2]]
        ELSE IF e[1] = "from" THEN SubSeq(content[e[2]], taken + 1, Len(content[e[2]]))
        ELSE <<>>

AtEnd(s) ==
    /\ Input(s) = <<>>
    /\ fds[s][0][1] = "read" => Holders(W(fds[s][0][2])) = {}

Take(s) ==
    LET e == fds[s][0]
    IN  /\ data' = IF e[1] = "read" THEN [data EXCEPT ![e[2]] = Tail(@)] ELSE data
        /\ taken' = IF e[1] = "from" THEN taken + 1 ELSE taken

\* A program that copies takes a unit.
Read(s) ==
    /\ state[s] = "running" /\ held[s] = <<>> /\ Input(s) # <<>>
    /\ \/ Program(s) = "filter"
       \/ Program(s) = "head" /\ sent[s] = 0
    /\ held' = [held EXCEPT ![s] = <<Head(Input(s))>>]
    /\ Take(s)
    /\ UNCHANGED <<job, shell, fds, state, stack, sent, content, out, history>>

\* What stage s would write next.
Ready(s) == IF Program(s) = "source" /\ sent[s] < Units THEN <<sent[s] + 1>> ELSE held[s]

\* A write of units to an end, when there is room for them.
Puts(units, e) ==
    IF e[1] = "write"
    THEN /\ Len(data[e[2]]) < PipeSize
         /\ data' = [data EXCEPT ![e[2]] = @ \o units]
         /\ UNCHANGED <<content, out>>
    ELSE IF e[1] = "to"
    THEN content' = [content EXCEPT ![e[2]] = @ \o units] /\ UNCHANGED <<data, out>>
    ELSE out' = out \o units /\ UNCHANGED <<data, content>>

\* A write to a pipe that nobody can read any more ends the writer.
Broken(e) == e[1] = "write" /\ Holders(R(e[2])) = {}

Write(s) ==
    /\ state[s] \in {"running", "shell"} /\ Ready(s) # <<>>
    /\ IF Broken(fds[s][1]) THEN Exit(s)
       ELSE /\ Puts(Ready(s), fds[s][1])
            /\ held' = [held EXCEPT ![s] = <<>>]
            /\ sent' = [sent EXCEPT ![s] = @ + 1]
            /\ UNCHANGED <<job, shell, fds, state, stack, taken, history>>

\* A program is done, or at the end of its input.
Finish(s) ==
    /\ state[s] = "running" /\ Ready(s) = <<>>
    /\ \/ Program(s) = "source"
       \/ Program(s) = "head" /\ sent[s] = 1
       \/ AtEnd(s)
    /\ Exit(s)

\* A second shell takes its input for commands, of which there are none, and writes
\* in every turn of main's loop; at the end of its input it goes round for ever.  One
\* that shares the terminal with the first is not followed.
SecondShell(s) ==
    /\ state[s] = "shell" /\ held[s] = <<>> /\ sent[s] < MaxNoise
    /\ fds[s][0] # Tty
    /\ \/ Input(s) # <<>> /\ Take(s)
       \/ AtEnd(s) /\ UNCHANGED <<data, taken>>
    /\ held' = [held EXCEPT ![s] = <<0>>]
    /\ UNCHANGED <<job, shell, fds, state, stack, sent, content, out, history>>

StageStep(s) == Start(s) \/ Read(s) \/ Write(s) \/ Finish(s) \/ SecondShell(s)

ShellStep ==
    \/ MakePipe \/ PipeFails \/ Fork \/ NextStage \/ CloseLast \/ Command
    \/ (\E s \in Stages : Reap(s)) \/ Waited

JobStep == ShellStep \/ ForkFails \/ CommandFails \/ StartCommand \/ \E s \in Stages : StageStep(s)

\* The built-in command exit.
Leave ==
    /\ pc = "prompt" /\ pc' = "exited"
    /\ UNCHANGED <<job, i, in, fd, fds, stages, world, history>>

Next == (\E j \in Jobs : Begin(j)) \/ Leave \/ JobStep

Spec == Init /\ [][Next]_vars

\* The kernel schedules every process; nothing makes a fork fail.
Fairness == /\ WF_vars(ShellStep) /\ WF_vars(StartCommand)
            /\ \A s \in Stages : WF_vars(StageStep(s))
-----------------------------------------------------------------------------
(***************************************************************************)
(* Properties.                                                             *)
(***************************************************************************)
End == {Free, Tty} \cup {R(k) : k \in Pipes} \cup {W(k) : k \in Pipes}
         \cup {From(f) : f \in Files} \cup {To(f) : f \in Files}

\* The type invariant.
TypeOK ==
    /\ job \in Job /\ Len(job.stages) <= MaxStages
    /\ pc \in {"prompt", "pipe", "fork", "next", "close", "wait", "command", "waitpid",
               "undefined", "exited"}
    /\ i \in Stages /\ in \in Numbers
    /\ fd[1] \in Numbers \cup {-1} /\ fd[2] \in Numbers \cup {-1}
    /\ fds \in [Processes -> [Numbers -> End]]
    /\ state \in [Stages -> {"none", "forked", "running", "shell", "zombie", "reaped"}]
    /\ made \in [Stages -> Pipes \cup {NoPipe}] /\ room \in 0 .. MaxFd
    /\ \A s \in Stages : stack[s].in \in Numbers /\ Len(held[s]) <= 1
    /\ \A k \in Pipes : Len(data[k]) <= PipeSize

\* A reader can see the end of its input: the write end of a stage's pipe is in the
\* hands of that stage alone, and of the shell until it goes on to the next stage; no
\* later stage inherits it.
WriteEndsReleased ==
    \A s \in Stages : made[s] # NoPipe =>
        Holders(W(made[s])) \subseteq
            {s} \cup (IF i = s /\ pc \in {"fork", "next", "close"} THEN {Shell} ELSE {})

\* A pipeline that copies, for each stage of which the shell has a descriptor left.
\* The pipes want one more, but the last pipe has no use.
Copying ==
    /\ job.piped /\ room >= Len(job.stages) /\ ~failed
    /\ \A s \in 0 .. Last : Program(s) = IF s = 0 THEN "source" ELSE "filter"

Before(s) == IF s = 0 \/ made[s - 1] = NoPipe THEN <<>> ELSE data[made[s - 1]]

\* Every stage is wired to the next, also when earlier pipelines have left their read
\* ends open and the numbers that are free have gaps: the terminal has what the last
\* stage has written, and what a stage has in hand and in the pipe before it is what the
\* stage before has written and it has not, in order, nothing lost or twice.
NothingLost ==
    Copying =>
        /\ out = [n \in 1 .. sent[Last] |-> n]
        /\ \A s \in 1 .. Last :
              held[s] \o Before(s) = [n \in 1 .. sent[s - 1] - sent[s] |-> sent[s] + n]

\* When the shell asks for the next command nothing of this one is left: no child runs
\* or waits to be reaped, the shell reads and writes the terminal, and what else it has
\* open are read ends of pipes that nobody writes to.
PromptClean ==
    pc = "prompt" =>
        /\ \A s \in Stages : state[s] \in {"none", "reaped"}
        /\ \A n \in Numbers : IF n < 3 THEN fds[Shell][n] = Tty
                              ELSE fds[Shell][n] = Free \/ fds[Shell][n][1] = "read"
        /\ \A k \in Pipes : Holders(W(k)) = {}

\* Every pipeline leaves read ends open in the shell, but never the last two numbers: a
\* pipe that the shell does not get is not the first one of its pipeline, so that fd is
\* always set, and pipelines of two stages can be run for ever.
TwoDescriptorsLeft == pc = "prompt" => Cardinality(Unused(fds[Shell])) >= 2

\* A single command that copies reads and writes the files it is redirected to, when
\* they can be opened, and the terminal sees what is not redirected; when the two are
\* one file it is emptied before it is read.
RedirectionsObeyed ==
    LET copies == /\ pc = "prompt" /\ job.stages = <<"filter">> /\ ~job.piped /\ ~failed
                  /\ room >= 1 /\ job.output \notin ReadOnly
                  /\ job.input # "none" /\ content[job.input] # Absent
    IN  copies => CASE job.output = "none"    -> out = content[job.input]
                    [] job.output = job.input -> out = <<>> /\ content[job.input] = <<>>
                    [] OTHER -> out = <<>> /\ content[job.output] = content[job.input]

\* A pipeline of programs that read all their input ends, with all of its output.
PipelineEnds ==
    (pc = "pipe" /\ i = 0 /\ Copying) ~> (pc = "prompt" /\ Len(out) = Units) \/ failed
=============================================================================
