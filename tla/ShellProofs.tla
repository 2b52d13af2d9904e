---------------------------- MODULE ShellProofs -----------------------------
(***************************************************************************)
(* Theorems about the shell, for every set of lines, every number of       *)
(* descriptors and any programs, however long it runs.                     *)
(***************************************************************************)
EXTENDS Shell, FiniteSetTheorems, SequenceTheorems, WellFoundedInduction, TLAPS

\* The least element of a set of natural numbers.
LEMMA LeastIs ==
    ASSUME NEW S, S \subseteq Nat, S # {}
    PROVE  \E n \in S : \A m \in S : n <= m
<1> DEFINE less == {ss \in Nat \X Nat : ss[1] < ss[2]}
<1>1. IsWellFoundedOn(less, Nat)
  BY NatLessThanWellFounded DEF OpToRel
<1>2. \E n \in S : \A m \in S : ~ (<<m, n>> \in less)
  <2> HIDE DEF less
  <2> QED BY <1>1, WFMin
<1>3. \A m, n \in S : ~ (<<m, n>> \in less) => n <= m
  OBVIOUS
<1> QED BY <1>2, <1>3

(***************************************************************************)
(* Numbers, ends, and tables of descriptors.                               *)
(***************************************************************************)
LEMMA Sizes ==
    /\ MaxStages \in Nat /\ MaxStages >= 1 /\ MaxFd \in Nat /\ MaxFd >= 5
    /\ Stages \subseteq Nat /\ Shell \notin Stages /\ Processes = Stages \cup {Shell}
    /\ Numbers \subseteq Nat /\ Pipes \subseteq Nat /\ NoPipe \notin Pipes
    /\ 0 \in Stages /\ 0 \in Numbers /\ 1 \in Numbers /\ 2 \in Numbers
BY PipelineAssumption, SMT
   DEF Stages, Shell, Processes, Numbers, Pipes, NoPipe

\* The kernel's choice is one of those it has.
LEMMA LowestIn ==
    ASSUME NEW S, S \subseteq Nat, S # {}
    PROVE  Lowest(S) \in S
<1>1. \E n \in S : \A m \in S : n <= m BY LeastIs
<1> QED BY <1>1 DEF Lowest

\* No descriptor stands for two things.
LEMMA EndsDiffer ==
    /\ Free # Tty
    /\ \A k : R(k) # Free /\ R(k) # Tty /\ W(k) # Free /\ W(k) # Tty
    /\ \A k, l : R(k) # W(l) /\ (R(k) = R(l) => k = l) /\ (W(k) = W(l) => k = l)
    /\ \A f, k : /\ From(f) # R(k) /\ From(f) # W(k) /\ To(f) # R(k) /\ To(f) # W(k)
    /\ \A k : R(k)[1] = "read" /\ W(k)[1] = "write"
BY DEF Free, Tty, R, W, From, To

\* The free numbers of a table can be counted.
LEMMA UnusedFinite ==
    ASSUME NEW table
    PROVE  /\ Unused(table) \subseteq Numbers /\ Unused(table) \subseteq Nat
           /\ IsFiniteSet(Unused(table)) /\ Cardinality(Unused(table)) \in Nat
<1>1. Unused(table) \subseteq Numbers /\ IsFiniteSet(Numbers)
  BY Sizes, FS_Interval, SMT DEF Unused, Numbers
<1> QED BY <1>1, Sizes, FS_Subset, FS_CardinalityType

\* One more free descriptor when an open one is closed, none less otherwise.
LEMMA CloseCounts ==
    ASSUME NEW table, NEW n
    PROVE  /\ Cardinality(Unused(Close(table, n))) >= Cardinality(Unused(table))
           /\ n \in Numbers /\ table[n] # Free =>
                Cardinality(Unused(Close(table, n))) = Cardinality(Unused(table)) + 1
<1>1. CASE n \in Numbers
  <2>1. Unused(Close(table, n)) = Unused(table) \cup {n}
    BY <1>1 DEF Unused, Close
  <2>2. n \in Unused(table) <=> table[n] = Free
    BY <1>1 DEF Unused
  <2>3. Cardinality(Unused(table) \cup {n}) =
            IF n \in Unused(table) THEN Cardinality(Unused(table)) ELSE Cardinality(Unused(table)) + 1
    BY UnusedFinite, FS_AddElement
  <2> QED BY <2>1, <2>2, <2>3, UnusedFinite
<1>2. CASE n \notin Numbers
  <2>1. Unused(Close(table, n)) = Unused(table)
    BY <1>2 DEF Unused, Close
  <2> QED BY <1>2, <2>1, UnusedFinite
<1> QED BY <1>1, <1>2

\* What an open descriptor of a table stands for is in the other one.
Within(new, old) ==
    \A n \in Numbers : \A k \in Pipes :
        new[n] \in {R(k), W(k)} => \E m \in Numbers : old[m] = new[n]

\* A table within one that is within a third is within the third.
LEMMA WithinTransitive ==
    ASSUME NEW a, NEW b, NEW c, Within(a, b), Within(b, c) PROVE Within(a, c)
BY DEF Within

\* close, dup2 and open open no end of a pipe.
LEMMA OpensNothing ==
    ASSUME NEW table \in [Numbers -> End]
    PROVE  /\ \A n : Close(table, n) \in [Numbers -> End] /\ Within(Close(table, n), table)
           /\ \A n, m : Dup2(table, n, m) \in [Numbers -> End] /\ Within(Dup2(table, n, m), table)
           /\ \A m : \A f \in Files :
                 /\ Redirect(table, From(f), m) \in [Numbers -> End]
                 /\ Within(Redirect(table, From(f), m), table)
                 /\ Redirect(table, To(f), m) \in [Numbers -> End]
                 /\ Within(Redirect(table, To(f), m), table)
<1>0. Free \in End /\ \A f \in Files : From(f) \in End /\ To(f) \in End
  BY DEF End
<1>1. ASSUME NEW t \in [Numbers -> End], NEW n
      PROVE  Close(t, n) \in [Numbers -> End] /\ Within(Close(t, n), t)
  BY <1>0, <1>1, EndsDiffer DEF Close, Within
<1>2. ASSUME NEW t \in [Numbers -> End], NEW n, NEW m
      PROVE  Dup2(t, n, m) \in [Numbers -> End] /\ Within(Dup2(t, n, m), t)
  BY <1>2 DEF Dup2, Within
<1>3. ASSUME NEW e \in End, \A k \in Pipes : e # R(k) /\ e # W(k), NEW m
      PROVE  Redirect(table, e, m) \in [Numbers -> End] /\ Within(Redirect(table, e, m), table)
  <2>1. CASE Unused(table) = {}
    BY <2>1 DEF Redirect, Within
  <2>2. CASE Unused(table) # {}
    <3> DEFINE n == Lowest(Unused(table))
               t == [table EXCEPT ![n] = e]
    <3>1. t \in [Numbers -> End] /\ Within(t, table)
      BY <1>3 DEF Within
    <3>2. Dup2(t, n, m) \in [Numbers -> End] /\ Within(Dup2(t, n, m), table)
      BY <3>1, <1>2, WithinTransitive
    <3>3. Redirect(table, e, m) = Close(Dup2(t, n, m), n)
      BY <2>2 DEF Redirect
    <3> HIDE DEF t, n
    <3> QED BY <3>2, <3>3, <1>1, WithinTransitive
  <2> QED BY <2>1, <2>2
<1> QED BY <1>0, <1>1, <1>2, <1>3, EndsDiffer

-----------------------------------------------------------------------------
(***************************************************************************)
(* The inductive invariant.                                                *)
(***************************************************************************)
Making  == {"pipe", "fork", "next", "close"}
Holding == {"fork", "next", "close"}
Resting == {"none", "zombie", "reaped"}

TypeInv ==
    /\ job \in Job /\ Len(job.stages) <= MaxStages
    /\ pc \in {"prompt", "wait", "command", "waitpid", "exited"} \cup Making
    /\ i \in Int /\ (pc \in Making => 0 <= i /\ i <= Last) /\ (pc = "next" => i < Last)
    /\ fd \in Int \X Int
    /\ fds \in [Processes -> [Numbers -> End]]
    /\ state \in [Stages -> {"forked", "running", "shell"} \cup Resting]
    /\ made \in [Stages -> Pipes \cup {NoPipe}]

\* The shell has the terminal, read ends, and the write end of the pipe at hand.
ShellTable ==
    \A n \in Numbers :
        IF n < 3 THEN fds[Shell][n] = Tty
        ELSE \/ fds[Shell][n] = Free
             \/ \E k \in Pipes : fds[Shell][n] = R(k)
             \/ /\ pc \in Holding /\ n = fd[2]
                /\ made[i] # NoPipe /\ fds[Shell][n] = W(made[i])

\* fd is set, and its first number is always open; the second one is not when the pipe
\* was not to be had.
ShellEnds ==
    /\ (pc \in Holding \/ (pc = "pipe" /\ i > 0)) =>
          /\ fd[1] \in Numbers /\ fd[2] \in Numbers /\ fd[1] >= 3 /\ fd[2] >= 3
          /\ \E k \in Pipes : fds[Shell][fd[1]] = R(k)
    /\ pc = "pipe" /\ i > 0 => fds[Shell][fd[2]] = Free
    /\ pc \in Holding => \/ fds[Shell][fd[2]] = Free
                         \/ made[i] # NoPipe /\ fds[Shell][fd[2]] = W(made[i])

\* No two stages have one pipe: the shell keeps its read end until all are made.
PipesOK ==
    /\ \A s, t \in Stages : made[s] = made[t] /\ made[s] # NoPipe => s = t
    /\ pc \in Making => \A s \in Stages :
          /\ made[s] # NoPipe => \E n \in Numbers : fds[Shell][n] = R(made[s])
          /\ s > i \/ (pc = "pipe" /\ s = i) => made[s] = NoPipe

\* A stage that does not run has nothing open; one that does has no write end but its
\* own; and what it has is of pipes that the shell has too.
ChildrenOK ==
    /\ \A s \in Stages : state[s] \in Resting => \A n \in Numbers : fds[s][n] = Free
    /\ \A s \in Stages, n \in Numbers : \A k \in Pipes : fds[s][n] = W(k) => made[s] = k
    /\ pc \in Making => \A s \in Stages, n \in Numbers : \A k \in Pipes :
          fds[s][n] \in {R(k), W(k)} => \E m \in Numbers : fds[Shell][m] = R(k)

QuietOK ==
    /\ pc \in {"prompt", "exited"} => \A s \in Stages : state[s] \in {"none", "reaped"}
    /\ pc = "command" => \A s \in Stages : state[s] = "none"
    /\ pc = "waitpid" => \A s \in Stages : s # 0 => state[s] = "none"

Spare == Cardinality(Unused(fds[Shell]))

\* How many descriptors are free: a pipe gives back what it took, but for a read end
\* when another pipe can still be had or tried for.
SpareOK ==
    /\ pc \notin Making => Spare >= 2
    /\ pc = "pipe" => Spare >= IF i = 0 THEN 2 ELSE 1
    /\ pc \in Holding /\ fds[Shell][fd[2]] = Free => Spare >= 1

ShellInv == TypeInv /\ ShellTable /\ ShellEnds /\ PipesOK /\ ChildrenOK /\ QuietOK /\ SpareOK
-----------------------------------------------------------------------------
\* The shell begins in the invariant.
LEMMA InitEstablishes == ShellInit => ShellInv
<1> SUFFICES ASSUME ShellInit PROVE ShellInv
  OBVIOUS
<1> USE DEF ShellInit, Init
<1>1. TypeInv
  <2>1. job \in Job /\ Len(job.stages) = 0
    BY PipelineAssumption DEF Job
  <2>2. fds \in [Processes -> [Numbers -> End]]
    BY DEF End
  <2>3. made \in [Stages -> Pipes \cup {NoPipe}] /\ fd \in Int \X Int
    OBVIOUS
  <2> QED BY <2>1, <2>2, <2>3, Sizes DEF TypeInv, Making, Resting
<1>2. fds[Shell] = [n \in Numbers |-> IF n < 3 THEN Tty ELSE Free]
  BY Sizes
<1>3. \A s \in Stages, n \in Numbers : fds[s][n] = Free
  BY Sizes
<1>4. Spare >= 2
  <2>1. Unused(fds[Shell]) = 3 .. MaxFd - 1
    BY <1>2, EndsDiffer, Sizes DEF Unused, Numbers
  <2>2. Cardinality(3 .. MaxFd - 1) = MaxFd - 3
    BY Sizes, FS_Interval
  <2> QED BY <2>1, <2>2, Sizes DEF Spare
<1>5. ShellTable /\ ShellEnds /\ PipesOK /\ QuietOK
  BY <1>2 DEF ShellTable, ShellEnds, PipesOK, QuietOK, Making, Holding
<1>6. ChildrenOK
  BY <1>3, EndsDiffer DEF ChildrenOK, Making
<1> QED BY <1>1, <1>4, <1>5, <1>6 DEF ShellInv, SpareOK, Making, Holding

\* Nothing that the invariant speaks of has changed.
LEMMA SameKeeps ==
    ASSUME ShellInv, UNCHANGED <<job, pc, i, fd, fds, state, made>>
    PROVE  ShellInv'
BY DEF ShellInv, TypeInv, ShellTable, ShellEnds, PipesOK, ChildrenOK, QuietOK, SpareOK, Spare,
       Last, Unused

\* A stage changes its own table only, and opens no end of a pipe.
LEMMA ChildKeeps ==
    ASSUME ShellInv, NEW s \in Stages, state[s] \in {"forked", "running", "shell"},
           NEW table \in [Numbers -> End], Within(table, fds[s]),
           NEW x \in {"running", "shell", "zombie"},
           x = "zombie" => \A n \in Numbers : table[n] = Free,
           fds' = [fds EXCEPT ![s] = table], state' = [state EXCEPT ![s] = x],
           UNCHANGED <<job, pc, i, fd, made>>
    PROVE  ShellInv'
<1> USE DEF ShellInv
<1>1. /\ fds'[Shell] = fds[Shell] /\ fds'[s] = table
      /\ \A t \in Stages : t # s => fds'[t] = fds[t]
  BY Sizes DEF TypeInv
<1>2. state'[s] = x /\ \A t \in Stages : t # s => state'[t] = state[t]
  BY DEF TypeInv
<1>3. TypeInv'
  <2>1. fds' \in [Processes -> [Numbers -> End]]
    BY Sizes DEF TypeInv
  <2>2. state' \in [Stages -> {"forked", "running", "shell"} \cup Resting]
    BY DEF TypeInv, Resting
  <2> QED BY <2>1, <2>2 DEF TypeInv, Last
<1>4. ShellTable' /\ ShellEnds' /\ PipesOK' /\ SpareOK'
  <2>1. fds'[Shell] = fds[Shell] /\ UNCHANGED <<pc, i, fd, made>>
    BY <1>1
  <2>2. ShellTable'
    BY <2>1 DEF ShellTable
  <2>3. ShellEnds'
    BY <2>1 DEF ShellEnds
  <2>4. PipesOK'
    BY <2>1 DEF PipesOK
  <2>5. SpareOK'
    BY <2>1 DEF SpareOK, Spare, Unused
  <2> QED BY <2>2, <2>3, <2>4, <2>5
<1>5. ChildrenOK'
  <2>1. \A n \in Numbers : \A k \in Pipes :
           table[n] \in {R(k), W(k)} => \E m \in Numbers : fds[s][m] = table[n]
    BY DEF Within
  <2>2. \A n \in Numbers : \A k \in Pipes : table[n] = W(k) => made[s] = k
    BY <2>1 DEF ChildrenOK
  <2>3. pc \in Making => \A n \in Numbers : \A k \in Pipes :
           table[n] \in {R(k), W(k)} => \E m \in Numbers : fds[Shell][m] = R(k)
    BY <2>1 DEF ChildrenOK
  <2> QED BY <1>1, <1>2, <2>2, <2>3 DEF ChildrenOK, Resting
<1>6. QuietOK'
  BY <1>2 DEF QuietOK
<1> QED BY <1>3, <1>4, <1>5, <1>6
-----------------------------------------------------------------------------
(***************************************************************************)
(* The steps of the shell.                                                 *)
(***************************************************************************)
\* Where the numbers lie, and that the shell writes only to the pipe at hand.
LEMMA InRange ==
    ASSUME ShellInv
    PROVE  /\ Last \in Int /\ Last < MaxStages /\ MaxStages \in Nat
           /\ pc \in Making => i \in Stages
           /\ fds[Shell] \in [Numbers -> End] /\ Spare \in Nat
           /\ \A n \in Numbers : fds[Shell][n] = Free => n >= 3
           /\ \A n \in Numbers : \A k \in Pipes :
                 fds[Shell][n] = W(k) => pc \in Holding /\ n = fd[2] /\ made[i] = k
<1> USE DEF ShellInv
<1>1. Len(job.stages) \in Nat
  BY DEF TypeInv, Job
<1>2. Last \in Int /\ Last < MaxStages /\ (pc \in Making => i \in Stages)
  BY <1>1, Sizes DEF TypeInv, Last, Stages
<1>3. fds[Shell] \in [Numbers -> End] /\ Spare \in Nat
  BY Sizes, UnusedFinite DEF TypeInv, Spare
<1>4. \A n \in Numbers : fds[Shell][n] = Free => n >= 3
  BY Sizes, EndsDiffer DEF ShellTable
<1>5. \A n \in Numbers : \A k \in Pipes :
         fds[Shell][n] = W(k) => pc \in Holding /\ n = fd[2] /\ made[i] = k
  BY EndsDiffer DEF ShellTable
<1> QED BY <1>2, <1>3, <1>4, <1>5, Sizes

\* close frees one number.
LEMMA Closed ==
    ASSUME NEW table \in [Numbers -> End], NEW n
    PROVE  /\ Close(table, n) \in [Numbers -> End]
           /\ \A m \in Numbers : Close(table, n)[m] = IF m = n THEN Free ELSE table[m]
BY OpensNothing DEF Close

\* The shell's table changes and no stage's.
LEMMA OnlyTheShell ==
    ASSUME ShellInv, NEW table \in [Numbers -> End], fds' = [fds EXCEPT ![Shell] = table]
    PROVE  /\ fds' \in [Processes -> [Numbers -> End]]
           /\ fds'[Shell] = table /\ \A t \in Stages : fds'[t] = fds[t]
BY Sizes DEF ShellInv, TypeInv

\* A job begins.
LEMMA BeginKeeps ==
    ASSUME ShellInv, NEW j \in Job, Len(j.stages) \in 1 .. MaxStages, Begin(j)
    PROVE  ShellInv'
<1> USE DEF ShellInv, Begin
<1>1. /\ fds' = fds /\ pc = "prompt" /\ pc' \in {"pipe", "command"} /\ job' = j /\ i' = 0
      /\ fd' = <<-1, -1>> /\ state' = [s \in Stages |-> "none"]
      /\ made' = [s \in Stages |-> NoPipe]
  OBVIOUS
<1>2. \A s \in Stages, n \in Numbers : fds[s][n] = Free
  BY <1>1 DEF QuietOK, ChildrenOK, Resting
<1>3. TypeInv'
  BY <1>1, Sizes DEF TypeInv, Making, Resting, Last
<1>4. ShellTable' /\ ShellEnds' /\ PipesOK'
  BY <1>1 DEF ShellTable, ShellEnds, PipesOK, Making, Holding
<1>5. ChildrenOK'
  BY <1>1, <1>2, EndsDiffer DEF ChildrenOK
<1>6. QuietOK' /\ SpareOK'
  BY <1>1 DEF QuietOK, SpareOK, Spare, Unused, Making, Holding
<1> QED BY <1>3, <1>4, <1>5, <1>6

\* There is always a pipe that is not in use: each that is has its read end in the
\* table of the shell, and there are more pipes than numbers.
LEMMA FreshPipe ==
    ASSUME ShellInv, pc = "pipe" PROVE \E k \in Pipes : ~ InUse(k)
<1> SUFFICES ASSUME \A k \in Pipes : InUse(k) PROVE FALSE
  OBVIOUS
<1> USE DEF ShellInv
<1>1. ASSUME NEW k \in Pipes PROVE \E n \in Numbers : fds[Shell][n] = R(k)
  <2>1. PICK p \in Processes, n \in Numbers : fds[p][n] \in {R(k), W(k)}
    BY DEF InUse, Holders
  <2>2. CASE p = Shell
    BY <2>1, <2>2, InRange DEF Holding
  <2>3. CASE p \in Stages
    BY <2>1, <2>3 DEF ChildrenOK, Making
  <2> QED BY <2>2, <2>3, Sizes
<1> DEFINE number == [k \in Pipes |-> CHOOSE n \in Numbers : fds[Shell][n] = R(k)]
<1>2. number \in [Pipes -> Numbers] /\ \A k \in Pipes : fds[Shell][number[k]] = R(k)
  BY <1>1
<1>3. /\ IsFiniteSet(Pipes) /\ IsFiniteSet(Numbers)
      /\ Cardinality(Numbers) = MaxFd /\ Cardinality(Pipes) = MaxFd + MaxStages + 1
  <2>1. 0 <= MaxFd + MaxStages /\ 0 <= MaxFd - 1 /\ MaxFd \in Nat /\ MaxStages \in Nat
    BY Sizes
  <2>2. IsFiniteSet(0 .. MaxFd - 1) /\ Cardinality(0 .. MaxFd - 1) = MaxFd
    BY <2>1, FS_Interval
  <2>3. /\ IsFiniteSet(0 .. MaxFd + MaxStages)
        /\ Cardinality(0 .. MaxFd + MaxStages) = MaxFd + MaxStages + 1
    BY <2>1, FS_Interval
  <2> QED BY <2>2, <2>3 DEF Pipes, Numbers
<1>4. Cardinality(Numbers) < Cardinality(Pipes)
  BY <1>3, Sizes
<1> HIDE DEF number
<1>5. PICK x \in Pipes, y \in Pipes : x # y /\ number[x] = number[y]
  BY <1>2, <1>3, <1>4, FS_PigeonHole
<1> QED BY <1>2, <1>5, EndsDiffer

\* pipe, when it finds two free numbers.
LEMMA MakePipeKeeps ==
    ASSUME ShellInv, MakePipe PROVE ShellInv'
<1> USE DEF ShellInv
<1> DEFINE free == Unused(fds[Shell])
           r == Lowest(free)
           w == Lowest(free \ {r})
           k == Lowest({p \in Pipes : ~ InUse(p)})
<1>1. free \subseteq Nat /\ IsFiniteSet(free) /\ Cardinality(free) >= 2 /\ pc = "pipe"
  BY UnusedFinite DEF MakePipe
<1>2. r \in free
  <2>1. free # {}
    BY <1>1, FS_EmptySet
  <2> HIDE DEF free
  <2> QED BY <1>1, <2>1, LowestIn
<1>3. w \in free /\ w # r
  <2>1. Cardinality(free \ {r}) = Cardinality(free) - 1 /\ Cardinality(free) \in Nat
    BY <1>1, <1>2, FS_RemoveElement, FS_CardinalityType
  <2>2. free \ {r} # {}
    BY <1>1, <2>1, FS_EmptySet
  <2>3. free \ {r} \subseteq Nat
    BY <1>1
  <2> HIDE DEF free, r
  <2>4. w \in free \ {r}
    BY <2>2, <2>3, LowestIn
  <2> QED BY <2>4
<1>4. k \in Pipes /\ ~ InUse(k)
  <2> DEFINE fresh == {p \in Pipes : ~ InUse(p)}
  <2>1. fresh # {} /\ fresh \subseteq Nat
    BY <1>1, FreshPipe, Sizes
  <2>2. Lowest(fresh) \in fresh
    <3> HIDE DEF fresh
    <3> QED BY <2>1, LowestIn
  <2> QED BY <2>2
<1>5. /\ fds' = [fds EXCEPT ![Shell] = [@ EXCEPT ![r] = R(k), ![w] = W(k)]]
      /\ fd' = <<r, w>> /\ made' = [made EXCEPT ![i] = k]
      /\ pc' = "fork" /\ UNCHANGED <<job, i, state>>
  BY DEF MakePipe, stages
<1>6. /\ r \in Numbers /\ w \in Numbers /\ fds[Shell][r] = Free /\ fds[Shell][w] = Free
      /\ r >= 3 /\ w >= 3
  BY <1>2, <1>3, InRange DEF Unused
<1>7. /\ \A p \in Processes, n \in Numbers : fds[p][n] # R(k) /\ fds[p][n] # W(k)
  BY <1>4 DEF InUse, Holders
<1> HIDE DEF free, r, w, k
<1>8. i \in Stages /\ made[i] = NoPipe /\ k # NoPipe
  BY <1>1, <1>4, InRange, Sizes DEF Making, PipesOK
<1>9. /\ made'[i] = k /\ \A s \in Stages : s # i => made'[s] = made[s]
      /\ \A s \in Stages : fds'[s] = fds[s]
      /\ fds'[Shell][r] = R(k) /\ fds'[Shell][w] = W(k)
      /\ \A n \in Numbers : n # r /\ n # w => fds'[Shell][n] = fds[Shell][n]
      /\ \A n \in Numbers : \A l \in Pipes : fds[Shell][n] = R(l) => fds'[Shell][n] = R(l)
  BY <1>3, <1>5, <1>6, <1>8, Sizes, EndsDiffer DEF TypeInv
<1>10. TypeInv'
  <2>1. R(k) \in End /\ W(k) \in End
    BY <1>4 DEF End
  <2>2. fds' \in [Processes -> [Numbers -> End]] /\ made' \in [Stages -> Pipes \cup {NoPipe}]
    BY <1>4, <1>5, <2>1 DEF TypeInv
  <2>3. fd' \in Int \X Int
    BY <1>5, <1>6, Sizes
  <2> QED BY <1>1, <1>5, <2>2, <2>3 DEF TypeInv, Last, Making
<1>11. ShellTable'
  <2> SUFFICES ASSUME NEW n \in Numbers
               PROVE  IF n < 3 THEN fds'[Shell][n] = Tty
                      ELSE \/ fds'[Shell][n] = Free \/ \E l \in Pipes : fds'[Shell][n] = R(l)
                           \/ /\ pc' \in Holding /\ n = fd'[2]
                              /\ made'[i'] # NoPipe /\ fds'[Shell][n] = W(made'[i'])
    BY DEF ShellTable
  <2>0. ~ (r < 3) /\ ~ (w < 3)
    BY <1>6, Sizes
  <2>1. CASE n = r
    <3>1. fds'[Shell][n] = R(k) /\ ~ (n < 3)
      BY <1>9, <2>0, <2>1
    <3> QED BY <1>4, <3>1
  <2>2. CASE n = w
    <3>1. fds'[Shell][n] = W(k) /\ ~ (n < 3) /\ n = fd'[2]
      BY <1>5, <1>9, <2>0, <2>2
    <3>2. made'[i'] = k /\ k # NoPipe /\ pc' \in Holding
      BY <1>5, <1>8, <1>9 DEF Holding
    <3> QED BY <3>1, <3>2
  <2>3. CASE n # r /\ n # w
    <3>1. fds'[Shell][n] = fds[Shell][n] /\ pc \notin Holding
      BY <1>1, <1>9, <2>3 DEF Holding
    <3> QED BY <3>1 DEF ShellTable
  <2> QED BY <2>1, <2>2, <2>3
<1>12. ShellEnds'
  BY <1>4, <1>5, <1>6, <1>8, <1>9 DEF ShellEnds, Holding
<1>13. PipesOK'
  <2>1. \A s \in Stages : made[s] # k
    <3> SUFFICES ASSUME NEW s \in Stages, made[s] = k PROVE FALSE
      OBVIOUS
    <3>1. PICK n \in Numbers : fds[Shell][n] = R(made[s])
      BY <1>1, <1>8 DEF PipesOK, Making
    <3> QED BY <1>7, <3>1, Sizes
  <2>2. \A s, t \in Stages : made'[s] = made'[t] /\ made'[s] # NoPipe => s = t
    BY <1>9, <2>1 DEF PipesOK
  <2>3. ASSUME NEW s \in Stages, made'[s] # NoPipe
        PROVE  \E n \in Numbers : fds'[Shell][n] = R(made'[s])
    <3>1. CASE s = i
      BY <1>6, <1>9, <3>1
    <3>2. CASE s # i
      <4>1. made'[s] = made[s] /\ made[s] \in Pipes
        BY <1>9, <2>3, <3>2 DEF TypeInv
      <4>2. PICK n \in Numbers : fds[Shell][n] = R(made[s])
        BY <1>1, <2>3, <4>1 DEF PipesOK, Making
      <4> QED BY <1>9, <4>1, <4>2
    <3> QED BY <3>1, <3>2
  <2>4. ASSUME NEW s \in Stages, s > i PROVE made'[s] = NoPipe
    BY <1>1, <1>8, <1>9, <2>4, Sizes DEF PipesOK, Making
  <2> QED BY <1>5, <2>2, <2>3, <2>4 DEF PipesOK
<1>14. ChildrenOK'
  <2>1. \A s \in Stages : state'[s] \in Resting => \A n \in Numbers : fds'[s][n] = Free
    BY <1>5, <1>9 DEF ChildrenOK
  <2>2. ASSUME NEW s \in Stages, NEW n \in Numbers, NEW l \in Pipes, fds'[s][n] = W(l)
        PROVE  made'[s] = l
    <3>1. made[s] = l
      BY <1>9, <2>2 DEF ChildrenOK
    <3> QED BY <1>8, <1>9, <3>1, Sizes
  <2>3. ASSUME NEW s \in Stages, NEW n \in Numbers, NEW l \in Pipes,
               fds'[s][n] \in {R(l), W(l)}
        PROVE  \E m \in Numbers : fds'[Shell][m] = R(l)
    <3>1. PICK m \in Numbers : fds[Shell][m] = R(l)
      BY <1>1, <1>9, <2>3 DEF ChildrenOK, Making
    <3> QED BY <1>9, <3>1
  <2> QED BY <2>1, <2>2, <2>3 DEF ChildrenOK
<1>15. QuietOK' /\ SpareOK'
  BY <1>5, <1>9, EndsDiffer DEF QuietOK, SpareOK, Making, Holding
<1> QED BY <1>10, <1>11, <1>12, <1>13, <1>14, <1>15

\* pipe, when it does not.
LEMMA PipeFailsKeeps ==
    ASSUME ShellInv, PipeFails PROVE ShellInv'
<1> USE DEF ShellInv
<1>1. pc = "pipe" /\ i > 0 /\ i \in Int /\ pc' = "fork" /\ UNCHANGED <<job, i, fd, fds, state, made>>
  BY InRange DEF PipeFails, SpareOK, Spare, TypeInv, Making, stages, history
<1>2. TypeInv' /\ PipesOK' /\ ChildrenOK' /\ QuietOK'
  BY <1>1 DEF TypeInv, PipesOK, ChildrenOK, QuietOK, Last, Making
<1>3. ShellTable' /\ ShellEnds'
  BY <1>1 DEF ShellTable, ShellEnds, Holding
<1>4. SpareOK'
  BY <1>1, InRange DEF SpareOK, Spare, Unused, Making, Holding
<1> QED BY <1>2, <1>3, <1>4

\* A child has what the shell has.
LEMMA ForkKeeps ==
    ASSUME ShellInv, Fork PROVE ShellInv'
<1> USE DEF ShellInv
<1>1. /\ pc = "fork" /\ pc' = (IF i = Last THEN "close" ELSE "next") /\ i \in Stages
      /\ fds' = [fds EXCEPT ![i] = fds[Shell]] /\ state' = [state EXCEPT ![i] = "forked"]
      /\ UNCHANGED <<job, i, fd, made>>
  BY InRange DEF Fork, Child, Making, history
<1>2. /\ fds'[Shell] = fds[Shell] /\ fds'[i] = fds[Shell]
      /\ \A t \in Stages : t # i => fds'[t] = fds[t]
      /\ state'[i] = "forked" /\ \A t \in Stages : t # i => state'[t] = state[t]
  BY <1>1, Sizes DEF TypeInv
<1>3. TypeInv'
  <2>1. fds' \in [Processes -> [Numbers -> End]] /\ fds[Shell] \in [Numbers -> End]
    BY <1>1, InRange DEF TypeInv
  <2>2. Last' = Last /\ (pc' = "next" => i < Last)
    BY <1>1, InRange DEF TypeInv, Last, Making
  <2> QED BY <1>1, <2>1, <2>2 DEF TypeInv, Making
<1>4. ShellTable' /\ ShellEnds' /\ SpareOK' /\ QuietOK'
  BY <1>1, <1>2 DEF ShellTable, ShellEnds, SpareOK, Spare, Unused, QuietOK, Making, Holding
<1>5. PipesOK'
  BY <1>1, <1>2 DEF PipesOK, Making
<1>6. ChildrenOK'
  <2>1. \A n \in Numbers : \A k \in Pipes : fds'[i][n] = W(k) => made'[i] = k
    BY <1>1, <1>2, InRange
  <2>2. ASSUME NEW n \in Numbers, NEW k \in Pipes, fds'[i][n] \in {R(k), W(k)}
        PROVE  \E m \in Numbers : fds'[Shell][m] = R(k)
    <3>1. CASE fds[Shell][n] = R(k)
      BY <1>2, <3>1
    <3>2. CASE fds[Shell][n] = W(k)
      <4>1. made[i] = k /\ made[i] # NoPipe
        BY <3>2, InRange, Sizes
      <4> QED BY <1>1, <1>2, <4>1 DEF PipesOK, Making
    <3> QED BY <1>2, <2>2, <3>1, <3>2
  <2> QED BY <1>1, <1>2, <2>1, <2>2 DEF ChildrenOK, Making, Resting
<1> QED BY <1>3, <1>4, <1>5, <1>6

\* A single command is forked.
LEMMA CommandKeeps ==
    ASSUME ShellInv, Command PROVE ShellInv'
<1> USE DEF ShellInv
<1>1. /\ pc = "command" /\ pc' = "waitpid" /\ 0 \in Stages
      /\ fds' = [fds EXCEPT ![0] = fds[Shell]] /\ state' = [state EXCEPT ![0] = "forked"]
      /\ UNCHANGED <<job, i, fd, made>>
  BY Sizes DEF Command, Child, history
<1>2. /\ fds'[Shell] = fds[Shell] /\ fds'[0] = fds[Shell]
      /\ \A t \in Stages : t # 0 => fds'[t] = fds[t]
      /\ state'[0] = "forked" /\ \A t \in Stages : t # 0 => state'[t] = state[t]
  BY <1>1, Sizes DEF TypeInv
<1>3. TypeInv'
  <2>1. fds' \in [Processes -> [Numbers -> End]]
    BY <1>1, InRange DEF TypeInv
  <2> QED BY <1>1, <2>1 DEF TypeInv, Making
<1>4. ShellTable' /\ ShellEnds' /\ PipesOK' /\ SpareOK' /\ QuietOK'
  BY <1>1, <1>2
     DEF ShellTable, ShellEnds, PipesOK, SpareOK, Spare, Unused, QuietOK, Making, Holding
<1>5. ChildrenOK'
  <2>1. \A n \in Numbers : \A k \in Pipes : fds'[0][n] # W(k)
    BY <1>1, <1>2, InRange DEF Holding
  <2> QED BY <1>1, <1>2, <2>1 DEF ChildrenOK, Making, Resting
<1> QED BY <1>3, <1>4, <1>5

\* The shell closes the write end and goes on to the next stage.
LEMMA NextStageKeeps ==
    ASSUME ShellInv, NextStage PROVE ShellInv'
<1> USE DEF ShellInv
<1> DEFINE table == Close(fds[Shell], fd[2])
<1>1. /\ pc = "next" /\ pc' = "pipe" /\ i' = i + 1 /\ fds' = [fds EXCEPT ![Shell] = table]
      /\ UNCHANGED <<job, fd, state, made>>
  BY DEF NextStage, stages, history
<1>2. /\ fds'[Shell] = table /\ \A t \in Stages : fds'[t] = fds[t]
      /\ table \in [Numbers -> End]
      /\ \A n \in Numbers : table[n] = IF n = fd[2] THEN Free ELSE fds[Shell][n]
  <2>1. /\ table \in [Numbers -> End]
        /\ \A n \in Numbers : table[n] = IF n = fd[2] THEN Free ELSE fds[Shell][n]
    BY InRange, Closed
  <2> HIDE DEF table
  <2> QED BY <1>1, <2>1, OnlyTheShell
<1>3. i \in Int /\ 0 <= i /\ i < Last /\ Last \in Int
  BY <1>1, InRange DEF TypeInv, Making
<1>4. /\ fd[1] \in Numbers /\ fd[2] \in Numbers /\ fd[1] >= 3 /\ fd[2] >= 3
      /\ \E k \in Pipes : fds[Shell][fd[1]] = R(k)
      /\ fds[Shell][fd[2]] = Free \/ \E k : fds[Shell][fd[2]] = W(k)
  BY <1>1 DEF ShellEnds, Holding
<1>5. \A n \in Numbers : \A k : fds[Shell][n] = R(k) => table[n] = R(k)
  BY <1>2, <1>4, EndsDiffer
<1>6. Spare' >= 1
  <2>1. Spare >= 1 \/ fds[Shell][fd[2]] # Free
    BY <1>1 DEF SpareOK, Holding
  <2>2. /\ Cardinality(Unused(table)) >= Cardinality(Unused(fds[Shell]))
        /\ fds[Shell][fd[2]] # Free =>
               Cardinality(Unused(table)) = Cardinality(Unused(fds[Shell])) + 1
    BY <1>4, CloseCounts
  <2>3. Spare' = Cardinality(Unused(table))
    BY <1>2 DEF Spare, Unused
  <2>4. Cardinality(Unused(table)) \in Nat /\ Cardinality(Unused(fds[Shell])) \in Nat
    BY UnusedFinite
  <2> QED BY <2>1, <2>2, <2>3, <2>4 DEF Spare
<1> HIDE DEF table
<1>7. TypeInv'
  <2>1. fds' \in [Processes -> [Numbers -> End]]
    BY <1>1, <1>2 DEF TypeInv
  <2> QED BY <1>1, <1>3, <2>1 DEF TypeInv, Last, Making
<1>8. ShellTable'
  <2>1. ASSUME NEW n \in Numbers, n < 3 PROVE table[n] = Tty
    BY <1>2, <1>4, <2>1, Sizes DEF ShellTable
  <2>2. ASSUME NEW n \in Numbers, ~ (n < 3)
        PROVE  table[n] = Free \/ \E k \in Pipes : table[n] = R(k)
    BY <1>2, <2>2 DEF ShellTable
  <2> QED BY <1>2, <2>1, <2>2 DEF ShellTable
<1>9. ShellEnds'
  BY <1>1, <1>2, <1>4, <1>5 DEF ShellEnds, Holding
<1>10. PipesOK'
  <2>1. \A s \in Stages : made[s] # NoPipe => \E n \in Numbers : fds'[Shell][n] = R(made[s])
    BY <1>1, <1>2, <1>5 DEF PipesOK, Making
  <2>2. \A s \in Stages : s > i' \/ s = i' => made[s] = NoPipe
    BY <1>1, <1>3, Sizes DEF PipesOK, Making
  <2> QED BY <1>1, <2>1, <2>2 DEF PipesOK
<1>11. ChildrenOK'
  <2>1. ASSUME NEW s \in Stages, NEW n \in Numbers, NEW k \in Pipes,
               fds'[s][n] \in {R(k), W(k)}
        PROVE  \E m \in Numbers : fds'[Shell][m] = R(k)
    <3>1. PICK m \in Numbers : fds[Shell][m] = R(k)
      BY <1>1, <1>2, <2>1 DEF ChildrenOK, Making
    <3> QED BY <1>2, <1>5, <3>1
  <2> QED BY <1>1, <1>2, <2>1 DEF ChildrenOK
<1>12. QuietOK' /\ SpareOK'
  BY <1>1, <1>3, <1>6 DEF QuietOK, SpareOK, Making, Holding
<1> QED BY <1>7, <1>8, <1>9, <1>10, <1>11, <1>12

\* Here the shell gives two descriptors back, or one when it did not get the pipe.
LEMMA CloseLastKeeps ==
    ASSUME ShellInv, CloseLast PROVE ShellInv'
<1> USE DEF ShellInv
<1> DEFINE first == Close(fds[Shell], fd[1])
           table == Close(first, fd[2])
<1>1. /\ pc = "close" /\ pc' = "wait" /\ fds' = [fds EXCEPT ![Shell] = table]
      /\ UNCHANGED <<job, i, fd, state, made>>
  BY DEF CloseLast, stages, history
<1>2. /\ fds'[Shell] = table /\ \A t \in Stages : fds'[t] = fds[t]
      /\ table \in [Numbers -> End]
      /\ \A n \in Numbers : first[n] = IF n = fd[1] THEN Free ELSE fds[Shell][n]
      /\ \A n \in Numbers : table[n] = IF n = fd[2] THEN Free ELSE first[n]
  <2>1. /\ first \in [Numbers -> End]
        /\ \A n \in Numbers : first[n] = IF n = fd[1] THEN Free ELSE fds[Shell][n]
    BY InRange, Closed
  <2>2. /\ table \in [Numbers -> End]
        /\ \A n \in Numbers : table[n] = IF n = fd[2] THEN Free ELSE first[n]
    <3> HIDE DEF first
    <3> QED BY <2>1, Closed
  <2> HIDE DEF table, first
  <2> QED BY <1>1, <2>1, <2>2, OnlyTheShell
<1>3. /\ fd[1] \in Numbers /\ fd[2] \in Numbers /\ fd[1] >= 3 /\ fd[2] >= 3
      /\ \E k \in Pipes : fds[Shell][fd[1]] = R(k)
      /\ fds[Shell][fd[2]] = Free \/ \E k : fds[Shell][fd[2]] = W(k)
  BY <1>1 DEF ShellEnds, Holding
<1>4. Spare' >= 2
  <2>1. fds[Shell][fd[1]] # Free /\ fd[1] # fd[2]
    BY <1>3, EndsDiffer
  <2>2. Cardinality(Unused(first)) = Cardinality(Unused(fds[Shell])) + 1
    BY <1>3, <2>1, CloseCounts
  <2>3. first[fd[2]] = fds[Shell][fd[2]]
    BY <1>2, <1>3, <2>1
  <2>4. /\ Cardinality(Unused(table)) >= Cardinality(Unused(first))
        /\ first[fd[2]] # Free => Cardinality(Unused(table)) = Cardinality(Unused(first)) + 1
    <3> HIDE DEF first
    <3> QED BY <1>3, CloseCounts
  <2>5. Spare >= 1 \/ fds[Shell][fd[2]] # Free
    BY <1>1 DEF SpareOK, Holding
  <2>6. Spare' = Cardinality(Unused(table))
    BY <1>2 DEF Spare, Unused
  <2>7. /\ Cardinality(Unused(first)) \in Nat /\ Cardinality(Unused(table)) \in Nat
        /\ Cardinality(Unused(fds[Shell])) \in Nat
    BY UnusedFinite
  <2> QED BY <2>2, <2>3, <2>4, <2>5, <2>6, <2>7 DEF Spare
<1> HIDE DEF table, first
<1>5. TypeInv'
  <2>1. fds' \in [Processes -> [Numbers -> End]]
    BY <1>1, <1>2 DEF TypeInv
  <2> QED BY <1>1, <2>1 DEF TypeInv, Making
<1>6. ShellTable'
  <2>1. ASSUME NEW n \in Numbers, n < 3 PROVE table[n] = Tty
    BY <1>2, <1>3, <2>1, Sizes DEF ShellTable
  <2>2. ASSUME NEW n \in Numbers, ~ (n < 3)
        PROVE  table[n] = Free \/ \E k \in Pipes : table[n] = R(k)
    BY <1>2, <2>2 DEF ShellTable
  <2> QED BY <1>2, <2>1, <2>2 DEF ShellTable
<1>7. ShellEnds' /\ QuietOK' /\ SpareOK'
  BY <1>1, <1>4 DEF ShellEnds, QuietOK, SpareOK, Making, Holding
<1>8. PipesOK' /\ ChildrenOK'
  BY <1>1, <1>2 DEF PipesOK, ChildrenOK, Making
<1> QED BY <1>5, <1>6, <1>7, <1>8

\* The steps that only move the shell on.
LEMMA ShellMoves ==
    ASSUME ShellInv, ForkFails \/ Waited \/ CommandFails \/ Leave PROVE ShellInv'
<1> USE DEF ShellInv
<1>1. /\ \/ pc = "fork" /\ pc' = "close"
         \/ /\ pc = "wait" /\ pc' = "prompt"
            /\ \A s \in Stages : state[s] \in {"none", "reaped"}
         \/ pc = "command" /\ pc' = "prompt"
         \/ pc = "prompt" /\ pc' = "exited"
      /\ UNCHANGED <<job, i, fd, fds, state, made>>
  BY DEF ForkFails, Waited, CommandFails, Leave, stages, history
<1>2. TypeInv'
  BY <1>1 DEF TypeInv, Last, Making
<1>3. ShellTable' /\ ShellEnds' /\ SpareOK' /\ QuietOK'
  BY <1>1 DEF ShellTable, ShellEnds, SpareOK, Spare, Unused, QuietOK, Making, Holding
<1>4. PipesOK' /\ ChildrenOK'
  BY <1>1 DEF PipesOK, ChildrenOK, Making
<1> QED BY <1>2, <1>3, <1>4

\* A wait returns.
LEMMA ReapKeeps ==
    ASSUME ShellInv, NEW s \in Stages, Reap(s) PROVE ShellInv'
<1> USE DEF ShellInv
<1>1. /\ pc \in {"wait", "waitpid"} /\ state[s] = "zombie"
      /\ state' = [state EXCEPT ![s] = "reaped"]
      /\ pc' = IF pc = "wait" THEN "wait" ELSE "prompt"
      /\ UNCHANGED <<job, i, fd, fds, made>>
  BY DEF Reap, history
<1>2. state'[s] = "reaped" /\ \A t \in Stages : t # s => state'[t] = state[t]
  BY <1>1 DEF TypeInv
<1>3. TypeInv'
  BY <1>1 DEF TypeInv, Making, Resting
<1>4. ShellTable' /\ ShellEnds' /\ PipesOK' /\ SpareOK'
  BY <1>1 DEF ShellTable, ShellEnds, PipesOK, SpareOK, Spare, Unused, Making, Holding
<1>5. ChildrenOK'
  BY <1>1, <1>2 DEF ChildrenOK, Resting, Making
<1>6. QuietOK'
  BY <1>1, <1>2 DEF QuietOK
<1> QED BY <1>3, <1>4, <1>5, <1>6
-----------------------------------------------------------------------------
(***************************************************************************)
(* The steps of the stages.                                                *)
(***************************************************************************)
\* All descriptors of a process that ends are closed.
Nothing == [n \in Numbers |-> Free]

\* A process that has ended has nothing open.
LEMMA NothingIsOpen ==
    /\ Nothing \in [Numbers -> End] /\ \A n \in Numbers : Nothing[n] = Free
    /\ \A table : Within(Nothing, table)
BY EndsDiffer DEF Nothing, End, Within

\* A process ends.
LEMMA ExitKeeps ==
    ASSUME ShellInv, NEW s \in Stages, state[s] \in {"running", "shell"}, Exit(s)
    PROVE  ShellInv'
<1>1. /\ fds' = [fds EXCEPT ![s] = Nothing] /\ state' = [state EXCEPT ![s] = "zombie"]
      /\ UNCHANGED <<job, pc, i, fd, made>>
  BY DEF Exit, shell, history, Nothing
<1> QED BY <1>1, NothingIsOpen, ChildKeeps

\* A stage arranges its descriptors and executes its program.
LEMMA StartKeeps ==
    ASSUME ShellInv, NEW s \in Stages, Start(s) PROVE ShellInv'
<1> DEFINE to == stack[s].fd[2]
           first == stack[s].fd[1]
           wired == Wired(s)
           back  == Close(Close(wired, first), to)
<1>1. fds[s] \in [Numbers -> End] /\ Within(fds[s], fds[s])
  BY Sizes DEF ShellInv, TypeInv, Within
<1>2. wired \in [Numbers -> End] /\ Within(wired, fds[s])
  <2> DEFINE from == stack[s].in
             read == IF from = 0 THEN fds[s] ELSE Dup2(fds[s], from, 0)
             left == IF from = 0 THEN read ELSE Close(read, from)
             both == Dup2(left, to, 1)
  <2>1. read \in [Numbers -> End] /\ Within(read, fds[s])
    BY <1>1, OpensNothing
  <2>2. left \in [Numbers -> End] /\ Within(left, fds[s])
    <3> HIDE DEF read
    <3> QED BY <2>1, OpensNothing, WithinTransitive
  <2>3. both \in [Numbers -> End] /\ Within(both, fds[s])
    <3> HIDE DEF left
    <3> QED BY <2>2, OpensNothing, WithinTransitive
  <2>4. Close(both, to) \in [Numbers -> End] /\ Within(Close(both, to), fds[s])
    <3> HIDE DEF both
    <3> QED BY <2>3, OpensNothing, WithinTransitive
  <2>5. wired = IF s = Last THEN read ELSE Close(both, to)
    BY DEF Wired
  <2> HIDE DEF wired, read, both
  <2> QED BY <2>1, <2>4, <2>5
<1>3. back \in [Numbers -> End] /\ Within(back, fds[s])
  <2> HIDE DEF wired
  <2>1. Close(wired, first) \in [Numbers -> End] /\ Within(Close(wired, first), fds[s])
    BY <1>2, OpensNothing, WithinTransitive
  <2> DEFINE half == Close(wired, first)
  <2> HIDE DEF half
  <2>2. Close(half, to) \in [Numbers -> End] /\ Within(Close(half, to), fds[s])
    BY <2>1, OpensNothing, WithinTransitive DEF half
  <2> QED BY <2>2 DEF half
<1>4. /\ state[s] = "forked" /\ UNCHANGED <<job, pc, i, fd, made>>
      /\ \/ state' = [state EXCEPT ![s] = "shell"] /\ fds' = [fds EXCEPT ![s] = back]
         \/ state' = [state EXCEPT ![s] = "running"] /\ fds' = [fds EXCEPT ![s] = wired]
  BY DEF Start, shell, history
<1> HIDE DEF back, wired
<1>5. CASE state' = [state EXCEPT ![s] = "shell"] /\ fds' = [fds EXCEPT ![s] = back]
  BY <1>3, <1>4, <1>5, ChildKeeps
<1>6. CASE state' = [state EXCEPT ![s] = "running"] /\ fds' = [fds EXCEPT ![s] = wired]
  BY <1>2, <1>4, <1>6, ChildKeeps
<1> QED BY <1>4, <1>5, <1>6

\* So does a single command.
LEMMA StartCommandKeeps ==
    ASSUME ShellInv, StartCommand PROVE ShellInv'
<1> DEFINE writes == job.output \notin ReadOnly \cup {"none"} /\ Unused(fds[0]) # {}
           files  == IF writes THEN OpenOutput ELSE content
           output == IF writes THEN Redirect(fds[0], To(job.output), 1) ELSE fds[0]
           reads  == job.input # "none" /\ files[job.input] # Absent
           input  == IF reads THEN Redirect(output, From(job.input), 0) ELSE output
<1>1. /\ 0 \in Stages /\ fds[0] \in [Numbers -> End] /\ Within(fds[0], fds[0])
      /\ job.input \in Files \cup {"none"} /\ job.output \in Files \cup {"none"}
  BY Sizes DEF ShellInv, TypeInv, Within, Job
<1>2. output \in [Numbers -> End] /\ Within(output, fds[0])
  <2>1. writes => job.output \in Files
    BY <1>1
  <2> HIDE DEF writes
  <2> QED BY <1>1, <2>1, OpensNothing
<1>3. input \in [Numbers -> End] /\ Within(input, fds[0])
  <2>1. reads => job.input \in Files
    BY <1>1
  <2> HIDE DEF reads, output
  <2> QED BY <1>2, <2>1, OpensNothing, WithinTransitive
<1>4. /\ state[0] = "forked" /\ UNCHANGED <<job, pc, i, fd, made>>
      /\ \/ state' = [state EXCEPT ![0] = "zombie"] /\ fds' = [fds EXCEPT ![0] = Nothing]
         \/ state' = [state EXCEPT ![0] = "running"] /\ fds' = [fds EXCEPT ![0] = input]
  BY DEF StartCommand, shell, history, Nothing
<1> HIDE DEF input
<1>5. CASE state' = [state EXCEPT ![0] = "zombie"] /\ fds' = [fds EXCEPT ![0] = Nothing]
  BY <1>1, <1>4, <1>5, NothingIsOpen, ChildKeeps
<1>6. CASE state' = [state EXCEPT ![0] = "running"] /\ fds' = [fds EXCEPT ![0] = input]
  BY <1>1, <1>3, <1>4, <1>6, ChildKeeps
<1> QED BY <1>4, <1>5, <1>6

\* Any step of a stage.
LEMMA StageKeeps ==
    ASSUME ShellInv, NEW s \in Stages, StageStep(s) PROVE ShellInv'
<1>1. CASE Start(s)
  BY <1>1, StartKeeps
<1>2. CASE Read(s) \/ SecondShell(s)
  BY <1>2, SameKeeps DEF Read, SecondShell, shell, history
<1>3. CASE Write(s)
  <2>1. CASE Broken(fds[s][1])
    BY <1>3, <2>1, ExitKeeps DEF Write
  <2>2. CASE ~ Broken(fds[s][1])
    BY <1>3, <2>2, SameKeeps DEF Write, shell, history
  <2> QED BY <2>1, <2>2
<1>4. CASE Finish(s)
  BY <1>4, ExitKeeps DEF Finish
<1> QED BY <1>1, <1>2, <1>3, <1>4 DEF StageStep

-----------------------------------------------------------------------------
(***************************************************************************)
(* The words of a line.                                                    *)
(***************************************************************************)
\* The least element of a set that has one.
LEMMA MinIs ==
    ASSUME NEW S, S \subseteq Nat, NEW m \in S, \A n \in S : m <= n
    PROVE  CL!Min(S) = m
<1>1. \A x \in S : (\A y \in S : x <= y) => x = m OBVIOUS
<1>2. \A y \in S : (CHOOSE x \in S : \A z \in S : x <= z) <= y OBVIOUS
<1>3. (CHOOSE x \in S : \A z \in S : x <= z) \in S OBVIOUS
<1> QED BY <1>1, <1>2, <1>3 DEF CL!Min

\* The size of a set in module CommandLine.
LEMMA SameCount == \A S : CL!Cardinality(S) = Cardinality(S)
BY DEF CL!Cardinality, Cardinality

\* A sequence s holds c at the places p[1] .. p[K]; p[0] and p[K + 1] are just outside.
Marks(s, c, p, K) ==
    /\ K \in Nat /\ Len(s) \in Nat /\ DOMAIN s = 1 .. Len(s)
    /\ p \in [0 .. K + 1 -> Nat] /\ p[0] = 0 /\ p[K + 1] = Len(s) + 1
    /\ \A m, n \in 0 .. K + 1 : m < n => p[m] < p[n]
    /\ CL!Places(s, c) = {p[n] : n \in 1 .. K}

\* There are as many places as marks.
LEMMA MarksCount ==
    ASSUME NEW s, NEW c, NEW p, NEW K, Marks(s, c, p, K)
    PROVE  Cardinality(CL!Places(s, c)) = K
<1> DEFINE q == [n \in 1 .. K |-> p[n]]
           T == {p[n] : n \in 1 .. K}
<1>1. IsFiniteSet(1 .. K) /\ Cardinality(1 .. K) = K
  <2>1. K \in Nat BY DEF Marks
  <2>2. 1 \in Int /\ K \in Int BY <2>1
  <2>3. IsFiniteSet(1 .. K) /\ Cardinality(1 .. K) = IF 1 > K THEN 0 ELSE K - 1 + 1
    BY <2>2, FS_Interval
  <2> QED BY <2>1, <2>3
<1>2. \A m, n \in 1 .. K : m # n => p[m] # p[n]
  <2>1. K \in Nat /\ p \in [0 .. K + 1 -> Nat]
        /\ \A m, n \in 0 .. K + 1 : m < n => p[m] < p[n] BY DEF Marks
  <2>2. \A m \in 1 .. K : m \in 0 .. K + 1 /\ p[m] \in Nat BY <2>1
  <2>3. \A m, n \in 1 .. K : m < n \/ n < m \/ m = n BY <2>1
  <2> QED BY <2>1, <2>2, <2>3
<1>3. q \in Bijection(1 .. K, T)
  <2>1. q \in [1 .. K -> T] OBVIOUS
  <2>2. \A m, n \in 1 .. K : q[m] = q[n] => m = n BY <1>2
  <2>3. \A t \in T : \E n \in 1 .. K : q[n] = t OBVIOUS
  <2> HIDE DEF q, T
  <2> QED BY <2>1, <2>2, <2>3 DEF Bijection, Injection, Surjection, IsInjective
<1>4. ExistsBijection(1 .. K, T) BY <1>3 DEF ExistsBijection
<1>5. Cardinality(T) = K
  <2> HIDE DEF T
  <2> QED BY <1>1, <1>4, FS_Bijection
<1> QED BY <1>5 DEF Marks

\* cut is what strsep finds, call after call.
IsCut(s, c, cut, calls) ==
    cut = [n \in 0 .. calls |->
              IF n = 0 THEN 0
              ELSE CL!Min({m \in CL!Places(s, c) \cup {Len(s) + 1} : m > cut[n - 1]})]

\* The next place after a mark is the next mark.
LEMMA NextMark ==
    ASSUME NEW s, NEW c, NEW p, NEW K, Marks(s, c, p, K), NEW n \in 1 .. K + 1
    PROVE  CL!Min({m \in CL!Places(s, c) \cup {Len(s) + 1} : m > p[n - 1]}) = p[n]
<1> DEFINE S == {m \in CL!Places(s, c) \cup {Len(s) + 1} : m > p[n - 1]}
<1>1. /\ K \in Nat /\ p \in [0 .. K + 1 -> Nat] /\ Len(s) \in Nat
      /\ p[K + 1] = Len(s) + 1 /\ CL!Places(s, c) = {p[k] : k \in 1 .. K}
      /\ \A m, k \in 0 .. K + 1 : m < k => p[m] < p[k]
  BY DEF Marks
<1>2. \A m \in S : \E k \in 1 .. K + 1 : m = p[k]
  <2>1. \A k \in 1 .. K : k \in 1 .. K + 1 BY <1>1
  <2>2. K + 1 \in 1 .. K + 1 BY <1>1
  <2> QED BY <1>1, <2>1, <2>2
<1>3. p[n] \in S
  <2>1. n - 1 \in 0 .. K + 1 /\ n \in 0 .. K + 1 /\ n - 1 < n BY <1>1
  <2>2. p[n] > p[n - 1]
    <3>1. p[n - 1] < p[n] BY <1>1, <2>1
    <3>2. p[n] \in Nat /\ p[n - 1] \in Nat BY <1>1, <2>1
    <3> QED BY <3>1, <3>2
  <2>3. n \in 1 .. K \/ n = K + 1 BY <1>1
  <2>4. p[n] \in CL!Places(s, c) \cup {Len(s) + 1} BY <1>1, <2>3
  <2> QED BY <2>2, <2>4
<1>4. \A m \in S : m \in Nat /\ p[n] <= m
  <2> TAKE m \in S
  <2>1. PICK k \in 1 .. K + 1 : m = p[k] BY <1>2
  <2>2. n - 1 \in 0 .. K + 1 /\ n \in 0 .. K + 1 /\ k \in 0 .. K + 1 BY <1>1
  <2>3. p[n - 1] \in Nat /\ p[n] \in Nat /\ p[k] \in Nat BY <1>1, <2>2
  <2>4. p[k] > p[n - 1] BY <2>1
  <2>5. ~ k < n - 1 /\ k # n - 1
    <3>1. k < n - 1 => p[k] < p[n - 1] BY <1>1, <2>2
    <3>2. k = n - 1 => p[k] = p[n - 1] OBVIOUS
    <3>3. ~ p[k] < p[n - 1] /\ p[k] # p[n - 1] BY <2>3, <2>4
    <3> QED BY <3>1, <3>2, <3>3
  <2>6. k = n \/ n < k BY <1>1, <2>2, <2>5
  <2> QED BY <1>1, <2>1, <2>2, <2>3, <2>6
<1>5. S \subseteq Nat BY <1>4
<1> HIDE DEF S
<1>6. CL!Min(S) = p[n] BY <1>3, <1>4, <1>5, MinIs
<1> QED BY <1>6 DEF S

\* The fields of a sequence lie between its marks.
LEMMA FieldsAre ==
    ASSUME NEW s, NEW c, NEW p, NEW K, Marks(s, c, p, K)
    PROVE  CL!Fields(s, c) = [n \in 1 .. K + 1 |-> SubSeq(s, p[n - 1] + 1, p[n] - 1)]
<1> DEFINE calls == CL!Cardinality(CL!Places(s, c)) + 1
           cut == CHOOSE f : IsCut(s, c, f, calls)
<1>1. calls = K + 1 BY MarksCount, SameCount
<1>2. K \in Nat /\ p \in [0 .. K + 1 -> Nat] /\ p[0] = 0 BY DEF Marks
<1>3. CL!Fields(s, c) = [n \in 1 .. calls |-> SubSeq(s, cut[n - 1] + 1, cut[n] - 1)]
  BY DEF CL!Fields, IsCut
<1> HIDE DEF calls
<1>4. IsCut(s, c, p, calls)
  <2> DEFINE step(n) == IF n = 0 THEN 0
               ELSE CL!Min({m \in CL!Places(s, c) \cup {Len(s) + 1} : m > p[n - 1]})
  <2>1. ASSUME NEW n \in 0 .. K + 1 PROVE p[n] = step(n)
    <3>1. CASE n = 0 BY <1>2, <3>1
    <3>2. CASE n # 0
      <4>1. n \in 1 .. K + 1 BY <1>2, <3>2
      <4> QED BY <3>2, <4>1, NextMark
    <3> QED BY <3>1, <3>2
  <2>2. p = [n \in 0 .. K + 1 |-> p[n]] BY <1>2
  <2>3. p = [n \in 0 .. K + 1 |-> step(n)]
    <3> HIDE DEF step
    <3> QED BY <2>1, <2>2
  <2> QED BY <1>1, <2>3 DEF IsCut
<1>5. IsCut(s, c, cut, calls) BY <1>4
<1> HIDE DEF cut
<1>6. \A n \in 0 .. K + 1 : cut[n] = p[n]
  <2> DEFINE S == {n \in 0 .. K + 1 : cut[n] # p[n]}
  <2>1. ASSUME S # {} PROVE FALSE
    <3>1. PICK k \in S : \A m \in S : k <= m
      <4>1. S \subseteq Nat OBVIOUS
      <4> HIDE DEF S
      <4> QED BY <2>1, <4>1, LeastIs
    <3>2. k \in 0 .. K + 1 /\ cut[k] # p[k] OBVIOUS
    <3>3. cut[k] = IF k = 0 THEN 0
             ELSE CL!Min({m \in CL!Places(s, c) \cup {Len(s) + 1} : m > cut[k - 1]})
      BY <1>1, <1>5, <3>2 DEF IsCut
    <3>4. k # 0 BY <1>2, <3>2, <3>3
    <3>5. k \in 1 .. K + 1 /\ k - 1 \in 0 .. K + 1 /\ k - 1 < k BY <1>2, <3>2, <3>4
    <3>6. k - 1 \notin S BY <3>1, <3>5
    <3>7. cut[k - 1] = p[k - 1] BY <3>5, <3>6
    <3>8. cut[k] = CL!Min({m \in CL!Places(s, c) \cup {Len(s) + 1} : m > p[k - 1]})
      BY <3>3, <3>4, <3>7
    <3>9. cut[k] = p[k] BY <3>5, <3>8, NextMark
    <3> QED BY <3>2, <3>9
  <2> QED BY <2>1
<1>7. \A n \in 1 .. K + 1 : n \in 0 .. K + 1 /\ n - 1 \in 0 .. K + 1 BY <1>2
<1>8. \A n \in 1 .. K + 1 : SubSeq(s, cut[n - 1] + 1, cut[n] - 1)
                            = SubSeq(s, p[n - 1] + 1, p[n] - 1)
  BY <1>6, <1>7
<1> QED BY <1>1, <1>3, <1>8

\* f[n] is what is kept of the first n words.
IsKept(words, f, N) ==
    f = [n \in 0 .. N |->
            IF n = 0 THEN <<>>
            ELSE IF words[n] = <<>> THEN f[n - 1] ELSE Append(f[n - 1], words[n])]

\* What satisfies the recursion is what is kept.
LEMMA KeptIs ==
    ASSUME NEW words, Len(words) \in Nat, NEW f, IsKept(words, f, Len(words))
    PROVE  CL!NonEmpty(words) = f[Len(words)]
<1> DEFINE N == Len(words)
           kept == CHOOSE g : IsKept(words, g, N)
<1>1. CL!NonEmpty(words) = kept[N] BY DEF CL!NonEmpty, IsKept
<1>2. IsKept(words, kept, N) OBVIOUS
<1> HIDE DEF kept
<1> DEFINE S == {n \in 0 .. N : kept[n] # f[n]}
<1>3. ASSUME S # {} PROVE FALSE
  <2>1. PICK k \in S : \A m \in S : k <= m
    <3>1. S \subseteq Nat OBVIOUS
    <3> HIDE DEF S
    <3> QED BY <1>3, <3>1, LeastIs
  <2>2. k \in 0 .. N /\ kept[k] # f[k] OBVIOUS
  <2> DEFINE next(g) == IF k = 0 THEN <<>>
                        ELSE IF words[k] = <<>> THEN g[k - 1] ELSE Append(g[k - 1], words[k])
  <2>3. kept[k] = next(kept) BY <1>2, <2>2 DEF IsKept
  <2>4. f[k] = next(f) BY <2>2 DEF IsKept
  <2>5. CASE k = 0 BY <2>2, <2>3, <2>4, <2>5
  <2>6. CASE k # 0
    <3>1. k - 1 \in 0 .. N /\ k - 1 < k BY <2>2, <2>6
    <3>2. k - 1 \notin S BY <2>1, <3>1
    <3>3. kept[k - 1] = f[k - 1] BY <3>1, <3>2
    <3> QED BY <2>2, <2>3, <2>4, <3>3
  <2> QED BY <2>5, <2>6
<1>4. N \notin S BY <1>3
<1>5. N \in 0 .. N OBVIOUS
<1> QED BY <1>1, <1>4, <1>5

\* One word among empty ones is kept.
LEMMA OneWord ==
    ASSUME NEW words, NEW N \in Nat, Len(words) = N, NEW k \in 1 .. N, words[k] # <<>>,
           \A n \in 1 .. N : n # k => words[n] = <<>>
    PROVE  CL!NonEmpty(words) = <<words[k]>>
<1> DEFINE f == [n \in 0 .. N |-> IF n < k THEN <<>> ELSE <<words[k]>>]
<1>1. ASSUME NEW n \in 0 .. N
      PROVE  f[n] = IF n = 0 THEN <<>>
                    ELSE IF words[n] = <<>> THEN f[n - 1] ELSE Append(f[n - 1], words[n])
  <2>1. CASE n = 0 BY <2>1
  <2>2. CASE n # 0
    <3>1. n \in 1 .. N /\ n - 1 \in 0 .. N BY <2>2
    <3>2. f[n - 1] = IF n - 1 < k THEN <<>> ELSE <<words[k]>> BY <3>1
    <3>3. CASE n = k
      <4>1. f[n] = <<words[k]>> /\ f[n - 1] = <<>> BY <3>1, <3>2, <3>3
      <4>2. Append(<<>>, words[k]) = <<words[k]>> OBVIOUS
      <4> HIDE DEF f
      <4> QED BY <2>2, <3>3, <4>1, <4>2
    <3>4. CASE n # k
      <4>1. f[n] = f[n - 1] BY <3>1, <3>2, <3>4
      <4>2. words[n] = <<>> BY <3>1, <3>4
      <4> HIDE DEF f
      <4> QED BY <2>2, <4>1, <4>2
    <3> QED BY <3>3, <3>4
  <2> QED BY <2>1, <2>2
<1>2. IsKept(words, f, N)
  <2>1. f = [n \in 0 .. N |-> f[n]] OBVIOUS
  <2> HIDE DEF f
  <2> QED BY <1>1, <2>1 DEF IsKept
<1>3. f[N] = <<words[k]>> OBVIOUS
<1> HIDE DEF f
<1> QED BY <1>2, <1>3, KeptIs

\* A part of a sequence that holds one name and blanks is one word.
LEMMA LoneWord ==
    ASSUME NEW T, NEW s \in Seq(T), NEW a \in 1 .. Len(s), NEW b \in 1 .. Len(s),
           NEW k \in a .. b, s[k] # CL!Blank, \A m \in a .. b : m # k => s[m] = CL!Blank
    PROVE  CL!NonEmpty(CL!Fields(SubSeq(s, a, b), CL!Blank)) = <<<<s[k]>>>>
<1> DEFINE t == SubSeq(s, a, b)
           L == b - a + 1
           i0 == k - a + 1
           p == [n \in 0 .. L |-> IF n < i0 THEN n ELSE n + 1]
<1>1. /\ L \in Nat /\ L >= 1 /\ i0 \in 1 .. L /\ Len(t) = L /\ DOMAIN t = 1 .. L
      /\ \A n \in 1 .. L : t[n] = s[a + n - 1]
  <2>1. a \in Nat /\ b \in Nat /\ k \in Nat /\ Len(s) \in Nat OBVIOUS
  <2>2. t = [n \in 1 .. L |-> s[a + n - 1]] BY <2>1 DEF SubSeq
  <2> HIDE DEF t
  <2>3. L \in Nat /\ L >= 1 /\ i0 \in 1 .. L BY <2>1
  <2> HIDE DEF L
  <2>4. Len(t) = L /\ DOMAIN t = 1 .. L BY <2>2, <2>3
  <2> QED BY <2>2, <2>3, <2>4
<1>2. t[i0] = s[k]
  <2>1. a + i0 - 1 = k OBVIOUS
  <2> QED BY <1>1, <2>1
<1>3. \A n \in 1 .. L : n # i0 => t[n] = CL!Blank
  <2> TAKE n \in 1 .. L
  <2>1. a + n - 1 \in a .. b /\ (n # i0 => a + n - 1 # k) BY <1>1
  <2> HIDE DEF t, L, i0
  <2> QED BY <1>1, <2>1
<1> HIDE DEF t, L, i0
<1>9. ASSUME NEW m \in 1 .. L PROVE SubSeq(t, m, m) = <<t[m]>> /\ SubSeq(t, m, m - 1) = <<>>
  <2>1. SubSeq(t, m, m) = [n \in 1 .. 1 |-> t[m]] BY <1>1 DEF SubSeq
  <2>2. SubSeq(t, m, m - 1) = <<>> BY <1>1 DEF SubSeq
  <2> QED BY <2>1, <2>2
<1>4. Marks(t, CL!Blank, p, L - 1)
  <2>1. CL!Places(t, CL!Blank) = {p[n] : n \in 1 .. L - 1}
    <3>1. CL!Places(t, CL!Blank) = (1 .. L) \ {i0} BY <1>1, <1>2, <1>3 DEF CL!Places
    <3>2. \A n \in 1 .. L - 1 : p[n] \in (1 .. L) \ {i0} BY <1>1
    <3>3. ASSUME NEW m \in (1 .. L) \ {i0} PROVE \E n \in 1 .. L - 1 : p[n] = m
      <4>1. CASE m < i0
        <5>1. m \in 1 .. L - 1 /\ p[m] = m BY <1>1, <4>1
        <5> QED BY <5>1
      <4>2. CASE m > i0
        <5>1. m - 1 \in 1 .. L - 1 /\ p[m - 1] = m BY <1>1, <4>2
        <5> QED BY <5>1
      <4>3. m < i0 \/ m > i0
        <5> HIDE DEF p
        <5> QED BY <1>1
      <4> QED BY <4>1, <4>2, <4>3
    <3> HIDE DEF p
    <3> QED BY <3>1, <3>2, <3>3
  <2>2. p \in [0 .. L -> Nat] /\ p[0] = 0 /\ p[L] = L + 1 BY <1>1
  <2>3. \A m, n \in 0 .. L : m < n => p[m] < p[n] BY <1>1
  <2>4. L - 1 \in Nat /\ L - 1 + 1 = L BY <1>1
  <2> HIDE DEF p
  <2> QED BY <1>1, <2>1, <2>2, <2>3, <2>4 DEF Marks
<1> DEFINE words == CL!Fields(t, CL!Blank)
<1>5. words = [n \in 1 .. L |-> SubSeq(t, p[n - 1] + 1, p[n] - 1)]
  <2>1. L - 1 + 1 = L BY <1>1
  <2> HIDE DEF p
  <2> QED BY <1>4, <2>1, FieldsAre
<1> HIDE DEF words
<1>6. Len(words) = L BY <1>1, <1>5
<1>7. words[i0] = <<s[k]>>
  <2>1. p[i0 - 1] = i0 - 1 /\ p[i0] = i0 + 1 BY <1>1
  <2>2. p[i0 - 1] + 1 = i0 /\ p[i0] - 1 = i0 BY <1>1, <2>1
  <2>3. words[i0] = SubSeq(t, i0, i0) BY <1>1, <1>5, <2>2
  <2> QED BY <1>1, <1>2, <1>9, <2>3
<1>8. ASSUME NEW n \in 1 .. L, n # i0 PROVE words[n] = <<>>
  <2>1. words[n] = SubSeq(t, p[n - 1] + 1, p[n] - 1) BY <1>5
  <2>2. CASE n < i0
    <3>1. p[n - 1] = n - 1 /\ p[n] = n BY <1>1, <2>2
    <3>2. p[n - 1] + 1 = n /\ p[n] - 1 = n - 1 BY <1>1, <3>1
    <3> QED BY <1>9, <2>1, <3>2
  <2>3. CASE n > i0
    <3>1. p[n - 1] = n /\ p[n] = n + 1 BY <1>1, <2>3
    <3>2. p[n - 1] + 1 = n + 1 /\ p[n] - 1 = n BY <1>1, <3>1
    <3>3. SubSeq(t, n + 1, n) = <<>> BY <1>1
    <3> QED BY <2>1, <3>2, <3>3
  <2> QED BY <1>1, <1>8, <2>2, <2>3
<1> HIDE DEF p
<1>10. words[i0] # <<>> BY <1>7
<1> QED BY <1>1, <1>6, <1>7, <1>8, <1>10, OneWord DEF t, words

\* exec runs the program that a lone word names.
LEMMA ProgramIs ==
    ASSUME NEW a \in Programs PROVE CL!ProgramOf(<<<<a>>>>) = a
BY DEF CL!ProgramOf
-----------------------------------------------------------------------------
(***************************************************************************)
(* Pipelines.                                                              *)
(***************************************************************************)
\* A job is the record of its parts.
LEMMA JobParts ==
    ASSUME NEW j \in Job
    PROVE  /\ j = [stages |-> j.stages, input |-> j.input, output |-> j.output,
                   piped |-> j.piped]
           /\ j.stages \in Seq(Programs) /\ j.piped \in BOOLEAN
           /\ j.input \in Files \cup {"none"} /\ j.output \in Files \cup {"none"}
BY DEF Job

\* No program has the name of an operator or of a blank.
LEMMA NamesAre ==
    /\ \A a \in Programs : a # "|" /\ a # "<" /\ a # ">" /\ a # " "
    /\ \A f \in Files : f # "|" /\ f # "<" /\ f # ">" /\ f # " " /\ f # "none"
BY PipelineAssumption, MeaningsAssumption DEF Programs, CL!Blank, CL!Operators

\* What lines are made of.
Letters == Programs \cup Files \cup {"|", "<", ">", " "}

\* Between its bars, at p[1] .. p[N - 1], a line has the names at at[1] .. at[N] and blanks.
Spells(line, names, p, at) ==
    LET N == Len(names)
    IN  /\ line \in Seq(Letters) /\ Marks(line, "|", p, N - 1)
        /\ \A n \in 1 .. N :
              /\ at[n] \in p[n - 1] + 1 .. p[n] - 1 /\ line[at[n]] = names[n]
              /\ \A m \in p[n - 1] + 1 .. p[n] - 1 : m # at[n] => line[m] = CL!Blank

\* A pipeline in mind.
IsPipeline(j) == /\ j \in Job /\ Len(j.stages) > 1
                 /\ j.piped /\ j.input = "none" /\ j.output = "none"

\* A line with one stage and blanks between each two bars is read as the pipeline of them.
LEMMA PipelineRead ==
    ASSUME NEW j, IsPipeline(j), NEW line, NEW p, NEW at, Spells(line, j.stages, p, at)
    PROVE  CL!parsing_arg(line) = j
<1> DEFINE N == Len(j.stages)
           fields == CL!Fields(line, "|")
<1>0. /\ j \in Job /\ N > 1 /\ j.piped /\ j.input = "none" /\ j.output = "none"
      /\ line \in Seq(Letters) /\ Marks(line, "|", p, N - 1)
      /\ \A n \in 1 .. N :
            /\ at[n] \in p[n - 1] + 1 .. p[n] - 1 /\ line[at[n]] = j.stages[n]
            /\ \A m \in p[n - 1] + 1 .. p[n] - 1 : m # at[n] => line[m] = CL!Blank
  BY DEF IsPipeline, Spells
<1>1. j.stages \in Seq(Programs) /\ N \in Nat BY <1>0, JobParts
<1>2. fields = [n \in 1 .. N |-> SubSeq(line, p[n - 1] + 1, p[n] - 1)]
  <2>1. N - 1 + 1 = N BY <1>1
  <2> QED BY <1>0, <2>1, FieldsAre
<1>3. p \in [0 .. N -> Nat] /\ p[0] = 0 /\ p[N] = Len(line) + 1
      /\ \A m, n \in 0 .. N : m < n => p[m] < p[n]
  BY <1>0, <1>1 DEF Marks
<1>4. ASSUME NEW n \in 1 .. N
      PROVE  CL!ProgramOf(CL!NonEmpty(CL!Fields(fields[n], CL!Blank))) = j.stages[n]
  <2> DEFINE a == p[n - 1] + 1
             b == p[n] - 1
  <2>1. n \in 0 .. N /\ n - 1 \in 0 .. N /\ N \in 0 .. N /\ 0 \in 0 .. N BY <1>1
  <2>2. p[n - 1] \in Nat /\ p[n] \in Nat BY <1>3, <2>1
  <2>3. p[n] <= Len(line) + 1
    <3>1. n = N \/ n < N BY <1>1
    <3>2. p[n] = p[N] \/ p[n] < p[N] BY <1>3, <2>1, <3>1
    <3> QED BY <1>3, <2>2, <3>2
  <2>4. at[n] \in a .. b BY <1>0
  <2>5. a \in 1 .. Len(line) /\ b \in 1 .. Len(line)
    <3>1. Len(line) \in Nat BY <1>0
    <3>2. a <= b BY <2>2, <2>4
    <3> QED BY <2>2, <2>3, <3>1, <3>2
  <2>6. fields[n] = SubSeq(line, a, b) BY <1>2
  <2>7. line[at[n]] = j.stages[n] /\ \A m \in a .. b : m # at[n] => line[m] = CL!Blank
    BY <1>0
  <2>8. j.stages[n] \in Programs BY <1>1
  <2>9. line[at[n]] # CL!Blank BY <2>7, <2>8, NamesAre DEF CL!Blank
  <2> HIDE DEF a, b, fields
  <2>10. CL!NonEmpty(CL!Fields(fields[n], CL!Blank)) = <<<<j.stages[n]>>>>
    BY <1>0, <2>4, <2>5, <2>6, <2>7, <2>9, LoneWord
  <2> QED BY <2>8, <2>10, ProgramIs
<1>5. CL!Has(line, "|")
  <2>1. 1 \in 1 .. N - 1 BY <1>0, <1>1
  <2>2. p[1] \in CL!Places(line, "|") BY <1>0, <2>1 DEF Marks
  <2> QED BY <2>2 DEF CL!Has
<1> HIDE DEF fields
<1>6. DOMAIN fields = 1 .. N BY <1>2
<1>7. [n \in DOMAIN fields |-> CL!ProgramOf(CL!NonEmpty(CL!Fields(fields[n], CL!Blank)))]
        = j.stages
  <2>1. j.stages = [n \in 1 .. N |-> j.stages[n]] BY <1>1
  <2> QED BY <1>4, <1>6, <2>1
<1>8. CL!parsing_arg(line) = [stages |-> j.stages, input |-> "none", output |-> "none",
                              piped |-> TRUE]
  BY <1>5, <1>7 DEF CL!parsing_arg, fields
<1>9. j.piped = TRUE BY <1>0, JobParts
<1> QED BY <1>0, <1>8, <1>9, JobParts

\* A pipeline that is typed without blanks is read as it is meant.
LEMMA CloseBars ==
    ASSUME NEW j, IsPipeline(j)
    PROVE  CL!parsing_arg(PipeLine(j, <<"|">>)) = j
<1> DEFINE N == Len(j.stages)
           L == 2 * N - 1
           line == PipeLine(j, <<"|">>)
           p == [n \in 0 .. N |-> 2 * n]
           at == [n \in 1 .. N |-> 2 * n - 1]
<1>1. j.stages \in Seq(Programs) /\ N \in Nat /\ N > 1 BY JobParts DEF IsPipeline
<1>2. line = [n \in 1 .. L |-> IF n % 2 = 1 THEN j.stages[(n + 1) \div 2] ELSE "|"]
  <2> HIDE DEF N
  <2>1. Len(<<"|">>) + 1 = 2 /\ <<"|">>[1] = "|" OBVIOUS
  <2>2. (N - 1) * 2 + 1 = L BY <1>1
  <2>3. \A n \in 1 .. L : /\ (n % 2 = 1 <=> (n - 1) % 2 = 0)
                          /\ (n % 2 # 1 => (n - 1) % 2 = 1)
                          /\ (n % 2 = 1 => (n - 1) \div 2 + 1 = (n + 1) \div 2)
    BY <1>1, SMT
  <2>4. line = [n \in 1 .. (N - 1) * 2 + 1 |-> IF (n - 1) % 2 = 0
                   THEN j.stages[(n - 1) \div 2 + 1] ELSE <<"|">>[(n - 1) % 2]]
    BY <2>1 DEF PipeLine, N
  <2> HIDE DEF line, L
  <2> QED BY <2>1, <2>2, <2>3, <2>4
<1>3. L \in Nat /\ Len(line) = L /\ DOMAIN line = 1 .. L
  <2>1. L \in Nat BY <1>1
  <2> HIDE DEF line, L
  <2> QED BY <1>2, <2>1
<1>4. \A n \in 1 .. N : at[n] \in 1 .. L /\ line[at[n]] = j.stages[n]
  <2> TAKE n \in 1 .. N
  <2>1. at[n] = 2 * n - 1 /\ 2 * n - 1 \in 1 .. L BY <1>1
  <2>2. (2 * n - 1) % 2 = 1 /\ (2 * n - 1 + 1) \div 2 = n BY <1>1, SMT
  <2> HIDE DEF line, L, at
  <2> QED BY <1>2, <2>1, <2>2
<1>5. CL!Places(line, "|") = {p[n] : n \in 1 .. N - 1}
  <2>1. ASSUME NEW n \in 1 .. L PROVE line[n] = "|" <=> n % 2 = 0
    <3>1. CASE n % 2 = 1
      <4>1. (n + 1) \div 2 \in 1 .. N BY <1>1, <3>1, SMT
      <4>2. line[n] = j.stages[(n + 1) \div 2] BY <1>2, <3>1
      <4>3. line[n] \in Programs BY <1>1, <4>1, <4>2
      <4>4. line[n] # "|" BY <4>3, NamesAre
      <4>5. n % 2 # 0 BY <3>1
      <4> HIDE DEF line
      <4> QED BY <4>4, <4>5
    <3>2. CASE n % 2 # 1
      <4>1. n % 2 = 0 BY <3>2, SMT
      <4> QED BY <1>2, <4>1
    <3> QED BY <3>1, <3>2
  <2>2. \A n \in 1 .. N - 1 : p[n] \in 1 .. L /\ p[n] % 2 = 0
    <3> TAKE n \in 1 .. N - 1
    <3>1. p[n] = 2 * n BY <1>1
    <3>2. 2 * n \in 1 .. L /\ (2 * n) % 2 = 0 BY <1>1, SMT
    <3> QED BY <3>1, <3>2
  <2>3. ASSUME NEW n \in 1 .. L, n % 2 = 0 PROVE \E k \in 1 .. N - 1 : p[k] = n
    <3>1. n \div 2 \in 1 .. N - 1 /\ 2 * (n \div 2) = n BY <1>1, <2>3, SMT
    <3>2. p[n \div 2] = 2 * (n \div 2) BY <1>1, <3>1
    <3> QED BY <3>1, <3>2
  <2> HIDE DEF line, L, p, N
  <2> QED BY <1>3, <2>1, <2>2, <2>3 DEF CL!Places
<1>6. Marks(line, "|", p, N - 1)
  <2>1. p \in [0 .. N -> Nat] /\ p[0] = 0 /\ p[N] = L + 1 BY <1>1
  <2>2. \A m, n \in 0 .. N : m < n => p[m] < p[n] BY <1>1
  <2>3. N - 1 \in Nat /\ N - 1 + 1 = N BY <1>1
  <2> HIDE DEF line, L, p, N
  <2> QED BY <1>3, <1>5, <2>1, <2>2, <2>3 DEF Marks
<1>7. line \in Seq(Letters)
  <2>1. \A n \in 1 .. L : line[n] \in Letters
    <3> TAKE n \in 1 .. L
    <3>1. CASE n % 2 = 1
      <4>1. (n + 1) \div 2 \in 1 .. N BY <1>1, <3>1, SMT
      <4>2. line[n] = j.stages[(n + 1) \div 2] BY <1>2, <3>1
      <4>3. line[n] \in Programs BY <1>1, <4>1, <4>2
      <4> QED BY <4>3 DEF Letters
    <3>2. CASE n % 2 # 1 BY <1>2, <3>2 DEF Letters
    <3> QED BY <3>1, <3>2
  <2>2. line = [n \in 1 .. L |-> line[n]] BY <1>2
  <2> HIDE DEF line, L
  <2> QED BY <1>3, <2>1, <2>2
<1>8. \A n \in 1 .. N : /\ at[n] \in p[n - 1] + 1 .. p[n] - 1
                        /\ \A m \in p[n - 1] + 1 .. p[n] - 1 : m = at[n]
  <2> TAKE n \in 1 .. N
  <2>1. p[n - 1] + 1 = 2 * n - 1 /\ p[n] - 1 = 2 * n - 1 /\ at[n] = 2 * n - 1 BY <1>1
  <2> HIDE DEF p, at, N
  <2> QED BY <2>1
<1>9. N = Len(j.stages) OBVIOUS
<1> HIDE DEF p, at, N, L, line
<1>10. Spells(line, j.stages, p, at)
  BY <1>4, <1>6, <1>7, <1>8, <1>9 DEF Spells
<1>11. CL!parsing_arg(line) = j BY <1>10, PipelineRead
<1> QED BY <1>11 DEF line

\* A pipeline that is typed with blanks is read as it is meant.
LEMMA WideBars ==
    ASSUME NEW j, IsPipeline(j)
    PROVE  CL!parsing_arg(PipeLine(j, <<" ", "|", " ">>)) = j
<1> DEFINE N == Len(j.stages)
           L == 4 * N - 3
           line == PipeLine(j, <<" ", "|", " ">>)
           p == [n \in 0 .. N |-> IF n = 0 THEN 0 ELSE IF n = N THEN 4 * N - 2 ELSE 4 * n - 1]
           at == [n \in 1 .. N |-> 4 * n - 3]
           put(n) == IF n % 4 = 1 THEN j.stages[(n + 3) \div 4]
                     ELSE IF n % 4 = 3 THEN "|" ELSE " "
<1>1. j.stages \in Seq(Programs) /\ N \in Nat /\ N > 1 BY JobParts DEF IsPipeline
<1>2. line = [n \in 1 .. L |-> put(n)]
  <2> HIDE DEF N
  <2> DEFINE bar == <<" ", "|", " ">>
  <2>1. Len(bar) + 1 = 4 /\ bar[1] = " " /\ bar[2] = "|" /\ bar[3] = " " OBVIOUS
  <2>2. (N - 1) * 4 + 1 = L BY <1>1
  <2>3. \A n \in 1 .. L : /\ (n % 4 = 1 <=> (n - 1) % 4 = 0)
                          /\ (n % 4 = 3 <=> (n - 1) % 4 = 2)
                          /\ (n - 1) % 4 \in {0, 1, 2, 3}
                          /\ (n % 4 = 1 => (n - 1) \div 4 + 1 = (n + 3) \div 4)
    BY <1>1, SMT
  <2>4. line = [n \in 1 .. (N - 1) * 4 + 1 |-> IF (n - 1) % 4 = 0
                   THEN j.stages[(n - 1) \div 4 + 1] ELSE bar[(n - 1) % 4]]
    BY <2>1 DEF PipeLine, N
  <2> HIDE DEF line, L, bar
  <2>5. \A n \in 1 .. L : (n - 1) % 4 # 0 => bar[(n - 1) % 4] = IF n % 4 = 3 THEN "|" ELSE " "
    BY <2>1, <2>3
  <2> QED BY <2>2, <2>3, <2>4, <2>5
<1>3. L \in Nat /\ Len(line) = L /\ DOMAIN line = 1 .. L
  <2>1. L \in Nat BY <1>1
  <2> HIDE DEF line, L, put
  <2> QED BY <1>2, <2>1
<1>4. \A n \in 1 .. N : at[n] \in 1 .. L /\ line[at[n]] = j.stages[n]
  <2> TAKE n \in 1 .. N
  <2>1. at[n] = 4 * n - 3 /\ 4 * n - 3 \in 1 .. L BY <1>1
  <2>2. (4 * n - 3) % 4 = 1 /\ (4 * n - 3 + 3) \div 4 = n BY <1>1, SMT
  <2> HIDE DEF line, L, at
  <2> QED BY <1>2, <2>1, <2>2
<1>13. \A n \in 1 .. L : n % 4 = 1 => line[n] \in Programs
  <2> SUFFICES ASSUME NEW n \in 1 .. L, n % 4 = 1 PROVE line[n] \in Programs OBVIOUS
  <2>1. (n + 3) \div 4 \in 1 .. N BY <1>1, SMT
  <2>2. line[n] = put(n)
    <3> HIDE DEF line, L, put
    <3> QED BY <1>2
  <2>3. line[n] = j.stages[(n + 3) \div 4]
    <3> HIDE DEF line
    <3> QED BY <2>2
  <2> HIDE DEF line, put
  <2> QED BY <1>1, <2>1, <2>3
<1>14. \A n \in 1 .. L : /\ n % 4 = 3 => line[n] = "|"
                         /\ n % 4 # 1 /\ n % 4 # 3 => line[n] = " "
  <2> TAKE n \in 1 .. L
  <2>1. line[n] = put(n)
    <3> HIDE DEF line, L, put
    <3> QED BY <1>2
  <2>2. n % 4 = 3 => n % 4 # 1 BY SMT
  <2> HIDE DEF line, L
  <2> QED BY <2>1, <2>2
<1>5. CL!Places(line, "|") = {p[n] : n \in 1 .. N - 1}
  <2>1. ASSUME NEW n \in 1 .. L PROVE line[n] = "|" <=> n % 4 = 3
    <3>1. CASE n % 4 = 1
      <4>1. line[n] \in Programs BY <1>13, <3>1
      <4>2. line[n] # "|" BY <4>1, NamesAre
      <4>3. n % 4 # 3 BY <3>1
      <4> HIDE DEF line
      <4> QED BY <4>2, <4>3
    <3>2. CASE n % 4 = 3 BY <1>14, <3>2
    <3>3. CASE n % 4 # 1 /\ n % 4 # 3
      <4>1. line[n] = " " BY <1>14, <3>3
      <4> HIDE DEF line
      <4> QED BY <3>3, <4>1
    <3> QED BY <3>1, <3>2, <3>3
  <2>2. \A n \in 1 .. N - 1 : p[n] \in 1 .. L /\ p[n] % 4 = 3
    <3> TAKE n \in 1 .. N - 1
    <3>1. p[n] = 4 * n - 1 BY <1>1
    <3>2. 4 * n - 1 \in 1 .. L /\ (4 * n - 1) % 4 = 3 BY <1>1, SMT
    <3> QED BY <3>1, <3>2
  <2>3. ASSUME NEW n \in 1 .. L, n % 4 = 3 PROVE \E k \in 1 .. N - 1 : p[k] = n
    <3> DEFINE k == (n + 1) \div 4
    <3>1. k \in 1 .. N - 1 /\ 4 * k - 1 = n BY <1>1, <2>3, SMT
    <3> HIDE DEF k
    <3>2. p[k] = 4 * k - 1 BY <1>1, <3>1
    <3> QED BY <3>1, <3>2
  <2> HIDE DEF line, L, p, N
  <2> QED BY <1>3, <2>1, <2>2, <2>3 DEF CL!Places
<1>6. Marks(line, "|", p, N - 1)
  <2>1. p \in [0 .. N -> Nat] /\ p[0] = 0 /\ p[N] = L + 1 BY <1>1
  <2>2. \A m, n \in 0 .. N : m < n => p[m] < p[n] BY <1>1
  <2>3. N - 1 \in Nat /\ N - 1 + 1 = N BY <1>1
  <2> HIDE DEF line, L, p, N
  <2> QED BY <1>3, <1>5, <2>1, <2>2, <2>3 DEF Marks
<1>7. line \in Seq(Letters)
  <2>1. \A n \in 1 .. L : line[n] \in Letters
    <3> HIDE DEF line
    <3> QED BY <1>13, <1>14 DEF Letters
  <2>2. line = [n \in 1 .. L |-> line[n]] BY <1>2
  <2> HIDE DEF line, L
  <2> QED BY <1>3, <2>1, <2>2
<1>8. \A n \in 1 .. N :
         /\ at[n] \in p[n - 1] + 1 .. p[n] - 1
         /\ \A m \in p[n - 1] + 1 .. p[n] - 1 : m # at[n] => line[m] = CL!Blank
  <2> TAKE n \in 1 .. N
  <2>1. at[n] = 4 * n - 3 BY <1>1
  <2>2. p[n - 1] + 1 = IF n = 1 THEN 1 ELSE 4 * n - 4
    <3>1. n - 1 \in 0 .. N /\ n - 1 # N /\ (n - 1 = 0 <=> n = 1) BY <1>1
    <3>2. p[n - 1] = IF n - 1 = 0 THEN 0 ELSE 4 * (n - 1) - 1 BY <3>1
    <3> HIDE DEF p
    <3> QED BY <3>1, <3>2
  <2>3. p[n] - 1 = IF n = N THEN 4 * N - 3 ELSE 4 * n - 2
    <3>1. n \in 0 .. N /\ n # 0 BY <1>1
    <3>2. p[n] = IF n = N THEN 4 * N - 2 ELSE 4 * n - 1 BY <3>1
    <3> HIDE DEF p
    <3> QED BY <1>1, <3>2
  <2> HIDE DEF p, at, line
  <2>4. at[n] \in p[n - 1] + 1 .. p[n] - 1 BY <1>1, <2>1, <2>2, <2>3
  <2>5. ASSUME NEW m \in p[n - 1] + 1 .. p[n] - 1, m # at[n] PROVE line[m] = CL!Blank
    <3>1. m \in 1 .. L /\ (m = 4 * n - 4 \/ m = 4 * n - 2)
      BY <1>1, <2>1, <2>2, <2>3, <2>5
    <3>2. m % 4 # 1 /\ m % 4 # 3
      <4>1. (4 * n - 4) % 4 = 0 /\ (4 * n - 2) % 4 = 2 BY SMT
      <4> QED BY <3>1, <4>1
    <3> QED BY <1>14, <3>1, <3>2 DEF CL!Blank
  <2> QED BY <2>4, <2>5
<1>9. N = Len(j.stages) OBVIOUS
<1> HIDE DEF p, at, N, L, line
<1>10. Spells(line, j.stages, p, at)
  BY <1>4, <1>6, <1>7, <1>8, <1>9 DEF Spells
<1>11. CL!parsing_arg(line) = j BY <1>10, PipelineRead
<1> QED BY <1>11 DEF line
-----------------------------------------------------------------------------
(***************************************************************************)
(* Commands with their files.                                              *)
(***************************************************************************)
\* A part of length one.
LEMMA PartOfOne ==
    ASSUME NEW s, NEW m \in Int PROVE SubSeq(s, m, m) = <<s[m]>>
<1>1. SubSeq(s, m, m) = [n \in 1 .. 1 |-> s[m + n - 1]]
  <2>1. m - m + 1 = 1 OBVIOUS
  <2> QED BY <2>1 DEF SubSeq
<1>2. \A n \in 1 .. 1 : m + n - 1 = m OBVIOUS
<1>3. SubSeq(s, m, m) = [n \in 1 .. 1 |-> s[m]] BY <1>1, <1>2
<1>4. [n \in 1 .. 1 |-> s[m]] = <<s[m]>> OBVIOUS
<1> QED BY <1>3, <1>4

\* The words of a command end before the first one with an operator.
LEMMA ArgvIs ==
    ASSUME NEW s \in Seq(Letters), Len(s) >= 3, s[1] \in Programs, s[2] = CL!Blank,
           s[3] \in CL!Operators, NEW p, NEW K, Marks(s, CL!Blank, p, K)
    PROVE  CL!com_argv(s) = <<<<s[1]>>>>
<1> DEFINE words == CL!Fields(s, CL!Blank)
           ends == {n \in DOMAIN words : \E o \in CL!Operators : CL!Has(words[n], o)}
<1>1. /\ K \in Nat /\ Len(s) \in Nat /\ DOMAIN s = 1 .. Len(s)
      /\ p \in [0 .. K + 1 -> Nat] /\ p[0] = 0 /\ p[K + 1] = Len(s) + 1
      /\ \A m, n \in 0 .. K + 1 : m < n => p[m] < p[n]
      /\ CL!Places(s, CL!Blank) = {p[n] : n \in 1 .. K}
  BY DEF Marks
<1>2. words = [n \in 1 .. K + 1 |-> SubSeq(s, p[n - 1] + 1, p[n] - 1)]
  BY FieldsAre
<1>3. s[1] # CL!Blank /\ s[3] # CL!Blank /\ s[1] \notin CL!Operators
  BY NamesAre DEF CL!Operators, CL!Blank
<1>4. /\ 2 \in CL!Places(s, CL!Blank)
      /\ 1 \notin CL!Places(s, CL!Blank) /\ 3 \notin CL!Places(s, CL!Blank)
  BY <1>1, <1>3 DEF CL!Places
<1>5. PICK k \in 1 .. K : p[k] = 2 BY <1>1, <1>4
<1>6. \A n \in 1 .. K : p[n] # 1 /\ p[n] # 3 BY <1>1, <1>4
<1>7. K >= 1 /\ 1 \in 1 .. K /\ 1 \in 0 .. K + 1 /\ 2 \in 0 .. K + 1 /\ 0 \in 0 .. K + 1
  BY <1>1, <1>5
<1>8. p[1] = 2
  <2>1. p[1] > 0 /\ p[1] \in Nat
    <3>1. p[0] < p[1] /\ p[1] \in Nat BY <1>1, <1>7
    <3> QED BY <1>1, <3>1
  <2>2. k = 1 \/ 1 < k BY <1>1
  <2>3. k \in 0 .. K + 1 BY <1>1
  <2>4. 1 < k => p[1] < 2 BY <1>1, <1>5, <1>7, <2>3
  <2> QED BY <1>5, <1>6, <1>7, <2>1, <2>2, <2>4
<1>9. p[2] \in Nat /\ p[2] >= 4 /\ p[2] <= Len(s) + 1
  <2>1. p[2] \in Nat /\ p[1] < p[2] BY <1>1, <1>7
  <2>2. CASE K = 1 BY <1>1, <2>1, <2>2
  <2>3. CASE K > 1
    <3>1. 2 \in 1 .. K /\ K + 1 \in 0 .. K + 1 /\ 2 < K + 1 BY <1>1, <2>3
    <3>2. p[2] # 3 /\ p[2] < p[K + 1] BY <1>1, <1>6, <1>7, <3>1
    <3> QED BY <1>1, <1>8, <2>1, <3>2
  <2> QED BY <1>1, <1>7, <2>2, <2>3
<1>10. words[1] = <<s[1]>>
  <2>1. p[0] + 1 = 1 /\ p[1] - 1 = 1 BY <1>1, <1>8
  <2>2. 1 \in 1 .. K + 1 /\ 1 - 1 = 0 BY <1>1
  <2>3. words[1] = SubSeq(s, 1, 1)
    <3> HIDE DEF words
    <3> QED BY <1>2, <2>1, <2>2
  <2>4. SubSeq(s, 1, 1) = <<s[1]>> BY PartOfOne
  <2> HIDE DEF words
  <2> QED BY <2>3, <2>4
<1>11. DOMAIN words[2] = 1 .. p[2] - 3 /\ words[2][1] = s[3]
  <2>1. p[1] + 1 = 3 /\ 2 - 1 = 1 /\ 2 \in 1 .. K + 1 BY <1>1, <1>7, <1>8
  <2>2. words[2] = SubSeq(s, 3, p[2] - 1)
    <3> HIDE DEF words
    <3> QED BY <1>2, <2>1
  <2>3. SubSeq(s, 3, p[2] - 1) = [n \in 1 .. p[2] - 3 |-> s[3 + n - 1]]
    <3>1. p[2] - 1 - 3 + 1 = p[2] - 3 BY <1>9
    <3> QED BY <1>1, <1>9, <3>1 DEF SubSeq
  <2>4. 1 \in 1 .. p[2] - 3 /\ 3 + 1 - 1 = 3 BY <1>9
  <2> HIDE DEF words
  <2> QED BY <2>2, <2>3, <2>4
<1> HIDE DEF words
<1>12. 2 \in ends
  <2>1. 2 \in DOMAIN words BY <1>1, <1>2, <1>7
  <2>2. 1 \in DOMAIN words[2] BY <1>9, <1>11
  <2>3. 1 \in CL!Places(words[2], s[3]) BY <1>11, <2>2 DEF CL!Places
  <2>4. CL!Has(words[2], s[3]) BY <2>3 DEF CL!Has
  <2> QED BY <2>1, <2>4
<1>13. 1 \notin ends
  <2> SUFFICES ASSUME NEW o \in CL!Operators, CL!Has(words[1], o) PROVE FALSE OBVIOUS
  <2>1. PICK n \in DOMAIN words[1] : words[1][n] = o BY DEF CL!Has, CL!Places
  <2>2. DOMAIN <<s[1]>> = 1 .. 1 /\ <<s[1]>>[1] = s[1] OBVIOUS
  <2>3. n = 1 BY <1>10, <2>1, <2>2
  <2> QED BY <1>3, <1>10, <2>1, <2>2, <2>3
<1>14. ends \subseteq Nat /\ \A n \in ends : 2 <= n
  <2>1. DOMAIN words = 1 .. K + 1 BY <1>2
  <2>2. \A n \in ends : n \in 1 .. K + 1 /\ n # 1 BY <1>13, <2>1
  <2> HIDE DEF ends
  <2> QED BY <1>1, <2>2
<1>15. CL!Min(ends) = 2
  <2> HIDE DEF ends
  <2> QED BY <1>12, <1>14, MinIs
<1>16. SubSeq(words, 1, 1) = <<<<s[1]>>>>
  <2>1. SubSeq(words, 1, 1) = <<words[1]>> BY PartOfOne
  <2> QED BY <1>10, <2>1
<1>17. CL!com_argv(s) = CL!NonEmpty(SubSeq(words, 1, 1))
  <2>1. ends # {} BY <1>12
  <2> DEFINE firsts == SubSeq(words, 1, CL!Min(ends) - 1)
  <2>2. CL!com_argv(s) = CL!NonEmpty(IF ends = {} THEN words ELSE firsts)
    BY DEF CL!com_argv, words
  <2>3. CL!Min(ends) - 1 = 1 BY <1>15
  <2> HIDE DEF ends
  <2> QED BY <2>1, <2>2, <2>3
<1> DEFINE first == <<<<s[1]>>>>
<1>18. Len(first) = 1 /\ first[1] = <<s[1]>> /\ <<s[1]>> # <<>> OBVIOUS
<1>19. \A n \in 1 .. 1 : n = 1 OBVIOUS
<1> HIDE DEF first
<1>20. CL!NonEmpty(first) = <<first[1]>>
  <2>1. first[1] # <<>> BY <1>18
  <2>2. \A n \in 1 .. 1 : n # 1 => first[n] = <<>> BY <1>19
  <2>3. 1 \in Nat /\ 1 \in 1 .. 1 OBVIOUS
  <2> QED BY ONLY <1>18, <2>1, <2>2, <2>3, OneWord
<1> QED BY <1>16, <1>17, <1>18, <1>20 DEF first

\* A part that holds the name of a file and blanks stands for the file.
LEMMA FileIs ==
    ASSUME NEW s \in Seq(Letters), NEW a \in 1 .. Len(s), NEW b \in 1 .. Len(s),
           NEW k \in a .. b, s[k] \in Files, \A m \in a .. b : m # k => s[m] = CL!Blank
    PROVE  CL!FileOf(SubSeq(s, a, b)) = s[k]
<1> DEFINE t == SubSeq(s, a, b)
           L == b - a + 1
           i0 == k - a + 1
           inked == {n \in DOMAIN t : t[n] # CL!Blank}
<1>1. /\ L \in Nat /\ i0 \in 1 .. L /\ DOMAIN t = 1 .. L
      /\ \A n \in 1 .. L : t[n] = s[a + n - 1]
  <2>1. a \in Nat /\ b \in Nat /\ k \in Nat /\ Len(s) \in Nat OBVIOUS
  <2>2. t = [n \in 1 .. L |-> s[a + n - 1]] BY <2>1 DEF SubSeq
  <2> HIDE DEF t
  <2>3. L \in Nat /\ i0 \in 1 .. L BY <2>1
  <2> HIDE DEF L
  <2> QED BY <2>2, <2>3
<1>2. t[i0] = s[k]
  <2>1. a + i0 - 1 = k OBVIOUS
  <2> QED BY <1>1, <2>1
<1>3. \A n \in 1 .. L : n # i0 => t[n] = CL!Blank
  <2> TAKE n \in 1 .. L
  <2>1. a + n - 1 \in a .. b /\ (n # i0 => a + n - 1 # k) BY <1>1
  <2> HIDE DEF t, L, i0
  <2> QED BY <1>1, <2>1
<1>4. s[k] # CL!Blank BY NamesAre DEF CL!Blank
<1> HIDE DEF t, L, i0
<1>5. inked = {i0} BY <1>1, <1>2, <1>3, <1>4
<1>6. CL!Min({i0}) = i0
  <2> DEFINE S == {i0}
  <2>1. S \subseteq Nat /\ i0 \in S /\ \A n \in S : i0 <= n BY <1>1
  <2> HIDE DEF S, inked
  <2>2. CL!Min(S) = i0 BY <2>1, MinIs
  <2> QED BY <2>2 DEF S
<1>7. CL!Max({i0}) = i0
  <2>1. i0 \in Nat BY <1>1
  <2>2. i0 \in {i0} /\ \A y \in {i0} : i0 >= y BY <2>1
  <2>3. (CHOOSE x \in {i0} : \A y \in {i0} : x >= y) \in {i0} BY <2>2
  <2> QED BY <2>3 DEF CL!Max
<1>8. CL!stripwhite(t) = <<s[k]>>
  <2>1. CL!stripwhite(t) = IF inked = {} THEN <<>> ELSE SubSeq(t, CL!Min(inked), CL!Max(inked))
    BY DEF CL!stripwhite
  <2> HIDE DEF inked
  <2>2. CL!stripwhite(t) = SubSeq(t, i0, i0) BY <1>5, <1>6, <1>7, <2>1
  <2>3. i0 \in Int BY <1>1
  <2> QED BY <1>2, <2>2, <2>3, PartOfOne
<1>9. <<s[k]>>[1] = s[k] OBVIOUS
<1> DEFINE name == CL!stripwhite(t)
<1>10. CL!FileOf(t) = IF name \in {<<f>> : f \in Files} THEN name[1] ELSE "none"
  BY DEF CL!FileOf
<1>11. name \in {<<f>> : f \in Files} BY <1>8
<1> HIDE DEF name
<1>12. CL!FileOf(t) = name[1] BY <1>10, <1>11
<1>13. name[1] = s[k] BY <1>8, <1>9 DEF name
<1> QED BY <1>12, <1>13 DEF t

\* The two operators of a command.
Opposite(o, q) == \/ o = "<" /\ q = ">"
                  \/ o = ">" /\ q = "<"

\* After the operator o, which is at one place, up to end, where q or nothing follows, s
\* has one name, at k, and blanks.
Follows(s, o, at, q, other, end, k) ==
    /\ at \in 1 .. Len(s) /\ CL!Places(s, o) = {at}
    /\ other \in CL!Places(s, q) \cup {Len(s) + 1} /\ CL!Places(s, q) \subseteq {other}
    /\ end = (IF other > at THEN other - 1 ELSE Len(s))
    /\ k \in at + 1 .. end /\ s[k] \in Files
    /\ \A m \in at + 1 .. end : m # k => s[m] = CL!Blank

\* Only what follows the operator, up to the other one, is its file.
LEMMA OperandIs ==
    ASSUME NEW s \in Seq(Letters), NEW o, NEW q, Opposite(o, q), NEW at, NEW other, NEW end,
           NEW k, Follows(s, o, at, q, other, end, k)
    PROVE  CL!Operand(s, o) = s[k]
<1>0. /\ at \in 1 .. Len(s) /\ CL!Places(s, o) = {at}
      /\ other \in CL!Places(s, q) \cup {Len(s) + 1} /\ CL!Places(s, q) \subseteq {other}
      /\ end = (IF other > at THEN other - 1 ELSE Len(s))
      /\ k \in at + 1 .. end /\ s[k] \in Files
      /\ \A m \in at + 1 .. end : m # k => s[m] = CL!Blank
  BY DEF Follows
<1> DEFINE mates == CL!Places(s, q) \cup {Len(s) + 1}
<1>1. (IF o = "<" THEN ">" ELSE "<") = q BY Zenon DEF Opposite
<1>2. CL!Min({at}) = at
  <2> DEFINE S == {at}
  <2>1. S \subseteq Nat /\ at \in S /\ \A n \in S : at <= n BY <1>0
  <2> HIDE DEF S
  <2>2. CL!Min(S) = at BY <2>1, MinIs
  <2> QED BY <2>2 DEF S
<1>3. CL!Places(s, q) \subseteq 1 .. Len(s) BY DEF CL!Places
<1>4. Len(s) \in Nat /\ at \in Nat BY <1>0
<1>5. mates \subseteq Nat /\ other \in mates /\ \A n \in mates : other <= n
  <2>1. mates \subseteq Nat BY <1>3, <1>4
  <2>2. other <= Len(s) + 1 BY <1>0, <1>3, <1>4
  <2> QED BY <1>0, <1>4, <2>1, <2>2
<1>6. CL!Min(mates) = other
  <2> HIDE DEF mates
  <2> QED BY <1>5, MinIs
<1>7. CL!Has(s, o) BY <1>0 DEF CL!Has
<1> DEFINE last == IF CL!Min(mates) > CL!Min(CL!Places(s, o)) THEN CL!Min(mates) - 1 ELSE Len(s)
<1>8. CL!Operand(s, o) = CL!FileOf(SubSeq(s, CL!Min(CL!Places(s, o)) + 1, last))
  <2> DEFINE twin == IF o = "<" THEN ">" ELSE "<"
             found(c) == LET at0 == CL!Min(CL!Places(s, o))
                             other0 == CL!Min(CL!Places(s, c) \cup {Len(s) + 1})
                         IN  IF ~CL!Has(s, o) THEN "none"
                             ELSE CL!FileOf(SubSeq(s, at0 + 1, IF other0 > at0 THEN other0 - 1
                                                               ELSE Len(s)))
  <2>1. CL!Operand(s, o) = found(twin) BY DEF CL!Operand
  <2>2. twin = q BY <1>1
  <2> HIDE DEF twin
  <2>3. CL!Operand(s, o) = found(q) BY ONLY <2>1, <2>2
  <2> QED BY <1>7, <2>3
<1>9. last = end BY <1>0, <1>2, <1>6
<1> HIDE DEF last, mates
<1>10. CL!Operand(s, o) = CL!FileOf(SubSeq(s, at + 1, end)) BY <1>0, <1>2, <1>8, <1>9
<1>11. at + 1 \in 1 .. Len(s) /\ end \in 1 .. Len(s)
  <2>1. other \in Nat /\ other <= Len(s) + 1 BY <1>0, <1>3, <1>4
  <2>2. end <= Len(s) /\ end \in Int BY <1>0, <1>4, <2>1
  <2>3. at + 1 <= end BY <1>0, <1>4, <2>2
  <2> QED BY <1>4, <2>2, <2>3
<1> DEFINE a == at + 1
<1>12. a \in 1 .. Len(s) /\ end \in 1 .. Len(s) BY <1>11
<1>13. k \in a .. end /\ \A m \in a .. end : m # k => s[m] = CL!Blank BY <1>0
<1> HIDE DEF a
<1>14. CL!FileOf(SubSeq(s, a, end)) = s[k] BY <1>0, <1>12, <1>13, FileIs
<1> QED BY <1>10, <1>14 DEF a

\* A command without the operator has no such file.
LEMMA NoOperand ==
    ASSUME NEW s, NEW o, CL!Places(s, o) = {} PROVE CL!Operand(s, o) = "none"
<1>1. ~ CL!Has(s, o) BY DEF CL!Has
<1> QED BY <1>1 DEF CL!Operand

Bar == "|"

\* The letters differ: operators, blanks, programs, files.
LEMMA LettersDiffer ==
    ASSUME NEW o, NEW q, Opposite(o, q)
    PROVE  /\ o # q /\ o # CL!Blank /\ q # CL!Blank /\ o # Bar /\ q # Bar /\ Bar # CL!Blank
           /\ o \in CL!Operators /\ q \in CL!Operators
           /\ {o, q, CL!Blank, Bar} \subseteq Letters
           /\ Programs \subseteq Letters /\ Files \subseteq Letters
           /\ \A a \in Programs \cup Files : a # o /\ a # q /\ a # CL!Blank /\ a # Bar
<1>1. o # q /\ o # CL!Blank /\ q # CL!Blank /\ o # Bar /\ q # Bar /\ Bar # CL!Blank
  BY Zenon DEF Opposite, CL!Blank, Bar
<1>2. o \in CL!Operators /\ q \in CL!Operators BY Zenon DEF Opposite, CL!Operators
<1>3. {o, q, CL!Blank, Bar} \subseteq Letters
  BY Zenon DEF Opposite, CL!Blank, Bar, Letters
<1>4. Programs \subseteq Letters /\ Files \subseteq Letters BY DEF Letters
<1>5. \A a \in Programs \cup Files : a # o /\ a # q /\ a # CL!Blank /\ a # Bar
  BY Zenon, NamesAre DEF Opposite, CL!Blank, Bar
<1> QED BY <1>1, <1>2, <1>3, <1>4, <1>5

\* A line names a program and files for two operators.
Names(s, a, o, f, q, g) ==
    /\ CL!Places(s, Bar) = {} /\ CL!com_argv(s) = <<<<a>>>>
    /\ CL!Operand(s, o) = f /\ CL!Operand(s, q) = g

\* The line of a command with one operator and blanks around it.
LEMMA OneWide ==
    ASSUME NEW a \in Programs, NEW o, NEW q, Opposite(o, q), NEW f \in Files,
           NEW s, s = <<a, CL!Blank, o, CL!Blank, f>>
    PROVE  Names(s, a, o, f, q, "none")
<1>1. /\ Len(s) = 5 /\ DOMAIN s = 1 .. 5
      /\ s[1] = a /\ s[2] = CL!Blank /\ s[3] = o /\ s[4] = CL!Blank /\ s[5] = f
  OBVIOUS
<1>2. /\ o # q /\ o # CL!Blank /\ q # CL!Blank /\ o # Bar /\ q # Bar /\ Bar # CL!Blank
      /\ a # o /\ a # q /\ a # CL!Blank /\ a # Bar
      /\ f # o /\ f # q /\ f # CL!Blank /\ f # Bar
      /\ o \in CL!Operators
  BY LettersDiffer
<1>3. \A n \in 1 .. 5 : n \in {1, 2, 3, 4, 5}
  OBVIOUS
<1>4. s \in Seq(Letters)
  <2>1. {o, q, CL!Blank} \subseteq Letters /\ a \in Letters /\ f \in Letters
    BY LettersDiffer
  <2>2. \A n \in 1 .. 5 : s[n] \in Letters BY <1>1, <1>3, <2>1
  <2>3. s = [n \in 1 .. 5 |-> s[n]] OBVIOUS
  <2>4. 5 \in Nat OBVIOUS
  <2> QED BY ONLY <2>2, <2>3, <2>4
<1> HIDE DEF Letters
<1>5. CL!Places(s, CL!Blank) = {2, 4}
  BY <1>1, <1>2, <1>3 DEF CL!Places
<1>6. CL!Places(s, o) = {3} /\ CL!Places(s, q) = {}
  BY <1>1, <1>2, <1>3 DEF CL!Places
<1>7. CL!Places(s, Bar) = {} BY <1>1, <1>2, <1>3 DEF CL!Places
<1> DEFINE p == [n \in 0 .. 3 |-> 2 * n]
<1>8. CL!com_argv(s) = <<<<a>>>>
  <2>1. /\ p \in [0 .. 3 -> Nat] /\ p[0] = 0 /\ p[3] = 6
        /\ \A m, n \in 0 .. 3 : m < n => p[m] < p[n]
    OBVIOUS
  <2>2. {p[n] : n \in 1 .. 2} = {2, 4}
    <3>1. p[1] = 2 /\ p[2] = 4 OBVIOUS
    <3>2. 1 .. 2 = {1, 2} OBVIOUS
    <3> HIDE DEF p
    <3> QED BY <3>1, <3>2
  <2>3. 2 \in Nat /\ 5 \in Nat /\ 2 + 1 = 3 /\ 5 + 1 = 6 OBVIOUS
  <2> HIDE DEF p
  <2>4. Marks(s, CL!Blank, p, 2) BY <1>1, <1>5, <2>1, <2>2, <2>3 DEF Marks
  <2>5. /\ Len(s) >= 3 /\ s[1] \in Programs /\ s[2] = CL!Blank
        /\ s[3] \in CL!Operators
    BY <1>1, <1>2
  <2>6. CL!com_argv(s) = <<<<s[1]>>>> BY ONLY <1>4, <2>4, <2>5, ArgvIs
  <2> QED BY <1>1, <2>6
<1>9. CL!Operand(s, o) = f
  <2>1. 3 \in 1 .. Len(s) /\ 5 \in 3 + 1 .. 5 /\ s[5] \in Files BY <1>1
  <2>2. \A m \in 3 + 1 .. 5 : m # 5 => s[m] = CL!Blank BY <1>1
  <2>3. 5 = (IF 6 > 3 THEN 6 - 1 ELSE Len(s)) BY <1>1
  <2>4. 6 \in CL!Places(s, q) \cup {Len(s) + 1} /\ CL!Places(s, q) \subseteq {6}
    BY <1>1, <1>6
  <2>5. Opposite(o, q) BY Zenon DEF Opposite
  <2>6. CL!Places(s, o) = {3} BY <1>6
  <2>7. Follows(s, o, 3, q, 6, 5, 5)
    BY <2>1, <2>2, <2>3, <2>4, <2>6 DEF Follows
  <2>8. CL!Operand(s, o) = s[5] BY ONLY <1>4, <2>5, <2>7, OperandIs
  <2> QED BY <1>1, <2>8
<1>10. CL!Operand(s, q) = "none" BY <1>6, NoOperand
<1> QED BY <1>7, <1>8, <1>9, <1>10 DEF Names

\* The same without a blank before the file.
LEMMA OneClose ==
    ASSUME NEW a \in Programs, NEW o, NEW q, Opposite(o, q), NEW f \in Files,
           NEW s, s = <<a, CL!Blank, o, f>>
    PROVE  Names(s, a, o, f, q, "none")
<1>1. /\ Len(s) = 4 /\ DOMAIN s = 1 .. 4
      /\ s[1] = a /\ s[2] = CL!Blank /\ s[3] = o /\ s[4] = f
  OBVIOUS
<1>2. /\ o # q /\ o # CL!Blank /\ q # CL!Blank /\ o # Bar /\ q # Bar /\ Bar # CL!Blank
      /\ a # o /\ a # q /\ a # CL!Blank /\ a # Bar
      /\ f # o /\ f # q /\ f # CL!Blank /\ f # Bar
      /\ o \in CL!Operators
  BY LettersDiffer
<1>3. \A n \in 1 .. 4 : n \in {1, 2, 3, 4}
  OBVIOUS
<1>4. s \in Seq(Letters)
  <2>1. {o, q, CL!Blank} \subseteq Letters /\ a \in Letters /\ f \in Letters
    BY LettersDiffer
  <2>2. \A n \in 1 .. 4 : s[n] \in Letters BY <1>1, <1>3, <2>1
  <2>3. s = [n \in 1 .. 4 |-> s[n]] OBVIOUS
  <2>4. 4 \in Nat OBVIOUS
  <2> QED BY ONLY <2>2, <2>3, <2>4
<1> HIDE DEF Letters
<1>5. CL!Places(s, CL!Blank) = {2}
  BY <1>1, <1>2, <1>3 DEF CL!Places
<1>6. CL!Places(s, o) = {3} /\ CL!Places(s, q) = {}
  BY <1>1, <1>2, <1>3 DEF CL!Places
<1>7. CL!Places(s, Bar) = {} BY <1>1, <1>2, <1>3 DEF CL!Places
<1> DEFINE p == [n \in 0 .. 2 |-> IF n = 0 THEN 0 ELSE 3 * n - 1]
<1>8. CL!com_argv(s) = <<<<a>>>>
  <2>1. /\ p \in [0 .. 2 -> Nat] /\ p[0] = 0 /\ p[2] = 5
        /\ \A m, n \in 0 .. 2 : m < n => p[m] < p[n]
    OBVIOUS
  <2>2. {p[n] : n \in 1 .. 1} = {2}
    <3>1. p[1] = 2 OBVIOUS
    <3>2. 1 .. 1 = {1} OBVIOUS
    <3> HIDE DEF p
    <3> QED BY <3>1, <3>2
  <2>3. 1 \in Nat /\ 4 \in Nat /\ 1 + 1 = 2 /\ 4 + 1 = 5 OBVIOUS
  <2> HIDE DEF p
  <2>4. Marks(s, CL!Blank, p, 1) BY <1>1, <1>5, <2>1, <2>2, <2>3 DEF Marks
  <2>5. /\ Len(s) >= 3 /\ s[1] \in Programs /\ s[2] = CL!Blank
        /\ s[3] \in CL!Operators
    BY <1>1, <1>2
  <2>6. CL!com_argv(s) = <<<<s[1]>>>> BY ONLY <1>4, <2>4, <2>5, ArgvIs
  <2> QED BY <1>1, <2>6
<1>9. CL!Operand(s, o) = f
  <2>1. 3 \in 1 .. Len(s) /\ 4 \in 3 + 1 .. 4 /\ s[4] \in Files BY <1>1
  <2>2. \A m \in 3 + 1 .. 4 : m # 4 => s[m] = CL!Blank BY <1>1
  <2>3. 4 = (IF 5 > 3 THEN 5 - 1 ELSE Len(s)) BY <1>1
  <2>4. 5 \in CL!Places(s, q) \cup {Len(s) + 1} /\ CL!Places(s, q) \subseteq {5}
    BY <1>1, <1>6
  <2>5. Opposite(o, q) BY Zenon DEF Opposite
  <2>6. CL!Places(s, o) = {3} BY <1>6
  <2>7. Follows(s, o, 3, q, 5, 4, 4)
    BY <2>1, <2>2, <2>3, <2>4, <2>6 DEF Follows
  <2>8. CL!Operand(s, o) = s[4] BY ONLY <1>4, <2>5, <2>7, OperandIs
  <2> QED BY <1>1, <2>8
<1>10. CL!Operand(s, q) = "none" BY <1>6, NoOperand
<1> QED BY <1>7, <1>8, <1>9, <1>10 DEF Names

\* The line of a command with both operators and blanks around them.
LEMMA TwoWide ==
    ASSUME NEW a \in Programs, NEW o, NEW q, Opposite(o, q), NEW f \in Files, NEW g \in Files,
           NEW s, s = <<a, CL!Blank, o, CL!Blank, f, CL!Blank, q, CL!Blank, g>>
    PROVE  Names(s, a, o, f, q, g)
<1>1. /\ Len(s) = 9 /\ DOMAIN s = 1 .. 9
      /\ s[1] = a /\ s[2] = CL!Blank /\ s[3] = o /\ s[4] = CL!Blank /\ s[5] = f
      /\ s[6] = CL!Blank /\ s[7] = q /\ s[8] = CL!Blank /\ s[9] = g
  OBVIOUS
<1>2. /\ o # q /\ o # CL!Blank /\ q # CL!Blank /\ o # Bar /\ q # Bar /\ Bar # CL!Blank
      /\ a # o /\ a # q /\ a # CL!Blank /\ a # Bar
      /\ f # o /\ f # q /\ f # CL!Blank /\ f # Bar
      /\ g # o /\ g # q /\ g # CL!Blank /\ g # Bar
      /\ o \in CL!Operators
  BY LettersDiffer
<1>3. \A n \in 1 .. 9 : n \in {1, 2, 3, 4, 5, 6, 7, 8, 9}
  OBVIOUS
<1>4. s \in Seq(Letters)
  <2>1. {o, q, CL!Blank} \subseteq Letters /\ a \in Letters /\ f \in Letters /\ g \in Letters
    BY LettersDiffer
  <2>2. \A n \in 1 .. 9 : s[n] \in Letters BY <1>1, <1>3, <2>1
  <2>3. s = [n \in 1 .. 9 |-> s[n]] OBVIOUS
  <2>4. 9 \in Nat OBVIOUS
  <2> QED BY ONLY <2>2, <2>3, <2>4
<1> HIDE DEF Letters
<1>5. CL!Places(s, CL!Blank) = {2, 4, 6, 8}
  BY <1>1, <1>2, <1>3 DEF CL!Places
<1>6. CL!Places(s, o) = {3} /\ CL!Places(s, q) = {7}
  BY <1>1, <1>2, <1>3 DEF CL!Places
<1>7. CL!Places(s, Bar) = {} BY <1>1, <1>2, <1>3 DEF CL!Places
<1> DEFINE p == [n \in 0 .. 5 |-> 2 * n]
<1>8. CL!com_argv(s) = <<<<a>>>>
  <2>1. /\ p \in [0 .. 5 -> Nat] /\ p[0] = 0 /\ p[5] = 10
        /\ \A m, n \in 0 .. 5 : m < n => p[m] < p[n]
    OBVIOUS
  <2>2. {p[n] : n \in 1 .. 4} = {2, 4, 6, 8}
    <3>1. p[1] = 2 /\ p[2] = 4 /\ p[3] = 6 /\ p[4] = 8 OBVIOUS
    <3>2. 1 .. 4 = {1, 2, 3, 4} OBVIOUS
    <3> HIDE DEF p
    <3> QED BY <3>1, <3>2
  <2>3. 4 \in Nat /\ 9 \in Nat /\ 4 + 1 = 5 /\ 9 + 1 = 10 OBVIOUS
  <2> HIDE DEF p
  <2>4. Marks(s, CL!Blank, p, 4) BY <1>1, <1>5, <2>1, <2>2, <2>3 DEF Marks
  <2>5. /\ Len(s) >= 3 /\ s[1] \in Programs /\ s[2] = CL!Blank
        /\ s[3] \in CL!Operators
    BY <1>1, <1>2
  <2>6. CL!com_argv(s) = <<<<s[1]>>>> BY ONLY <1>4, <2>4, <2>5, ArgvIs
  <2> QED BY <1>1, <2>6
<1>9. CL!Operand(s, o) = f
  <2>1. 3 \in 1 .. Len(s) /\ 5 \in 3 + 1 .. 6 /\ s[5] \in Files BY <1>1
  <2>2. \A m \in 3 + 1 .. 6 : m # 5 => s[m] = CL!Blank BY <1>1
  <2>3. 6 = (IF 7 > 3 THEN 7 - 1 ELSE Len(s)) BY <1>1
  <2>4. 7 \in CL!Places(s, q) \cup {Len(s) + 1} /\ CL!Places(s, q) \subseteq {7}
    BY <1>1, <1>6
  <2>5. Opposite(o, q) BY Zenon DEF Opposite
  <2>6. CL!Places(s, o) = {3} BY <1>6
  <2>7. Follows(s, o, 3, q, 7, 6, 5)
    BY <2>1, <2>2, <2>3, <2>4, <2>6 DEF Follows
  <2>8. CL!Operand(s, o) = s[5] BY ONLY <1>4, <2>5, <2>7, OperandIs
  <2> QED BY <1>1, <2>8
<1>10. CL!Operand(s, q) = g
  <2>1. 7 \in 1 .. Len(s) /\ 9 \in 7 + 1 .. 9 /\ s[9] \in Files BY <1>1
  <2>2. \A m \in 7 + 1 .. 9 : m # 9 => s[m] = CL!Blank BY <1>1
  <2>3. 9 = (IF 3 > 7 THEN 3 - 1 ELSE Len(s)) BY <1>1
  <2>4. 3 \in CL!Places(s, o) \cup {Len(s) + 1} /\ CL!Places(s, o) \subseteq {3}
    BY <1>1, <1>6
  <2>5. Opposite(q, o) BY Zenon DEF Opposite
  <2>6. CL!Places(s, q) = {7} BY <1>6
  <2>7. Follows(s, q, 7, o, 3, 9, 9)
    BY <2>1, <2>2, <2>3, <2>4, <2>6 DEF Follows
  <2>8. CL!Operand(s, q) = s[9] BY ONLY <1>4, <2>5, <2>7, OperandIs
  <2> QED BY <1>1, <2>8
<1> QED BY <1>7, <1>8, <1>9, <1>10 DEF Names

\* The same without blanks before the files.
LEMMA TwoClose ==
    ASSUME NEW a \in Programs, NEW o, NEW q, Opposite(o, q), NEW f \in Files, NEW g \in Files,
           NEW s, s = <<a, CL!Blank, o, f, CL!Blank, q, g>>
    PROVE  Names(s, a, o, f, q, g)
<1>1. /\ Len(s) = 7 /\ DOMAIN s = 1 .. 7
      /\ s[1] = a /\ s[2] = CL!Blank /\ s[3] = o /\ s[4] = f
      /\ s[5] = CL!Blank /\ s[6] = q /\ s[7] = g
  OBVIOUS
<1>2. /\ o # q /\ o # CL!Blank /\ q # CL!Blank /\ o # Bar /\ q # Bar /\ Bar # CL!Blank
      /\ a # o /\ a # q /\ a # CL!Blank /\ a # Bar
      /\ f # o /\ f # q /\ f # CL!Blank /\ f # Bar
      /\ g # o /\ g # q /\ g # CL!Blank /\ g # Bar
      /\ o \in CL!Operators
  BY LettersDiffer
<1>3. \A n \in 1 .. 7 : n \in {1, 2, 3, 4, 5, 6, 7}
  OBVIOUS
<1>4. s \in Seq(Letters)
  <2>1. {o, q, CL!Blank} \subseteq Letters /\ a \in Letters /\ f \in Letters /\ g \in Letters
    BY LettersDiffer
  <2>2. \A n \in 1 .. 7 : s[n] \in Letters BY <1>1, <1>3, <2>1
  <2>3. s = [n \in 1 .. 7 |-> s[n]] OBVIOUS
  <2>4. 7 \in Nat OBVIOUS
  <2> QED BY ONLY <2>2, <2>3, <2>4
<1> HIDE DEF Letters
<1>5. CL!Places(s, CL!Blank) = {2, 5}
  BY <1>1, <1>2, <1>3 DEF CL!Places
<1>6. CL!Places(s, o) = {3} /\ CL!Places(s, q) = {6}
  BY <1>1, <1>2, <1>3 DEF CL!Places
<1>7. CL!Places(s, Bar) = {} BY <1>1, <1>2, <1>3 DEF CL!Places
<1> DEFINE p == [n \in 0 .. 3 |-> IF n = 0 THEN 0 ELSE 3 * n - 1]
<1>8. CL!com_argv(s) = <<<<a>>>>
  <2>1. /\ p \in [0 .. 3 -> Nat] /\ p[0] = 0 /\ p[3] = 8
        /\ \A m, n \in 0 .. 3 : m < n => p[m] < p[n]
    OBVIOUS
  <2>2. {p[n] : n \in 1 .. 2} = {2, 5}
    <3>1. p[1] = 2 /\ p[2] = 5 OBVIOUS
    <3>2. 1 .. 2 = {1, 2} OBVIOUS
    <3> HIDE DEF p
    <3> QED BY <3>1, <3>2
  <2>3. 2 \in Nat /\ 7 \in Nat /\ 2 + 1 = 3 /\ 7 + 1 = 8 OBVIOUS
  <2> HIDE DEF p
  <2>4. Marks(s, CL!Blank, p, 2) BY <1>1, <1>5, <2>1, <2>2, <2>3 DEF Marks
  <2>5. /\ Len(s) >= 3 /\ s[1] \in Programs /\ s[2] = CL!Blank
        /\ s[3] \in CL!Operators
    BY <1>1, <1>2
  <2>6. CL!com_argv(s) = <<<<s[1]>>>> BY ONLY <1>4, <2>4, <2>5, ArgvIs
  <2> QED BY <1>1, <2>6
<1>9. CL!Operand(s, o) = f
  <2>1. 3 \in 1 .. Len(s) /\ 4 \in 3 + 1 .. 5 /\ s[4] \in Files BY <1>1
  <2>2. \A m \in 3 + 1 .. 5 : m # 4 => s[m] = CL!Blank BY <1>1
  <2>3. 5 = (IF 6 > 3 THEN 6 - 1 ELSE Len(s)) BY <1>1
  <2>4. 6 \in CL!Places(s, q) \cup {Len(s) + 1} /\ CL!Places(s, q) \subseteq {6}
    BY <1>1, <1>6
  <2>5. Opposite(o, q) BY Zenon DEF Opposite
  <2>6. CL!Places(s, o) = {3} BY <1>6
  <2>7. Follows(s, o, 3, q, 6, 5, 4)
    BY <2>1, <2>2, <2>3, <2>4, <2>6 DEF Follows
  <2>8. CL!Operand(s, o) = s[4] BY ONLY <1>4, <2>5, <2>7, OperandIs
  <2> QED BY <1>1, <2>8
<1>10. CL!Operand(s, q) = g
  <2>1. 6 \in 1 .. Len(s) /\ 7 \in 6 + 1 .. 7 /\ s[7] \in Files BY <1>1
  <2>2. \A m \in 6 + 1 .. 7 : m # 7 => s[m] = CL!Blank BY <1>1
  <2>3. 7 = (IF 3 > 6 THEN 3 - 1 ELSE Len(s)) BY <1>1
  <2>4. 3 \in CL!Places(s, o) \cup {Len(s) + 1} /\ CL!Places(s, o) \subseteq {3}
    BY <1>1, <1>6
  <2>5. Opposite(q, o) BY Zenon DEF Opposite
  <2>6. CL!Places(s, q) = {6} BY <1>6
  <2>7. Follows(s, q, 6, o, 3, 7, 7)
    BY <2>1, <2>2, <2>3, <2>4, <2>6 DEF Follows
  <2>8. CL!Operand(s, q) = s[7] BY ONLY <1>4, <2>5, <2>7, OperandIs
  <2> QED BY <1>1, <2>8
<1> QED BY <1>7, <1>8, <1>9, <1>10 DEF Names

\* A command in mind.
IsCommand(j) == j \in Job /\ ~j.piped /\ Len(j.stages) = 1

\* The order of the operators does not matter.
LEMMA OtherOrder ==
    ASSUME NEW s, NEW a, NEW o, NEW f, NEW q, NEW g, Names(s, a, o, f, q, g)
    PROVE  Names(s, a, q, g, o, f)
BY DEF Names

\* A line that names its program and its files is read as the command.
LEMMA CommandRead ==
    ASSUME NEW j, IsCommand(j), NEW s,
           Names(s, j.stages[1], "<", j.input, ">", j.output)
    PROVE  CL!parsing_arg(s) = j
<1>1. /\ j = [stages |-> j.stages, input |-> j.input, output |-> j.output, piped |-> j.piped]
      /\ j.stages \in Seq(Programs) /\ j.piped \in BOOLEAN /\ ~j.piped /\ Len(j.stages) = 1
  BY JobParts DEF IsCommand
<1>2. j.stages[1] \in Programs BY <1>1
<1>3. j.stages = <<j.stages[1]>> BY <1>1
<1>4. ~CL!Has(s, "|") BY DEF Names, CL!Has, Bar
<1>5. CL!ProgramOf(CL!com_argv(s)) = j.stages[1]
  <2>1. CL!com_argv(s) = <<<<j.stages[1]>>>> BY DEF Names
  <2> QED BY <1>2, <2>1, ProgramIs
<1>6. CL!Operand(s, "<") = j.input /\ CL!Operand(s, ">") = j.output BY DEF Names
<1>7. CL!parsing_arg(s) = [stages |-> <<CL!ProgramOf(CL!com_argv(s))>>,
         input |-> CL!Operand(s, "<"), output |-> CL!Operand(s, ">"), piped |-> FALSE]
  BY <1>4 DEF CL!parsing_arg
<1>8. CL!parsing_arg(s) = [stages |-> <<j.stages[1]>>, input |-> j.input,
                           output |-> j.output, piped |-> FALSE]
  BY <1>5, <1>6, <1>7
<1>9. j.piped = FALSE BY <1>1
<1> QED BY <1>1, <1>3, <1>8, <1>9

\* A line with a program only.
LEMMA Alone ==
    ASSUME NEW a \in Programs, NEW o, NEW q, Opposite(o, q), NEW s, s = <<a>>
    PROVE  Names(s, a, o, "none", q, "none")
<1>1. Len(s) = 1 /\ DOMAIN s = 1 .. 1 /\ s[1] = a OBVIOUS
<1>2. a # o /\ a # q /\ a # CL!Blank /\ a # Bar /\ a \in Letters /\ a \notin CL!Operators
  BY LettersDiffer, NamesAre DEF CL!Operators
<1>3. /\ CL!Places(s, o) = {} /\ CL!Places(s, q) = {} /\ CL!Places(s, Bar) = {}
      /\ CL!Places(s, CL!Blank) = {}
  BY <1>1, <1>2 DEF CL!Places
<1>4. CL!Operand(s, o) = "none" /\ CL!Operand(s, q) = "none" BY <1>3, NoOperand
<1> DEFINE p == [n \in 0 .. 1 |-> IF n = 0 THEN 0 ELSE 2]
           words == CL!Fields(s, CL!Blank)
<1>5. Marks(s, CL!Blank, p, 0)
  <2>1. /\ p \in [0 .. 1 -> Nat] /\ p[0] = 0 /\ p[1] = 2
        /\ \A m, n \in 0 .. 1 : m < n => p[m] < p[n]
    OBVIOUS
  <2>2. {p[n] : n \in 1 .. 0} = {} OBVIOUS
  <2>3. 0 + 1 = 1 /\ 1 + 1 = 2 /\ 0 \in Nat /\ 1 \in Nat OBVIOUS
  <2> HIDE DEF p
  <2> QED BY <1>1, <1>3, <2>1, <2>2, <2>3 DEF Marks
<1>6. words = [n \in 1 .. 1 |-> SubSeq(s, p[n - 1] + 1, p[n] - 1)]
  <2> DEFINE K == 0
  <2>1. Marks(s, CL!Blank, p, K) BY <1>5
  <2>2. K + 1 = 1 OBVIOUS
  <2> HIDE DEF p, K
  <2>3. words = [n \in 1 .. K + 1 |-> SubSeq(s, p[n - 1] + 1, p[n] - 1)]
    BY ONLY <2>1, FieldsAre
  <2> QED BY <2>2, <2>3
<1>7. Len(words) = 1 /\ DOMAIN words = 1 .. 1 /\ words[1] = <<a>>
  <2>1. p[1 - 1] + 1 = 1 /\ p[1] - 1 = 1 /\ 1 \in 1 .. 1 OBVIOUS
  <2> HIDE DEF p, words
  <2>2. Len(words) = 1 /\ DOMAIN words = 1 .. 1 BY <1>6
  <2>3. words[1] = SubSeq(s, 1, 1) BY <1>6, <2>1
  <2> QED BY <1>1, <2>2, <2>3, PartOfOne
<1> HIDE DEF words
<1> DEFINE ends == {n \in DOMAIN words : \E c \in CL!Operators : CL!Has(words[n], c)}
<1>8. ends = {}
  <2> SUFFICES ASSUME NEW n \in DOMAIN words, NEW c \in CL!Operators, CL!Has(words[n], c)
               PROVE  FALSE
    OBVIOUS
  <2>1. n = 1 BY <1>7
  <2>2. PICK m \in DOMAIN words[n] : words[n][m] = c BY DEF CL!Has, CL!Places
  <2>3. DOMAIN <<a>> = 1 .. 1 /\ <<a>>[1] = a OBVIOUS
  <2>4. m = 1 BY <1>7, <2>1, <2>2, <2>3
  <2> QED BY <1>2, <1>7, <2>1, <2>2, <2>3, <2>4
<1>9. CL!com_argv(s) = CL!NonEmpty(words)
  <2> DEFINE firsts == SubSeq(words, 1, CL!Min(ends) - 1)
  <2>1. CL!com_argv(s) = CL!NonEmpty(IF ends = {} THEN words ELSE firsts)
    BY DEF CL!com_argv, words
  <2> HIDE DEF ends
  <2> QED BY <1>8, <2>1
<1>10. CL!NonEmpty(words) = <<words[1]>>
  <2>1. words[1] # <<>> BY <1>7
  <2>2. 1 \in Nat /\ 1 \in 1 .. 1 /\ \A n \in 1 .. 1 : n # 1 => words[n] = <<>> OBVIOUS
  <2> QED BY ONLY <1>7, <2>1, <2>2, OneWord
<1>11. CL!com_argv(s) = <<<<a>>>> BY <1>7, <1>9, <1>10
<1> QED BY <1>3, <1>4, <1>11 DEF Names

\* What is typed for the two files.
Piece(file, op) == IF file = "none" THEN <<>> ELSE op \o <<file>>

\* With one file, and blanks on both sides of the operator or on one.
LEMMA OneJoined ==
    ASSUME NEW a \in Programs, NEW o, NEW q, Opposite(o, q), NEW f \in Files
    PROVE  /\ <<a>> \o (Piece(f, <<CL!Blank, o, CL!Blank>>) \o <<>>)
                = <<a, CL!Blank, o, CL!Blank, f>>
           /\ <<a>> \o (<<>> \o Piece(f, <<CL!Blank, o, CL!Blank>>))
                = <<a, CL!Blank, o, CL!Blank, f>>
           /\ <<a>> \o (Piece(f, <<CL!Blank, o>>) \o <<>>) = <<a, CL!Blank, o, f>>
           /\ <<a>> \o (<<>> \o Piece(f, <<CL!Blank, o>>)) = <<a, CL!Blank, o, f>>
<1>1. a \in Letters /\ f \in Letters /\ o \in Letters /\ CL!Blank \in Letters
  BY LettersDiffer
<1>2. \A op : Piece(f, op) = op \o <<f>> BY NamesAre DEF Piece
<1> DEFINE b == CL!Blank
           wide == <<b, o, b>> \o <<f>>
           close == <<b, o>> \o <<f>>
<1> HIDE DEF Letters
<1>3. <<a>> \o (wide \o <<>>) = <<a, b, o, b, f>> /\ <<a>> \o (<<>> \o wide) = <<a, b, o, b, f>>
  <2>1. wide \in Seq(Letters) /\ wide = <<b, o, b, f>>
    <3>1. /\ wide \in Seq(Letters) /\ Len(wide) = 4
          /\ wide[1] = b /\ wide[2] = o /\ wide[3] = b /\ wide[4] = f
      BY <1>1
    <3> HIDE DEF wide
    <3> QED BY <3>1
  <2> DEFINE u == <<a>> \o wide
  <2>2. /\ u \in Seq(Letters) /\ Len(u) = 5
        /\ u[1] = a /\ u[2] = b /\ u[3] = o /\ u[4] = b /\ u[5] = f
    <3> HIDE DEF wide
    <3> QED BY <1>1, <2>1
  <2>3. u = <<a, b, o, b, f>>
    <3> HIDE DEF u
    <3> QED BY <2>2
  <2>4. wide \o <<>> = wide /\ <<>> \o wide = wide
    <3> HIDE DEF wide
    <3> QED BY <2>1, ConcatEmptySeq
  <2> QED BY <2>3, <2>4
<1>4. <<a>> \o (close \o <<>>) = <<a, b, o, f>> /\ <<a>> \o (<<>> \o close) = <<a, b, o, f>>
  <2>1. close \in Seq(Letters) /\ close = <<b, o, f>>
    <3>1. /\ close \in Seq(Letters) /\ Len(close) = 3
          /\ close[1] = b /\ close[2] = o /\ close[3] = f
      BY <1>1
    <3> HIDE DEF close
    <3> QED BY <3>1
  <2> DEFINE u == <<a>> \o close
  <2>2. /\ u \in Seq(Letters) /\ Len(u) = 4
        /\ u[1] = a /\ u[2] = b /\ u[3] = o /\ u[4] = f
    <3> HIDE DEF close
    <3> QED BY <1>1, <2>1
  <2>3. u = <<a, b, o, f>>
    <3> HIDE DEF u
    <3> QED BY <2>2
  <2>4. close \o <<>> = close /\ <<>> \o close = close
    <3> HIDE DEF close
    <3> QED BY <2>1, ConcatEmptySeq
  <2> QED BY <2>3, <2>4
<1> QED BY <1>2, <1>3, <1>4

\* With both files.
LEMMA TwoJoined ==
    ASSUME NEW a \in Programs, NEW o, NEW q, Opposite(o, q), NEW f \in Files, NEW g \in Files
    PROVE  /\ <<a>> \o (Piece(f, <<CL!Blank, o, CL!Blank>>)
                          \o Piece(g, <<CL!Blank, q, CL!Blank>>))
                = <<a, CL!Blank, o, CL!Blank, f, CL!Blank, q, CL!Blank, g>>
           /\ <<a>> \o (Piece(f, <<CL!Blank, o>>) \o Piece(g, <<CL!Blank, q>>))
                = <<a, CL!Blank, o, f, CL!Blank, q, g>>
<1>1. /\ a \in Letters /\ f \in Letters /\ g \in Letters /\ o \in Letters /\ q \in Letters
      /\ CL!Blank \in Letters
  BY LettersDiffer
<1>2. \A op : Piece(f, op) = op \o <<f>> /\ Piece(g, op) = op \o <<g>>
  BY NamesAre DEF Piece
<1> DEFINE b == CL!Blank
           wide == <<a>> \o ((<<b, o, b>> \o <<f>>) \o (<<b, q, b>> \o <<g>>))
           close == <<a>> \o ((<<b, o>> \o <<f>>) \o (<<b, q>> \o <<g>>))
<1> HIDE DEF Letters
<1>3. wide = <<a, b, o, b, f, b, q, b, g>>
  <2>1. b \in Letters BY <1>1
  <2> HIDE DEF b
  <2>2. /\ wide \in Seq(Letters) /\ Len(wide) = 9
        /\ wide[1] = a /\ wide[2] = b /\ wide[3] = o /\ wide[4] = b /\ wide[5] = f
        /\ wide[6] = b /\ wide[7] = q /\ wide[8] = b /\ wide[9] = g
    BY <1>1, <2>1
  <2> HIDE DEF wide
  <2> QED BY <2>2
<1>4. close = <<a, b, o, f, b, q, g>>
  <2>1. b \in Letters BY <1>1
  <2> HIDE DEF b
  <2>2. /\ close \in Seq(Letters) /\ Len(close) = 7
        /\ close[1] = a /\ close[2] = b /\ close[3] = o /\ close[4] = f
        /\ close[5] = b /\ close[6] = q /\ close[7] = g
    BY <1>1, <2>1
  <2> HIDE DEF close
  <2> QED BY <2>2
<1> QED BY <1>2, <1>3, <1>4

\* The operators with a blank before them, and after them or not.
IsWay(lt, gt, in1, to1) ==
    \/ in1 = <<CL!Blank, lt, CL!Blank>> /\ to1 = <<CL!Blank, gt, CL!Blank>>
    \/ in1 = <<CL!Blank, lt>> /\ to1 = <<CL!Blank, gt>>

\* A command that is typed in any of the four ways is read as it is meant.
LEMMA CommandsAre ==
    ASSUME NEW j, IsCommand(j), NEW lt, lt = "<", NEW gt, gt = ">", NEW in1, NEW to1,
           IsWay(lt, gt, in1, to1), NEW outFirst
    PROVE  CL!parsing_arg(CommandWith(j, in1, to1, outFirst)) = j
<1> DEFINE a == j.stages[1]
           f == j.input
           g == j.output
           s == CommandWith(j, in1, to1, outFirst)
<1>0. \/ in1 = <<CL!Blank, lt, CL!Blank>> /\ to1 = <<CL!Blank, gt, CL!Blank>>
      \/ in1 = <<CL!Blank, lt>> /\ to1 = <<CL!Blank, gt>>
  BY DEF IsWay
<1>1. /\ a \in Programs /\ f \in Files \cup {"none"} /\ g \in Files \cup {"none"}
  BY JobParts DEF IsCommand
<1>2. s = <<a>> \o (IF outFirst THEN Piece(g, to1) \o Piece(f, in1)
                                ELSE Piece(f, in1) \o Piece(g, to1))
  BY DEF CommandWith, Piece
<1>3. Opposite(lt, gt) /\ Opposite(gt, lt) BY Zenon DEF Opposite
<1> HIDE DEF a, f, g, s
<1>4. \A op : Piece("none", op) = <<>> BY DEF Piece
<1>5. Names(s, a, lt, f, gt, g)
  <2>1. CASE f = "none" /\ g = "none"
    <3>0. Piece(f, in1) = <<>> /\ Piece(g, to1) = <<>> BY <1>4, <2>1
    <3>1. s = <<a>> \o (<<>> \o <<>>) BY ONLY <1>2, <3>0
    <3>2. <<a>> \o (<<>> \o <<>>) = <<a>>
      <4>1. <<a>> \in Seq(Programs) /\ <<>> \in Seq(Programs) BY <1>1
      <4> QED BY <4>1, ConcatEmptySeq
    <3>3. s = <<a>> BY <3>1, <3>2
    <3> QED BY <1>1, <1>3, <2>1, <3>3, Alone
  <2>2. CASE f # "none" /\ g = "none"
    <3>1. f \in Files BY <1>1, <2>2
    <3>2. s = IF outFirst THEN <<a>> \o (<<>> \o Piece(f, in1))
              ELSE <<a>> \o (Piece(f, in1) \o <<>>)
      BY <1>2, <1>4, <2>2
    <3>3. s = <<a, CL!Blank, lt, CL!Blank, f>> \/ s = <<a, CL!Blank, lt, f>>
      BY <1>0, <1>1, <1>3, <3>1, <3>2, OneJoined
    <3>4. Names(s, a, lt, f, gt, "none") BY <1>1, <1>3, <3>1, <3>3, OneWide, OneClose
    <3> QED BY <2>2, <3>4
  <2>3. CASE f = "none" /\ g # "none"
    <3>1. g \in Files BY <1>1, <2>3
    <3>2. s = IF outFirst THEN <<a>> \o (Piece(g, to1) \o <<>>)
              ELSE <<a>> \o (<<>> \o Piece(g, to1))
      BY <1>2, <1>4, <2>3
    <3>3. s = <<a, CL!Blank, gt, CL!Blank, g>> \/ s = <<a, CL!Blank, gt, g>>
      BY <1>0, <1>1, <1>3, <3>1, <3>2, OneJoined
    <3>4. Names(s, a, gt, g, lt, "none") BY <1>1, <1>3, <3>1, <3>3, OneWide, OneClose
    <3> QED BY <2>3, <3>4, OtherOrder
  <2>4. CASE f # "none" /\ g # "none"
    <3>1. f \in Files /\ g \in Files BY <1>1, <2>4
    <3>2. CASE outFirst
      <4>1. s = <<a>> \o (Piece(g, to1) \o Piece(f, in1)) BY <1>2, <3>2
      <4> DEFINE wide == <<a, CL!Blank, gt, CL!Blank, g, CL!Blank, lt, CL!Blank, f>>
                 close == <<a, CL!Blank, gt, g, CL!Blank, lt, f>>
      <4>5. /\ <<a>> \o (Piece(g, <<CL!Blank, gt, CL!Blank>>)
                        \o Piece(f, <<CL!Blank, lt, CL!Blank>>)) = wide
            /\ <<a>> \o (Piece(g, <<CL!Blank, gt>>) \o Piece(f, <<CL!Blank, lt>>)) = close
        BY <1>1, <1>3, <3>1, TwoJoined
      <4> HIDE DEF wide, close
      <4>6. s = wide \/ s = close BY Zenon, <1>0, <4>1, <4>5
      <4>2. \/ s = <<a, CL!Blank, gt, CL!Blank, g, CL!Blank, lt, CL!Blank, f>>
            \/ s = <<a, CL!Blank, gt, g, CL!Blank, lt, f>>
        BY Zenon, <4>6 DEF wide, close
      <4>3. Names(s, a, gt, g, lt, f) BY <1>1, <1>3, <3>1, <4>2, TwoWide, TwoClose
      <4> QED BY <4>3, OtherOrder
    <3>3. CASE ~outFirst
      <4>1. s = <<a>> \o (Piece(f, in1) \o Piece(g, to1)) BY <1>2, <3>3
      <4> DEFINE wide == <<a, CL!Blank, lt, CL!Blank, f, CL!Blank, gt, CL!Blank, g>>
                 close == <<a, CL!Blank, lt, f, CL!Blank, gt, g>>
      <4>5. /\ <<a>> \o (Piece(f, <<CL!Blank, lt, CL!Blank>>)
                        \o Piece(g, <<CL!Blank, gt, CL!Blank>>)) = wide
            /\ <<a>> \o (Piece(f, <<CL!Blank, lt>>) \o Piece(g, <<CL!Blank, gt>>)) = close
        BY <1>1, <1>3, <3>1, TwoJoined
      <4> HIDE DEF wide, close
      <4>6. s = wide \/ s = close BY Zenon, <1>0, <4>1, <4>5
      <4>2. \/ s = <<a, CL!Blank, lt, CL!Blank, f, CL!Blank, gt, CL!Blank, g>>
            \/ s = <<a, CL!Blank, lt, f, CL!Blank, gt, g>>
        BY Zenon, <4>6 DEF wide, close
      <4> QED BY <1>1, <1>3, <3>1, <4>2, TwoWide, TwoClose
    <3> QED BY <3>2, <3>3
  <2> QED BY <2>1, <2>2, <2>3, <2>4
<1>6. Names(s, j.stages[1], "<", j.input, ">", j.output) BY <1>5 DEF a, f, g
<1>7. CL!parsing_arg(s) = j BY <1>6, CommandRead
<1> QED BY <1>7 DEF s

\* A line that is typed for a command is read as the command.
LEMMA LinesAreRead ==
    ASSUME NEW j \in Meanings, NEW line \in Lines(j) PROVE CL!parsing_arg(line) = j
<1>1. j \in Jobs /\ j \in Job /\ (~j.piped => Len(j.stages) = 1)
      /\ (j.piped => Len(j.stages) > 1 /\ j.input = "none" /\ j.output = "none")
  BY PipelineAssumption, ShellAssumption, MeaningsAssumption
<1>2. CASE j.piped
  <2>1. IsPipeline(j) BY <1>1, <1>2 DEF IsPipeline
  <2>2. line = PipeLine(j, <<" ", "|", " ">>) \/ line = PipeLine(j, <<"|">>)
    BY Zenon, <1>2 DEF Lines
  <2>3. CASE line = PipeLine(j, <<" ", "|", " ">>) BY Zenon, <2>1, <2>3, WideBars
  <2>4. CASE line = PipeLine(j, <<"|">>) BY Zenon, <2>1, <2>4, CloseBars
  <2> QED BY Zenon, <2>2, <2>3, <2>4
<1>3. CASE ~j.piped
  <2>1. IsCommand(j) BY <1>1, <1>3 DEF IsCommand
  <2> DEFINE lt == "<"
             gt == ">"
  <2>2. \E o \in BOOLEAN :
           \/ line = CommandWith(j, <<CL!Blank, lt, CL!Blank>>, <<CL!Blank, gt, CL!Blank>>, o)
           \/ line = CommandWith(j, <<CL!Blank, lt>>, <<CL!Blank, gt>>, o)
    BY Zenon, <1>3 DEF Lines, CL!Blank
  <2>3. PICK outFirst \in BOOLEAN :
           \/ line = CommandWith(j, <<CL!Blank, lt, CL!Blank>>, <<CL!Blank, gt, CL!Blank>>,
                                 outFirst)
           \/ line = CommandWith(j, <<CL!Blank, lt>>, <<CL!Blank, gt>>, outFirst)
    BY Zenon, <2>2
  <2>4. lt = "<" /\ gt = ">" OBVIOUS
  <2> HIDE DEF lt, gt
  <2>5. CASE line = CommandWith(j, <<CL!Blank, lt, CL!Blank>>, <<CL!Blank, gt, CL!Blank>>,
                                outFirst)
    <3> DEFINE in1 == <<CL!Blank, lt, CL!Blank>>
               to1 == <<CL!Blank, gt, CL!Blank>>
    <3>2. IsWay(lt, gt, in1, to1) BY DEF IsWay
    <3> HIDE DEF in1, to1
    <3>1. CL!parsing_arg(CommandWith(j, in1, to1, outFirst)) = j
      BY ONLY <2>1, <2>4, <3>2, CommandsAre
    <3> QED BY Zenon, <2>5, <3>1 DEF in1, to1
  <2>6. CASE line = CommandWith(j, <<CL!Blank, lt>>, <<CL!Blank, gt>>, outFirst)
    <3> DEFINE in1 == <<CL!Blank, lt>>
               to1 == <<CL!Blank, gt>>
    <3>2. IsWay(lt, gt, in1, to1) BY DEF IsWay
    <3> HIDE DEF in1, to1
    <3>1. CL!parsing_arg(CommandWith(j, in1, to1, outFirst)) = j
      BY ONLY <2>1, <2>4, <3>2, CommandsAre
    <3> QED BY Zenon, <2>6, <3>1 DEF in1, to1
  <2> QED BY Zenon, <2>3, <2>5, <2>6
<1> QED BY <1>2, <1>3



\* What may be typed.
Typed == OtherLines \cup UNION {Lines(j) : j \in Meanings}

\* Every line is read as a job of no more stages than there are arrays for.
LEMMA TypedIsRead ==
    ASSUME NEW line \in Typed
    PROVE  /\ CL!parsing_arg(line) \in Job
           /\ Len(CL!parsing_arg(line).stages) \in 1 .. MaxStages
<1>1. CASE line \in OtherLines BY <1>1, LinesAssumption
<1>2. ASSUME NEW j \in Meanings, line \in Lines(j)
      PROVE  /\ CL!parsing_arg(line) \in Job
             /\ Len(CL!parsing_arg(line).stages) \in 1 .. MaxStages
  <2>1. CL!parsing_arg(line) = j BY <1>2, LinesAreRead
  <2> QED BY <2>1, PipelineAssumption, ShellAssumption
<1> QED BY <1>1, <1>2 DEF Typed

-----------------------------------------------------------------------------
(***************************************************************************)
(* The theorems.                                                           *)
(***************************************************************************)
LEMMA JobKeeps ==
    ASSUME ShellInv, JobStep PROVE ShellInv'
<1>1. CASE ShellStep
  BY <1>1, MakePipeKeeps, PipeFailsKeeps, ForkKeeps, NextStageKeeps, CloseLastKeeps,
     CommandKeeps, ReapKeeps, ShellMoves DEF ShellStep
<1>2. CASE ForkFails \/ CommandFails
  BY <1>2, ShellMoves
<1>3. CASE StartCommand
  BY <1>3, StartCommandKeeps
<1>4. CASE \E s \in Stages : StageStep(s)
  BY <1>4, StageKeeps
<1> QED BY <1>1, <1>2, <1>3, <1>4 DEF JobStep

\* A line that is no built-in command starts a job.
LEMMA ExternalKeeps ==
    ASSUME ShellInv, NEW line \in Typed, NEW j, External(line, j)
    PROVE  ShellInv'
<1>1. /\ CL!parsing_arg(line) \in Job /\ Len(CL!parsing_arg(line).stages) \in 1 .. MaxStages
      /\ Begin(CL!parsing_arg(line))
  BY TypedIsRead DEF External
<1> QED BY <1>1, BeginKeeps

\* Every step keeps the invariant.
LEMMA StepKeeps ==
    ASSUME ShellInv, [ShellNext]_shellvars PROVE ShellInv'
<1>1. ASSUME NEW j \in Meanings, NEW line \in Lines(j), External(line, j) PROVE ShellInv'
  BY <1>1, ExternalKeeps DEF Typed
<1>2. ASSUME NEW line \in OtherLines, External(line, CL!parsing_arg(line))
      PROVE  ShellInv'
  BY <1>2, ExternalKeeps DEF Typed
<1>3. ASSUME NEW line \in OtherLines, Cd(line) \/ Prints(line) PROVE ShellInv'
  BY <1>3, SameKeeps DEF Cd, Prints, vars, shell, stages, history
<1>4. ASSUME NEW line \in OtherLines, com_exit(line) PROVE ShellInv'
  BY <1>4, ShellMoves DEF com_exit
<1>5. CASE UNCHANGED shellvars
  BY <1>5, SameKeeps DEF shellvars, vars, shell, stages, history
<1> QED BY <1>1, <1>2, <1>3, <1>4, <1>5, JobKeeps DEF ShellNext

\* The invariant of the shell's descriptors.
LEMMA InvariantHolds == ShellSpec => []ShellInv
BY InitEstablishes, StepKeeps, PTL DEF ShellSpec

\* Of every stage that has a pipe: no other process can keep its reader from the end of
\* the input, save the shell until it goes on to the next stage.
THEOREM WriteEndsCorrect == ShellSpec => []WriteEndsReleased
<1>1. ASSUME ShellInv PROVE WriteEndsReleased
  <2> SUFFICES ASSUME NEW s \in Stages, made[s] # NoPipe, NEW p \in Processes,
                      NEW n \in Numbers, fds[p][n] = W(made[s])
               PROVE  p = s \/ (i = s /\ pc \in Holding /\ p = Shell)
    BY DEF WriteEndsReleased, Holders, Holding
  <2>1. made[s] \in Pipes
    BY <1>1 DEF ShellInv, TypeInv
  <2>2. CASE p \in Stages
    <3>1. made[p] = made[s]
      BY <1>1, <2>1, <2>2 DEF ShellInv, ChildrenOK
    <3> QED BY <1>1, <2>2, <3>1 DEF ShellInv, PipesOK
  <2>3. CASE p = Shell
    <3>1. pc \in Holding /\ made[i] = made[s]
      BY <1>1, <2>1, <2>3, InRange
    <3>2. i \in Stages
      BY <1>1, <3>1, InRange DEF Holding, Making
    <3>3. i = s
      BY <1>1, <3>1, <3>2 DEF ShellInv, PipesOK
    <3> QED BY <2>3, <3>1, <3>3
  <2> QED BY <2>2, <2>3, Sizes
<1> QED BY <1>1, InvariantHolds, PTL

\* At the prompt no child is left, whatever failed on the way, and all that the shell
\* has open beside the terminal are read ends of pipes that nobody can write to.
THEOREM PromptCorrect == ShellSpec => []PromptClean
<1>1. ASSUME ShellInv PROVE PromptClean
  <2> SUFFICES ASSUME pc = "prompt"
               PROVE  /\ \A s \in Stages : state[s] \in {"none", "reaped"}
                      /\ \A n \in Numbers :
                            IF n < 3 THEN fds[Shell][n] = Tty
                            ELSE fds[Shell][n] = Free \/ fds[Shell][n][1] = "read"
                      /\ \A k \in Pipes : Holders(W(k)) = {}
    BY DEF PromptClean
  <2>1. \A s \in Stages : state[s] \in {"none", "reaped"}
    BY <1>1 DEF ShellInv, QuietOK
  <2>2. \A n \in Numbers : IF n < 3 THEN fds[Shell][n] = Tty
                           ELSE fds[Shell][n] = Free \/ fds[Shell][n][1] = "read"
    BY <1>1, EndsDiffer DEF ShellInv, ShellTable, Holding
  <2>3. ASSUME NEW k \in Pipes, NEW p \in Processes, NEW n \in Numbers PROVE fds[p][n] # W(k)
    <3>1. CASE p = Shell
      BY <1>1, <3>1, InRange DEF Holding
    <3>2. CASE p \in Stages
      BY <1>1, <2>1, <3>2, EndsDiffer DEF ShellInv, ChildrenOK, Resting
    <3> QED BY <3>1, <3>2, Sizes
  <2> QED BY <2>1, <2>2, <2>3 DEF Holders
<1> QED BY <1>1, InvariantHolds, PTL

\* However many pipelines have left their read ends open in the shell, two numbers are
\* free at the prompt, so that the first pipe of the next pipeline can be made.
THEOREM SpareCorrect == ShellSpec => []TwoDescriptorsLeft
<1>1. ShellInv => TwoDescriptorsLeft
  BY DEF ShellInv, SpareOK, Spare, TwoDescriptorsLeft, Making
<1> QED BY <1>1, InvariantHolds, PTL

\* The shell never goes on with an fd that it has not set: the place in the code where
\* that could happen is the first turn of the loop, when no pipe is to be had.
THEOREM FdAlwaysSet == ShellSpec => [](pc # "undefined")
<1>1. ShellInv => pc # "undefined"
  BY DEF ShellInv, TypeInv, Making
<1> QED BY <1>1, InvariantHolds, PTL
-----------------------------------------------------------------------------
(***************************************************************************)
(* The data: types, and which lines have pipes.                            *)
(***************************************************************************)
DataInv ==
    /\ content \in [Files -> Seq(Int)] /\ data \in [Pipes -> Seq(Int)] /\ out \in Seq(Int)
    /\ held \in [Stages -> Seq(Int)] /\ sent \in [Stages -> Nat] /\ taken \in Nat
    /\ stack \in [Stages -> [in : Int, fd : Int \X Int]] /\ in \in Int /\ room \in Nat
    /\ \A s \in Stages : Len(held[s]) <= 1
    /\ job.piped => Len(job.stages) >= 1
    /\ pc \in Making \cup {"wait"} => job.piped
    /\ pc \in {"command", "waitpid"} => ~ job.piped

(***************************************************************************)
(* A command that copies one file.                                         *)
(***************************************************************************)
\* What RedirectionsObeyed asks of the line, of the descriptors and of the files.
Redirected ==
    /\ job.stages = <<"filter">> /\ ~ job.piped /\ ~ failed
    /\ room >= 1 /\ job.output \notin ReadOnly /\ job.input # "none"

\* Written to o, with h in hand: what has been read of s.
CopiedTo(o, h, s) ==
    /\ taken = Len(o) + Len(h) /\ taken <= Len(s)
    /\ \A n \in 1 .. Len(o) : o[n] = s[n]
    /\ h # <<>> => h[1] = s[taken]

\* Where the program has got to, with h in hand, when its input could be opened.
CopiedSoFar(h) ==
    CASE job.output = "none"    -> CopiedTo(out, h, content[job.input])
      [] job.output = job.input -> out = <<>> /\ content[job.input] = <<>> /\ h = <<>>
      [] OTHER -> out = <<>> /\ CopiedTo(content[job.output], h, content[job.input])

\* The child has its files, or has found no input.
Opened ==
    \/ /\ fds[0][0] = From(job.input)
       /\ fds[0][1] = IF job.output = "none" THEN Tty ELSE To(job.output)
       /\ CopiedSoFar(held[0])
    \/ /\ content[job.input] = Absent /\ job.output # job.input
       /\ fds[0][1] = IF job.output = "none" THEN Tty ELSE To(job.output)

Obeyed ==
    CASE job.output = "none"    -> out = content[job.input]
      [] job.output = job.input -> out = <<>> /\ content[job.input] = <<>>
      [] OTHER -> out = <<>> /\ content[job.output] = content[job.input]

Untouched == out = <<>> /\ taken = 0 /\ held[0] = <<>>

RedirectInv ==
    Redirected =>
        /\ pc = "command" => Untouched /\ room = Spare
        /\ pc = "waitpid" => state[0] \in {"forked", "running", "zombie"}
        /\ pc = "waitpid" /\ state[0] = "forked" => Untouched /\ fds[0] = fds[Shell] /\ room = Spare
        /\ pc = "waitpid" /\ state[0] = "running" => Opened
        /\ pc \in {"prompt", "exited"} \/ (pc = "waitpid" /\ state[0] = "zombie") =>
              (content[job.input] # Absent => Obeyed)

(***************************************************************************)
(* A pipeline that copies.                                                 *)
(***************************************************************************)
\* How far the shell has got: every stage but the last gets its pipe, and is given the
\* read end of the one before.
MakingOK ==
    /\ pc = "pipe" => Spare >= room - i
    /\ pc = "close" => i = Last
    /\ pc \in Holding /\ i < Last =>
          /\ Spare >= room - i - 2 /\ made[i] # NoPipe
          /\ fds[Shell][fd[1]] = R(made[i]) /\ fds[Shell][fd[2]] = W(made[i])
    /\ pc \in Making => IF i = 0 THEN in = 0
                        ELSE in \in Numbers /\ in >= 3 /\ fds[Shell][in] = R(made[i - 1])
    /\ pc \in Making \cup {"wait"} =>
          \A s \in Stages :
              state[s] = "none" <=>
                  \/ s > Last
                  \/ pc \in Making /\ (s > i \/ (s = i /\ pc \in {"pipe", "fork"}))

\* A stage that has not run its program has the ends of its pipes at the numbers it has
\* from the shell; one that runs it has them where the program looks for them, and its
\* reader does not end before it.
StageOK(s) ==
    /\ state[s] # "shell"
    /\ state[s] \in {"none", "forked"} => held[s] = <<>> /\ sent[s] = 0
    /\ state[s] # "none" /\ s < Last => made[s] # NoPipe
    /\ state[s] = "forked" =>
          /\ fds[s][1] = Tty
          /\ IF s = 0 THEN stack[s].in = 0
             ELSE /\ stack[s].in \in Numbers /\ stack[s].in >= 3
                  /\ fds[s][stack[s].in] = R(made[s - 1])
          /\ s < Last => /\ stack[s].fd[2] \in Numbers /\ stack[s].fd[2] >= 3
                         /\ fds[s][stack[s].fd[2]] = W(made[s])
    /\ state[s] = "running" =>
          /\ s > 0 => fds[s][0] = R(made[s - 1])
          /\ fds[s][1] = IF s < Last THEN W(made[s]) ELSE Tty
    /\ s < Last /\ state[s] \in {"forked", "running"} =>
          state[s + 1] \in {"none", "forked", "running"}

StagesOK == pc \in Making \cup {"wait"} => \A s \in Stages : StageOK(s)

\* NothingLost, number by number.
FlowOK ==
    /\ held[0] = <<>>
    /\ Len(out) = sent[Last] /\ \A n \in 1 .. Len(out) : out[n] = n
    /\ \A s \in 1 .. Last :
          /\ Len(held[s]) + Len(Before(s)) = sent[s - 1] - sent[s]
          /\ held[s] # <<>> => held[s][1] = sent[s] + 1
          /\ \A n \in 1 .. Len(Before(s)) : Before(s)[n] = sent[s] + Len(held[s]) + n

CopyInv == Copying => MakingOK /\ StagesOK /\ FlowOK

(***************************************************************************)
(* Sequences of units.                                                     *)
(***************************************************************************)
LEMMA OneMore ==
    ASSUME NEW s \in Seq(Int), NEW x \in Int
    PROVE  /\ s \o <<x>> \in Seq(Int) /\ Len(s \o <<x>>) = Len(s) + 1
           /\ \A n \in 1 .. Len(s) : (s \o <<x>>)[n] = s[n]
           /\ (s \o <<x>>)[Len(s) + 1] = x
<1>1. <<x>> \in Seq(Int) /\ Len(<<x>>) = 1 /\ <<x>>[1] = x
  OBVIOUS
<1>2. /\ s \o <<x>> \in Seq(Int) /\ Len(s \o <<x>>) = Len(s) + Len(<<x>>)
      /\ \A n \in 1 .. Len(s) + Len(<<x>>) :
            (s \o <<x>>)[n] = IF n <= Len(s) THEN s[n] ELSE <<x>>[n - Len(s)]
  BY <1>1, ConcatProperties
<1>3. Len(s) \in Nat
  OBVIOUS
<1> DEFINE u == s \o <<x>>
           v == <<x>>
<1> HIDE DEF u, v
<1>4. /\ u \in Seq(Int) /\ Len(u) = Len(s) + 1 /\ v[1] = x
      /\ \A n \in 1 .. Len(s) + 1 : u[n] = IF n <= Len(s) THEN s[n] ELSE v[n - Len(s)]
  BY <1>1, <1>2 DEF u, v
<1>5. /\ \A n \in 1 .. Len(s) : u[n] = s[n]
      /\ u[Len(s) + 1] = x
  BY <1>3, <1>4
<1> QED BY <1>4, <1>5 DEF u

\* Two pieces of data after each other are data.
LEMMA Joined ==
    ASSUME NEW s \in Seq(Int), NEW t \in Seq(Int) PROVE s \o t \in Seq(Int)
BY ConcatProperties

\* What is left of a queue when its first unit is taken.
LEMMA OneLess ==
    ASSUME NEW s \in Seq(Int), s # <<>>
    PROVE  /\ Head(s) = s[1] /\ Head(s) \in Int /\ Len(s) >= 1
           /\ Tail(s) \in Seq(Int) /\ Len(Tail(s)) = Len(s) - 1
           /\ \A n \in 1 .. Len(Tail(s)) : Tail(s)[n] = s[n + 1]
<1>1. Len(s) \in Nat /\ Len(s) # 0
  BY EmptySeq
<1>2. /\ Head(s) = s[1] /\ Tail(s) \in Seq(Int) /\ Len(Tail(s)) = Len(s) - 1
      /\ \A n \in 1 .. Len(Tail(s)) : Tail(s)[n] = s[n + 1]
  BY HeadTailProperties
<1>3. s[1] \in Int
  BY <1>1, ElementOfSeq
<1> QED BY <1>1, <1>2, <1>3

\* What is left of a file.
LEMMA Unread ==
    ASSUME NEW s \in Seq(Int), NEW t \in Nat
    PROVE  /\ SubSeq(s, t + 1, Len(s)) \in Seq(Int)
           /\ SubSeq(s, t + 1, Len(s)) # <<>> =>
                 t < Len(s) /\ Head(SubSeq(s, t + 1, Len(s))) = s[t + 1]
           /\ SubSeq(s, t + 1, Len(s)) = <<>> => Len(s) <= t
<1> DEFINE rest == SubSeq(s, t + 1, Len(s))
<1>0. Len(s) \in Nat
  OBVIOUS
<1>1. rest \in Seq(Int) /\ Len(rest) = IF t + 1 <= Len(s) THEN Len(s) - (t + 1) + 1 ELSE 0
  <2>1. \A n \in t + 1 .. Len(s) : s[n] \in Int
    BY <1>0, ElementOfSeq
  <2> QED BY <1>0, <2>1, SubSeqProperties
<1>2. ASSUME rest # <<>> PROVE t < Len(s) /\ Head(rest) = s[t + 1]
  <2>1. Len(rest) # 0
    BY <1>1, <1>2, EmptySeq
  <2>2. t + 1 <= Len(s)
    BY <1>1, <2>1
  <2>3. rest[1] = s[t + 1 + 1 - 1]
    <3>1. \A n \in 1 .. Len(s) - (t + 1) + 1 : rest[n] = s[t + 1 + n - 1]
      <4>1. \A n \in t + 1 .. Len(s) : s[n] \in Int
        BY <1>0, ElementOfSeq
      <4> QED BY <1>0, <4>1, SubSeqProperties
    <3> HIDE DEF rest
    <3> QED BY <1>0, <2>2, <3>1
  <2>4. Head(rest) = rest[1]
    BY <1>1, <1>2, HeadTailProperties
  <2> HIDE DEF rest
  <2> QED BY <1>0, <2>2, <2>3, <2>4
<1>3. rest = <<>> => Len(s) <= t
  <2>1. ASSUME rest = <<>> PROVE Len(rest) = 0
    BY <2>1, EmptySeq
  <2> HIDE DEF rest
  <2> QED BY <1>0, <1>1, <2>1
<1> HIDE DEF rest
<1> QED BY <1>1, <1>2, <1>3 DEF rest

\* What kinds of ends there are.
LEMMA Kinds ==
    ASSUME NEW e \in End
    PROVE  /\ e[1] = "read" => e[2] \in Pipes /\ e = R(e[2])
           /\ e[1] = "write" => e[2] \in Pipes /\ e = W(e[2])
           /\ e[1] = "from" => e[2] \in Files /\ e = From(e[2])
           /\ e[1] = "to" => e[2] \in Files /\ e = To(e[2])
BY DEF End, Free, Tty, R, W, From, To

\* What an end of a pipe or a file is.
LEMMA KindOf ==
    /\ \A k : R(k)[1] = "read" /\ R(k)[2] = k /\ W(k)[1] = "write" /\ W(k)[2] = k
    /\ \A f : From(f)[1] = "from" /\ From(f)[2] = f /\ To(f)[1] = "to" /\ To(f)[2] = f
    /\ Tty[1] = "tty" /\ Free[1] = "free"
BY DEF Free, Tty, R, W, From, To
-----------------------------------------------------------------------------
\* What a stage can read at 0 is what is in its pipe or file.
LEMMA InputSeq ==
    ASSUME ShellInv, DataInv, NEW s \in Stages
    PROVE  /\ Input(s) \in Seq(Int)
           /\ Input(s) # <<>> =>
                 \/ fds[s][0][1] = "read" /\ fds[s][0][2] \in Pipes
                       /\ fds[s][0] = R(fds[s][0][2]) /\ Input(s) = data[fds[s][0][2]]
                 \/ fds[s][0][1] = "from" /\ fds[s][0][2] \in Files
                       /\ fds[s][0] = From(fds[s][0][2])
                       /\ Input(s) = SubSeq(content[fds[s][0][2]], taken + 1, Len(content[fds[s][0][2]]))
<1> DEFINE e == fds[s][0]
<1>1. e \in End
  BY Sizes DEF ShellInv, TypeInv
<1>2. CASE e[1] = "read"
  BY <1>1, <1>2, Kinds DEF Input, DataInv
<1>3. CASE e[1] = "from"
  <2>1. e[2] \in Files /\ e = From(e[2])
    BY <1>1, <1>3, Kinds
  <2>2. content[e[2]] \in Seq(Int) /\ taken \in Nat
    BY <2>1 DEF DataInv
  <2>3. Input(s) = SubSeq(content[e[2]], taken + 1, Len(content[e[2]]))
    BY <1>3 DEF Input
  <2>4. SubSeq(content[e[2]], taken + 1, Len(content[e[2]])) \in Seq(Int)
    BY <2>2, Unread
  <2> QED BY <1>3, <2>1, <2>3, <2>4
<1>4. CASE e[1] # "read" /\ e[1] # "from"
  BY <1>4 DEF Input
<1> QED BY <1>2, <1>3, <1>4

\* What a step of a program on its input leaves of the types.
LEMMA TakeTypes ==
    ASSUME ShellInv, DataInv, NEW s \in Stages, Input(s) # <<>>, Take(s)
    PROVE  data' \in [Pipes -> Seq(Int)] /\ taken' \in Nat
<1>1. CASE fds[s][0][1] = "read"
  <2>1. fds[s][0][2] \in Pipes /\ Input(s) = data[fds[s][0][2]]
    BY <1>1, InputSeq
  <2>2. Tail(data[fds[s][0][2]]) \in Seq(Int)
    BY <2>1, OneLess DEF DataInv
  <2> QED BY <1>1, <2>1, <2>2 DEF Take, DataInv
<1>2. CASE fds[s][0][1] # "read"
  BY <1>2 DEF Take, DataInv
<1> QED BY <1>1, <1>2

\* What a stage has to write is data.
LEMMA ReadyTypes ==
    ASSUME DataInv, NEW s \in Stages PROVE Ready(s) \in Seq(Int)
BY DEF Ready, DataInv

\* A write leaves data in pipes, files and on the terminal.
LEMMA PutsTypes ==
    ASSUME DataInv, NEW e \in End, NEW units \in Seq(Int), Puts(units, e)
    PROVE  data' \in [Pipes -> Seq(Int)] /\ content' \in [Files -> Seq(Int)] /\ out' \in Seq(Int)
<1> USE DEF DataInv
<1>1. CASE e[1] = "write"
  <2>1. e[2] \in Pipes
    BY <1>1, Kinds
  <2>2. data[e[2]] \o units \in Seq(Int)
    BY <2>1, Joined
  <2> QED BY <1>1, <2>1, <2>2 DEF Puts
<1>2. CASE e[1] = "to"
  <2>1. e[2] \in Files
    BY <1>2, Kinds
  <2>2. content[e[2]] \o units \in Seq(Int)
    BY <2>1, Joined
  <2> QED BY <1>2, <2>1, <2>2 DEF Puts
<1>3. CASE e[1] # "write" /\ e[1] # "to"
  BY <1>3, Joined DEF Puts
<1> QED BY <1>1, <1>2, <1>3

\* The shell begins without data in any pipe.
LEMMA DataInit == ShellInit => DataInv
<1> SUFFICES ASSUME Init PROVE DataInv
  BY DEF ShellInit
<1>1. <<>> \in Seq(Int) /\ <<1, 2>> \in Seq(Int) /\ Absent \in Seq(Int) /\ Len(<<>>) = 0
  BY DEF Absent
<1>2. content \in [Files -> Seq(Int)] /\ data \in [Pipes -> Seq(Int)] /\ out \in Seq(Int)
  BY <1>1 DEF Init
<1>3. /\ held \in [Stages -> Seq(Int)] /\ sent \in [Stages -> Nat] /\ taken \in Nat
      /\ \A s \in Stages : Len(held[s]) <= 1
  BY <1>1 DEF Init
<1>4. stack \in [Stages -> [in : Int, fd : Int \X Int]] /\ in \in Int /\ room \in Nat
  BY DEF Init
<1>5. pc = "prompt" /\ job.piped = FALSE
  BY DEF Init
<1> QED BY <1>2, <1>3, <1>4, <1>5 DEF DataInv, Making

\* A job begins: the types of the data.
LEMMA DataBegins ==
    ASSUME ShellInv, DataInv, NEW j \in Job, Len(j.stages) \in 1 .. MaxStages, Begin(j)
    PROVE  DataInv'
<1>1. Cardinality(Unused(fds[Shell])) \in Nat
  BY UnusedFinite
<1>2. j.piped \in BOOLEAN
  BY DEF Job
<1>3. Len(j.stages) >= 1
  BY Sizes
<1> QED BY <1>1, <1>2, <1>3 DEF Begin, DataInv, Making

\* The steps of the shell.
LEMMA DataShell ==
    ASSUME ShellInv, DataInv,
           ShellStep \/ ForkFails \/ CommandFails \/ Leave
    PROVE  DataInv'
<1> USE DEF DataInv, Making
<1>1. ASSUME MakePipe PROVE DataInv'
  <2>1. PICK k : data' = [data EXCEPT ![k] = <<>>]
    BY <1>1 DEF MakePipe
  <2>2. data' \in [Pipes -> Seq(Int)]
    <3>1. <<>> \in Seq(Int) /\ data \in [Pipes -> Seq(Int)]
      OBVIOUS
    <3> QED BY <2>1, <3>1
  <2> QED BY <1>1, <2>2 DEF MakePipe, stages
<1>2. ASSUME PipeFails \/ ForkFails \/ Waited \/ CommandFails \/ Leave PROVE DataInv'
  <2>1. UNCHANGED <<job, in, stack, held, sent, taken, data, content, out, room>>
    BY <1>2 DEF PipeFails, ForkFails, Waited, CommandFails, Leave, stages, world, history
  <2>2. pc' \in Making \cup {"wait"} => pc \in Making \cup {"wait"}
    BY <1>2 DEF PipeFails, ForkFails, Waited, CommandFails, Leave
  <2>3. pc' \notin {"command", "waitpid"}
    BY <1>2 DEF PipeFails, ForkFails, Waited, CommandFails, Leave
  <2> QED BY <2>1, <2>2, <2>3
<1>3. ASSUME NEW s \in Stages, Child(s), pc' \in {"close", "next", "waitpid"},
             pc' \in {"close", "next"} => job.piped, pc' = "waitpid" => ~ job.piped
      PROVE DataInv'
  <2>1. [in |-> in, fd |-> fd] \in [in : Int, fd : Int \X Int]
    BY DEF ShellInv, TypeInv
  <2>2. stack' \in [Stages -> [in : Int, fd : Int \X Int]]
    BY <1>3, <2>1 DEF Child
  <2> QED BY <1>3, <2>2 DEF Child, world, history
<1>4. ASSUME Fork PROVE DataInv'
  <2>1. Child(i) /\ pc' \in {"close", "next"} /\ job.piped /\ i \in Stages
    BY <1>4, InRange DEF Fork
  <2> QED BY <1>3, <2>1
<1>5. ASSUME Command PROVE DataInv'
  <2>1. Child(0) /\ pc' = "waitpid" /\ ~ job.piped /\ 0 \in Stages
    BY <1>5, Sizes DEF Command
  <2> QED BY <1>3, <2>1
<1>6. ASSUME NextStage \/ CloseLast PROVE DataInv'
  <2>1. fd[1] \in Int
    BY DEF ShellInv, TypeInv
  <2> QED BY <1>6, <2>1 DEF NextStage, CloseLast, stages, world, history
<1>7. ASSUME NEW s \in Stages, Reap(s) PROVE DataInv'
  BY <1>7 DEF Reap, world, history
<1> QED BY <1>1, <1>2, <1>4, <1>5, <1>6, <1>7 DEF ShellStep

\* A process ends: the types of the data.
LEMMA DataExit ==
    ASSUME DataInv, NEW s \in Stages, Exit(s) PROVE DataInv'
<1>1. held' \in [Stages -> Seq(Int)] /\ \A t \in Stages : Len(held'[t]) <= 1
  BY DEF Exit, DataInv
<1> QED BY <1>1 DEF Exit, DataInv, shell, world, history

\* A stage makes a step: the types of the data.
LEMMA DataStage ==
    ASSUME ShellInv, DataInv, NEW s \in Stages, StageStep(s) PROVE DataInv'
<1> USE DEF DataInv
<1>1. CASE Start(s)
  BY <1>1 DEF Start, shell, world, history
<1>2. ASSUME NEW u \in Int, held' = [held EXCEPT ![s] = <<u>>],
             data' \in [Pipes -> Seq(Int)], taken' \in Nat,
             UNCHANGED <<job, shell, stack, sent, content, out, history>>
      PROVE  DataInv'
  <2>1. held' \in [Stages -> Seq(Int)] /\ \A t \in Stages : Len(held'[t]) <= 1
    BY <1>2
  <2> QED BY <1>2, <2>1 DEF shell, history
<1>3. CASE Read(s)
  <2>1. Input(s) # <<>> /\ Take(s)
    BY <1>3 DEF Read
  <2>2. Head(Input(s)) \in Int
    BY <2>1, InputSeq, OneLess
  <2> QED BY <1>2, <1>3, <2>1, <2>2, TakeTypes DEF Read
<1>4. CASE SecondShell(s)
  <2>1. data' \in [Pipes -> Seq(Int)] /\ taken' \in Nat
    BY <1>4, TakeTypes DEF SecondShell
  <2>2. /\ held' = [held EXCEPT ![s] = <<0>>]
        /\ UNCHANGED <<job, shell, stack, sent, content, out, history>>
    BY <1>4 DEF SecondShell
  <2>3. PICK u \in Int : u = 0
    OBVIOUS
  <2>4. held' = [held EXCEPT ![s] = <<u>>]
    BY <2>2, <2>3
  <2> QED BY <1>2, <2>1, <2>2, <2>4
<1>5. CASE Write(s)
  <2>1. CASE Broken(fds[s][1])
    BY <1>5, <2>1, DataExit DEF Write
  <2>2. CASE ~ Broken(fds[s][1])
    <3>0. Ready(s) \in Seq(Int)
      BY ReadyTypes
    <3>1. fds[s][1] \in End /\ Ready(s) \in Seq(Int)
      BY Sizes, <3>0 DEF ShellInv, TypeInv
    <3>2. /\ Puts(Ready(s), fds[s][1])
          /\ held' = [held EXCEPT ![s] = <<>>] /\ sent' = [sent EXCEPT ![s] = @ + 1]
          /\ UNCHANGED <<job, shell, stack, taken, history>>
      BY <1>5, <2>2 DEF Write
    <3>3. data' \in [Pipes -> Seq(Int)] /\ content' \in [Files -> Seq(Int)] /\ out' \in Seq(Int)
      BY <3>1, <3>2, PutsTypes
    <3>4. /\ held' \in [Stages -> Seq(Int)] /\ \A t \in Stages : Len(held'[t]) <= 1
          /\ sent' \in [Stages -> Nat]
      BY <3>2
    <3> QED BY <3>2, <3>3, <3>4 DEF shell, history
  <2> QED BY <2>1, <2>2
<1>6. CASE Finish(s)
  BY <1>6, DataExit DEF Finish
<1> QED BY <1>1, <1>3, <1>4, <1>5, <1>6 DEF StageStep

\* A single command starts: the types of the data.
LEMMA DataCommand ==
    ASSUME ShellInv, DataInv, StartCommand PROVE DataInv'
<1>1. job.output \in Files \cup {"none"}
  BY DEF ShellInv, TypeInv, Job
<1>2. content' \in [Files -> Seq(Int)]
  BY <1>1 DEF StartCommand, OpenOutput, DataInv
<1> QED BY <1>2 DEF StartCommand, DataInv, shell, history
-----------------------------------------------------------------------------
(***************************************************************************)
(* A command that copies a file.                                           *)
(***************************************************************************)
\* Opening a file with a descriptor to spare puts it where it is wanted.
LEMMA RedirectIs ==
    ASSUME NEW t \in [Numbers -> End], Unused(t) # {}, NEW m \in Numbers, t[m] # Free,
           NEW e \in End, e # Free
    PROVE  /\ Redirect(t, e, m) = [t EXCEPT ![m] = e]
           /\ Unused(Redirect(t, e, m)) = Unused(t)
<1> DEFINE n == Lowest(Unused(t))
           with == [t EXCEPT ![n] = e]
           both == [with EXCEPT ![m] = e]
<1>1. n \in Numbers /\ t[n] = Free /\ n # m
  <2>1. n \in Unused(t)
    BY UnusedFinite, LowestIn
  <2> HIDE DEF n
  <2> QED BY <2>1 DEF Unused
<1>2. Redirect(t, e, m) = Close(Dup2(with, n, m), n)
  BY DEF Redirect
<1> HIDE DEF n
<1>3. with \in [Numbers -> End] /\ with[n] = e
  BY <1>1
<1>4. Dup2(with, n, m) = both
  BY <1>1, <1>3 DEF Dup2
<1>5. Close(both, n) = [t EXCEPT ![m] = e]
  <2>0. Free \in End
    BY DEF End
  <2>1. \A k \in Numbers : Close(both, n)[k] = [t EXCEPT ![m] = e][k]
    BY <1>1 DEF Close
  <2>2. Close(both, n) \in [Numbers -> End] /\ [t EXCEPT ![m] = e] \in [Numbers -> End]
    <3> HIDE DEF with
    <3>1. both \in [Numbers -> End]
      BY <1>3
    <3> HIDE DEF both
    <3> QED BY <3>1, <2>0 DEF Close
  <2> QED BY <2>1, <2>2
<1>6. Unused([t EXCEPT ![m] = e]) = Unused(t)
  BY DEF Unused
<1> QED BY <1>2, <1>4, <1>5, <1>6

\* Of a line with one program only the child runs.
LEMMA OnlyChild ==
    ASSUME ShellInv, DataInv, RedirectInv, Redirected,
           NEW s \in Stages, state[s] \in {"forked", "running", "shell", "zombie"}
    PROVE  pc = "waitpid" /\ s = 0 /\ state[0] \in {"forked", "running", "zombie"}
<1>1. pc \notin Making \cup {"wait"}
  BY DEF DataInv, Redirected
<1>2. pc \in {"prompt", "command", "waitpid", "exited"}
  BY <1>1 DEF ShellInv, TypeInv
<1>3. pc = "waitpid" /\ s = 0
  BY <1>2 DEF ShellInv, QuietOK
<1> QED BY <1>3 DEF RedirectInv

\* The shell reads and writes the terminal.
LEMMA Terminal ==
    ASSUME ShellInv PROVE fds[Shell][0] = Tty /\ fds[Shell][1] = Tty
BY Sizes DEF ShellInv, ShellTable

\* What the child finds when it runs its program.
LEMMA ChildOpens ==
    ASSUME ShellInv, DataInv, RedirectInv, Redirected, StartCommand
    PROVE  /\ pc = "waitpid" /\ UNCHANGED <<job, pc, failed, room, out, taken, held>>
           /\ state'[0] = "running" /\ Opened'
<1>1. pc = "waitpid" /\ state[0] = "forked" /\ 0 \in Stages
  BY Sizes, OnlyChild DEF StartCommand
<1>2. Untouched /\ fds[0] = fds[Shell] /\ room = Spare
  BY <1>1 DEF RedirectInv
<1>3. /\ Unused(fds[0]) # {} /\ fds[0] \in [Numbers -> End]
      /\ fds[0][0] = Tty /\ fds[0][1] = Tty
  <2>1. Cardinality(Unused(fds[0])) >= 1
    BY <1>2 DEF Redirected, Spare
  <2>2. Unused(fds[0]) # {}
    BY <2>1, FS_EmptySet
  <2> QED BY <1>2, <2>2, Terminal, InRange
<1> DEFINE writes == job.output # "none"
           files  == IF writes THEN OpenOutput ELSE content
           output == IF writes THEN Redirect(fds[0], To(job.output), 1) ELSE fds[0]
           reads  == files[job.input] # Absent
           input  == IF reads THEN Redirect(output, From(job.input), 0) ELSE output
<1>4. /\ content' = files /\ state' = [state EXCEPT ![0] = "running"]
      /\ fds' = [fds EXCEPT ![0] = input]
      /\ UNCHANGED <<job, pc, failed, room, out, taken, held>>
  <2>1. job.output \notin ReadOnly \cup {"none"} <=> writes
    BY DEF Redirected
  <2>2. job.input # "none" /\ Program(0) = "filter"
    BY DEF Redirected, Program
  <2> QED BY <1>3, <2>1, <2>2 DEF StartCommand, shell, history
<1>5. /\ job.input \in Files /\ (writes => job.output \in Files)
      /\ content \in [Files -> Seq(Int)]
  BY DEF ShellInv, TypeInv, Job, Redirected, DataInv
<1>6. /\ output \in [Numbers -> End] /\ Unused(output) # {} /\ output[0] = Tty
      /\ output[1] = IF job.output = "none" THEN Tty ELSE To(job.output)
  <2>1. CASE writes
    <3>1. To(job.output) \in End /\ To(job.output) # Free
      BY <1>5, <2>1 DEF End, To, Free
    <3>2. /\ Redirect(fds[0], To(job.output), 1) = [fds[0] EXCEPT ![1] = To(job.output)]
          /\ Unused(Redirect(fds[0], To(job.output), 1)) = Unused(fds[0])
      BY <1>3, <3>1, Sizes, EndsDiffer, RedirectIs
    <3>3. output = [fds[0] EXCEPT ![1] = To(job.output)] /\ Unused(output) = Unused(fds[0])
      BY <2>1, <3>2
    <3> HIDE DEF output
    <3> QED BY <1>3, <2>1, <3>1, <3>3, Sizes
  <2>2. CASE ~ writes
    BY <1>3, <2>2
  <2> QED BY <2>1, <2>2
<1> HIDE DEF output
<1>7. /\ reads => input[0] = From(job.input)
      /\ input[1] = output[1]
  <2>1. CASE reads
    <3>1. From(job.input) \in End /\ From(job.input) # Free
      BY <1>5 DEF End, From, Free
    <3>2. Redirect(output, From(job.input), 0) = [output EXCEPT ![0] = From(job.input)]
      BY <1>6, <3>1, Sizes, EndsDiffer, RedirectIs
    <3>3. input = [output EXCEPT ![0] = From(job.input)]
      BY <2>1, <3>2
    <3> HIDE DEF input
    <3> QED BY <1>6, <3>3, Sizes
  <2>2. CASE ~ reads
    BY <2>2
  <2> QED BY <2>1, <2>2
<1>8. state'[0] = "running" /\ fds'[0] = input
  BY <1>1, <1>4, Sizes DEF ShellInv, TypeInv
<1> HIDE DEF input
<1>9. CASE ~ reads
  <2>1. content'[job.input] = Absent
    BY <1>4, <1>9
  <2>2. job.output # job.input
    BY <1>5, <1>9 DEF OpenOutput, Absent, Redirected
  <2> QED BY <1>1, <1>4, <1>6, <1>7, <1>8, <2>1, <2>2 DEF Opened
<1>10. CASE reads
  <2>1. /\ out' = <<>> /\ taken' = 0 /\ held'[0] = <<>> /\ job' = job
    BY <1>2, <1>4 DEF Untouched
  <2>2. content' \in [Files -> Seq(Int)]
    BY <1>4, <1>5 DEF OpenOutput
  <2>3. Len(content'[job.input]) \in Nat /\ Len(<<>>) = 0
    BY <1>5, <2>2
  <2>4. writes => content'[job.output] = <<>>
    BY <1>4, <1>5 DEF OpenOutput
  <2>5. CopiedSoFar(held[0])'
    <3>1. CASE job.output = "none"
      <4>1. CopiedTo(out, held[0], content[job.input])'
        BY <2>1, <2>3 DEF CopiedTo
      <4> QED BY <2>1, <3>1, <4>1 DEF CopiedSoFar, Redirected
    <3>2. CASE job.output # "none" /\ job.output = job.input
      BY <2>1, <2>4, <3>2 DEF CopiedSoFar
    <3>3. CASE job.output # "none" /\ job.output # job.input
      <4>1. CopiedTo(content[job.output], held[0], content[job.input])'
        BY <2>1, <2>3, <2>4, <3>3 DEF CopiedTo
      <4> QED BY <2>1, <3>3, <4>1 DEF CopiedSoFar
    <3> QED BY <3>1, <3>2, <3>3
  <2> QED BY <1>1, <1>4, <1>6, <1>7, <1>8, <1>10, <2>1, <2>5 DEF Opened
<1> QED BY <1>1, <1>4, <1>8, <1>9, <1>10

\* The three steps of the child's program.
LEMMA ChildReads ==
    ASSUME ShellInv, DataInv, Redirected, Opened, Read(0)
    PROVE  Opened' /\ UNCHANGED <<job, shell, fds, state, out, content, history>>
<1>1. /\ 0 \in Stages /\ held[0] = <<>> /\ Input(0) # <<>> /\ Take(0)
      /\ held' = [held EXCEPT ![0] = <<Head(Input(0))>>]
      /\ UNCHANGED <<job, shell, fds, state, out, content, history>>
  BY Sizes DEF Read
<1>2. CASE content[job.input] = Absent /\ job.output # job.input
           /\ fds[0][1] = IF job.output = "none" THEN Tty ELSE To(job.output)
  BY <1>1, <1>2 DEF Opened
<1>3. CASE /\ fds[0][0] = From(job.input)
           /\ fds[0][1] = IF job.output = "none" THEN Tty ELSE To(job.output)
           /\ CopiedSoFar(held[0])
  <2> DEFINE c == content[job.input]
             x == Head(Input(0))
  <2>1. Input(0) = SubSeq(c, taken + 1, Len(c)) /\ taken' = taken + 1
    <3>1. fds[0][0][1] = "from" /\ fds[0][0][2] = job.input
      BY <1>3, KindOf
    <3> QED BY <1>1, <3>1 DEF Input, Take
  <2>2. c \in Seq(Int) /\ taken \in Nat
    BY DEF DataInv, ShellInv, TypeInv, Job, Redirected
  <2>3. taken < Len(c) /\ x = c[taken + 1]
    BY <1>1, <2>1, <2>2, Unread
  <2>4. held'[0] = <<x>> /\ Len(<<x>>) = 1 /\ <<x>>[1] = x
    BY <1>1 DEF DataInv
  <2>5. ASSUME NEW o, CopiedTo(o, <<>>, c), Len(o) \in Nat
        PROVE  /\ taken' = Len(o) + Len(<<x>>) /\ taken' <= Len(c)
               /\ \A n \in 1 .. Len(o) : o[n] = c[n]
               /\ <<x>>[1] = c[taken']
    <3>1. taken = Len(o) + Len(<<>>) /\ Len(<<>>) = 0 /\ Len(c) \in Nat
          /\ \A n \in 1 .. Len(o) : o[n] = c[n]
      BY <2>2, <2>5 DEF CopiedTo
    <3>2. taken' = Len(o) + 1 /\ taken' <= Len(c)
      BY <2>1, <2>2, <2>3, <2>5, <3>1
    <3> HIDE DEF x, c
    <3>3. <<x>>[1] = c[taken']
      BY <2>1, <2>3, <2>4
    <3> QED BY <2>4, <3>1, <3>2, <3>3
  <2>6. CopiedSoFar(held[0])'
    <3> HIDE DEF x
    <3>1. CASE job.output = "none"
      <4>1. CopiedTo(out, <<>>, c) /\ Len(out) \in Nat
        BY <1>1, <1>3, <3>1 DEF CopiedSoFar, Redirected, DataInv
      <4>2. CopiedTo(out, held[0], content[job.input])'
        BY <1>1, <2>4, <2>5, <4>1 DEF CopiedTo
      <4> QED BY <1>1, <3>1, <4>2 DEF CopiedSoFar, Redirected
    <3>2. CASE job.output # "none" /\ job.output = job.input
      <4>1. c = <<>> /\ Len(<<>>) = 0
        BY <1>3, <3>2 DEF CopiedSoFar
      <4> QED BY <2>2, <2>3, <4>1
    <3>3. CASE job.output # "none" /\ job.output # job.input
      <4>1. CopiedTo(content[job.output], <<>>, c) /\ Len(content[job.output]) \in Nat /\ out = <<>>
        BY <1>1, <1>3, <3>3 DEF CopiedSoFar, ShellInv, TypeInv, Job, DataInv
      <4>2. CopiedTo(content[job.output], held[0], content[job.input])'
        BY <1>1, <2>4, <2>5, <4>1 DEF CopiedTo
      <4> QED BY <1>1, <3>3, <4>1, <4>2 DEF CopiedSoFar
    <3> QED BY <3>1, <3>2, <3>3
  <2> QED BY <1>1, <1>3, <2>6 DEF Opened
<1> QED BY <1>1, <1>2, <1>3 DEF Opened

\* What a redirected command writes leaves its descriptors alone.
LEMMA ChildWrites ==
    ASSUME ShellInv, DataInv, Redirected, Opened, Write(0)
    PROVE  Opened' /\ UNCHANGED <<job, shell, fds, state, history>>
<1>0. /\ 0 \in Stages /\ held[0] \in Seq(Int) /\ Len(held[0]) <= 1
      /\ job.input \in Files /\ (job.output # "none" => job.output \in Files)
      /\ content \in [Files -> Seq(Int)] /\ out \in Seq(Int) /\ taken \in Nat
  BY Sizes DEF DataInv, ShellInv, TypeInv, Job, Redirected
<1>1. /\ fds[0][1] = IF job.output = "none" THEN Tty ELSE To(job.output)
      /\ Ready(0) = held[0] /\ ~ Broken(fds[0][1])
  BY KindOf DEF Opened, Ready, Program, Redirected, Broken
<1>2. /\ held[0] # <<>> /\ Puts(held[0], fds[0][1]) /\ held' = [held EXCEPT ![0] = <<>>]
      /\ UNCHANGED <<job, shell, fds, state, taken, history>>
  BY <1>1 DEF Write
<1>3. PICK x \in Int : held[0] = <<x>> /\ Len(held[0]) = 1 /\ held[0][1] = x
  <2>1. Len(held[0]) = 1
    <3> DEFINE m == Len(held[0])
    <3>1. m \in Nat /\ m # 0 /\ m <= 1
      BY <1>0, <1>2, EmptySeq
    <3> HIDE DEF m
    <3>2. m = 1
      BY <3>1
    <3> QED BY <3>2 DEF m
  <2>2. held[0][1] \in Int
    BY <1>0, <2>1, ElementOfSeq
  <2>3. held[0] = <<held[0][1]>>
    BY <1>0, <2>1, <2>2, SeqEqual
  <2> QED BY <2>1, <2>2, <2>3
<1>4. /\ IF job.output = "none" THEN out' = out \o held[0] /\ UNCHANGED content
         ELSE content' = [content EXCEPT ![job.output] = @ \o held[0]] /\ UNCHANGED out
      /\ held'[0] = <<>>
  <2>1. IF job.output = "none" THEN fds[0][1][1] = "tty"
        ELSE fds[0][1][1] = "to" /\ fds[0][1][2] = job.output
    BY <1>1, KindOf
  <2>2. held'[0] = <<>>
    BY <1>0, <1>2 DEF DataInv
  <2>3. CASE job.output = "none"
    BY <1>2, <2>1, <2>2, <2>3 DEF Puts
  <2>4. CASE job.output # "none"
    BY <1>2, <2>1, <2>2, <2>4 DEF Puts
  <2> QED BY <2>3, <2>4
<1>5. CASE content[job.input] = Absent /\ job.output # job.input
  BY <1>0, <1>1, <1>2, <1>4, <1>5 DEF Opened
<1>6. CASE fds[0][0] = From(job.input) /\ CopiedSoFar(held[0])
  <2> DEFINE c == content[job.input]
  <2>1. ASSUME NEW o \in Seq(Int), CopiedTo(o, <<x>>, c)
        PROVE  /\ taken = Len(o \o <<x>>) /\ taken <= Len(c)
               /\ \A n \in 1 .. Len(o \o <<x>>) : (o \o <<x>>)[n] = c[n]
    <3>1. /\ taken = Len(o) + 1 /\ taken <= Len(c) /\ x = c[taken]
          /\ \A n \in 1 .. Len(o) : o[n] = c[n]
      BY <1>3, <2>1 DEF CopiedTo
    <3> DEFINE u == o \o <<x>>
    <3>2. /\ Len(u) = Len(o) + 1 /\ u[Len(o) + 1] = x
          /\ \A n \in 1 .. Len(o) : u[n] = o[n]
      BY OneMore
    <3>3. Len(o) \in Nat
      OBVIOUS
    <3> HIDE DEF u, c
    <3>4. taken = Len(u) /\ taken <= Len(c)
      BY <1>0, <3>1, <3>2, <3>3
    <3>5. ASSUME NEW n \in 1 .. Len(u) PROVE u[n] = c[n]
      <4>1. n \in 1 .. Len(o) \/ n = Len(o) + 1
        BY <3>2, <3>3
      <4> QED BY <3>1, <3>2, <4>1
    <3> QED BY <3>4, <3>5 DEF u
  <2>2. Len(<<>>) = 0
    OBVIOUS
  <2>3. CopiedSoFar(held[0])'
    <3>1. CASE job.output = "none"
      <4>1. CopiedTo(out, <<x>>, c)
        BY <1>3, <1>6, <3>1 DEF CopiedSoFar, Redirected
      <4>2. out' = out \o <<x>> /\ content' = content
        BY <1>3, <1>4, <3>1
      <4>3. Len(out \o <<x>>) \in Nat
        BY <1>0, OneMore
      <4>4. CopiedTo(out, held[0], content[job.input])'
        <5> DEFINE u == out \o <<x>>
        <5>1. /\ taken = Len(u) /\ taken <= Len(c)
              /\ \A n \in 1 .. Len(u) : u[n] = c[n]
          BY <1>0, <2>1, <4>1
        <5>2. out' = u /\ Len(u) \in Nat
          BY <4>2, <4>3
        <5> HIDE DEF u
        <5>3. taken' = Len(u) + Len(<<>>) /\ taken' <= Len(c)
          BY <1>0, <1>2, <2>2, <5>1, <5>2
        <5>4. held'[0] = <<>> /\ content'[job'.input] = c /\ job' = job
          BY <1>2, <1>4, <4>2
        <5> QED BY <5>1, <5>2, <5>3, <5>4 DEF CopiedTo
      <4> QED BY <1>2, <3>1, <4>4 DEF CopiedSoFar, Redirected, Job
    <3>2. CASE job.output # "none" /\ job.output = job.input
      BY <1>2, <1>6, <3>2 DEF CopiedSoFar
    <3>3. CASE job.output # "none" /\ job.output # job.input
      <4> DEFINE d == content[job.output]
      <4>1. CopiedTo(d, <<x>>, c) /\ out = <<>> /\ d \in Seq(Int)
        BY <1>0, <1>3, <1>6, <3>3 DEF CopiedSoFar
      <4>2. content'[job.output] = d \o <<x>> /\ content'[job.input] = c /\ out' = <<>>
        BY <1>0, <1>3, <1>4, <3>3, <4>1
      <4>3. Len(d \o <<x>>) \in Nat
        BY <4>1, OneMore
      <4>4. CopiedTo(content[job.output], held[0], content[job.input])'
        <5> DEFINE u == d \o <<x>>
        <5>1. /\ taken = Len(u) /\ taken <= Len(c)
              /\ \A n \in 1 .. Len(u) : u[n] = c[n]
          BY <2>1, <4>1
        <5>2. content'[job.output] = u /\ Len(u) \in Nat
          BY <4>2, <4>3
        <5> HIDE DEF u
        <5>3. taken' = Len(u) + Len(<<>>) /\ taken' <= Len(c)
          BY <1>0, <1>2, <2>2, <5>1, <5>2
        <5>4. held'[0] = <<>> /\ content'[job'.input] = c /\ job' = job
          BY <1>2, <1>4, <4>2
        <5> QED BY <5>1, <5>2, <5>3, <5>4 DEF CopiedTo
      <4> QED BY <1>2, <3>3, <4>2, <4>4 DEF CopiedSoFar
    <3> QED BY <3>1, <3>2, <3>3
  <2> QED BY <1>1, <1>2, <1>6, <2>3 DEF Opened
<1> QED BY <1>2, <1>5, <1>6 DEF Opened

\* At the end of the input all of it has been written.
LEMMA ChildEnds ==
    ASSUME ShellInv, DataInv, Redirected, Opened, Finish(0)
    PROVE  content[job.input] # Absent => Obeyed
<1> SUFFICES ASSUME content[job.input] # Absent PROVE Obeyed
  OBVIOUS
<1> DEFINE c == content[job.input]
<1>0. /\ job.input \in Files /\ (job.output # "none" => job.output \in Files)
      /\ content \in [Files -> Seq(Int)] /\ out \in Seq(Int) /\ taken \in Nat /\ c \in Seq(Int)
  BY DEF DataInv, ShellInv, TypeInv, Job, Redirected
<1>1. fds[0][0] = From(job.input) /\ CopiedSoFar(held[0])
  BY DEF Opened
<1>2. held[0] = <<>> /\ AtEnd(0)
  BY DEF Finish, Ready, Program, Redirected
<1>3. SubSeq(c, taken + 1, Len(c)) = <<>>
  BY <1>1, <1>2, KindOf DEF AtEnd, Input
<1>4. Len(c) <= taken
  BY <1>0, <1>3, Unread
<1>5. ASSUME NEW o \in Seq(Int), CopiedTo(o, <<>>, c) PROVE o = c
  <2>1. /\ taken = Len(o) + Len(<<>>) /\ Len(<<>>) = 0 /\ taken <= Len(c)
        /\ \A n \in 1 .. Len(o) : o[n] = c[n]
    BY <1>5 DEF CopiedTo
  <2>2. Len(o) = Len(c)
    BY <1>0, <1>4, <2>1
  <2> HIDE DEF c
  <2> QED BY <1>0, <1>5, <2>1, <2>2, SeqEqual
<1>6. CASE job.output = "none"
  BY <1>0, <1>1, <1>2, <1>5, <1>6 DEF CopiedSoFar, Obeyed, Redirected
<1>7. CASE job.output # "none" /\ job.output = job.input
  BY <1>1, <1>7 DEF CopiedSoFar, Obeyed
<1>8. CASE job.output # "none" /\ job.output # job.input
  <2>1. out = <<>> /\ CopiedTo(content[job.output], <<>>, c) /\ content[job.output] \in Seq(Int)
    BY <1>0, <1>1, <1>2, <1>8 DEF CopiedSoFar
  <2> QED BY <1>5, <1>8, <2>1 DEF Obeyed
<1> QED BY <1>6, <1>7, <1>8

\* Nothing that the invariants speak of has changed.
LEMMA SameRedirect ==
    ASSUME RedirectInv,
           UNCHANGED <<job, pc, fds, state, content, out, held, taken, room, failed>>
    PROVE  RedirectInv'
<1>1. Redirected' <=> Redirected
  BY DEF Redirected
<1>2. /\ Untouched' = Untouched /\ Spare' = Spare /\ Obeyed' = Obeyed /\ Opened' = Opened
  BY DEF Untouched, Spare, Unused, Obeyed, Opened, CopiedSoFar, CopiedTo
<1> QED BY <1>1, <1>2 DEF RedirectInv

\* A redirection begins.
LEMMA RedirectBegins ==
    ASSUME ShellInv, NEW j \in Job, Begin(j) PROVE RedirectInv'
<1> SUFFICES ASSUME Redirected' PROVE RedirectInv'
  BY DEF RedirectInv
<1>1. ~ j.piped /\ pc' = "command"
  BY DEF Redirected, Begin
<1>2. Untouched' /\ room' = Spare'
  BY Sizes DEF Begin, Untouched, Spare, Unused
<1> QED BY <1>1, <1>2 DEF RedirectInv

\* The steps of the shell keep a redirection what it is.
LEMMA RedirectShell ==
    ASSUME ShellInv, DataInv, RedirectInv,
           ShellStep \/ ForkFails \/ CommandFails \/ Leave
    PROVE  RedirectInv'
<1> SUFFICES ASSUME Redirected' PROVE RedirectInv'
  BY DEF RedirectInv
<1>1. /\ ~ job.piped /\ ~ failed' /\ pc \notin Making \cup {"wait"}
  <2>1. job' = job
    BY DEF ShellStep, MakePipe, PipeFails, Fork, Child, NextStage, CloseLast, Command, Reap, Waited,
           ForkFails, CommandFails, Leave
  <2> QED BY <2>1 DEF Redirected, DataInv
<1>2. Command \/ (\E s \in Stages : Reap(s)) \/ Leave
  BY <1>1 DEF ShellStep, MakePipe, PipeFails, Fork, NextStage, CloseLast, Waited, ForkFails,
              CommandFails, Making
<1>3. CASE Command
  <2>1. /\ pc = "command" /\ pc' = "waitpid" /\ 0 \in Stages
        /\ fds' = [fds EXCEPT ![0] = fds[Shell]] /\ state' = [state EXCEPT ![0] = "forked"]
        /\ UNCHANGED <<job, held, taken, out, room, failed>>
    BY <1>3, Sizes DEF Command, Child, world, history
  <2>2. fds'[0] = fds[Shell] /\ fds'[Shell] = fds[Shell] /\ state'[0] = "forked"
    BY <2>1, Sizes DEF ShellInv, TypeInv
  <2>3. Untouched /\ room = Spare
    BY <2>1 DEF RedirectInv, Redirected
  <2>4. Untouched' /\ room' = Spare'
    BY <2>1, <2>2, <2>3 DEF Untouched, Spare, Unused
  <2> QED BY <2>1, <2>2, <2>4 DEF RedirectInv
<1>4. ASSUME NEW s \in Stages, Reap(s) PROVE RedirectInv'
  <2>1. /\ state[s] = "zombie" /\ pc' = IF pc = "wait" THEN "wait" ELSE "prompt"
        /\ UNCHANGED <<job, content, out, failed, room>>
    BY <1>4 DEF Reap, world, history
  <2>2. Redirected
    BY <2>1 DEF Redirected
  <2>3. pc = "waitpid" /\ s = 0
    BY <2>1, <2>2, OnlyChild
  <2>4. content[job.input] # Absent => Obeyed
    BY <2>1, <2>2, <2>3 DEF RedirectInv
  <2>5. (content[job.input] # Absent => Obeyed)'
    BY <2>1, <2>4 DEF Obeyed
  <2> QED BY <2>1, <2>3, <2>5 DEF RedirectInv
<1>5. CASE Leave
  <2>1. pc = "prompt" /\ pc' = "exited" /\ UNCHANGED <<job, content, out, failed, room>>
    BY <1>5 DEF Leave, world, history
  <2>2. content[job.input] # Absent => Obeyed
    BY <2>1 DEF RedirectInv, Redirected
  <2>3. (content[job.input] # Absent => Obeyed)'
    BY <2>1, <2>2 DEF Obeyed
  <2> QED BY <2>1, <2>3 DEF RedirectInv
<1> QED BY <1>2, <1>3, <1>4, <1>5

\* So do the steps of the child.
LEMMA RedirectStage ==
    ASSUME ShellInv, DataInv, RedirectInv,
           StartCommand \/ \E s \in Stages : StageStep(s)
    PROVE  RedirectInv'
<1> SUFFICES ASSUME Redirected' PROVE RedirectInv'
  BY DEF RedirectInv
<1>1. Redirected /\ UNCHANGED <<job, pc>>
  <2>1. UNCHANGED <<job, pc, room, failed>>
    BY DEF StartCommand, StageStep, Start, Read, Write, Exit, Finish, SecondShell, shell, history
  <2> QED BY <2>1 DEF Redirected
<1>2. CASE StartCommand
  BY <1>1, <1>2, ChildOpens DEF RedirectInv
<1>3. ASSUME NEW s \in Stages, StageStep(s) PROVE RedirectInv'
  <2>1. state[s] \in {"running", "shell"} /\ ~ Start(s)
    BY <1>1, <1>3 DEF StageStep, Start, Read, Write, Finish, SecondShell, Redirected
  <2>2. s = 0 /\ pc = "waitpid" /\ state[0] = "running"
    BY <1>1, <2>1, OnlyChild
  <2>3. Opened
    BY <1>1, <2>2 DEF RedirectInv
  <2>4. CASE Read(0)
    <3>1. Opened' /\ state' = state
      BY <1>1, <2>3, <2>4, ChildReads
    <3> QED BY <1>1, <2>2, <3>1 DEF RedirectInv
  <2>5. CASE Write(0)
    <3>1. Opened' /\ state' = state
      BY <1>1, <2>3, <2>5, ChildWrites
    <3> QED BY <1>1, <2>2, <3>1 DEF RedirectInv
  <2>6. CASE Finish(0)
    <3>1. content[job.input] # Absent => Obeyed
      BY <1>1, <2>3, <2>6, ChildEnds
    <3>2. UNCHANGED <<job, content, out>> /\ state' = [state EXCEPT ![0] = "zombie"]
      BY <2>6 DEF Finish, Exit, world
    <3>3. (content[job.input] # Absent => Obeyed)' /\ state'[0] = "zombie"
      BY <2>2, <3>1, <3>2 DEF Obeyed, ShellInv, TypeInv
    <3> QED BY <1>1, <2>2, <3>3 DEF RedirectInv
  <2> QED BY <1>3, <2>1, <2>2, <2>4, <2>5, <2>6 DEF StageStep, SecondShell
<1> QED BY <1>2, <1>3

\* So does every step of a job.
LEMMA RedirectJob ==
    ASSUME ShellInv, DataInv, RedirectInv, JobStep PROVE RedirectInv'
BY RedirectShell, RedirectStage DEF JobStep
-----------------------------------------------------------------------------
(***************************************************************************)
(* A pipeline that copies.                                                 *)
(***************************************************************************)
\* What a step that makes a pipe does.
LEMMA PipeMade ==
    ASSUME ShellInv, MakePipe
    PROVE  \E r, w \in Numbers : \E k \in Pipes :
              /\ fds[Shell][r] = Free /\ fds[Shell][w] = Free /\ w # r /\ ~ InUse(k)
              /\ fds' = [fds EXCEPT ![Shell] = [@ EXCEPT ![r] = R(k), ![w] = W(k)]]
              /\ fd' = <<r, w>> /\ made' = [made EXCEPT ![i] = k]
              /\ data' = [data EXCEPT ![k] = <<>>]
              /\ Cardinality(Unused(fds'[Shell])) = Spare - 2
<1> DEFINE free == Unused(fds[Shell])
           r == Lowest(free)
           w == Lowest(free \ {r})
           k == Lowest({p \in Pipes : ~ InUse(p)})
<1>1. free \subseteq Nat /\ IsFiniteSet(free) /\ Cardinality(free) >= 2 /\ pc = "pipe"
  BY UnusedFinite DEF MakePipe
<1>2. r \in free
  <2>1. free # {}
    BY <1>1, FS_EmptySet
  <2> HIDE DEF free
  <2> QED BY <1>1, <2>1, LowestIn
<1>3. /\ w \in free /\ w # r
      /\ Cardinality(free \ {r}) = Cardinality(free) - 1 /\ Cardinality(free) \in Nat
  <2>1. Cardinality(free \ {r}) = Cardinality(free) - 1 /\ Cardinality(free) \in Nat
    BY <1>1, <1>2, FS_RemoveElement, FS_CardinalityType
  <2>2. free \ {r} # {}
    BY <1>1, <2>1, FS_EmptySet
  <2>3. free \ {r} \subseteq Nat
    BY <1>1
  <2> HIDE DEF free, r
  <2>4. w \in free \ {r}
    BY <2>2, <2>3, LowestIn
  <2> QED BY <2>1, <2>4
<1>4. k \in Pipes /\ ~ InUse(k)
  <2> DEFINE fresh == {p \in Pipes : ~ InUse(p)}
  <2>1. fresh # {} /\ fresh \subseteq Nat
    BY <1>1, FreshPipe, Sizes
  <2>2. Lowest(fresh) \in fresh
    <3> HIDE DEF fresh
    <3> QED BY <2>1, LowestIn
  <2> QED BY <2>2
<1>5. /\ fds' = [fds EXCEPT ![Shell] = [@ EXCEPT ![r] = R(k), ![w] = W(k)]]
      /\ fd' = <<r, w>> /\ made' = [made EXCEPT ![i] = k] /\ data' = [data EXCEPT ![k] = <<>>]
  BY DEF MakePipe
<1>6. /\ r \in Numbers /\ w \in Numbers /\ fds[Shell][r] = Free /\ fds[Shell][w] = Free
  BY <1>2, <1>3 DEF Unused
<1>7. Cardinality(Unused(fds'[Shell])) = Spare - 2
  <2> HIDE DEF r, w, k
  <2>1. fds'[Shell] = [fds[Shell] EXCEPT ![r] = R(k), ![w] = W(k)] /\ fds[Shell] \in [Numbers -> End]
    BY <1>5, InRange, Sizes DEF ShellInv, TypeInv
  <2>2. Unused(fds'[Shell]) = (free \ {r}) \ {w}
    BY <1>6, <2>1, EndsDiffer DEF Unused
  <2>3. w \in free \ {r} /\ IsFiniteSet(free \ {r})
    BY <1>1, <1>2, <1>3, FS_RemoveElement
  <2> HIDE DEF free
  <2>4. Cardinality((free \ {r}) \ {w}) = Cardinality(free \ {r}) - 1
    BY <2>3, FS_RemoveElement
  <2>5. Cardinality((free \ {r}) \ {w}) = Cardinality(free) - 2
    BY <1>3, <2>4
  <2> QED BY <2>2, <2>5 DEF Spare, free
<1> HIDE DEF r, w, k, free
<1> QED BY <1>3, <1>4, <1>5, <1>6, <1>7

\* The stages of such a line, and the places of its pipes.
LEMMA Row ==
    ASSUME ShellInv, DataInv, Copying
    PROVE  /\ Last \in Nat /\ Last \in Stages /\ room \in Int /\ room >= Last + 1
           /\ \A s \in 0 .. Last : s \in Stages
           /\ \A s \in 1 .. Last : s - 1 \in Stages /\ s \in Stages
           /\ \A s \in Stages : s < Last => s + 1 \in Stages
           /\ Program(0) = "source" /\ \A s \in 1 .. Last : Program(s) = "filter"
<1>1. Len(job.stages) \in Nat /\ Len(job.stages) >= 1 /\ Last = Len(job.stages) - 1
  BY DEF ShellInv, TypeInv, Job, DataInv, Copying, Last
<1>2. Last \in Nat /\ Last < MaxStages /\ room \in Int /\ room >= Last + 1
  BY <1>1, InRange DEF DataInv, Copying
<1>3. \A s \in 0 .. Last : s \in Stages
  BY <1>2, Sizes DEF Stages
<1>4. /\ \A s \in 1 .. Last : s - 1 \in Stages /\ s \in Stages
      /\ \A s \in Stages : s < Last => s + 1 \in Stages
  BY <1>2, Sizes DEF Stages
<1>5. Program(0) = "source" /\ \A s \in 1 .. Last : Program(s) = "filter"
  BY <1>2 DEF Copying
<1> QED BY <1>2, <1>3, <1>4, <1>5

\* What flows depends on these variables alone.
LEMMA SameFlow ==
    ASSUME FlowOK, UNCHANGED <<job, held, sent, out, made, data>> PROVE FlowOK'
BY DEF FlowOK, Last, Before

\* A stage that has begun is one of the line, and its pipes are made.
LEMMA Begun ==
    ASSUME ShellInv, DataInv, Copying, MakingOK, StagesOK, pc \in Making \cup {"wait"},
           NEW s \in Stages, state[s] # "none"
    PROVE  /\ s \in 0 .. Last
           /\ s < Last => made[s] \in Pipes
           /\ s > 0 => /\ s - 1 \in Stages /\ state[s - 1] # "none" /\ made[s - 1] \in Pipes
                       /\ Before(s) = data[made[s - 1]]
<1>1. s \in 0 .. Last
  BY Row, Sizes DEF MakingOK, Stages
<1>2. ASSUME NEW t \in Stages, state[t] # "none", t < Last PROVE made[t] \in Pipes /\ made[t] # NoPipe
  BY <1>2, Sizes DEF StagesOK, StageOK, ShellInv, TypeInv
<1>3. ASSUME s > 0
      PROVE  /\ s - 1 \in Stages /\ state[s - 1] # "none" /\ made[s - 1] \in Pipes
             /\ Before(s) = data[made[s - 1]]
  <2>1. s - 1 \in Stages /\ s - 1 < Last
    BY <1>1, <1>3, Row
  <2>2. i \in Int
    BY DEF ShellInv, TypeInv
  <2>3. state[s - 1] # "none"
    BY <1>1, <1>3, <2>1, <2>2, Row DEF MakingOK
  <2>4. made[s - 1] \in Pipes /\ made[s - 1] # NoPipe
    BY <1>2, <2>1, <2>3
  <2> QED BY <1>1, <1>3, <2>1, <2>3, <2>4, Row DEF Before
<1> QED BY <1>1, <1>2, <1>3

\* A new line has made nothing yet.
LEMMA CopyBegins ==
    ASSUME ShellInv, NEW j \in Job, Len(j.stages) \in 1 .. MaxStages, Begin(j) PROVE CopyInv'
<1> SUFFICES ASSUME Copying' PROVE MakingOK' /\ StagesOK' /\ FlowOK'
  BY DEF CopyInv
<1>1. /\ job' = j /\ j.piped /\ pc' = "pipe" /\ i' = 0 /\ in' = 0 /\ fds' = fds /\ out' = <<>>
      /\ state' = [s \in Stages |-> "none"] /\ held' = [s \in Stages |-> <<>>]
      /\ sent' = [s \in Stages |-> 0] /\ made' = [s \in Stages |-> NoPipe] /\ room' = Spare
  BY DEF Begin, Copying, Spare
<1>2. Spare' = Spare /\ Spare \in Nat
  BY <1>1, InRange DEF Spare, Unused
<1>3. Last' = Len(j.stages) - 1 /\ Last' \in Nat /\ Last' < MaxStages
  BY <1>1, Sizes DEF Last
<1>4. MakingOK'
  BY <1>1, <1>2, <1>3, Sizes DEF MakingOK, Holding, Stages
<1>5. StagesOK'
  BY <1>1, Sizes DEF StagesOK, StageOK
<1>6. FlowOK'
  <2>1. \A s \in 0 .. Last' : s \in Stages
    BY <1>3, Sizes DEF Stages
  <2>2. Len(<<>>) = 0
    OBVIOUS
  <2>3. ASSUME NEW s \in 1 .. Last' PROVE s \in Stages /\ s - 1 \in Stages /\ Before(s)' = <<>>
    <3>1. s \in Stages /\ s - 1 \in Stages
      BY <1>3, <2>1
    <3> QED BY <1>1, <3>1 DEF Before
  <2> QED BY <1>1, <1>3, <2>1, <2>2, <2>3, Sizes DEF FlowOK
<1> QED BY <1>4, <1>5, <1>6

\* While a pipeline copies, a pipe is made.
LEMMA CopyMakesPipe ==
    ASSUME ShellInv, DataInv, Copying, MakingOK, StagesOK, FlowOK, MakePipe
    PROVE  MakingOK' /\ StagesOK' /\ FlowOK'
<1>1. /\ pc = "pipe" /\ pc' = "fork"
      /\ UNCHANGED <<job, i, in, state, stack, held, sent, out, room>>
  BY DEF MakePipe, stages
<1>2. PICK r \in Numbers, w \in Numbers, k \in Pipes :
         /\ fds[Shell][r] = Free /\ fds[Shell][w] = Free /\ w # r /\ ~ InUse(k)
         /\ fds' = [fds EXCEPT ![Shell] = [@ EXCEPT ![r] = R(k), ![w] = W(k)]]
         /\ fd' = <<r, w>> /\ made' = [made EXCEPT ![i] = k]
         /\ data' = [data EXCEPT ![k] = <<>>]
         /\ Cardinality(Unused(fds'[Shell])) = Spare - 2
  BY PipeMade
<1>3. /\ i \in Stages /\ i \in Int /\ i <= Last /\ state[i] = "none" /\ Spare \in Nat
      /\ k # NoPipe
  BY <1>1, InRange, Sizes DEF Making, MakingOK, ShellInv, TypeInv
<1>4. /\ made'[i] = k /\ \A s \in Stages : s # i => made'[s] = made[s]
      /\ \A s \in Stages : fds'[s] = fds[s]
      /\ fds'[Shell] = [fds[Shell] EXCEPT ![r] = R(k), ![w] = W(k)]
  BY <1>2, <1>3, Sizes DEF ShellInv, TypeInv
<1>5. /\ fds'[Shell][r] = R(k) /\ fds'[Shell][w] = W(k)
      /\ \A n \in Numbers : fds[Shell][n] # Free => fds'[Shell][n] = fds[Shell][n]
  BY <1>2, <1>4, InRange
<1>6. \A s \in Stages : made[s] # k
  <2> SUFFICES ASSUME NEW s \in Stages, made[s] = k PROVE FALSE
    OBVIOUS
  <2>1. PICK n \in Numbers : fds[Shell][n] = R(made[s])
    BY <1>1, <1>3 DEF ShellInv, PipesOK, Making
  <2> QED BY <1>2, <2>1, Sizes DEF InUse, Holders
<1>7. MakingOK'
  <2>1. Spare' >= room - i - 2
    BY <1>1, <1>2, <1>3 DEF MakingOK, Spare, DataInv
  <2>2. IF i = 0 THEN in = 0
        ELSE in \in Numbers /\ in >= 3 /\ fds'[Shell][in] = R(made'[i - 1])
    <3>1. CASE i = 0
      BY <1>1, <3>1 DEF MakingOK, Making
    <3>2. CASE i # 0
      <4>1. in \in Numbers /\ in >= 3 /\ fds[Shell][in] = R(made[i - 1])
        BY <1>1, <3>2 DEF MakingOK, Making
      <4>2. i - 1 \in Stages /\ i - 1 # i
        BY <1>3, <3>2, Sizes DEF Stages
      <4> QED BY <1>4, <1>5, <3>2, <4>1, <4>2, EndsDiffer
    <3> QED BY <3>1, <3>2
  <2>3. Last' = Last
    BY <1>1 DEF Last
  <2> QED BY <1>1, <1>2, <1>3, <1>4, <1>5, <2>1, <2>2, <2>3 DEF MakingOK, Making, Holding
<1>8. StagesOK'
  <2>1. Last' = Last
    BY <1>1 DEF Last
  <2>2. ASSUME NEW s \in Stages, state[s] # "none"
        PROVE  s # i /\ made'[s] = made[s] /\ (s > 0 => made'[s - 1] = made[s - 1])
    <3>1. s \in Nat /\ s < i
      BY <1>1, <1>3, <2>2, Sizes DEF MakingOK, Making
    <3>2. s > 0 => s - 1 \in Stages /\ s - 1 # i
      BY <1>3, <3>1, Sizes DEF Stages
    <3> QED BY <1>3, <1>4, <3>1, <3>2
  <2> SUFFICES ASSUME NEW s \in Stages PROVE StageOK(s)'
    BY DEF StagesOK
  <2>0. StageOK(s)
    BY <1>1 DEF StagesOK, Making
  <2>3. CASE state[s] = "none"
    BY <1>1, <2>0, <2>1, <2>3 DEF StageOK
  <2>4. CASE state[s] # "none"
    <3>1. made'[s] = made[s] /\ (s # 0 => made'[s - 1] = made[s - 1])
      BY <2>2, <2>4, Sizes DEF Stages
    <3>2. fds'[s] = fds[s]
      BY <1>4
    <3> QED BY <1>1, <2>0, <2>1, <2>4, <3>1, <3>2, Sizes DEF StageOK
  <2> QED BY <2>3, <2>4
<1>9. FlowOK'
  <2>1. Last' = Last /\ \A s \in 1 .. Last : s - 1 \in Stages /\ s \in Stages
    BY <1>1, Row DEF Last
  <2>2. ASSUME NEW s \in 1 .. Last PROVE Before(s)' = Before(s)
    <3>1. s - 1 \in Stages /\ s \in Stages /\ s # 0
      BY <2>1
    <3>2. CASE s - 1 = i
      <4>1. Before(s)' = <<>>
        <5>1. made'[s - 1] = k /\ s # 0
          BY <1>4, <3>1, <3>2
        <5>2. data'[k] = <<>>
          BY <1>2 DEF DataInv
        <5> QED BY <1>3, <5>1, <5>2 DEF Before
      <4>2. made[i] = NoPipe
        BY <1>1, <1>3 DEF ShellInv, PipesOK, Making
      <4> QED BY <3>1, <3>2, <4>1, <4>2 DEF Before
    <3>3. CASE s - 1 # i
      <4>1. made'[s - 1] = made[s - 1] /\ made[s - 1] # k
        BY <1>4, <1>6, <3>1, <3>3
      <4>2. made[s - 1] # NoPipe => made[s - 1] \in Pipes
        BY <3>1 DEF ShellInv, TypeInv
      <4>3. made[s - 1] # NoPipe => data'[made[s - 1]] = data[made[s - 1]]
        BY <1>2, <4>1, <4>2 DEF DataInv
      <4> QED BY <3>1, <4>1, <4>3 DEF Before
    <3> QED BY <3>2, <3>3
  <2> QED BY <1>1, <2>1, <2>2 DEF FlowOK
<1> QED BY <1>7, <1>8, <1>9

\* Only the last pipe can be missing.
LEMMA CopyWithoutPipe ==
    ASSUME ShellInv, DataInv, Copying, MakingOK, StagesOK, FlowOK, PipeFails
    PROVE  MakingOK' /\ StagesOK' /\ FlowOK'
<1>1. /\ pc = "pipe" /\ Spare < 2 /\ pc' \in {"fork", "undefined"}
      /\ UNCHANGED <<job, i, in, fd, fds, state, stack, held, sent, out, data, made, room>>
  BY DEF PipeFails, Spare, stages, world, history
<1>2. i = Last /\ i \in Int
  <2>1. Spare >= room - i /\ room >= Last + 1 /\ i <= Last /\ i \in Int /\ Last \in Int /\ room \in Int
        /\ Spare \in Nat
    BY <1>1, Row, InRange DEF MakingOK, Making, ShellInv, TypeInv
  <2> QED BY <1>1, <2>1
<1>3. Last' = Last /\ FlowOK'
  BY <1>1, SameFlow DEF Last
<1>4. MakingOK'
  BY <1>1, <1>2, <1>3 DEF MakingOK, Making, Holding
<1>5. StagesOK'
  BY <1>1, <1>3 DEF StagesOK, StageOK, Making
<1> QED BY <1>3, <1>4, <1>5

\* A stage is forked.
LEMMA CopyForks ==
    ASSUME ShellInv, DataInv, Copying, MakingOK, StagesOK, FlowOK, Fork
    PROVE  MakingOK' /\ StagesOK' /\ FlowOK'
<1>1. /\ pc = "fork" /\ pc' = (IF i = Last THEN "close" ELSE "next") /\ i \in Stages
      /\ fds' = [fds EXCEPT ![i] = fds[Shell]] /\ state' = [state EXCEPT ![i] = "forked"]
      /\ stack' = [stack EXCEPT ![i] = [in |-> in, fd |-> fd]]
      /\ UNCHANGED <<job, i, in, fd, held, sent, out, data, made, room>>
  BY InRange DEF Fork, Child, Making, world, history
<1>2. /\ fds'[Shell] = fds[Shell] /\ fds'[i] = fds[Shell]
      /\ \A t \in Stages : t # i => fds'[t] = fds[t] /\ stack'[t] = stack[t]
      /\ state'[i] = "forked" /\ \A t \in Stages : t # i => state'[t] = state[t]
      /\ stack'[i].in = in /\ stack'[i].fd = fd
  BY <1>1, Sizes DEF ShellInv, TypeInv, DataInv
<1>3. Last' = Last /\ FlowOK' /\ Spare' = Spare
  BY <1>1, <1>2, SameFlow DEF Last, Spare, Unused
<1>4. i \in Int /\ i <= Last /\ Last \in Int /\ \A s \in Stages : s \in Int
  BY <1>1, InRange, Sizes DEF ShellInv, TypeInv, Making
<1>5. MakingOK'
  <2>1. \A s \in Stages : state'[s] = "none" <=> s > Last \/ s > i
    BY <1>1, <1>2, <1>4 DEF MakingOK, Making
  <2> QED BY <1>1, <1>2, <1>3, <2>1 DEF MakingOK, Making, Holding
<1>6. StagesOK'
  <2> SUFFICES ASSUME NEW s \in Stages PROVE StageOK(s)'
    BY DEF StagesOK
  <2>0. StageOK(s)
    BY <1>1 DEF StagesOK, Making
  <2>1. CASE s # i
    <3>1. s < Last => s + 1 \in Stages
      BY Row
    <3>2. s < Last => (state'[s + 1] = state[s + 1] \/ state'[s + 1] = "forked")
      BY <1>2, <3>1
    <3> QED BY <1>1, <1>2, <1>3, <2>0, <2>1, <3>2 DEF StageOK
  <2>2. CASE s = i
    <3>1. state[i] = "none"
      BY <1>1 DEF MakingOK, Making
    <3>2. held[i] = <<>> /\ sent[i] = 0
      BY <2>0, <2>2, <3>1 DEF StageOK
    <3>3. i < Last => /\ made[i] # NoPipe /\ fds[Shell][fd[2]] = W(made[i])
                      /\ fd[2] \in Numbers /\ fd[2] >= 3 /\ state[i + 1] = "none"
      <4>1. i < Last => i + 1 \in Stages
        BY <1>1, Row
      <4> QED BY <1>1, <1>4, <4>1 DEF MakingOK, Making, Holding, ShellInv, ShellEnds
    <3>4. IF i = 0 THEN in = 0
          ELSE in \in Numbers /\ in >= 3 /\ fds[Shell][in] = R(made[i - 1])
      BY <1>1 DEF MakingOK, Making
    <3>5. i < Last => state'[i + 1] = "none"
      <4>1. i < Last => i + 1 \in Stages /\ i + 1 # i
        BY <1>1, <1>4, Row
      <4> QED BY <1>2, <3>3, <4>1
    <3> QED BY <1>1, <1>2, <1>3, <2>2, <3>2, <3>3, <3>4, <3>5, Terminal DEF StageOK
  <2> QED BY <2>1, <2>2
<1> QED BY <1>3, <1>5, <1>6

\* The shell goes on to the next stage.
LEMMA CopyGoesOn ==
    ASSUME ShellInv, DataInv, Copying, MakingOK, StagesOK, FlowOK, NextStage
    PROVE  MakingOK' /\ StagesOK' /\ FlowOK'
<1> DEFINE table == Close(fds[Shell], fd[2])
<1>1. /\ pc = "next" /\ pc' = "pipe" /\ i' = i + 1 /\ in' = fd[1]
      /\ fds' = [fds EXCEPT ![Shell] = table]
      /\ UNCHANGED <<job, fd, state, stack, held, sent, out, data, made, room>>
  BY DEF NextStage, stages, world, history
<1>2. /\ fds'[Shell] = table /\ \A t \in Stages : fds'[t] = fds[t]
      /\ \A n \in Numbers : table[n] = IF n = fd[2] THEN Free ELSE fds[Shell][n]
  <2>1. /\ table \in [Numbers -> End]
        /\ \A n \in Numbers : table[n] = IF n = fd[2] THEN Free ELSE fds[Shell][n]
    BY InRange, Closed
  <2> HIDE DEF table
  <2> QED BY <1>1, <2>1, OnlyTheShell
<1>3. i \in Int /\ 0 <= i /\ i < Last /\ Last \in Int /\ \A s \in Stages : s \in Int
  BY <1>1, InRange, Sizes DEF ShellInv, TypeInv, Making
<1>4. /\ fd[1] \in Numbers /\ fd[2] \in Numbers /\ fd[1] >= 3
      /\ Spare >= room - i - 2 /\ fds[Shell][fd[1]] = R(made[i]) /\ fds[Shell][fd[2]] = W(made[i])
  BY <1>1, <1>3 DEF MakingOK, Holding, ShellInv, ShellEnds
<1>5. Spare' >= room - i'
  <2>1. Cardinality(Unused(table)) = Spare + 1
    BY <1>4, CloseCounts, EndsDiffer DEF Spare
  <2>2. Spare' = Spare + 1 /\ Spare \in Nat /\ room \in Int
    BY <1>2, <2>1, InRange DEF Spare, Unused, DataInv
  <2> QED BY <1>1, <1>3, <1>4, <2>2
<1>6. in' \in Numbers /\ in' >= 3 /\ fds'[Shell][in'] = R(made'[i' - 1])
  <2>1. fd[1] # fd[2]
    BY <1>4, EndsDiffer
  <2>2. i' - 1 = i
    BY <1>1, <1>3
  <2> QED BY <1>1, <1>2, <1>4, <2>1, <2>2
<1>7. \A s \in Stages : state'[s] = "none" <=> s > Last \/ s > i' \/ s = i'
  BY <1>1, <1>3 DEF MakingOK, Making
<1>8. Last' = Last /\ FlowOK'
  BY <1>1, SameFlow DEF Last
<1> HIDE DEF table
<1>9. MakingOK'
  BY <1>1, <1>3, <1>5, <1>6, <1>7, <1>8 DEF MakingOK, Making, Holding
<1>10. StagesOK'
  BY <1>1, <1>2, <1>8 DEF StagesOK, StageOK, Making
<1> QED BY <1>8, <1>9, <1>10

\* The shell closes the last descriptors and waits.
LEMMA CopyWaits ==
    ASSUME ShellInv, DataInv, Copying, MakingOK, StagesOK, FlowOK,
           CloseLast \/ Waited \/ \E s \in Stages : Reap(s)
    PROVE  MakingOK' /\ StagesOK' /\ FlowOK'
<1>1. UNCHANGED <<job, stack, held, sent, out, data, made, room>>
  BY DEF CloseLast, Waited, Reap, stages, world, history
<1>2. Last' = Last /\ FlowOK'
  BY <1>1, SameFlow DEF Last
<1>3. CASE CloseLast
  <2>1. /\ pc = "close" /\ pc' = "wait" /\ state' = state
        /\ fds' = [fds EXCEPT ![Shell] = Close(Close(@, fd[1]), fd[2])]
    BY <1>3 DEF CloseLast, stages
  <2>2. \A t \in Stages : fds'[t] = fds[t]
    BY <2>1, Sizes DEF ShellInv, TypeInv
  <2>3. MakingOK'
    BY <1>2, <2>1, Sizes DEF MakingOK, Making, Holding
  <2>4. StagesOK'
    BY <1>1, <1>2, <2>1, <2>2 DEF StagesOK, StageOK, Making
  <2> QED BY <1>2, <2>3, <2>4
<1>4. CASE Waited
  BY <1>2, <1>4 DEF Waited, MakingOK, StagesOK, Making, Holding
<1>5. ASSUME NEW s \in Stages, Reap(s) PROVE MakingOK' /\ StagesOK'
  <2>1. /\ pc = "wait" /\ pc' = "wait" /\ state[s] = "zombie" /\ fds' = fds
        /\ state' = [state EXCEPT ![s] = "reaped"]
    BY <1>5 DEF Reap, Copying, DataInv
  <2>2. state'[s] = "reaped" /\ \A t \in Stages : t # s => state'[t] = state[t]
    BY <2>1 DEF ShellInv, TypeInv
  <2>3. MakingOK'
    BY <1>2, <2>1, <2>2 DEF MakingOK, Making, Holding
  <2>4. ASSUME NEW t \in Stages PROVE StageOK(t)'
    <3>1. StageOK(t) /\ (t < Last => t + 1 \in Stages)
      BY <2>1, Row DEF StagesOK
    <3>2. t # s => (t < Last => state'[t + 1] = state[t + 1] \/ t + 1 = s)
      BY <2>2, <3>1
    <3> QED BY <1>1, <1>2, <2>1, <2>2, <3>1, <3>2 DEF StageOK
  <2> QED BY <2>3, <2>4 DEF StagesOK
<1> QED BY <1>2, <1>3, <1>4, <1>5

\* What the table of a stage looks like when it runs its program.
LEMMA WiredRight ==
    ASSUME ShellInv, DataInv, NEW s \in Stages, state[s] = "forked", StageOK(s),
           s \in Int, s <= Last
    PROVE  /\ Wired(s) \in [Numbers -> End]
           /\ s > 0 => Wired(s)[0] = R(made[s - 1])
           /\ Wired(s)[1] = IF s < Last THEN W(made[s]) ELSE Tty
<1> DEFINE from == stack[s].in
           to   == stack[s].fd[2]
           read == IF from = 0 THEN fds[s] ELSE Dup2(fds[s], from, 0)
           left == IF from = 0 THEN read ELSE Close(read, from)
           both == Dup2(left, to, 1)
           last == Close(both, to)
<1>1. /\ fds[s] \in [Numbers -> End] /\ 0 \in Numbers /\ 1 \in Numbers /\ fds[s][1] = Tty
      /\ IF s = 0 THEN from = 0
         ELSE from \in Numbers /\ from >= 3 /\ fds[s][from] = R(made[s - 1])
      /\ s < Last => to \in Numbers /\ to >= 3 /\ fds[s][to] = W(made[s])
  BY Sizes DEF ShellInv, TypeInv, StageOK
<1>2. Wired(s) = IF s = Last THEN read ELSE last
  BY DEF Wired
<1> HIDE DEF from, to
<1>3. /\ read \in [Numbers -> End]
      /\ \A n \in Numbers : n # 0 => read[n] = fds[s][n]
      /\ s > 0 => read[0] = R(made[s - 1])
  <2>1. CASE s = 0
    <3>1. from = 0
      BY <1>1, <2>1
    <3> QED BY <1>1, <2>1, <3>1
  <2>2. CASE s # 0
    <3>1. from # 0 /\ from \in Numbers /\ fds[s][from] # Free
      BY <1>1, <2>2, EndsDiffer
    <3>2. read = [fds[s] EXCEPT ![0] = fds[s][from]]
      BY <3>1 DEF Dup2
    <3> HIDE DEF read
    <3> QED BY <1>1, <2>2, <3>1, <3>2
  <2> QED BY <2>1, <2>2
<1> HIDE DEF read
<1>4. /\ left \in [Numbers -> End]
      /\ \A n \in Numbers : n # from \/ from = 0 => left[n] = read[n]
  BY <1>3, Closed
<1> HIDE DEF left
<1>5. CASE s = Last
  BY <1>1, <1>2, <1>3, <1>5, InRange
<1>6. CASE s < Last
  <2>1. to # from /\ to \in Numbers /\ to # 0 /\ to # 1 /\ from # 1
    BY <1>1, <1>6, EndsDiffer
  <2>2. left[to] = W(made[s])
    BY <1>1, <1>3, <1>4, <1>6, <2>1
  <2>3. s > 0 => left[0] = R(made[s - 1])
    BY <1>1, <1>3, <1>4
  <2>4. both = [left EXCEPT ![1] = left[to]]
    BY <2>1, <2>2, EndsDiffer DEF Dup2
  <2>5. both \in [Numbers -> End] /\ both[1] = W(made[s]) /\ (s > 0 => both[0] = R(made[s - 1]))
    BY <1>1, <1>4, <2>1, <2>2, <2>3, <2>4
  <2> HIDE DEF both
  <2>6. last \in [Numbers -> End] /\ last[1] = both[1] /\ last[0] = both[0]
    BY <1>1, <2>1, <2>5, Closed
  <2> HIDE DEF last
  <2>7. s # Last /\ Last \in Int
    BY <1>6, InRange
  <2> QED BY <1>2, <1>6, <2>5, <2>6, <2>7
<1> QED BY <1>5, <1>6, InRange

\* The state of one stage has changed, from one that has begun to another.
LEMMA Making1 ==
    ASSUME ShellInv, MakingOK, NEW s \in Stages, state[s] # "none", NEW x, x # "none",
           state' = [state EXCEPT ![s] = x], fds'[Shell] = fds[Shell],
           UNCHANGED <<job, pc, i, in, fd, made, room>>
    PROVE  MakingOK' /\ Last' = Last
<1>1. \A t \in Stages : state'[t] = "none" <=> state[t] = "none"
  BY DEF ShellInv, TypeInv
<1>2. Last' = Last /\ Spare' = Spare
  BY DEF Last, Spare, Unused
<1> QED BY <1>1, <1>2 DEF MakingOK

\* A stage starts.
LEMMA CopyStarts ==
    ASSUME ShellInv, DataInv, Copying, MakingOK, StagesOK, FlowOK, pc \in Making \cup {"wait"},
           NEW s \in Stages, Start(s)
    PROVE  MakingOK' /\ StagesOK' /\ FlowOK'
<1>1. state[s] = "forked" /\ s \in 0 .. Last /\ StageOK(s)
  BY Begun DEF Start, StagesOK
<1>2. Program(s) # "missing"
  BY <1>1, Row
<1>3. /\ state' = [state EXCEPT ![s] = "running"] /\ fds' = [fds EXCEPT ![s] = Wired(s)]
      /\ UNCHANGED <<job, pc, i, in, fd, stack, held, sent, out, data, made, room>>
  BY <1>2 DEF Start, shell, world, history
<1>4. s > 0 => Wired(s)[0] = R(made[s - 1])
  BY <1>1, WiredRight
<1>5. Wired(s)[1] = IF s < Last THEN W(made[s]) ELSE Tty
  BY <1>1, WiredRight
<1>6. /\ fds'[Shell] = fds[Shell] /\ fds'[s] = Wired(s) /\ state'[s] = "running"
      /\ \A t \in Stages : t # s => fds'[t] = fds[t] /\ state'[t] = state[t]
  BY <1>3, Sizes DEF ShellInv, TypeInv
<1>7. MakingOK' /\ Last' = Last /\ FlowOK'
  BY <1>1, <1>3, <1>6, Making1, SameFlow
<1>8. ASSUME NEW t \in Stages PROVE StageOK(t)'
  <2>1. StageOK(t) /\ (t < Last => t + 1 \in Stages)
    BY Row DEF StagesOK
  <2>2. CASE t = s
    <3>1. s < Last => s + 1 \in Stages /\ s + 1 # s
      BY <1>1, Row
    <3>2. s < Last => state'[s + 1] \in {"none", "forked", "running"}
      BY <1>1, <1>6, <3>1 DEF StageOK
    <3> QED BY <1>1, <1>3, <1>4, <1>5, <1>6, <1>7, <2>2, <3>2 DEF StageOK
  <2>3. CASE t # s
    <3>1. t < Last => (state'[t + 1] = state[t + 1] \/ state'[t + 1] = "running")
      BY <1>6, <2>1
    <3> QED BY <1>3, <1>6, <1>7, <2>1, <2>3, <3>1 DEF StageOK
  <2> QED BY <2>2, <2>3
<1> QED BY <1>3, <1>7, <1>8 DEF StagesOK

\* Nothing that the shell or the wiring depends on has changed.
LEMMA SameStages ==
    ASSUME MakingOK, StagesOK, pc \in Making \cup {"wait"},
           NEW s \in Stages, state[s] = "running",
           \A t \in Stages : t # s => held'[t] = held[t] /\ sent'[t] = sent[t],
           UNCHANGED <<job, pc, i, in, fd, fds, state, stack, made, room>>
    PROVE  MakingOK' /\ StagesOK'
<1>1. Last' = Last /\ Spare' = Spare
  BY DEF Last, Spare, Unused
<1>2. MakingOK'
  BY <1>1 DEF MakingOK
<1>3. ASSUME NEW t \in Stages PROVE StageOK(t)'
  BY <1>1 DEF StagesOK, StageOK
<1> QED BY <1>2, <1>3 DEF StagesOK

\* A stage reads what the one before it has written.
LEMMA CopyReads ==
    ASSUME ShellInv, DataInv, Copying, MakingOK, StagesOK, FlowOK, pc \in Making \cup {"wait"},
           NEW s \in Stages, Read(s)
    PROVE  MakingOK' /\ StagesOK' /\ FlowOK'
<1> DEFINE b == Before(s)
           q == made[s - 1]
<1>1. /\ state[s] = "running" /\ held[s] = <<>> /\ Input(s) # <<>> /\ Take(s)
      /\ held' = [held EXCEPT ![s] = <<Head(Input(s))>>]
      /\ UNCHANGED <<job, pc, i, in, fd, fds, state, stack, sent, made, room, out>>
  BY DEF Read, shell, history
<1>2. s \in 0 .. Last /\ StageOK(s)
  BY <1>1, Begun DEF StagesOK
<1>3. s # 0 /\ s \in 1 .. Last
  BY <1>2, Row DEF Read
<1>4. fds[s][0] = R(q) /\ q \in Pipes /\ b = data[q] /\ s - 1 \in Stages /\ q # NoPipe
  BY <1>1, <1>2, <1>3, Begun, Sizes DEF StageOK
<1>5. Input(s) = b /\ data' = [data EXCEPT ![q] = Tail(@)] /\ b \in Seq(Int)
  <2>1. fds[s][0][1] = "read" /\ fds[s][0][2] = q
    BY <1>4, KindOf
  <2>2. data \in [Pipes -> Seq(Int)]
    BY DEF DataInv
  <2>3. Input(s) = data[q] /\ data' = [data EXCEPT ![q] = Tail(@)]
    BY <1>1, <2>1 DEF Input, Take
  <2>4. data[q] \in Seq(Int)
    BY <1>4, <2>2
  <2> HIDE DEF q, b
  <2> QED BY <1>4, <2>3, <2>4
<1>6. /\ held'[s] = <<Head(b)>> /\ \A t \in Stages : t # s => held'[t] = held[t]
      /\ data'[q] = Tail(b) /\ \A k \in Pipes : k # q => data'[k] = data[k]
  BY <1>1, <1>4, <1>5 DEF DataInv
<1>7. MakingOK' /\ StagesOK' /\ Last' = Last
  <2>1. Last' = Last
    BY <1>1 DEF Last
  <2> QED BY <1>1, <1>6, <2>1, SameStages
<1>8. Before(s)' = Tail(b)
  BY <1>1, <1>3, <1>4, <1>6 DEF Before
<1>9. \A t \in 1 .. Last : t # s => Before(t)' = Before(t)
  <2> SUFFICES ASSUME NEW t \in 1 .. Last, t # s PROVE Before(t)' = Before(t)
    OBVIOUS
  <2>1. t - 1 \in Stages /\ t \in Stages /\ t # 0 /\ t - 1 # s - 1
    BY <1>3, Row
  <2>2. made[t - 1] # NoPipe => made[t - 1] \in Pipes /\ made[t - 1] # q
    BY <1>4, <2>1 DEF ShellInv, TypeInv, PipesOK
  <2> QED BY <1>1, <1>6, <2>1, <2>2 DEF Before
<1>10. /\ Len(b) = sent[s - 1] - sent[s] /\ \A n \in 1 .. Len(b) : b[n] = sent[s] + n
       /\ sent[s] \in Nat /\ sent[s - 1] \in Nat
  <2>1. Len(<<>>) = 0 /\ Len(b) \in Nat
    BY <1>5
  <2>2. /\ Len(held[s]) + Len(b) = sent[s - 1] - sent[s] /\ sent[s] \in Nat /\ sent[s - 1] \in Nat
        /\ \A n \in 1 .. Len(b) : b[n] = sent[s] + Len(held[s]) + n
    BY <1>3, <1>4 DEF FlowOK, DataInv
  <2> HIDE DEF b
  <2> QED BY <1>1, <2>1, <2>2
<1>11. b # <<>> /\ Head(b) = b[1] /\ Len(b) >= 1 /\ Len(Tail(b)) = Len(b) - 1
       /\ \A n \in 1 .. Len(Tail(b)) : Tail(b)[n] = b[n + 1]
  BY <1>1, <1>5, OneLess
<1> HIDE DEF b
<1>12. Len(b) \in Nat /\ Len(<<Head(b)>>) = 1 /\ <<Head(b)>>[1] = Head(b)
  BY <1>5
<1>13. /\ Len(held'[s]) + Len(Tail(b)) = sent[s - 1] - sent[s]
       /\ held'[s][1] = sent[s] + 1
       /\ \A n \in 1 .. Len(Tail(b)) : Tail(b)[n] = sent[s] + Len(held'[s]) + n
  <2> DEFINE h == held'[s]
             t == Tail(b)
  <2>1. Len(h) = 1 /\ h[1] = Head(b)
    BY <1>6, <1>12
  <2>2. Len(t) = Len(b) - 1 /\ Len(t) \in Nat /\ \A n \in 1 .. Len(t) : t[n] = b[n + 1]
    BY <1>11, <1>12
  <2> HIDE DEF h, t
  <2>3. Len(h) + Len(t) = sent[s - 1] - sent[s]
    BY <1>10, <1>12, <2>1, <2>2
  <2>4. h[1] = sent[s] + 1
    <3>1. 1 \in 1 .. Len(b)
      BY <1>11, <1>12
    <3> QED BY <1>10, <1>11, <2>1, <3>1
  <2>5. \A n \in 1 .. Len(t) : t[n] = sent[s] + Len(h) + n
    <3> SUFFICES ASSUME NEW n \in 1 .. Len(t) PROVE t[n] = sent[s] + Len(h) + n
      OBVIOUS
    <3>1. n + 1 \in 1 .. Len(b) /\ t[n] = b[n + 1]
      BY <1>12, <2>2
    <3>2. t[n] = sent[s] + (n + 1)
      BY <1>10, <3>1
    <3>3. n \in Nat /\ Len(h) = 1 /\ sent[s] \in Nat
      BY <1>10, <2>1, <2>2
    <3> QED BY <3>2, <3>3
  <2> QED BY <2>3, <2>4, <2>5 DEF h, t
<1>14. FlowOK'
  <2>1. held'[0] = <<>> /\ Len(out') = sent'[Last'] /\ \A n \in 1 .. Len(out') : out'[n] = n
    BY <1>1, <1>3, <1>6, <1>7, Sizes DEF FlowOK
  <2>2. ASSUME NEW t \in 1 .. Last
        PROVE  /\ Len(held'[t]) + Len(Before(t)') = sent'[t - 1] - sent'[t]
               /\ held'[t] # <<>> => held'[t][1] = sent'[t] + 1
               /\ \A n \in 1 .. Len(Before(t)') : Before(t)'[n] = sent'[t] + Len(held'[t]) + n
    <3>1. CASE t = s
      BY <1>1, <1>8, <1>13, <3>1
    <3>2. CASE t # s
      <4>1. held'[t] = held[t] /\ sent' = sent /\ Before(t)' = Before(t)
        BY <1>1, <1>6, <1>9, <3>2, Row
      <4> QED BY <4>1 DEF FlowOK
    <3> QED BY <3>1, <3>2
  <2> QED BY <1>7, <2>1, <2>2 DEF FlowOK
<1> QED BY <1>7, <1>14

\* The end that a stage reads is open while the one before it can still write.
LEMMA ReaderThere ==
    ASSUME ShellInv, DataInv, Copying, MakingOK, StagesOK, pc \in Making \cup {"wait"},
           NEW s \in Stages, state[s] \in {"forked", "running"}, s < Last
    PROVE  Holders(R(made[s])) # {}
<1>1. s + 1 \in Stages /\ s + 1 > 0 /\ (s + 1) - 1 = s /\ StageOK(s) /\ StageOK(s + 1)
  BY Row, Sizes DEF StagesOK
<1>2. state[s + 1] \in {"none", "forked", "running"} /\ made[s] # NoPipe
  BY <1>1 DEF StageOK
<1>3. CASE state[s + 1] = "none"
  <2>1. ~ (s + 1 > Last) /\ i \in Int
    BY <1>1, Row, Sizes DEF ShellInv, TypeInv
  <2>2. pc \in Making
    BY <1>1, <1>3, <2>1 DEF MakingOK
  <2>3. PICK n \in Numbers : fds[Shell][n] = R(made[s])
    BY <1>2, <2>2 DEF ShellInv, PipesOK
  <2> QED BY <2>3, Sizes DEF Holders
<1>4. CASE state[s + 1] = "forked"
  <2>1. stack[s + 1].in \in Numbers /\ fds[s + 1][stack[s + 1].in] = R(made[s])
    BY <1>1, <1>4 DEF StageOK
  <2> QED BY <1>1, <2>1, Sizes DEF Holders
<1>5. CASE state[s + 1] = "running"
  <2>1. fds[s + 1][0] = R(made[s])
    BY <1>1, <1>5 DEF StageOK
  <2> QED BY <1>1, <2>1, Sizes DEF Holders
<1> QED BY <1>2, <1>3, <1>4, <1>5

\* And the end that it writes, while it can write.
LEMMA WriterThere ==
    ASSUME ShellInv, DataInv, Copying, MakingOK, StagesOK, pc \in Making \cup {"wait"},
           NEW s \in Stages, state[s] \in {"forked", "running"}, s < Last
    PROVE  Holders(W(made[s])) # {}
<1>1. StageOK(s) /\ s \in Processes
  BY Sizes DEF StagesOK
<1>2. CASE state[s] = "forked"
  <2>1. stack[s].fd[2] \in Numbers /\ fds[s][stack[s].fd[2]] = W(made[s])
    BY <1>1, <1>2 DEF StageOK
  <2> QED BY <1>1, <2>1 DEF Holders
<1>3. CASE state[s] = "running"
  <2>1. fds[s][1] = W(made[s])
    BY <1>1, <1>3 DEF StageOK
  <2> QED BY <1>1, <2>1, Sizes DEF Holders
<1> QED BY <1>2, <1>3

\* What a stage has ready is the number after the last one that it wrote.
LEMMA NextNumber ==
    ASSUME ShellInv, DataInv, Copying, FlowOK, NEW s \in 0 .. Last
    PROVE  /\ sent[s] \in Nat /\ held[s] \in Seq(Int)
           /\ Ready(s) # <<>> =>
                 Ready(s) = <<sent[s] + 1>> /\ (s > 0 => held[s] = <<sent[s] + 1>>)
           /\ Ready(s) = <<>> => held[s] = <<>>
<1>1. s \in Stages /\ sent[s] \in Nat /\ held[s] \in Seq(Int) /\ Len(held[s]) <= 1
  BY Row DEF DataInv
<1>2. CASE s = 0
  BY <1>1, <1>2 DEF FlowOK, Ready
<1>3. CASE s # 0
  <2>1. Ready(s) = held[s] /\ s \in 1 .. Last
    BY <1>3, Row DEF Ready
  <2>2. ASSUME held[s] # <<>> PROVE held[s] = <<sent[s] + 1>>
    <3> DEFINE h == held[s]
    <3>1. h[1] = sent[s] + 1 /\ Len(h) # 0 /\ Len(h) \in Nat /\ Len(h) <= 1 /\ h \in Seq(Int)
      BY <1>1, <2>1, <2>2, EmptySeq DEF FlowOK
    <3> HIDE DEF h
    <3> DEFINE l == Len(h)
    <3>2. l = 1
      <4> HIDE DEF l
      <4>1. l # 0 /\ l \in Nat /\ l <= 1
        BY <3>1 DEF l
      <4> QED BY <4>1
    <3>3. h = <<h[1]>>
      BY <3>1, <3>2
    <3> USE DEF h
    <3> QED BY <3>1, <3>3
  <2> QED BY <1>1, <2>1, <2>2
<1> QED BY <1>1, <1>2, <1>3

\* A stage that has written what it had in hand.
LEMMA GivesOne ==
    ASSUME NEW b \in Seq(Int), NEW a \in Nat, NEW c \in Nat, NEW h, Len(h) = 1,
           Len(h) + Len(b) = a - c, \A n \in 1 .. Len(b) : b[n] = c + Len(h) + n
    PROVE  /\ Len(<<>>) + Len(b) = a - (c + 1)
           /\ \A n \in 1 .. Len(b) : b[n] = (c + 1) + Len(<<>>) + n
<1>1. Len(<<>>) = 0 /\ Len(b) \in Nat
  OBVIOUS
<1> DEFINE l == Len(h)
           z == Len(<<>>)
<1>2. l = 1 /\ z = 0 /\ l + Len(b) = a - c /\ \A n \in 1 .. Len(b) : b[n] = c + l + n
  BY <1>1
<1> HIDE DEF l, z
<1>3. z + Len(b) = a - (c + 1) /\ \A n \in 1 .. Len(b) : b[n] = (c + 1) + z + n
  BY <1>1, <1>2
<1> QED BY <1>3 DEF z

\* The stage after it.
LEMMA GetsOne ==
    ASSUME NEW b \in Seq(Int), NEW a \in Nat, NEW c \in Nat, NEW h, Len(h) \in Nat,
           Len(h) + Len(b) = a - c, \A n \in 1 .. Len(b) : b[n] = c + Len(h) + n
    PROVE  /\ Len(h) + Len(b \o <<a + 1>>) = (a + 1) - c
           /\ \A n \in 1 .. Len(b \o <<a + 1>>) : (b \o <<a + 1>>)[n] = c + Len(h) + n
<1> DEFINE u == b \o <<a + 1>>
           l == Len(h)
           m == Len(b)
<1>1. Len(u) = m + 1 /\ m \in Nat /\ u[m + 1] = a + 1 /\ \A n \in 1 .. m : u[n] = b[n]
  BY OneMore
<1>2. l \in Nat /\ l + m = a - c /\ \A n \in 1 .. m : b[n] = c + l + n
  OBVIOUS
<1> HIDE DEF u, l, m
<1>3. l + (m + 1) = (a + 1) - c /\ c + l + (m + 1) = a + 1
  BY <1>1, <1>2
<1>4. ASSUME NEW n \in 1 .. m + 1 PROVE u[n] = c + l + n
  <2>1. n \in 1 .. m \/ n = m + 1
    BY <1>1
  <2> QED BY <1>1, <1>2, <1>3, <2>1
<1> QED BY <1>1, <1>3, <1>4 DEF u, l

\* A stage writes what it has read.
LEMMA CopyWrites ==
    ASSUME ShellInv, DataInv, Copying, MakingOK, StagesOK, FlowOK, pc \in Making \cup {"wait"},
           NEW s \in Stages, Write(s)
    PROVE  MakingOK' /\ StagesOK' /\ FlowOK'
<1> DEFINE x == sent[s] + 1
           e == fds[s][1]
<1>1. /\ s \in 0 .. Last /\ StageOK(s) /\ state[s] = "running" /\ Ready(s) # <<>>
      /\ s \in Nat /\ Last \in Nat
  BY Begun, Row, Sizes DEF Write, StagesOK, StageOK
<1>2. /\ Ready(s) = <<x>> /\ sent[s] \in Nat /\ held[s] \in Seq(Int) /\ x \in Int
      /\ s > 0 => held[s] = <<x>>
  BY <1>1, NextNumber
<1>3. e = IF s < Last THEN W(made[s]) ELSE Tty
  BY <1>1 DEF StageOK
<1>4. ~ Broken(e)
  <2>1. CASE s < Last
    <3>1. e = W(made[s]) /\ e[2] = made[s]
      BY <1>3, <2>1, KindOf
    <3> QED BY <1>1, <2>1, <3>1, ReaderThere DEF Broken
  <2>2. CASE ~ (s < Last)
    <3>1. e[1] = "tty"
      BY <1>3, <2>2, KindOf
    <3> QED BY <3>1 DEF Broken
  <2> QED BY <2>1, <2>2
<1>5. /\ Puts(<<x>>, e) /\ held' = [held EXCEPT ![s] = <<>>]
      /\ sent' = [sent EXCEPT ![s] = @ + 1]
      /\ UNCHANGED <<job, pc, i, in, fd, fds, state, stack, made, room>>
  BY <1>2, <1>4 DEF Write, shell, history
<1>6. /\ held'[s] = <<>> /\ sent'[s] = x
      /\ \A t \in Stages : t # s => held'[t] = held[t] /\ sent'[t] = sent[t]
  BY <1>5 DEF DataInv
<1>7. MakingOK' /\ StagesOK' /\ Last' = Last
  <2>1. Last' = Last
    BY <1>5 DEF Last
  <2> QED BY <1>1, <1>5, <1>6, <2>1, SameStages
<1>8. IF s < Last
      THEN made[s] \in Pipes /\ data' = [data EXCEPT ![made[s]] = @ \o <<x>>] /\ out' = out
      ELSE data' = data /\ out' = out \o <<x>>
  <2>1. CASE s < Last
    <3>1. e[1] = "write" /\ e[2] = made[s] /\ made[s] \in Pipes
      BY <1>1, <1>3, <2>1, KindOf, Begun
    <3> HIDE DEF e
    <3> QED BY <1>5, <2>1, <3>1 DEF Puts
  <2>2. CASE ~ (s < Last)
    <3>1. e[1] = "tty"
      BY <1>3, <2>2, KindOf
    <3> HIDE DEF e
    <3> QED BY <1>5, <2>2, <3>1 DEF Puts
  <2> QED BY <2>1, <2>2
<1>9. held'[0] = <<>>
  BY <1>6, Sizes DEF FlowOK
<1>10. Len(out') = sent'[Last] /\ \A n \in 1 .. Len(out') : out'[n] = n
  <2>1. CASE s < Last
    BY <1>6, <1>8, <2>1, Row DEF FlowOK
  <2>2. CASE ~ (s < Last)
    <3>1. s = Last /\ out' = out \o <<x>> /\ out \in Seq(Int) /\ Len(out) \in Nat
      BY <1>1, <1>8, <2>2 DEF DataInv
    <3>2. /\ Len(out') = Len(out) + 1 /\ out'[Len(out) + 1] = x
          /\ \A n \in 1 .. Len(out) : out'[n] = out[n]
      BY <1>2, <3>1, OneMore
    <3>3. Len(out) = sent[s] /\ \A n \in 1 .. Len(out) : out[n] = n
      BY <3>1 DEF FlowOK
    <3>4. Len(out') = sent'[Last] /\ \A n \in 1 .. Len(out) + 1 : out'[n] = n
      BY <1>6, <3>1, <3>2, <3>3
    <3> QED BY <3>2, <3>4
  <2> QED BY <2>1, <2>2
<1>11. ASSUME NEW t \in 1 .. Last
       PROVE  /\ t \in Stages /\ t - 1 \in Stages /\ sent[t] \in Nat /\ sent[t - 1] \in Nat
              /\ Len(held[t]) \in Nat /\ Before(t) \in Seq(Int)
              /\ t - 1 # s => Before(t)' = Before(t)
              /\ t - 1 = s => Before(t)' = Before(t) \o <<x>>
  <2>1. /\ t \in Stages /\ t - 1 \in Stages /\ t \in Int
        /\ sent[t] \in Nat /\ sent[t - 1] \in Nat /\ Len(held[t]) \in Nat
        /\ data \in [Pipes -> Seq(Int)]
    <3>1. t \in Stages /\ t - 1 \in Stages /\ t \in Int
      BY Row
    <3>2. held[t] \in Seq(Int)
      BY <3>1 DEF DataInv
    <3>3. sent \in [Stages -> Nat] /\ data \in [Pipes -> Seq(Int)]
      BY DEF DataInv
    <3>4. Len(held[t]) \in Nat
      BY <3>2, LenProperties
    <3> QED BY <3>1, <3>3, <3>4
  <2>2. made[t - 1] # NoPipe => made[t - 1] \in Pipes
    BY <2>1 DEF ShellInv, TypeInv
  <2>3. Before(t) \in Seq(Int)
    BY <2>1, <2>2 DEF Before
  <2>4. ASSUME t - 1 # s PROVE Before(t)' = Before(t)
    <3>1. made[t - 1] # NoPipe => made[t - 1] # made[s]
      BY <2>1, <2>4 DEF ShellInv, PipesOK
    <3>2. made[t - 1] # NoPipe => data'[made[t - 1]] = data[made[t - 1]]
      BY <1>8, <2>1, <2>2, <3>1
    <3> QED BY <1>5, <3>2 DEF Before
  <2>5. ASSUME t - 1 = s PROVE Before(t)' = Before(t) \o <<x>>
    <3>1. s < Last /\ t # 0
      BY <1>1, <2>1, <2>5
    <3>2. made[s] \in Pipes /\ data' = [data EXCEPT ![made[s]] = @ \o <<x>>] /\ made[s] # NoPipe
      BY <1>8, <3>1, Sizes
    <3>3. data'[made[s]] = data[made[s]] \o <<x>>
      BY <2>1, <3>2
    <3> QED BY <1>5, <2>5, <3>1, <3>2, <3>3 DEF Before
  <2> QED BY <2>1, <2>3, <2>4, <2>5
<1>12. ASSUME NEW t \in 1 .. Last
       PROVE  /\ Len(held'[t]) + Len(Before(t)') = sent'[t - 1] - sent'[t]
              /\ held'[t] # <<>> => held'[t][1] = sent'[t] + 1
              /\ \A n \in 1 .. Len(Before(t)') : Before(t)'[n] = sent'[t] + Len(held'[t]) + n
  <2> DEFINE b == Before(t)
             a == sent[t - 1]
             c == sent[t]
             h == held[t]
  <2>1. /\ Len(h) + Len(b) = a - c /\ (h # <<>> => h[1] = c + 1)
        /\ \A n \in 1 .. Len(b) : b[n] = c + Len(h) + n
    BY DEF FlowOK
  <2>2. CASE t = s
    <3>1. t \in Int /\ t - 1 # s /\ Len(h) = 1
      BY <1>1, <1>2, <2>2
    <3>2. b \in Seq(Int) /\ a \in Nat /\ c \in Nat /\ Before(t)' = b
      BY <1>11, <3>1
    <3>3. held'[t] = <<>> /\ sent'[t] = c + 1 /\ sent'[t - 1] = a
      BY <1>6, <1>11, <2>2, <3>1
    <3> HIDE DEF b, a, c, h
    <3>4. /\ Len(<<>>) + Len(b) = a - (c + 1)
          /\ \A n \in 1 .. Len(b) : b[n] = (c + 1) + Len(<<>>) + n
      BY <2>1, <3>1, <3>2, GivesOne
    <3> QED BY <3>2, <3>3, <3>4
  <2>3. CASE t - 1 = s
    <3>1. t \in Int /\ t # s
      BY <1>1, <2>3
    <3>2. b \in Seq(Int) /\ a \in Nat /\ c \in Nat /\ Len(h) \in Nat /\ Before(t)' = b \o <<a + 1>>
      BY <1>11, <2>3
    <3>3. held'[t] = h /\ sent'[t] = c /\ sent'[t - 1] = a + 1
      BY <1>6, <1>11, <2>3, <3>1
    <3> HIDE DEF b, a, c, h
    <3>4. /\ Len(h) + Len(b \o <<a + 1>>) = (a + 1) - c
          /\ \A n \in 1 .. Len(b \o <<a + 1>>) : (b \o <<a + 1>>)[n] = c + Len(h) + n
      BY <2>1, <3>2, GetsOne
    <3> QED BY <2>1, <3>2, <3>3, <3>4
  <2>4. CASE t # s /\ t - 1 # s
    <3>1. Before(t)' = b /\ held'[t] = h /\ sent'[t] = c /\ sent'[t - 1] = a
      BY <1>6, <1>11, <2>4
    <3> HIDE DEF b, a, c, h
    <3> QED BY <2>1, <3>1
  <2> QED BY <2>2, <2>3, <2>4
<1>13. FlowOK'
  BY <1>7, <1>9, <1>10, <1>12 DEF FlowOK
<1> QED BY <1>7, <1>13

\* A stage ends at the end of its input.
LEMMA CopyFinishes ==
    ASSUME ShellInv, DataInv, Copying, MakingOK, StagesOK, FlowOK, pc \in Making \cup {"wait"},
           NEW s \in Stages, Finish(s)
    PROVE  MakingOK' /\ StagesOK' /\ FlowOK'
<1>1. /\ s \in 0 .. Last /\ StageOK(s) /\ state[s] = "running" /\ Ready(s) = <<>> /\ Exit(s)
      /\ s \in Nat /\ Last \in Nat
  BY Begun, Row, Sizes DEF Finish, StagesOK
<1>2. /\ state' = [state EXCEPT ![s] = "zombie"]
      /\ fds' = [fds EXCEPT ![s] = [n \in Numbers |-> Free]]
      /\ held' = [held EXCEPT ![s] = <<>>]
      /\ UNCHANGED <<job, pc, i, in, fd, stack, sent, out, data, made, room>>
  BY <1>1 DEF Exit, shell, world, history
<1>3. held[s] = <<>> /\ held' = held
  BY <1>1, <1>2, NextNumber DEF DataInv
<1>4. /\ state'[s] = "zombie" /\ fds'[Shell] = fds[Shell]
      /\ \A t \in Stages : t # s => state'[t] = state[t] /\ fds'[t] = fds[t]
  BY <1>2, Sizes DEF ShellInv, TypeInv
<1>5. MakingOK' /\ Last' = Last /\ FlowOK'
  BY <1>1, <1>2, <1>3, <1>4, Making1, SameFlow
<1>6. s > 0 => s - 1 \in Stages /\ state[s - 1] \notin {"forked", "running"}
  <2> SUFFICES ASSUME s > 0, state[s - 1] \in {"forked", "running"} PROVE FALSE
    BY <1>1, Row
  <2>1. s \in 1 .. Last /\ s - 1 \in Stages /\ s - 1 < Last
    BY <1>1, Row
  <2>2. Program(s) = "filter"
    BY <2>1, Row
  <2>3. AtEnd(s)
    BY <2>2 DEF Finish
  <2>4. fds[s][0] = R(made[s - 1])
    BY <1>1 DEF StageOK
  <2>5. Holders(W(made[s - 1])) = {}
    BY <2>3, <2>4, KindOf DEF AtEnd
  <2> QED BY <2>1, <2>5, WriterThere
<1>7. ASSUME NEW t \in Stages PROVE StageOK(t)'
  <2>1. StageOK(t) /\ (t < Last => t + 1 \in Stages) /\ t \in Nat
    BY Row, Sizes DEF StagesOK
  <2>2. CASE t = s
    BY <1>1, <1>2, <1>4, <1>5, <2>1, <2>2 DEF StageOK
  <2>3. CASE t # s
    <3>1. t + 1 = s => state[t] \notin {"forked", "running"}
      BY <1>6, <2>1
    <3>2. t + 1 # s /\ t < Last => state'[t + 1] = state[t + 1]
      BY <1>4, <2>1
    <3> QED BY <1>2, <1>3, <1>4, <1>5, <2>1, <2>3, <3>1, <3>2 DEF StageOK
  <2> QED BY <2>2, <2>3
<1> QED BY <1>2, <1>5, <1>7 DEF StagesOK

\* Any step of a stage.
LEMMA CopyStage ==
    ASSUME ShellInv, DataInv, Copying, CopyInv, NEW s \in Stages, StageStep(s)
    PROVE  MakingOK' /\ StagesOK' /\ FlowOK'
<1>1. MakingOK /\ StagesOK /\ FlowOK
  BY DEF CopyInv
<1>2. state[s] \in {"forked", "running", "shell"}
  BY DEF StageStep, Start, Read, Write, Finish, SecondShell
<1>3. pc \in Making \cup {"wait"}
  BY <1>2 DEF ShellInv, QuietOK, TypeInv, DataInv, Copying
<1>4. state[s] # "shell"
  BY <1>1, <1>3 DEF StagesOK, StageOK
<1>5. Start(s) \/ Read(s) \/ Write(s) \/ Finish(s)
  BY <1>4 DEF StageStep, SecondShell
<1> QED BY <1>1, <1>3, <1>5, CopyStarts, CopyReads, CopyWrites, CopyFinishes

\* Every step of a job keeps what a pipeline that copies is about.
LEMMA CopyJob ==
    ASSUME ShellInv, DataInv, CopyInv, JobStep PROVE CopyInv'
<1> SUFFICES ASSUME Copying' PROVE MakingOK' /\ StagesOK' /\ FlowOK'
  BY DEF CopyInv
<1>1. ~ ForkFails /\ ~ CommandFails
  BY DEF Copying, ForkFails, CommandFails
<1>2. job' = job /\ room' = room /\ failed' = failed
  <2>1. ASSUME ShellStep PROVE job' = job /\ room' = room /\ failed' = failed
    BY <2>1 DEF ShellStep, MakePipe, PipeFails, Fork, NextStage, CloseLast, Command, Reap, Waited,
                Child, history
  <2>2. ASSUME NEW s \in Stages, StageStep(s) PROVE job' = job /\ room' = room /\ failed' = failed
    BY <2>2 DEF StageStep, Start, Read, Write, Finish, SecondShell, Exit, history
  <2>3. ASSUME StartCommand PROVE job' = job /\ room' = room /\ failed' = failed
    BY <2>3 DEF StartCommand, history
  <2> QED BY <1>1, <2>1, <2>2, <2>3 DEF JobStep
<1>3. Copying
  BY <1>2 DEF Copying, Last, Program
<1>4. MakingOK /\ StagesOK /\ FlowOK
  BY <1>3 DEF CopyInv
<1>5. ~ Command /\ ~ StartCommand
  BY <1>3 DEF Copying, Command, StartCommand, DataInv
<1>6. ASSUME ShellStep PROVE MakingOK' /\ StagesOK' /\ FlowOK'
  BY <1>3, <1>4, <1>5, <1>6, CopyMakesPipe, CopyWithoutPipe, CopyForks, CopyGoesOn, CopyWaits
     DEF ShellStep
<1>7. ASSUME NEW s \in Stages, StageStep(s) PROVE MakingOK' /\ StagesOK' /\ FlowOK'
  BY <1>3, <1>7, CopyStage
<1> QED BY <1>1, <1>5, <1>6, <1>7 DEF JobStep

\* Nothing that the invariants of the data speak of has changed.
LEMMA SameData ==
    ASSUME DataInv, RedirectInv, CopyInv, UNCHANGED vars
    PROVE  DataInv' /\ RedirectInv' /\ CopyInv'
<1> USE DEF vars, shell, stages, world, history
<1>1. DataInv'
  BY DEF DataInv
<1>2. RedirectInv'
  BY SameRedirect
<1>3. Last' = Last /\ Spare' = Spare /\ (Copying' <=> Copying)
  BY DEF Last, Spare, Unused, Copying, Program
<1>4. MakingOK => MakingOK'
  BY <1>3 DEF MakingOK
<1>5. StagesOK => StagesOK'
  BY <1>3 DEF StagesOK, StageOK
<1>6. FlowOK => FlowOK'
  BY SameFlow
<1>7. CopyInv'
  BY <1>3, <1>4, <1>5, <1>6 DEF CopyInv
<1> QED BY <1>1, <1>2, <1>7

\* exit leaves all as it is.
LEMMA LeaveKeepsData ==
    ASSUME ShellInv, DataInv, RedirectInv, CopyInv, Leave PROVE DataInv' /\ RedirectInv' /\ CopyInv'
<1>1. DataInv' /\ RedirectInv'
  BY DataShell, RedirectShell
<1>2. pc' = "exited" /\ UNCHANGED <<job, held, sent, out, data, made, room, failed>>
  BY DEF Leave, stages, world, history
<1>3. Copying' <=> Copying
  BY <1>2 DEF Copying, Last, Program
<1>4. FlowOK => FlowOK'
  BY <1>2, SameFlow
<1>5. MakingOK' /\ StagesOK'
  BY <1>2 DEF MakingOK, StagesOK, Making, Holding
<1> QED BY <1>1, <1>3, <1>4, <1>5 DEF CopyInv

\* The invariants of the data hold at the beginning.
LEMMA DataEstablished == ShellInit => DataInv /\ RedirectInv /\ CopyInv
<1> SUFFICES ASSUME ShellInit PROVE DataInv /\ RedirectInv /\ CopyInv
  OBVIOUS
<1>1. job.stages = <<>> /\ job.piped = FALSE
  BY DEF ShellInit, Init
<1>2. ~ Redirected
  <2>1. Len(<<>>) # Len(<<"filter">>)
    OBVIOUS
  <2> QED BY <1>1, <2>1 DEF Redirected
<1> QED BY <1>1, <1>2, DataInit DEF RedirectInv, CopyInv, Copying

\* A line that starts a job keeps them.
LEMMA ExternalKeepsData ==
    ASSUME ShellInv, DataInv, NEW line \in Typed, NEW j, External(line, j)
    PROVE  DataInv' /\ RedirectInv' /\ CopyInv'
<1>1. /\ CL!parsing_arg(line) \in Job /\ Len(CL!parsing_arg(line).stages) \in 1 .. MaxStages
      /\ Begin(CL!parsing_arg(line))
  BY TypedIsRead DEF External
<1> QED BY <1>1, DataBegins, RedirectBegins, CopyBegins

\* Every step keeps them.
LEMMA StepKeepsData ==
    ASSUME ShellInv, DataInv, RedirectInv, CopyInv, [ShellNext]_shellvars
    PROVE  DataInv' /\ RedirectInv' /\ CopyInv'
<1>1. ASSUME NEW j \in Meanings, NEW line \in Lines(j), External(line, j)
      PROVE  DataInv' /\ RedirectInv' /\ CopyInv'
  <2>1. line \in Typed
    BY DEF Typed
  <2> QED BY <1>1, <2>1, ExternalKeepsData
<1>2. ASSUME NEW line \in OtherLines, External(line, CL!parsing_arg(line))
      PROVE  DataInv' /\ RedirectInv' /\ CopyInv'
  <2>1. line \in Typed
    BY DEF Typed
  <2> QED BY <1>2, <2>1, ExternalKeepsData
<1>3. ASSUME NEW line \in OtherLines, Cd(line) \/ Prints(line)
      PROVE  DataInv' /\ RedirectInv' /\ CopyInv'
  BY <1>3, SameData DEF Cd, Prints
<1>4. ASSUME NEW line \in OtherLines, com_exit(line)
      PROVE  DataInv' /\ RedirectInv' /\ CopyInv'
  BY <1>4, LeaveKeepsData DEF com_exit
<1>5. ASSUME JobStep PROVE DataInv' /\ RedirectInv' /\ CopyInv'
  <2>1. DataInv'
    BY <1>5, DataShell, DataStage, DataCommand DEF JobStep
  <2>2. RedirectInv' /\ CopyInv'
    BY <1>5, RedirectJob, CopyJob
  <2> QED BY <2>1, <2>2
<1>6. ASSUME UNCHANGED shellvars PROVE DataInv' /\ RedirectInv' /\ CopyInv'
  BY <1>6, SameData DEF shellvars
<1> QED BY <1>1, <1>2, <1>3, <1>4, <1>5, <1>6 DEF ShellNext

\* The invariants of the shell's descriptors and data.
LEMMA DataHolds == ShellSpec => [](ShellInv /\ DataInv /\ RedirectInv /\ CopyInv)
BY InitEstablishes, StepKeeps, DataEstablished, StepKeepsData, PTL DEF ShellSpec

\* Of every single command that copies, with its files in any state: what the source has
\* written of the terminal and of the files when the shell asks for the next command.
THEOREM RedirectionsCorrect == ShellSpec => []RedirectionsObeyed
<1>1. ASSUME DataInv, RedirectInv PROVE RedirectionsObeyed
  BY <1>1 DEF RedirectInv, Redirected, RedirectionsObeyed, Obeyed
<1> QED BY <1>1, DataHolds, PTL

\* The numbers of a pipe make the sequence.
LEMMA NumbersInOrder ==
    ASSUME NEW s \in Seq(Int), NEW m \in Int, NEW c \in Int, Len(s) = m,
           \A n \in 1 .. Len(s) : s[n] = c + n
    PROVE  s = [n \in 1 .. m |-> c + n]
<1>1. s = [n \in 1 .. Len(s) |-> s[n]]
  OBVIOUS
<1> QED BY <1>1

\* Of every pipeline that copies, of any length, through pipes of any size, whatever
\* descriptors the lines before it have left open.
THEOREM CopiesCorrect == ShellSpec => []NothingLost
<1>1. ASSUME ShellInv, DataInv, CopyInv PROVE NothingLost
  <2> SUFFICES ASSUME Copying
               PROVE  /\ out = [n \in 1 .. sent[Last] |-> n]
                      /\ \A s \in 1 .. Last :
                            held[s] \o Before(s) = [n \in 1 .. sent[s - 1] - sent[s] |-> sent[s] + n]
    BY DEF NothingLost
  <2>1. FlowOK
    BY <1>1 DEF CopyInv
  <2>2. out = [n \in 1 .. sent[Last] |-> n]
    <3>1. out \in Seq(Int) /\ Len(out) = sent[Last] /\ \A n \in 1 .. Len(out) : out[n] = n
      BY <1>1, <2>1 DEF FlowOK, DataInv
    <3>2. out = [n \in 1 .. Len(out) |-> out[n]]
      BY <3>1
    <3> QED BY <3>1, <3>2
  <2>3. ASSUME NEW s \in 1 .. Last
        PROVE  held[s] \o Before(s) = [n \in 1 .. sent[s - 1] - sent[s] |-> sent[s] + n]
    <3> DEFINE h == held[s]
               b == Before(s)
               u == h \o b
    <3>1. /\ s \in Stages /\ s - 1 \in Stages /\ h \in Seq(Int) /\ Len(h) <= 1
          /\ sent[s] \in Nat /\ sent[s - 1] \in Nat
      BY <1>1, Row DEF DataInv
    <3>2. b \in Seq(Int)
      BY <1>1, <3>1 DEF Before, ShellInv, TypeInv, DataInv
    <3>3. /\ Len(h) + Len(b) = sent[s - 1] - sent[s]
          /\ h # <<>> => h[1] = sent[s] + 1
          /\ \A n \in 1 .. Len(b) : b[n] = sent[s] + Len(h) + n
      BY <2>1 DEF FlowOK
    <3>4. h # <<>> <=> Len(h) # 0
      BY <3>1, EmptySeq
    <3> HIDE DEF h, b
    <3>5. /\ u \in Seq(Int) /\ Len(u) = Len(h) + Len(b)
          /\ \A n \in 1 .. Len(h) + Len(b) : u[n] = IF n <= Len(h) THEN h[n] ELSE b[n - Len(h)]
      BY <3>1, <3>2, ConcatProperties
    <3> HIDE DEF u
    <3>6. Len(u) = sent[s - 1] - sent[s]
      BY <3>3, <3>5
    <3>7. ASSUME NEW n \in 1 .. Len(u) PROVE u[n] = sent[s] + n
      <4>0. Len(h) \in Nat /\ Len(b) \in Nat /\ n \in Nat /\ n >= 1 /\ n <= Len(h) + Len(b)
        BY <3>1, <3>2, <3>5
      <4>1. CASE n <= Len(h)
        <5>1. n = 1 /\ Len(h) # 0
          BY <3>1, <4>0, <4>1
        <5> QED BY <3>3, <3>4, <3>5, <4>0, <4>1, <5>1
      <4>2. CASE ~ (n <= Len(h))
        <5>1. n - Len(h) \in 1 .. Len(b) /\ u[n] = b[n - Len(h)]
          BY <3>5, <4>0, <4>2
        <5>2. u[n] = sent[s] + Len(h) + (n - Len(h))
          BY <3>3, <5>1
        <5> QED BY <3>1, <4>0, <5>2
      <4> QED BY <4>1, <4>2
    <3>8. u = [n \in 1 .. sent[s - 1] - sent[s] |-> sent[s] + n]
      BY <3>1, <3>5, <3>6, <3>7, NumbersInOrder
    <3> QED BY <3>8 DEF u, h, b
  <2> QED BY <2>2, <2>3
<1> QED BY <1>1, DataHolds, PTL

\* The job does not change while it runs.
LEMMA JobStays == ASSUME JobStep PROVE job' = job
<1>1. ASSUME ShellStep \/ ForkFails \/ CommandFails PROVE job' = job
  BY <1>1 DEF ShellStep, MakePipe, PipeFails, Fork, Child, NextStage, CloseLast, Command,
              Reap, Waited, ForkFails, CommandFails
<1>2. ASSUME StartCommand PROVE job' = job BY <1>2 DEF StartCommand
<1>3. ASSUME NEW s \in Stages, StageStep(s) PROVE job' = job
  BY <1>3 DEF StageStep, Start, Read, Write, Exit, Finish, SecondShell
<1> QED BY <1>1, <1>2, <1>3 DEF JobStep

\* The shell runs what was meant, whatever is typed and in whatever way, for every number
\* of stages and any files.
THEOREM MeaningCorrect == ShellSpec => []RunsWhatIsMeant
<1>1. ShellInit => RunsWhatIsMeant BY DEF ShellInit, RunsWhatIsMeant
<1>2. RunsWhatIsMeant /\ [ShellNext]_shellvars => RunsWhatIsMeant'
  <2> SUFFICES ASSUME job = meant, [ShellNext]_shellvars PROVE job' = meant'
    BY DEF RunsWhatIsMeant
  <2>1. ASSUME NEW j \in Meanings, NEW line \in Lines(j), External(line, j)
        PROVE  job' = meant'
    BY <2>1, LinesAreRead DEF External, Begin
  <2>2. ASSUME NEW line \in OtherLines, External(line, CL!parsing_arg(line))
        PROVE  job' = meant'
    BY <2>2 DEF External, Begin
  <2>3. ASSUME NEW line \in OtherLines, Cd(line) \/ Prints(line) PROVE job' = meant'
    BY <2>3 DEF Cd, Prints, vars
  <2>4. ASSUME NEW line \in OtherLines, com_exit(line) PROVE job' = meant'
    BY <2>4 DEF com_exit, Leave
  <2>5. CASE JobStep /\ UNCHANGED <<cwd, pwd, typed, meant>>
    BY <2>5, JobStays
  <2>6. CASE UNCHANGED shellvars BY <2>6 DEF shellvars, vars
  <2> QED BY <2>1, <2>2, <2>3, <2>4, <2>5, <2>6 DEF ShellNext
<1> QED BY <1>1, <1>2, PTL DEF ShellSpec
=============================================================================
