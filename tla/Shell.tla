------------------------------- MODULE Shell --------------------------------
(***************************************************************************)
(* simple_shell: main.c, builtin_utils.c and cd.c.  A shell reads a line,  *)
(* runs it if it is cd, and otherwise forks a child that becomes the       *)
(* command while the shell waits.  When execvp fails the child returns     *)
(* into main's loop and is a shell of its own.                             *)
(*                                                                         *)
(* stdin is a terminal or a pipe, which all these shells share.  A getline *)
(* with nothing left in the buffer of stdin makes one read, which brings a *)
(* line or several, as they have been typed or written by then; fork       *)
(* copies what is left of them, and each shell goes on in its own copy.    *)
(* A read ends with a whole line, the commands leave stdin alone, and      *)
(* lines have at most 39 words.                                            *)
(***************************************************************************)
EXTENDS Naturals, SequencesExt

CONSTANT MaxLines  \* bound on the length of the input

VARIABLES
  script,  \* the lines of the input
  ends,    \* those that are the last of the read that brings them
  taken,   \* how many lines have been read from the terminal or the pipe
  hand,    \* the line each process has read last
  cwd,     \* its directory: the number of the cd that led there, 0 at first
  does,    \* what each process does next
  parent,  \* who forked it
  runs,    \* how often each line was given to execvp (history)
  broken   \* a fork has failed (history)

vars == <<script, ends, taken, hand, cwd, does, parent, runs, broken>>

\* A cd, a cd that fails, a command, a name that cannot be executed, a line
\* without words, and the end of the input typed at a terminal.
Kinds == {"cd", "bad cd", "command", "typo", "blank", "eof"}

\* Processes have waiting ancestors with a line in hand each: one more than
\* there are lines is enough.
Procs == 1 .. MaxLines + 1
First == 1
Unused(p) == does[p] = "unused"

Line(p)   == script[hand[p]]

\* A read of the input that comes to line n ends with this line.
ReadTo(n) == Min({e \in ends : n <= e})

\* The line that getline returns: the next in the buffer, or of the input.
InBuffer(p) == hand[p] # 0 /\ hand[p] \notin ends
NextLine(p) == IF InBuffer(p) THEN hand[p] + 1 ELSE taken + 1

Init ==
  /\ \E n \in 0 .. MaxLines : script \in [1 .. n -> Kinds]
  /\ ends \in SUBSET DOMAIN script
  /\ script # <<>> => Len(script) \in ends
  /\ (\E i \in DOMAIN script : script[i] = "eof") => ends = DOMAIN script
  /\ taken = 0
  /\ hand = [p \in Procs |-> 0]
  /\ cwd = [p \in Procs |-> 0]
  /\ does = [p \in Procs |-> IF p = First THEN "read" ELSE "unused"]
  /\ parent = [p \in Procs |-> First]
  /\ runs = [i \in DOMAIN script |-> 0]
  /\ broken = FALSE

Input == <<script, ends>>

Goto(p, from, to) ==
  /\ does[p] = from
  /\ does' = [does EXCEPT ![p] = to]

\* The process is over; its parent has still to wait for it.
Exit(p, from) == Goto(p, from, "zombie")

-----------------------------------------------------------------------------
\* show_prompt and read_command: a line of words.
ReadLine(p) ==
  LET n == NextLine(p) IN
    /\ n <= Len(script) /\ script[n] # "eof"
    /\ Goto(p, "read", "run")
    /\ hand' = [hand EXCEPT ![p] = n]
    /\ taken' = IF InBuffer(p) THEN taken ELSE ReadTo(n)
    /\ UNCHANGED <<Input, cwd, parent, runs, broken>>

\* getline returns -1: this shell exits.
ReadEnd(p) ==
  LET n == NextLine(p) IN
    /\ n <= Len(script) => script[n] = "eof"
    /\ Exit(p, "read")
    /\ taken' = IF n <= Len(script) THEN n ELSE taken
    /\ UNCHANGED <<Input, hand, cwd, parent, runs, broken>>

\* run_builtin_command in the shell itself, and cleanup.
BuiltIn(p) ==
  /\ Goto(p, "run", "read") /\ Line(p) \in {"cd", "bad cd"}
  /\ cwd' = [cwd EXCEPT ![p] = IF Line(p) = "cd" THEN hand[p] ELSE @]
  /\ UNCHANGED <<Input, taken, hand, parent, runs, broken>>

\* is_builtin compares argv[0], which is NULL, and the shell crashes.
Crash(p) ==
  /\ Exit(p, "run") /\ Line(p) = "blank"
  /\ UNCHANGED <<Input, taken, hand, cwd, parent, runs, broken>>

\* fork: the child has a copy of everything, the parent goes to waitpid.  In
\* BadFork it goes straight on to the next line.
BadFork(p) ==
  /\ does[p] = "run" /\ Line(p) \in {"command", "typo"}
  /\ \E c \in Procs :
       /\ Unused(c)
       /\ does' = [does EXCEPT ![p] = "read", ![c] = "exec"]
       /\ parent' = [parent EXCEPT ![c] = p]
       /\ hand' = [hand EXCEPT ![c] = hand[p]]
       /\ cwd' = [cwd EXCEPT ![c] = cwd[p]]
  /\ UNCHANGED <<Input, taken, runs, broken>>

Fork(p) ==
  /\ does[p] = "run" /\ Line(p) \in {"command", "typo"}
  /\ LET c == CHOOSE q \in Procs : Unused(q) IN
       /\ does' = [does EXCEPT ![p] = "wait", ![c] = "exec"]
       /\ parent' = [parent EXCEPT ![c] = p]
       /\ hand' = [hand EXCEPT ![c] = hand[p]]
       /\ cwd' = [cwd EXCEPT ![c] = cwd[p]]
  /\ UNCHANGED <<Input, taken, runs, broken>>

ForkFails(p) ==
  /\ Exit(p, "run") /\ Line(p) \in {"command", "typo"}
  /\ broken' = TRUE
  /\ UNCHANGED <<Input, taken, hand, cwd, parent, runs>>

\* execvp in the child, and where it returns the message, cleanup and the
\* loop of main.  In BadExec the child exits instead.
BadExec(p) ==
  /\ Goto(p, "exec", IF Line(p) = "typo" THEN "zombie" ELSE "command")
  /\ runs' = [runs EXCEPT ![hand[p]] = @ + 1]
  /\ UNCHANGED <<Input, taken, hand, cwd, parent, broken>>

Exec(p) ==
  /\ Goto(p, "exec", IF Line(p) = "typo" THEN "read" ELSE "command")
  /\ runs' = [runs EXCEPT ![hand[p]] = @ + 1]
  /\ UNCHANGED <<Input, taken, hand, cwd, parent, broken>>

\* The command ends, in whatever way.
CommandEnds(p) ==
  /\ Exit(p, "command")
  /\ UNCHANGED <<Input, taken, hand, cwd, parent, runs, broken>>

\* waitpid returns for the child, and then cleanup.
Wait(p) ==
  /\ does[p] = "wait"
  /\ \E c \in Procs :
       /\ parent[c] = p /\ c # First /\ does[c] = "zombie"
       /\ does' = [does EXCEPT ![p] = "read", ![c] = "unused"]
  /\ UNCHANGED <<Input, taken, hand, cwd, parent, runs, broken>>

process(p) ==
  \/ ReadLine(p) \/ ReadEnd(p) \/ BuiltIn(p) \/ Crash(p)
  \/ Fork(p) \/ ForkFails(p) \/ Exec(p) \/ CommandEnds(p) \/ Wait(p)

Next == \E p \in Procs : process(p)

Spec == Init /\ [][Next]_vars

-----------------------------------------------------------------------------
(* Properties *)

AtWork(p) == does[p] \in {"read", "run", "exec", "command"}

\* However deep the shells are nested, one process is at work and all others
\* wait for their child: two never read the terminal at once.
OneAtWork == \A p, q \in Procs : AtWork(p) /\ AtWork(q) => p = q

\* One read has brought both lines.
SameRead(i, j) == \A e \in i .. j - 1 : e \notin ends

\* The names before line i that came with it and could not be executed.
Typos(i) == Cardinality({j \in 1 .. i - 1 : SameRead(j, i) /\ script[j] = "typo"})

\* The shell that was started has come to its end.
Over == does[First] = "zombie"

\* Line i is one that every shell with a copy of it comes to and runs.
Reached(i) ==
  script[i] \in {"command", "typo"} /\ \A j \in 1 .. i : SameRead(j, i) => script[j] # "blank"

\* Some shell has ended before the input.
Abandoned == broken \/ \E i \in 1 .. taken : script[i] \in {"blank", "eof"}

\* The last cd before line i that succeeded.
Place(i) == Max({0} \cup {j \in 1 .. i - 1 : script[j] = "cd"})

\* A line runs once in each shell that has a copy of it: twice as often after
\* every name that was read along with it and could not be executed, and once
\* when it was read alone, as at a terminal.  A blank line ends every shell
\* that has a copy of it.  Until a shell has ended early, no line of the
\* input is left out and each runs in the directory that those before it say.
LinesDouble ==
  /\ \A i \in DOMAIN script : runs[i] <= IF i <= taken THEN 2 ^ Typos(i) ELSE 0
  /\ Over /\ ~broken => \A i \in 1 .. taken : Reached(i) => runs[i] = 2 ^ Typos(i)
  /\ Over /\ ~Abandoned => taken = Len(script)
  /\ ~Abandoned => \A p \in Procs : does[p] \in {"exec", "command"} => cwd[p] = Place(hand[p])
=============================================================================
