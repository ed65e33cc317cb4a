--------------------------- MODULE MCSequential ----------------------------
(***************************************************************************)
(* Four programs with one thread each, for one TLC run: the shell, whose   *)
(* forks make it several processes, the autocompletion, the skip list and  *)
(* the BrainFuck interpreter.  They share nothing, so a behaviour chooses  *)
(* one of them and the others rest in an initial state.                    *)
(***************************************************************************)
EXTENDS Integers

CONSTANTS
  MaxLines,                           \* Shell
  Letters, MaxLength, MaxWords, Room, \* Autocompletion
  LEVELS, Least, Greatest, MaxSize,   \* Skiplist
  MaxCode, MaxCell, Modulus           \* BrainFuck

ASSUME ShellAssumption == MaxLines \in Nat
ASSUME TrieAssumption ==
  Letters \in Nat /\ MaxLength \in Nat /\ MaxWords \in Nat /\ Room \in Nat \ {0}
ASSUME ListAssumption ==
  /\ LEVELS \in Nat \ {0} /\ MaxSize \in Nat
  /\ Least \in Int /\ Greatest \in Int /\ Least < Greatest
ASSUME CodeAssumption == MaxCode \in Nat /\ MaxCell \in Nat /\ Modulus \in Nat \ {0}

VARIABLES
  program,  \* the one that runs
  script, ends, taken, hand, cwd, does, parent, runs, broken,
  wordlist, loaded, nodes, isEnd, arg, stack, text, buffer, buffsize, stdout, phase,
  list, size, result,
  code, ip, dp, memory, startLoopPos, outcome

SH == INSTANCE Shell
AC == INSTANCE Autocompletion
SL == INSTANCE Skiplist
BF == INSTANCE BrainFuck WITH MaxLength <- MaxCode

shellVars == <<script, ends, taken, hand, cwd, does, parent, runs, broken>>
trieVars  == <<wordlist, loaded, nodes, isEnd, arg, stack, text, buffer, buffsize, stdout, phase>>
listVars  == <<list, size, result>>
codeVars  == <<code, ip, dp, memory, startLoopPos, outcome>>
allVars   == <<program, shellVars, trieVars, listVars, codeVars>>

\* Of the initial states of a program that rests one is enough.
ShellRests == script = <<>>
TrieRests  == wordlist = <<>> /\ arg = <<>>
CodeRests  == code = <<>>

MCInit ==
  /\ program \in {"shell", "trie", "list", "code"}
  /\ program # "shell" => ShellRests
  /\ program # "trie" => TrieRests
  /\ program # "code" => CodeRests
  /\ AC!Init /\ SL!Init /\ BF!Init /\ SH!Init

RunsShell == program = "shell" /\ UNCHANGED <<program, trieVars, listVars, codeVars>>
RunsTrie  == program = "trie" /\ UNCHANGED <<program, shellVars, listVars, codeVars>>
RunsList  == program = "list" /\ UNCHANGED <<program, shellVars, trieVars, codeVars>>
RunsCode  == program = "code" /\ UNCHANGED <<program, shellVars, trieVars, listVars>>

MCNext ==
  \/ RunsShell /\ SH!Next
  \/ RunsTrie /\ AC!Next
  \/ RunsList /\ SL!Next
  \/ RunsCode /\ BF!Next

MCSpec == MCInit /\ [][MCNext]_allVars

\* One shell reads, and the lines it is given run as often as they should,
\* where they should.
OneAtWork   == SH!OneAtWork
LinesDouble == SH!LinesDouble

\* The completions are printed, and only the allowed searches go wrong.
PrintsCompletions == AC!PrintsCompletions

\* The interpreter knows the loops it is in.
LoopsNest == BF!LoopsNest

\* The skip list behaves as a multiset.
ImplementsMultiset == SL!ImplementsMultiset
=============================================================================
