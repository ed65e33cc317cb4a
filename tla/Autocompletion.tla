--------------------------- MODULE Autocompletion ---------------------------
(***************************************************************************)
(* trie_autocompletion/trie-autocompletion.c: main loads the word list     *)
(* into a trie, walks down it along the prefix it was given and prints     *)
(* every word below, by a depth-first search that keeps the word it is at  *)
(* in one growing buffer.                                                  *)
(*                                                                         *)
(* A node is the sequence of letters that leads to it.  The letters are    *)
(* ASCII, as in wordlist.h, and the prefix fits into the buffer.  The root *)
(* comes from the first malloc of the process and reads as zeros, although *)
(* only insert initialises its nodes.                                      *)
(***************************************************************************)
EXTENDS Integers, SequencesExt

CONSTANTS
  Letters,   \* 1 .. Letters stand for the bytes of the words, in their order
  MaxLength, \* bound on the length of a word and of the prefix
  MaxWords,  \* bound on the number of words
  Room       \* the bytes of the first buffer (1024 in the code)

VARIABLES
  wordlist,  \* the words, in the order they are loaded
  loaded,    \* how many of them are loaded
  nodes,     \* the allocated nodes
  isEnd,     \* the nodes whose isEnd is set
  arg,       \* argv[1]
  stack,     \* the calls of dfs_and_print: the node, the child looked at last
             \* and the buffer the call's own variable word points to
  text,      \* the string in the buffer
  buffer,    \* the buffer that is allocated, numbered in order
  buffsize,
  stdout,    \* the words printed
  phase      \* what main does: "load", "search", "print", "free", and then
             \* "done", "crashed", or "dangling" after a use of a freed buffer

vars == <<wordlist, loaded, nodes, isEnd, arg, stack, text, buffer, buffsize, stdout, phase>>

Strings == UNION {[1 .. n -> 1 .. Letters] : n \in 0 .. MaxLength}
Words   == Strings \ {<<>>}
None    == <<0>>   \* no argument at all: argv[1] is NULL
Help    == <<-1>>  \* "help"

root == <<>>

Init ==
  /\ \E ws \in SUBSET Words : Cardinality(ws) <= MaxWords /\ wordlist = SetToSeq(ws)
  /\ loaded = 0 /\ nodes = {root} /\ isEnd = {}
  /\ arg \in {s \in Strings : Len(s) < Room} \cup {None, Help}
  /\ stack = <<>> /\ text = <<>> /\ buffer = 1 /\ buffsize = Room
  /\ stdout = <<>>
  /\ phase = "load"

Trie   == <<wordlist, loaded, nodes, isEnd>>
Memory == <<buffer, buffsize>>

-----------------------------------------------------------------------------
\* main before it loads: strcmp with "help" reads argv[1], whatever argc is.
Usage ==
  /\ phase = "load" /\ arg \in {None, Help}
  /\ phase' = IF arg = None THEN "crashed" ELSE "done"
  /\ UNCHANGED <<Trie, arg, stack, text, Memory, stdout>>

\* insert: the nodes along the word that were missing, and the mark on the last.
insert(word) ==
  /\ nodes' = nodes \cup {SubSeq(word, 1, n) : n \in 1 .. Len(word)}
  /\ isEnd' = isEnd \cup {word}

Searches == arg \notin {None, Help}

LoadWord ==
  /\ phase = "load" /\ Searches /\ loaded < Len(wordlist)
  /\ insert(wordlist[loaded + 1])
  /\ loaded' = loaded + 1
  /\ UNCHANGED <<wordlist, arg, stack, text, Memory, stdout, phase>>

\* strcpy, and autocomplete down to the node of the prefix.
autocomplete ==
  /\ phase = "load" /\ Searches /\ loaded = Len(wordlist)
  /\ text' = arg
  /\ phase' = IF arg # <<>> /\ arg \in nodes THEN "search" ELSE "free"
  /\ UNCHANGED <<Trie, arg, stack, Memory, stdout>>

\* dfs_and_print is called for a node with its word in the buffer.  It may
\* have to move the buffer, which only its own variable word then follows,
\* and it prints the word.
Call(callers, node, word, move) ==
  LET full == Len(word) = buffsize - 1
      to   == IF full /\ move THEN buffer + 1 ELSE buffer
  IN
    /\ text' = word
    /\ buffer' = to
    /\ buffsize' = IF full THEN 2 * buffsize ELSE buffsize
    /\ stack' = Append(callers, [node |-> node, child |-> 0, word |-> to])
    /\ stdout' = IF node \in isEnd THEN Append(stdout, word) ELSE stdout

Search ==
  /\ phase = "search" /\ phase' = "print"
  /\ \E move \in BOOLEAN : Call(<<>>, arg, text, move)
  /\ UNCHANGED <<Trie, arg>>

Top      == Last(stack)
Children == {c \in Top.child + 1 .. Letters : Append(Top.node, c) \in nodes}

\* The buffer has been moved by a call this call has made.
Stale == Top.word # buffer

Dangle ==
  /\ phase = "print" /\ Stale
  /\ phase' = "dangling"
  /\ UNCHANGED <<Trie, arg, stack, text, Memory, stdout>>

\* The next child: its letter is put at the end of the word.
Child ==
  /\ phase = "print" /\ ~Stale /\ Children # {}
  /\ LET c == Min(Children)
         callers == Append(Front(stack), [Top EXCEPT !.child = c])
     IN \E move \in BOOLEAN : Call(callers, Append(Top.node, c), Append(text, c), move)
  /\ UNCHANGED <<Trie, arg, phase>>

\* No child is left: the call returns, and its caller takes the letter off
\* the word again (in BadReturn it does not).
BadReturn ==
  /\ phase = "print" /\ ~Stale /\ Children = {}
  /\ stack' = Front(stack)
  /\ phase' = IF Len(stack) > 1 THEN "print" ELSE "free"
  /\ UNCHANGED <<Trie, arg, text, Memory, stdout>>

Return ==
  /\ phase = "print" /\ ~Stale /\ Children = {}
  /\ stack' = Front(stack)
  /\ IF Len(stack) > 1
       THEN phase' = "print" /\ text' = Front(text)
       ELSE phase' = "free" /\ text' = text
  /\ UNCHANGED <<Trie, arg, Memory, stdout>>

\* free(buff), which frees the first buffer, and freeTrie.
Free ==
  /\ phase = "free"
  /\ IF buffer = 1
       THEN phase' = "done" /\ nodes' = {} /\ isEnd' = {}
       ELSE phase' = "dangling" /\ UNCHANGED <<nodes, isEnd>>
  /\ UNCHANGED <<wordlist, loaded, arg, stack, text, Memory, stdout>>

Next ==
  \/ Usage \/ LoadWord \/ autocomplete
  \/ Search \/ Child \/ Return \/ Dangle \/ Free

Spec == Init /\ [][Next]_vars

-----------------------------------------------------------------------------
(* Properties *)

Completions == {w \in Range(wordlist) : arg # <<>> /\ IsPrefix(arg, w)}

\* v comes before w in a dictionary.
Before(v, w) ==
  \/ IsStrictPrefix(v, w)
  \/ \E n \in 1 .. Min({Len(v), Len(w)}) :
       v[n] < w[n] /\ SubSeq(v, 1, n - 1) = SubSeq(w, 1, n - 1)

\* What is printed are the words that begin with the prefix, each once and in
\* the order of a dictionary, and none of them has overrun the buffer; unless
\* the search goes on in a freed buffer, and that only happens if a word it
\* has come to leaves no byte of the first one free.
PrintsCompletions ==
  /\ phase = "done" /\ Searches =>
       /\ Range(stdout) = Completions
       /\ \A m, n \in DOMAIN stdout : m < n => Before(stdout[m], stdout[n])
  /\ Len(text) < buffsize
  /\ phase = "dangling" => \E w \in Completions : Len(w) >= Room - 1
=============================================================================
