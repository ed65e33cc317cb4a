----------------------------- MODULE BrainFuck ------------------------------
(***************************************************************************)
(* BrainFuckInterpreter/BrainFuck.java: run steps through a program with a *)
(* stack of the loops it is in.  A loop that is not entered is skipped by  *)
(* counting brackets; one that is repeated goes back to its bracket and is *)
(* entered again.  Cells are ints; Modulus is 2^32 in the code.            *)
(***************************************************************************)
EXTENDS Integers, SequencesExt

CONSTANTS
  MaxLength,  \* bound on the length of the program
  MaxCell,    \* bound on the memory a program may use
  Modulus

VARIABLES
  code,          \* the program
  ip, dp,        \* instruction and data pointer, from 0 on
  memory,
  startLoopPos,
  outcome        \* "running", "ended", or "threw"

vars == <<code, ip, dp, memory, startLoopPos, outcome>>

Commands == {"+", "-", ">", "<", ".", ",", "[", "]", "?"}

Init ==
  /\ \E n \in 0 .. MaxLength : code \in [1 .. n -> Commands]
  /\ ip = 0 /\ dp = 0
  /\ memory = [c \in 0 .. MaxCell |-> 0]
  /\ startLoopPos = <<>>
  /\ outcome = "running"

charAt(i) == code[i + 1]
Last0     == Len(code) - 1

\* The loop of run comes to one of these commands, with the data pointer in place.
At(commands) ==
  outcome = "running" /\ ip <= Last0 /\ dp >= 0 /\ charAt(ip) \in commands

Quiet == UNCHANGED <<code, memory, startLoopPos>>

-----------------------------------------------------------------------------
Change ==
  /\ At({"+", "-"})
  /\ memory' = [memory EXCEPT ![dp] = (IF charAt(ip) = "+" THEN @ + 1 ELSE @ - 1) % Modulus]
  /\ ip' = ip + 1
  /\ UNCHANGED <<code, dp, startLoopPos, outcome>>

Move ==
  /\ At({">", "<"})
  /\ dp' = IF charAt(ip) = ">" THEN dp + 1 ELSE dp - 1
  /\ dp' <= MaxCell
  /\ ip' = ip + 1
  /\ UNCHANGED outcome /\ Quiet

Write == At({"."}) /\ ip' = ip + 1 /\ UNCHANGED <<dp, outcome>> /\ Quiet

\* The input command stays where it is and reads again.
Read ==
  /\ At({","})
  /\ \E byte \in 0 .. Modulus - 1 : memory' = [memory EXCEPT ![dp] = byte]
  /\ UNCHANGED <<code, ip, dp, startLoopPos, outcome>>

\* Opening brackets less closing ones in i .. j.
Depth(i, j) ==
  Cardinality({k \in i .. j : charAt(k) = "["}) - Cardinality({k \in i .. j : charAt(k) = "]"})

\* Where the count of brackets from i on comes back to 0.
Ends(i) == {j \in i .. Last0 : Depth(i, j) = 0}

\* charAt(++ip) behind the last character throws.
Skip ==
  /\ At({"["}) /\ memory[dp] = 0
  /\ IF Ends(ip) # {} THEN ip' = Min(Ends(ip)) + 1 /\ UNCHANGED outcome
                      ELSE ip' = Len(code) /\ outcome' = "threw"
  /\ UNCHANGED dp /\ Quiet

Enter ==
  /\ At({"["}) /\ memory[dp] # 0
  /\ startLoopPos' = Append(startLoopPos, ip)
  /\ ip' = ip + 1
  /\ UNCHANGED <<code, dp, memory, outcome>>

\* In BadClose the loop stays on the stack when it is left.
BadClose ==
  /\ At({"]"}) /\ startLoopPos # <<>>
  /\ IF memory[dp] = 0
       THEN ip' = ip + 1 /\ UNCHANGED startLoopPos
       ELSE ip' = Last(startLoopPos) /\ startLoopPos' = Front(startLoopPos)
  /\ UNCHANGED <<code, dp, memory, outcome>>

Close ==
  /\ At({"]"}) /\ startLoopPos # <<>>
  /\ startLoopPos' = Front(startLoopPos)
  /\ ip' = IF memory[dp] = 0 THEN ip + 1 ELSE Last(startLoopPos)
  /\ UNCHANGED <<code, dp, memory, outcome>>

\* A negative data pointer, an unknown command, or removeLast on an empty stack.
Throw ==
  /\ outcome = "running" /\ ip <= Last0
  /\ dp < 0 \/ charAt(ip) = "?" \/ (charAt(ip) = "]" /\ startLoopPos = <<>>)
  /\ outcome' = "threw"
  /\ UNCHANGED <<ip, dp>> /\ Quiet

End ==
  /\ outcome = "running" /\ ip > Last0
  /\ outcome' = "ended"
  /\ UNCHANGED <<ip, dp>> /\ Quiet

Next ==
  \/ Change \/ Move \/ Write \/ Read
  \/ Skip \/ Enter \/ Close \/ Throw \/ End

Spec == Init /\ [][Next]_vars

-----------------------------------------------------------------------------
(* Properties *)

\* The opening brackets of the loops around i.
Around(i) == {j \in 0 .. i - 1 : charAt(j) = "[" /\ \A k \in j .. i - 1 : Depth(j, k) > 0}

\* The stack holds these loops, from the outermost inwards.
Nested ==
  /\ Range(startLoopPos) = Around(ip)
  /\ \A m, n \in DOMAIN startLoopPos : m < n => startLoopPos[m] < startLoopPos[n]

Balanced == Depth(0, Last0) = 0 /\ \A i \in 0 .. Last0 : Depth(0, i) >= 0

\* However loops are skipped, repeated and left, the stack holds the loops
\* around the instruction; so a program whose brackets match and whose data
\* pointer stays in place throws only on a command that there is not.
LoopsNest ==
  /\ outcome = "threw" \/ Nested
  /\ outcome = "threw" /\ Balanced /\ dp >= 0 => charAt(ip) = "?"
=============================================================================
