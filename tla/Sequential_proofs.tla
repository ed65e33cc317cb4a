------------------------- MODULE Sequential_proofs --------------------------
(***************************************************************************)
(* Proofs about the programs with one thread each.                         *)
(***************************************************************************)
EXTENDS MCSequential, SumTheorems, FunctionTheorems, SequenceTheorems

-----------------------------------------------------------------------------
(* Powers of two, counted as subsets *)

\* Twice as many subsets with one element more.
LEMMA PowerOfTwo ==
  ASSUME NEW n \in Nat
  PROVE  /\ 2 ^ n \in Nat /\ 2 ^ n >= 1
         /\ 2 ^ (n + 1) = 2 ^ n + 2 ^ n
<1> DEFINE S == 1 .. n
           T == 1 .. n + 1
           With == {t \cup {n + 1} : t \in SUBSET S}
<1>1. IsFiniteSet(S) /\ Cardinality(S) = n /\ IsFiniteSet(T) /\ Cardinality(T) = n + 1
  BY FS_Interval
<1>2. /\ IsFiniteSet(SUBSET S) /\ Cardinality(SUBSET S) = 2 ^ n
      /\ Cardinality(SUBSET T) = 2 ^ (n + 1)
  <2> HIDE DEF S, T
  <2>1. QED BY <1>1, FS_SUBSET
<1>3. 2 ^ n \in Nat /\ 2 ^ n >= 1
  <2>1. Cardinality(SUBSET S) \in Nat /\ Cardinality(SUBSET S) # 0
    <3>1. SUBSET S # {}
      OBVIOUS
    <3> HIDE DEF S
    <3>2. QED BY <1>2, <3>1, FS_CardinalityType, FS_EmptySet
  <2>2. QED BY <1>2, <2>1
<1>4. SUBSET T = (SUBSET S) \cup With /\ (SUBSET S) \cap With = {}
  <2>1. \A t \in SUBSET T : n + 1 \in t => t \in With
    <3> SUFFICES ASSUME NEW t \in SUBSET T, n + 1 \in t PROVE t \in With
      OBVIOUS
    <3>1. t \ {n + 1} \in SUBSET S /\ t = (t \ {n + 1}) \cup {n + 1}
      OBVIOUS
    <3>2. QED BY <3>1
  <2>2. \A t \in SUBSET T : n + 1 \notin t => t \in SUBSET S
    OBVIOUS
  <2>3. \A t \in SUBSET S : t \in SUBSET T /\ n + 1 \notin t
    OBVIOUS
  <2>4. \A t \in With : t \in SUBSET T /\ n + 1 \in t
    OBVIOUS
  <2> HIDE DEF With, S, T
  <2>5. QED BY <2>1, <2>2, <2>3, <2>4
<1>5. IsFiniteSet(With) /\ Cardinality(With) = Cardinality(SUBSET S)
  <2> DEFINE f == [t \in SUBSET S |-> t \cup {n + 1}]
  <2>1. f \in Bijection(SUBSET S, With)
    <3>1. \A t, u \in SUBSET S : f[t] = f[u] => t = u
      <4>1. \A t \in SUBSET S : t = f[t] \ {n + 1}
        OBVIOUS
      <4>2. QED BY <4>1
    <3>2. \A w \in With : \E t \in SUBSET S : f[t] = w
      OBVIOUS
    <3>3. f \in [SUBSET S -> With]
      OBVIOUS
    <3> HIDE DEF f, With, S
    <3>4. QED BY <3>1, <3>2, <3>3, Fun_IsBij
  <2> HIDE DEF f, With, S
  <2>2. ExistsBijection(SUBSET S, With)
    BY <2>1 DEF ExistsBijection
  <2>3. QED BY <1>2, <2>2, FS_Bijection
<1>6. Cardinality(SUBSET T) = Cardinality(SUBSET S) + Cardinality(With) - 0
  <2>1. Cardinality((SUBSET S) \cap With) = 0
    BY <1>4, FS_EmptySet
  <2> HIDE DEF With, S, T
  <2>2. QED BY <1>2, <1>4, <1>5, <2>1, FS_Union
<1> HIDE DEF With, S, T
<1>7. QED BY <1>2, <1>3, <1>5, <1>6

\* One subset of nothing.
LEMMA PowerZero == 2 ^ 0 = 1
<1>1. IsFiniteSet({}) /\ Cardinality({}) = 0
  BY FS_EmptySet
<1>2. Cardinality(SUBSET {}) = 2 ^ 0
  BY <1>1, FS_SUBSET
<1>3. Cardinality({{}}) = 1
  BY FS_Singleton
<1>4. SUBSET {} = {{}}
  OBVIOUS
<1>5. QED BY <1>2, <1>3, <1>4

-----------------------------------------------------------------------------
(* Shell: one process at work *)

\* TypeOK of the shell.
ShellSteps == {"unused", "read", "run", "wait", "exec", "command", "zombie"}

ShellTypes ==
  /\ script \in Seq(SH!Kinds) /\ Len(script) <= MaxLines
  /\ ends \in SUBSET DOMAIN script /\ taken \in Nat
  /\ hand \in [SH!Procs -> Nat] /\ cwd \in [SH!Procs -> Nat]
  /\ does \in [SH!Procs -> ShellSteps] /\ parent \in [SH!Procs -> SH!Procs]
  /\ runs \in [DOMAIN script -> Nat] /\ broken \in BOOLEAN

Waits(p)  == does[p] = "wait"
Active(p) == does[p] \notin {"unused", "wait"}

\* Whole reads have been taken from the input, and the last read ends it.
InputInv ==
  /\ script # <<>> => Len(script) \in ends
  /\ (\E i \in DOMAIN script : script[i] = "eof") => ends = DOMAIN script
  /\ taken <= Len(script) /\ (taken # 0 => taken \in ends)

\* A line in hand is one of the input, and has been taken from it.
HandInv ==
  \A p \in SH!Procs :
    /\ does[p] \in {"run", "wait", "exec", "command"} => hand[p] \in 1 .. Len(script)
    /\ does[p] # "unused" => hand[p] <= taken

\* One process does not wait, and the one that was started is there.
ActiveInv ==
  /\ \E a \in SH!Procs : Active(a) /\ \A p \in SH!Procs : Active(p) => p = a
  /\ does[SH!First] # "unused"

\* The waiting processes are a stack.  Each has a line of its own in hand,
\* read after that of its parent; the one that does not wait is on the top.
OwnLines == \A v, w \in SH!Procs : Waits(v) /\ Waits(w) /\ hand[v] = hand[w] => v = w

TopReads ==
  \A a, w \in SH!Procs : Active(a) /\ Waits(w) =>
    hand[w] <= hand[a] /\ (does[a] = "run" => hand[w] < hand[a])

TopParent ==
  \A a \in SH!Procs \ {SH!First} : Active(a) =>
    Waits(parent[a]) /\ \A w \in SH!Procs : Waits(w) => hand[w] <= hand[parent[a]]

Stacked ==
  \A w \in SH!Procs \ {SH!First} : Waits(w) =>
    /\ Waits(parent[w]) /\ hand[parent[w]] < hand[w]
    /\ \A v \in SH!Procs : Waits(v) /\ hand[v] < hand[w] => hand[v] <= hand[parent[w]]

StackInv == OwnLines /\ TopReads /\ TopParent /\ Stacked

ShellInv == ShellTypes /\ InputInv /\ HandInv /\ ActiveInv /\ StackInv

LEMMA FirstIs == SH!First \in SH!Procs
BY ShellAssumption DEF SH!First, SH!Procs

LEMMA ShellInitInv == SH!Init => ShellInv
<1> SUFFICES ASSUME SH!Init PROVE ShellInv
  OBVIOUS
<1>0. SH!First \in SH!Procs
  BY FirstIs
<1>1. script \in Seq(SH!Kinds) /\ Len(script) <= MaxLines
  <2>1. PICK n \in 0 .. MaxLines : script \in [1 .. n -> SH!Kinds]
    BY DEF SH!Init
  <2>2. n \in Nat /\ n <= MaxLines
    BY <2>1, ShellAssumption
  <2>3. Len(script) = n
    BY <2>1, <2>2
  <2>4. QED BY <2>1, <2>2, <2>3
<1>2. ShellTypes
  BY <1>0, <1>1 DEF ShellTypes, SH!Init, ShellSteps
<1>3. \A p \in SH!Procs : does[p] = IF p = SH!First THEN "read" ELSE "unused"
  BY DEF SH!Init
<1>4. InputInv
  <2>1. taken = 0 /\ Len(script) \in Nat
    BY <1>1 DEF SH!Init
  <2>2. QED BY <2>1 DEF InputInv, SH!Init
<1>5. HandInv
  BY <1>0, <1>3 DEF HandInv, SH!Init
<1>6. ActiveInv
  BY <1>0, <1>3 DEF ActiveInv, Active
<1>7. StackInv
  BY <1>0, <1>3 DEF StackInv, OwnLines, TopReads, TopParent, Stacked, Active, Waits
<1>8. QED BY <1>2, <1>4, <1>5, <1>6, <1>7 DEF ShellInv

\* More processes than lines: when a shell forks there is one left.
LEMMA SomeUnused ==
  ASSUME ShellInv, NEW p \in SH!Procs, does[p] = "run"
  PROVE  \E c \in SH!Procs : SH!Unused(c)
<1> SUFFICES ASSUME \A c \in SH!Procs : does[c] # "unused" PROVE FALSE
  BY DEF SH!Unused
<1> DEFINE f == [c \in SH!Procs |-> hand[c]]
           T == 1 .. MaxLines
<1>1. \A c \in SH!Procs : c = p \/ Waits(c)
  BY DEF ShellInv, ActiveInv, Active, Waits
<1>2. \A c \in SH!Procs : hand[c] \in T
  <2>1. \A c \in SH!Procs : hand[c] \in 1 .. Len(script)
    BY <1>1 DEF ShellInv, HandInv, Waits
  <2>2. Len(script) \in Nat /\ Len(script) <= MaxLines
    BY DEF ShellInv, ShellTypes
  <2>3. QED BY <2>1, <2>2, ShellAssumption
<1>3. f \in [SH!Procs -> T]
  BY <1>2
<1>4. /\ IsFiniteSet(SH!Procs) /\ Cardinality(SH!Procs) = MaxLines + 1
      /\ IsFiniteSet(T) /\ Cardinality(T) = MaxLines
  BY ShellAssumption, FS_Interval DEF SH!Procs
<1>5. PICK x, y \in SH!Procs : x # y /\ f[x] = f[y]
  <2>1. Cardinality(T) < Cardinality(SH!Procs)
    BY <1>4, ShellAssumption
  <2> HIDE DEF f, T
  <2>2. QED BY <1>3, <1>4, <2>1, FS_PigeonHole
<1>6. hand[x] = hand[y]
  BY <1>5
<1>7. \A c \in SH!Procs : Waits(c) => hand[c] < hand[p]
  BY DEF ShellInv, StackInv, TopReads, Active
<1>8. hand[p] \in Int
  BY DEF ShellInv, ShellTypes
<1>9. QED BY <1>1, <1>5, <1>6, <1>7, <1>8 DEF ShellInv, StackInv, OwnLines

\* The process at work stays at work.
GoesOn(p, to, h) ==
  /\ Active(p) /\ to \in ShellSteps \ {"unused", "wait"} /\ (to = "run" => h > hand[p])
  /\ h \in Nat /\ h >= hand[p]
  /\ does' = [does EXCEPT ![p] = to] /\ hand' = [hand EXCEPT ![p] = h] /\ parent' = parent

LEMMA StackStays ==
  ASSUME ShellInv, NEW p \in SH!Procs, NEW to, NEW h, GoesOn(p, to, h)
  PROVE  ActiveInv' /\ StackInv'
<1>1. to \in ShellSteps \ {"unused", "wait"} /\ (to = "run" => h > hand[p])
  BY DEF GoesOn
<1>2. /\ parent' = parent /\ h \in Nat /\ h >= hand[p]
      /\ \A q \in SH!Procs : hand[q] \in Nat /\ parent[q] \in SH!Procs
      /\ \A q \in SH!Procs : hand'[q] = IF q = p THEN h ELSE hand[q]
      /\ \A q \in SH!Procs : does'[q] = IF q = p THEN to ELSE does[q]
  BY <1>1 DEF GoesOn, ShellInv, ShellTypes
<1>3. ActiveInv /\ OwnLines /\ TopReads /\ TopParent /\ Stacked
  BY DEF ShellInv, StackInv
<1> USE DEF Active, Waits
<1>4. \A q \in SH!Procs : Active(q) <=> q = p
  BY <1>3 DEF ActiveInv, GoesOn
<1>5. ActiveInv'
  BY <1>1, <1>2, <1>3, <1>4, FirstIs DEF ActiveInv
<1>6. OwnLines'
  BY <1>1, <1>2, <1>3 DEF OwnLines
<1>7. TopReads'
  BY <1>1, <1>2, <1>3, <1>4 DEF TopReads
<1>8. TopParent'
  BY <1>1, <1>2, <1>3, <1>4 DEF TopParent
<1>9. Stacked'
  BY <1>1, <1>2, <1>3, <1>4 DEF Stacked
<1>10. QED BY <1>5, <1>6, <1>7, <1>8, <1>9 DEF StackInv

LEMMA LeastIs ==
  ASSUME NEW T \in SUBSET Nat, T # {}
  PROVE  SH!Min(T) \in T /\ \A n \in T : SH!Min(T) <= n
<1>1. \E m \in T : \A n \in T : m <= n
  BY LeastNat
<1>2. QED BY <1>1 DEF SH!Min

\* A line from the buffer follows the one in hand and was read with it, any
\* other is the next of the input.
LEMMA FromBuffer ==
  ASSUME ShellInv, NEW p \in SH!Procs, does[p] = "read", SH!InBuffer(p)
  PROVE  /\ SH!NextLine(p) = hand[p] + 1 /\ hand[p] \in Nat /\ hand[p] # 0 /\ hand[p] \notin ends
         /\ hand[p] + 1 \in DOMAIN script /\ hand[p] + 1 <= taken /\ script[hand[p] + 1] # "eof"
<1>1. SH!NextLine(p) = hand[p] + 1 /\ hand[p] # 0 /\ hand[p] \notin ends
  BY DEF SH!NextLine, SH!InBuffer
<1>2. /\ hand[p] \in Nat /\ taken \in Nat /\ Len(script) \in Nat /\ DOMAIN script = 1 .. Len(script)
      /\ hand[p] <= taken /\ taken <= Len(script) /\ (taken # 0 => taken \in ends)
  BY DEF ShellInv, ShellTypes, InputInv, HandInv
<1>3. hand[p] # taken
  BY <1>1, <1>2
<1>4. hand[p] + 1 <= taken /\ hand[p] + 1 \in DOMAIN script /\ hand[p] \in DOMAIN script
  BY <1>1, <1>2, <1>3
<1>5. script[hand[p] + 1] # "eof"
  BY <1>1, <1>4 DEF ShellInv, InputInv
<1>6. QED BY <1>1, <1>2, <1>4, <1>5

\* What a read of the input takes.
LEMMA FromInput ==
  ASSUME ShellInv, NEW p \in SH!Procs, does[p] = "read", ~SH!InBuffer(p)
  PROVE  /\ SH!NextLine(p) = taken + 1 /\ taken \in Nat /\ Len(script) \in Nat
         /\ hand[p] \in Nat /\ hand[p] <= taken /\ (hand[p] = 0 \/ hand[p] \in ends)
         /\ taken + 1 <= Len(script) =>
              /\ taken + 1 \in DOMAIN script
              /\ SH!ReadTo(taken + 1) \in ends /\ SH!ReadTo(taken + 1) \in Nat
              /\ taken + 1 <= SH!ReadTo(taken + 1) /\ SH!ReadTo(taken + 1) <= Len(script)
              /\ SH!SameRead(taken + 1, SH!ReadTo(taken + 1))
<1>1. SH!NextLine(p) = taken + 1 /\ (hand[p] = 0 \/ hand[p] \in ends)
  BY DEF SH!NextLine, SH!InBuffer
<1>2. /\ taken \in Nat /\ Len(script) \in Nat /\ DOMAIN script = 1 .. Len(script)
      /\ hand[p] \in Nat /\ hand[p] <= taken /\ ends \in SUBSET DOMAIN script
  BY DEF ShellInv, ShellTypes, HandInv
<1>3. ASSUME taken + 1 <= Len(script)
      PROVE  /\ taken + 1 \in DOMAIN script
             /\ SH!ReadTo(taken + 1) \in ends /\ SH!ReadTo(taken + 1) \in Nat
             /\ taken + 1 <= SH!ReadTo(taken + 1) /\ SH!ReadTo(taken + 1) <= Len(script)
             /\ SH!SameRead(taken + 1, SH!ReadTo(taken + 1))
  <2> DEFINE T == {e \in ends : taken + 1 <= e}
             m == SH!Min(T)
  <2>1. taken + 1 \in DOMAIN script
    BY <1>2, <1>3
  <2>2. T \in SUBSET Nat /\ T # {}
    <3>1. Len(script) \in ends
      BY <1>2, <1>3 DEF ShellInv, InputInv
    <3>2. QED BY <1>2, <1>3, <3>1
  <2>3. m \in T /\ \A n \in T : m <= n
    <3> HIDE DEF T
    <3>1. QED BY <2>2, LeastIs
  <2>4. SH!ReadTo(taken + 1) = m
    BY DEF SH!ReadTo
  <2> HIDE DEF m
  <2>5. m \in ends /\ m \in Nat /\ taken + 1 <= m /\ m <= Len(script)
    BY <1>2, <2>3
  <2>6. \A e \in taken + 1 .. m - 1 : e \notin ends
    BY <1>2, <2>3, <2>5
  <2>7. QED BY <2>1, <2>4, <2>5, <2>6 DEF SH!SameRead
<1>4. QED BY <1>1, <1>2, <1>3

LEMMA ShellNextInv == ShellInv /\ [SH!Next]_(SH!vars) => ShellInv'
<1> SUFFICES ASSUME ShellInv, [SH!Next]_(SH!vars) PROVE ShellInv'
  OBVIOUS
<1>0. /\ ShellTypes /\ InputInv /\ HandInv /\ ActiveInv
      /\ OwnLines /\ TopReads /\ TopParent /\ Stacked /\ SH!First \in SH!Procs
  BY FirstIs DEF ShellInv, StackInv
<1>a. ASSUME UNCHANGED <<script, ends, taken>> PROVE InputInv'
  BY <1>0, <1>a DEF InputInv
<1> USE DEF SH!Goto, SH!Exit, SH!Input
<1>1. ASSUME NEW p \in SH!Procs, SH!ReadLine(p) PROVE ShellInv'
  <2> DEFINE n == SH!NextLine(p)
             t == IF SH!InBuffer(p) THEN taken ELSE SH!ReadTo(n)
  <2>1. /\ does[p] = "read" /\ does' = [does EXCEPT ![p] = "run"]
        /\ hand' = [hand EXCEPT ![p] = n] /\ taken' = t /\ n <= Len(script)
        /\ UNCHANGED <<script, ends, cwd, parent, runs, broken>>
    BY <1>1 DEF SH!ReadLine
  <2>2. /\ n \in Nat /\ n > hand[p] /\ n \in 1 .. Len(script) /\ n <= t
        /\ t \in Nat /\ taken <= t /\ t <= Len(script) /\ t \in ends
    <3>1. CASE SH!InBuffer(p)
      <4>1. taken \in Nat /\ taken <= Len(script) /\ (taken # 0 => taken \in ends)
        BY <1>0 DEF ShellTypes, InputInv
      <4>2. QED BY <1>0, <2>1, <3>1, <4>1, FromBuffer DEF ShellTypes
    <3>2. CASE ~SH!InBuffer(p)
      BY <2>1, <3>2, FromInput
    <3>3. QED BY <3>1, <3>2
  <2> HIDE DEF n, t
  <2>3. GoesOn(p, "run", n)
    BY <1>0, <2>1, <2>2 DEF GoesOn, Active, ShellSteps, ShellTypes
  <2>4. ShellTypes'
    BY <1>0, <2>1, <2>2 DEF ShellTypes, ShellSteps
  <2>5. HandInv'
    BY <1>0, <2>1, <2>2, <2>4 DEF HandInv, ShellTypes
  <2>6. InputInv'
    BY <1>0, <2>1, <2>2 DEF InputInv
  <2>7. QED BY <2>3, <2>4, <2>5, <2>6, StackStays DEF ShellInv
<1>2. ASSUME NEW p \in SH!Procs, SH!ReadEnd(p) PROVE ShellInv'
  <2> DEFINE n == SH!NextLine(p)
             t == IF n <= Len(script) THEN n ELSE taken
  <2>1. /\ does[p] = "read" /\ does' = [does EXCEPT ![p] = "zombie"]
        /\ taken' = t /\ (n <= Len(script) => script[n] = "eof")
        /\ UNCHANGED <<script, ends, hand, cwd, parent, runs, broken>>
    BY <1>2 DEF SH!ReadEnd
  <2>2. taken \in Nat /\ taken <= Len(script) /\ (taken # 0 => taken \in ends)
    BY <1>0 DEF ShellTypes, InputInv
  <2>3. /\ t \in Nat /\ taken <= t /\ t <= Len(script) /\ (t # 0 => t \in ends)
    <3>1. CASE SH!InBuffer(p)
      <4>1. n \in DOMAIN script /\ script[n] # "eof"
        BY <2>1, <3>1, FromBuffer
      <4>2. n <= Len(script)
        BY <1>0, <4>1 DEF ShellTypes
      <4>3. QED BY <2>1, <4>1, <4>2
    <3>2. CASE ~SH!InBuffer(p)
      <4>1. /\ n = taken + 1 /\ Len(script) \in Nat
            /\ (n <= Len(script) => n \in DOMAIN script)
        BY <2>1, <3>2, FromInput
      <4>2. n <= Len(script) => ends = DOMAIN script
        BY <1>0, <2>1, <4>1 DEF InputInv
      <4>3. QED BY <2>2, <4>1, <4>2
    <3>3. QED BY <3>1, <3>2
  <2> HIDE DEF n, t
  <2>4. GoesOn(p, "zombie", hand[p])
    BY <1>0, <2>1 DEF GoesOn, Active, ShellSteps, ShellTypes
  <2>5. ShellTypes'
    BY <1>0, <2>1, <2>3 DEF ShellTypes, ShellSteps
  <2>6. HandInv'
    BY <1>0, <2>1, <2>2, <2>3, <2>5 DEF HandInv, ShellTypes
  <2>7. InputInv'
    BY <1>0, <2>1, <2>3 DEF InputInv
  <2>8. QED BY <2>4, <2>5, <2>6, <2>7, StackStays DEF ShellInv
<1>3. ASSUME NEW p \in SH!Procs, SH!BuiltIn(p) PROVE ShellInv'
  <2>1. /\ does[p] = "run" /\ does' = [does EXCEPT ![p] = "read"]
        /\ UNCHANGED <<script, ends, taken, hand, parent, runs, broken>>
    BY <1>3 DEF SH!BuiltIn
  <2>2. cwd' \in [SH!Procs -> Nat]
    BY <1>0, <1>3 DEF SH!BuiltIn, ShellTypes
  <2>3. GoesOn(p, "read", hand[p])
    BY <1>0, <2>1 DEF GoesOn, Active, ShellSteps, ShellTypes
  <2>4. ShellTypes'
    BY <1>0, <2>1, <2>2 DEF ShellTypes, ShellSteps
  <2>5. HandInv'
    BY <1>0, <2>1, <2>4 DEF HandInv, ShellTypes
  <2>6. InputInv'
    BY <1>a, <2>1
  <2>7. QED BY <2>3, <2>4, <2>5, <2>6, StackStays DEF ShellInv
<1>4. ASSUME NEW p \in SH!Procs, SH!Crash(p) \/ SH!ForkFails(p) \/ SH!CommandEnds(p)
      PROVE  ShellInv'
  <2>1. /\ does[p] \in {"run", "command"} /\ does' = [does EXCEPT ![p] = "zombie"]
        /\ UNCHANGED <<script, ends, taken, hand, cwd, parent, runs>> /\ broken' \in BOOLEAN
    BY <1>0, <1>4 DEF SH!Crash, SH!ForkFails, SH!CommandEnds, ShellTypes
  <2>2. GoesOn(p, "zombie", hand[p])
    BY <1>0, <2>1 DEF GoesOn, Active, ShellSteps, ShellTypes
  <2>3. ShellTypes'
    BY <1>0, <2>1 DEF ShellTypes, ShellSteps
  <2>4. HandInv'
    BY <1>0, <2>1, <2>3 DEF HandInv, ShellTypes
  <2>5. InputInv'
    BY <1>a, <2>1
  <2>6. QED BY <2>2, <2>3, <2>4, <2>5, StackStays DEF ShellInv
<1>5. ASSUME NEW p \in SH!Procs, SH!Exec(p) PROVE ShellInv'
  <2>1. PICK to \in {"read", "command"} :
          does[p] = "exec" /\ does' = [does EXCEPT ![p] = to]
    BY <1>5 DEF SH!Exec
  <2>2. UNCHANGED <<script, ends, taken, hand, cwd, parent, broken>>
    BY <1>5 DEF SH!Exec
  <2>3. runs' \in [DOMAIN script -> Nat]
    <3>1. runs' = [runs EXCEPT ![hand[p]] = @ + 1]
      BY <1>5 DEF SH!Exec
    <3>2. runs[hand[p]] \in Nat
      <4>1. hand[p] \in DOMAIN script
        BY <1>0, <2>1 DEF ShellTypes, HandInv
      <4>2. QED BY <1>0, <4>1 DEF ShellTypes
    <3>3. runs \in [DOMAIN script -> Nat]
      BY <1>0 DEF ShellTypes
    <3>4. runs' = [runs EXCEPT ![hand[p]] = runs[hand[p]] + 1] /\ runs[hand[p]] + 1 \in Nat
      BY <3>1, <3>2
    <3>5. QED BY <3>3, <3>4
  <2>4. GoesOn(p, to, hand[p])
    BY <1>0, <2>1, <2>2 DEF GoesOn, Active, ShellSteps, ShellTypes
  <2>5. ShellTypes'
    BY <1>0, <2>1, <2>2, <2>3 DEF ShellTypes, ShellSteps
  <2>6. HandInv'
    BY <1>0, <2>1, <2>2, <2>5 DEF HandInv, ShellTypes
  <2>7. InputInv'
    BY <1>a, <2>2
  <2>8. QED BY <2>4, <2>5, <2>6, <2>7, StackStays DEF ShellInv
<1>6. ASSUME NEW p \in SH!Procs, SH!Fork(p) PROVE ShellInv'
  <2> DEFINE c == CHOOSE q \in SH!Procs : SH!Unused(q)
  <2>1. c \in SH!Procs /\ does[c] = "unused" /\ does[p] = "run" /\ c # p
    <3>1. does[p] = "run"
      BY <1>6 DEF SH!Fork
    <3>2. c \in SH!Procs /\ SH!Unused(c)
      BY <3>1, SomeUnused
    <3>3. QED BY <3>1, <3>2 DEF SH!Unused
  <2>2. /\ does' = [does EXCEPT ![p] = "wait", ![c] = "exec"]
        /\ parent' = [parent EXCEPT ![c] = p]
        /\ hand' = [hand EXCEPT ![c] = hand[p]]
        /\ cwd' = [cwd EXCEPT ![c] = cwd[p]] /\ UNCHANGED <<script, ends, taken, runs, broken>>
    BY <1>6 DEF SH!Fork
  <2> HIDE DEF c
  <2>3. ShellTypes'
    BY <1>0, <2>1, <2>2 DEF ShellTypes, ShellSteps
  <2>4. /\ \A q \in SH!Procs : hand[q] \in Nat /\ parent[q] \in SH!Procs
        /\ \A q \in SH!Procs : hand'[q] = IF q = c THEN hand[p] ELSE hand[q]
        /\ \A q \in SH!Procs : parent'[q] = IF q = c THEN p ELSE parent[q]
        /\ \A q \in SH!Procs : does'[q] = IF q = c THEN "exec" ELSE IF q = p THEN "wait" ELSE does[q]
    BY <1>0, <2>1, <2>2 DEF ShellTypes
  <2>5. HandInv'
    <3>1. script' = script /\ taken' = taken
      BY <2>2
    <3>2. \A q \in SH!Procs :
            /\ does[q] \in {"run", "wait", "exec", "command"} => hand[q] \in 1 .. Len(script)
            /\ does[q] # "unused" => hand[q] <= taken
      BY <1>0 DEF HandInv
    <3>3. QED BY <2>1, <2>4, <3>1, <3>2 DEF HandInv
  <2> USE DEF Active, Waits
  <2>6. \A q \in SH!Procs : Active(q) <=> q = p
    BY <1>0, <2>1 DEF ActiveInv
  <2>7. ActiveInv'
    BY <1>0, <2>1, <2>4, <2>6 DEF ActiveInv
  <2>8. OwnLines'
    BY <1>0, <2>1, <2>4, <2>6 DEF OwnLines, TopReads
  <2>9. TopReads'
    BY <1>0, <2>1, <2>4, <2>6 DEF TopReads
  <2>10. TopParent'
    BY <1>0, <2>1, <2>4, <2>6 DEF TopParent, TopReads
  <2>11. Stacked'
    BY <1>0, <2>1, <2>4, <2>6 DEF Stacked, TopParent, TopReads
  <2>12. QED BY <2>3, <2>5, <2>7, <2>8, <2>9, <2>10, <2>11, <2>2, <1>a DEF ShellInv, StackInv
<1>7. ASSUME NEW p \in SH!Procs, SH!Wait(p) PROVE ShellInv'
  <2>1. PICK c \in SH!Procs :
          /\ parent[c] = p /\ c # SH!First /\ does[c] = "zombie"
          /\ does' = [does EXCEPT ![p] = "read", ![c] = "unused"]
    BY <1>7 DEF SH!Wait
  <2>2. does[p] = "wait" /\ UNCHANGED <<script, ends, taken, hand, cwd, parent, runs, broken>>
    BY <1>7 DEF SH!Wait
  <2>3. ShellTypes'
    BY <1>0, <2>1, <2>2 DEF ShellTypes, ShellSteps
  <2>4. HandInv'
    BY <1>0, <2>1, <2>2, <2>3 DEF HandInv, ShellTypes
  <2>5. /\ \A q \in SH!Procs : hand[q] \in Nat /\ parent[q] \in SH!Procs
        /\ \A q \in SH!Procs : does'[q] = IF q = p THEN "read" ELSE IF q = c THEN "unused" ELSE does[q]
    BY <1>0, <2>1, <2>2 DEF ShellTypes
  <2> USE DEF Active, Waits
  <2>6. \A q \in SH!Procs : Active(q) <=> q = c
    BY <1>0, <2>1 DEF ActiveInv
  <2>7. \A w \in SH!Procs : Waits(w) => hand[w] <= hand[p]
    BY <1>0, <2>1 DEF TopParent
  <2>8. ActiveInv'
    <3>1. \A q \in SH!Procs : does'[q] \notin {"unused", "wait"} <=> q = p
      BY <2>2, <2>5, <2>6
    <3>2. does'[SH!First] # "unused"
      <4>1. does[SH!First] # "unused" /\ c # SH!First /\ SH!First \in SH!Procs
        BY <1>0, <2>1 DEF ActiveInv
      <4>2. QED BY <2>5, <4>1
    <3>3. QED BY <3>1, <3>2 DEF ActiveInv
  <2>9. OwnLines'
    BY <1>0, <2>1, <2>2, <2>5 DEF OwnLines
  <2>10. TopReads'
    BY <2>2, <2>5, <2>6, <2>7 DEF TopReads
  <2>11. TopParent'
    <3>1. \A a \in SH!Procs : does'[a] \notin {"unused", "wait"} => a = p
      BY <2>5, <2>6
    <3>2. ASSUME p # SH!First
          PROVE  /\ does'[parent[p]] = "wait"
                 /\ \A w \in SH!Procs : does'[w] = "wait" => hand[w] <= hand[parent[p]]
      <4>1. /\ does[parent[p]] = "wait" /\ hand[parent[p]] < hand[p] /\ parent[p] \in SH!Procs
            /\ \A v \in SH!Procs : does[v] = "wait" /\ hand[v] < hand[p] => hand[v] <= hand[parent[p]]
        BY <1>0, <2>2, <2>5, <3>2 DEF Stacked
      <4>2. does'[parent[p]] = "wait"
        <5>1. parent[p] # p
          BY <2>5, <4>1
        <5>2. parent[p] # c
          BY <2>1, <4>1
        <5>3. QED BY <2>5, <4>1, <5>1, <5>2
      <4>3. ASSUME NEW w \in SH!Procs, does'[w] = "wait" PROVE hand[w] <= hand[parent[p]]
        <5>1. does[w] = "wait" /\ w # p
          BY <2>5, <4>3
        <5>2. hand[w] # hand[p]
          BY <1>0, <2>2, <5>1 DEF OwnLines
        <5>3. hand[w] < hand[p]
          BY <2>5, <2>7, <5>1, <5>2
        <5>4. QED BY <4>1, <5>1, <5>3
      <4>4. QED BY <4>2, <4>3
    <3>3. hand' = hand /\ parent' = parent
      BY <2>2
    <3>4. QED BY <3>1, <3>2, <3>3 DEF TopParent
  <2>12. Stacked'
    BY <1>0, <2>2, <2>5, <2>6, <2>7 DEF Stacked, OwnLines
  <2>13. QED BY <2>3, <2>4, <2>8, <2>9, <2>10, <2>11, <2>12, <2>2, <1>a DEF ShellInv, StackInv
<1>8. CASE UNCHANGED SH!vars
  BY <1>0, <1>8 DEF SH!vars, ShellInv, StackInv, ShellTypes, InputInv, HandInv, ActiveInv, OwnLines,
                    TopReads, TopParent, Stacked, Active, Waits
<1>9. QED BY <1>1, <1>2, <1>3, <1>4, <1>5, <1>6, <1>7, <1>8 DEF SH!Next, SH!process

\* The invariant of a shell's processes holds in every reachable state.
LEMMA ShellInvHolds == SH!Spec => []ShellInv
BY ShellInitInv, ShellNextInv, PTL DEF SH!Spec

\* However deep the shells of main.c are nested, one process is at work and
\* all others wait for their child, for inputs of any length.
THEOREM OneShellAtWork == SH!Spec => []OneAtWork
<1>1. ShellInv => OneAtWork
  BY DEF ShellInv, ActiveInv, Active, OneAtWork, SH!OneAtWork, SH!AtWork
<1>2. QED BY <1>1, ShellInvHolds, PTL
-----------------------------------------------------------------------------
(* Shell: how often a line runs *)

\* How often line i will run in a shell that has line n before it, when every
\* name that cannot be executed makes two shells of one.  The copies hold the
\* lines of one read.
Runs(s, E, n, i) ==
  IF n <= i /\ \A e \in n .. i - 1 : e \notin E
  THEN 2 ^ Cardinality({j \in n .. i - 1 : s[j] = "typo"})
  ELSE 0

\* What is left in the buffer behind line h.
After(s, E, h, i) == IF h = 0 \/ h \in E THEN 0 ELSE Runs(s, E, h + 1, i)

\* How often line i will still run in a process with line h in hand, and in
\* those that it will fork, out of the reads there have been.
Pending(s, E, step, h, i) ==
  IF step = "run" THEN Runs(s, E, h, i)
  ELSE IF step \in {"read", "wait"} THEN After(s, E, h, i)
  ELSE IF step = "exec" THEN (IF h = i THEN 1 ELSE 0) + (IF s[h] = "typo" THEN After(s, E, h, i) ELSE 0)
  ELSE 0

AllPending(s, E, steps, hands, i) ==
  SumFunctionOnSet([p \in SH!Procs |-> Pending(s, E, steps[p], hands[p], i)], SH!Procs)

\* How often line i should run when t lines have been read.
Names(s, E, i) == {j \in 1 .. i - 1 : (\A e \in j .. i - 1 : e \notin E) /\ s[j] = "typo"}
Due(s, E, t, i) == IF i <= t THEN 2 ^ Cardinality(Names(s, E, i)) ELSE 0

LineInv ==
  \A p \in SH!Procs :
    does[p] \in {"wait", "exec", "command"} => SH!Line(p) \in {"command", "typo"}

\* A child is busy with the line that its parent waits for.
ChildInv ==
  \A p \in SH!Procs : does[p] \in {"exec", "command"} =>
    p # SH!First /\ hand[parent[p]] = hand[p]

\* Where t lines have been read and none is left out, a process at line h has
\* the rest of the last read before it.
Last(E, h, t) == (\A e \in h .. t - 1 : e \notin E) /\ (h = 0 => t = 0)

LastInv ==
  ~SH!Abandoned /\ taken < Len(script) =>
    \A p \in SH!Procs : Active(p) =>
      /\ Last(ends, hand[p], taken)
      /\ (does[p] = "zombie" /\ p # SH!First => hand[parent[p]] = hand[p])

\* The shell that was started ends with the input.
EndInv == does[SH!First] = "zombie" /\ ~SH!Abandoned => taken = Len(script)

CwdInv ==
  ~SH!Abandoned =>
    \A p \in SH!Procs :
      /\ does[p] \in {"run", "wait", "exec", "command"} => cwd[p] = SH!Place(hand[p])
      /\ does[p] = "read" => cwd[p] = SH!Place(hand[p] + 1)

\* What has run and what is pending make up the powers of two, unless a fork
\* fails or the line is not one that is run.
CountInv ==
  \A i \in DOMAIN script :
    /\ runs[i] + AllPending(script, ends, does, hand, i) <= Due(script, ends, taken, i)
    /\ ~broken /\ SH!Reached(i) =>
         runs[i] + AllPending(script, ends, does, hand, i) = Due(script, ends, taken, i)

LineRunInv ==
  ShellInv /\ LineInv /\ ChildInv /\ LastInv /\ EndInv /\ CwdInv /\ CountInv

\* The power of two for a set of the numbers n .. i - 1.
LEMMA PowerType ==
  ASSUME NEW T, NEW n \in Nat, NEW i \in Nat, T \subseteq n .. i - 1
  PROVE  IsFiniteSet(T) /\ Cardinality(T) \in Nat /\ 2 ^ Cardinality(T) \in Nat
<1>1. IsFiniteSet(n .. i - 1)
  BY FS_Interval
<1>2. IsFiniteSet(T) /\ Cardinality(T) \in Nat
  BY <1>1, FS_Subset, FS_CardinalityType
<1>3. QED BY <1>2, PowerOfTwo

LEMMA RunsType ==
  ASSUME NEW s, NEW E, NEW n \in Nat, NEW i \in Nat
  PROVE  Runs(s, E, n, i) \in Nat /\ After(s, E, n, i) \in Nat
<1>1. ASSUME NEW m \in Nat PROVE Runs(s, E, m, i) \in Nat
  <2> DEFINE T == {j \in m .. i - 1 : s[j] = "typo"}
  <2>1. T \subseteq m .. i - 1
    OBVIOUS
  <2> HIDE DEF T
  <2>2. IsFiniteSet(T) /\ Cardinality(T) \in Nat /\ 2 ^ Cardinality(T) \in Nat
    BY <2>1, PowerType
  <2>3. QED BY <2>2 DEF Runs, T
<1>2. QED BY <1>1 DEF After

LEMMA DueType ==
  ASSUME NEW s, NEW E, NEW t \in Nat, NEW i \in Nat
  PROVE  Due(s, E, t, i) \in Nat
<1> DEFINE T == Names(s, E, i)
<1>1. T \subseteq 1 .. i - 1
  BY DEF Names
<1> HIDE DEF T
<1>2. IsFiniteSet(T) /\ Cardinality(T) \in Nat /\ 2 ^ Cardinality(T) \in Nat
  BY <1>1, PowerType
<1>3. QED BY <1>2 DEF Due, T

\* The line at hand runs once, and what comes after it twice if it is a typo.
LEMMA RunsStep ==
  ASSUME NEW s, NEW E, NEW n \in Nat, n # 0, NEW i \in Nat
  PROVE  /\ s[n] = "typo" =>
              Runs(s, E, n, i) = (IF n = i THEN 1 ELSE 0) + After(s, E, n, i) + After(s, E, n, i)
         /\ s[n] # "typo" => Runs(s, E, n, i) = (IF n = i THEN 1 ELSE 0) + After(s, E, n, i)
<1> DEFINE T(m) == {j \in m .. i - 1 : s[j] = "typo"}
<1>1. CASE n > i
  BY <1>1 DEF Runs, After
<1>2. CASE n = i
  <2>1. T(n) = {} /\ n .. i - 1 = {}
    BY <1>2
  <2>2. Cardinality(T(n)) = 0
    BY <2>1, FS_EmptySet
  <2>3. Runs(s, E, n, i) = 2 ^ Cardinality(T(n))
    BY <1>2, <2>1 DEF Runs
  <2> HIDE DEF T
  <2>4. Runs(s, E, n, i) = 1
    BY <2>2, <2>3, PowerZero
  <2>5. After(s, E, n, i) = 0
    BY <1>2 DEF Runs, After
  <2>6. QED BY <1>2, <2>4, <2>5
<1>3. CASE n < i /\ (n \in E \/ ~\A e \in n + 1 .. i - 1 : e \notin E)
  <2>1. ~\A e \in n .. i - 1 : e \notin E
    BY <1>3
  <2>2. Runs(s, E, n, i) = 0
    BY <2>1 DEF Runs
  <2>3. After(s, E, n, i) = 0
    BY <1>3 DEF Runs, After
  <2>4. QED BY <1>3, <2>2, <2>3
<1>4. CASE n < i /\ n \notin E /\ \A e \in n + 1 .. i - 1 : e \notin E
  <2>1. T(n + 1) \subseteq n + 1 .. i - 1
    OBVIOUS
  <2>2. \A e \in n .. i - 1 : e = n \/ e \in n + 1 .. i - 1
    OBVIOUS
  <2>3. Runs(s, E, n, i) = 2 ^ Cardinality(T(n)) /\ Runs(s, E, n + 1, i) = 2 ^ Cardinality(T(n + 1))
    BY <1>4, <2>2 DEF Runs
  <2>4. After(s, E, n, i) = 2 ^ Cardinality(T(n + 1))
    BY <1>4, <2>3 DEF After
  <2>5. CASE s[n] = "typo"
    <3>1. T(n) = T(n + 1) \cup {n} /\ n \notin T(n + 1)
      BY <1>4, <2>5
    <3> HIDE DEF T
    <3>2. IsFiniteSet(T(n + 1)) /\ Cardinality(T(n + 1)) \in Nat /\ 2 ^ Cardinality(T(n + 1)) \in Nat
      BY <2>1, PowerType
    <3>3. Cardinality(T(n)) = Cardinality(T(n + 1)) + 1
      BY <3>1, <3>2, FS_AddElement
    <3>4. 2 ^ Cardinality(T(n)) = 2 ^ Cardinality(T(n + 1)) + 2 ^ Cardinality(T(n + 1))
      BY <3>2, <3>3, PowerOfTwo
    <3>5. QED BY <1>4, <2>3, <2>4, <2>5, <3>2, <3>4
  <2>6. CASE s[n] # "typo"
    <3>1. T(n) = T(n + 1)
      BY <1>4, <2>6
    <3> HIDE DEF T
    <3>2. Runs(s, E, n, i) = After(s, E, n, i)
      BY <2>3, <2>4, <3>1
    <3>3. After(s, E, n, i) \in Nat
      BY RunsType
    <3>4. QED BY <1>4, <2>6, <3>2, <3>3
  <2>7. QED BY <2>5, <2>6
<1>5. QED BY <1>1, <1>2, <1>3, <1>4

\* The lines b .. t are those of one read.
IsRead(E, b, t) ==
  /\ b \in Nat /\ b >= 1 /\ (b = 1 \/ b - 1 \in E)
  /\ t \in Nat /\ b <= t /\ t \in E /\ \A e \in b .. t - 1 : e \notin E

\* What a read adds to what is due runs in the shell that made it.
LEMMA ReadRuns ==
  ASSUME NEW s, NEW E, NEW b, NEW t, IsRead(E, b, t), NEW i \in Nat
  PROVE  Runs(s, E, b, i) = Due(s, E, t, i) - Due(s, E, b - 1, i)
<1>0. /\ b \in Nat /\ b >= 1 /\ (b = 1 \/ b - 1 \in E)
      /\ t \in Nat /\ b <= t /\ t \in E /\ \A e \in b .. t - 1 : e \notin E
  BY DEF IsRead
<1>1. CASE i < b
  <2>1. Due(s, E, t, i) = Due(s, E, b - 1, i)
    BY <1>0, <1>1 DEF Due
  <2>2. Due(s, E, t, i) \in Nat
    BY <1>0, DueType
  <2>3. Runs(s, E, b, i) = 0
    BY <1>0, <1>1 DEF Runs
  <2>4. QED BY <1>0, <2>1, <2>2, <2>3
<1>2. CASE b <= i /\ i <= t
  <2>1. \A e \in b .. i - 1 : e \notin E
    BY <1>0, <1>2
  <2>2. Names(s, E, i) = {j \in b .. i - 1 : s[j] = "typo"}
    <3>1. ASSUME NEW j \in 1 .. i - 1, \A e \in j .. i - 1 : e \notin E PROVE j \in b .. i - 1
      <4>1. SUFFICES ASSUME j < b PROVE FALSE
        BY <1>0, <1>2
      <4>2. b - 1 \in j .. i - 1 /\ b - 1 \in E
        BY <1>0, <1>2, <3>1, <4>1
      <4>3. QED BY <1>0, <3>1, <4>2
    <3>2. ASSUME NEW j \in b .. i - 1 PROVE j \in 1 .. i - 1 /\ \A e \in j .. i - 1 : e \notin E
      BY <1>0, <2>1
    <3>3. QED BY <1>0, <3>1, <3>2 DEF Names
  <2>3. Runs(s, E, b, i) = 2 ^ Cardinality(Names(s, E, i))
    BY <1>0, <1>2, <2>1, <2>2 DEF Runs
  <2>4. Due(s, E, t, i) = 2 ^ Cardinality(Names(s, E, i)) /\ Due(s, E, b - 1, i) = 0
    BY <1>0, <1>2 DEF Due
  <2>5. Runs(s, E, b, i) \in Nat
    BY <1>0, RunsType
  <2>6. QED BY <1>0, <2>3, <2>4, <2>5
<1>3. CASE i > t
  <2>1. Due(s, E, t, i) = 0 /\ Due(s, E, b - 1, i) = 0
    BY <1>0, <1>3 DEF Due
  <2>2. t \in b .. i - 1
    BY <1>0, <1>3
  <2>3. Runs(s, E, b, i) = 0
    BY <1>0, <2>2 DEF Runs
  <2>4. QED BY <1>0, <2>1, <2>3
<1>4. QED BY <1>0, <1>1, <1>2, <1>3

LEMMA PendingType ==
  ASSUME NEW s, NEW E, NEW step, NEW h \in Nat, NEW i \in Nat
  PROVE  Pending(s, E, step, h, i) \in Nat
<1>1. Runs(s, E, h, i) \in Nat /\ After(s, E, h, i) \in Nat
  BY RunsType
<1>2. QED BY <1>1 DEF Pending

LEMMA ProcsFinite == IsFiniteSet(SH!Procs)
BY ShellAssumption, FS_Interval DEF SH!Procs

LEMMA AllPendingType ==
  ASSUME NEW s, NEW E, NEW steps, NEW hands \in [SH!Procs -> Nat], NEW i \in Nat
  PROVE  AllPending(s, E, steps, hands, i) \in Int
<1> DEFINE f == [p \in SH!Procs |-> Pending(s, E, steps[p], hands[p], i)]
<1>1. \A p \in SH!Procs : f[p] \in Int
  BY PendingType
<1>2. IsFiniteSet(SH!Procs)
  BY ProcsFinite
<1> HIDE DEF f
<1>3. QED BY <1>1, <1>2, SumType DEF AllPending, f

\* g is f but for the value v at p.
Differs(f, g, p, v) == \A q \in SH!Procs : g[q] = IF q = p THEN v ELSE f[q]

\* One process makes a step.
LEMMA OneStep ==
  ASSUME NEW s, NEW E, NEW steps, NEW hands \in [SH!Procs -> Nat], NEW i \in Nat,
         NEW p \in SH!Procs, NEW to, NEW h \in Nat, NEW steps1, NEW hands1,
         Differs(steps, steps1, p, to), Differs(hands, hands1, p, h)
  PROVE  AllPending(s, E, steps1, hands1, i) =
           AllPending(s, E, steps, hands, i) - Pending(s, E, steps[p], hands[p], i) + Pending(s, E, to, h, i)
<1> DEFINE f == [q \in SH!Procs |-> Pending(s, E, steps[q], hands[q], i)]
           e == [q \in SH!Procs |-> Pending(s, E, steps1[q], hands1[q], i)]
<1>1. IsFiniteSet(SH!Procs)
  BY ProcsFinite
<1>2. \A q \in SH!Procs : f[q] \in Int
  BY PendingType
<1>3. \A q \in SH!Procs : e[q] \in Int
  BY PendingType DEF Differs
<1>4. \A q \in SH!Procs \ {p} : f[q] = e[q]
  BY DEF Differs
<1>5. f[p] = Pending(s, E, steps[p], hands[p], i) /\ e[p] = Pending(s, E, to, h, i)
  BY DEF Differs
<1>6. AllPending(s, E, steps, hands, i) = SumFunctionOnSet(f, SH!Procs)
      /\ AllPending(s, E, steps1, hands1, i) = SumFunctionOnSet(e, SH!Procs)
  BY DEF AllPending
<1> HIDE DEF f, e
<1>7. SameBut(f, e, SH!Procs, p)
  BY <1>2, <1>3, <1>4 DEF SameBut
<1>8. SumFunctionOnSet(e, SH!Procs) = SumFunctionOnSet(f, SH!Procs) - f[p] + e[p]
  BY <1>1, <1>7, SumChange
<1>9. QED BY <1>5, <1>6, <1>8

\* The directory changes with a cd and stays with any other line.
LEMMA PlaceStep ==
  ASSUME NEW n \in Nat, n >= 1
  PROVE  SH!Place(n + 1) = IF script[n] = "cd" THEN n ELSE SH!Place(n)
<1> DEFINE C(m) == {0} \cup {j \in 1 .. m - 1 : script[j] = "cd"}
<1>1. CASE script[n] = "cd"
  <2>1. n \in C(n + 1) /\ \A x \in C(n + 1) : x \in Nat /\ x <= n
    BY <1>1
  <2> HIDE DEF C
  <2>2. SH!Max(C(n + 1)) = n
    BY <2>1 DEF SH!Max
  <2>3. QED BY <1>1, <2>2 DEF SH!Place, C
<1>2. CASE script[n] # "cd"
  <2>1. C(n + 1) = C(n)
    BY <1>2
  <2>2. QED BY <1>2, <2>1 DEF SH!Place
<1>3. QED BY <1>1, <1>2

LEMMA PlaceFirst == SH!Place(1) = 0
<1>1. {0} \cup {j \in 1 .. 1 - 1 : script[j] = "cd"} = {0}
  OBVIOUS
<1>2. SH!Max({0}) = 0
  BY DEF SH!Max
<1>3. QED BY <1>1, <1>2 DEF SH!Place

\* What the steps of one process change, and those of two.
Steps1(p, to, h) ==
  /\ does[p] # "unused" /\ UNCHANGED <<script, ends>>
  /\ \A q \in SH!Procs : does'[q] = IF q = p THEN to ELSE does[q]
  /\ \A q \in SH!Procs : hand'[q] = IF q = p THEN h ELSE hand[q]

Steps2(p, to, c, to2, h) ==
  /\ p # c /\ c \in SH!Procs /\ UNCHANGED <<script, ends, runs, broken>>
  /\ \A q \in SH!Procs : does'[q] = IF q = c THEN to2 ELSE IF q = p THEN to ELSE does[q]
  /\ \A q \in SH!Procs : hand'[q] = IF q = c THEN h ELSE hand[q]

LEMMA EachStep ==
  ASSUME ShellInv, NEW p \in SH!Procs
  PROVE  /\ SH!ReadLine(p) => Steps1(p, "run", SH!NextLine(p))
         /\ SH!ReadEnd(p) => Steps1(p, "zombie", hand[p])
         /\ SH!BuiltIn(p) => Steps1(p, "read", hand[p])
         /\ SH!Crash(p) \/ SH!ForkFails(p) \/ SH!CommandEnds(p) => Steps1(p, "zombie", hand[p])
         /\ SH!Exec(p) => Steps1(p, IF SH!Line(p) = "typo" THEN "read" ELSE "command", hand[p])
<1> USE DEF ShellInv, ShellTypes, SH!Goto, SH!Exit, SH!Input, Steps1
<1>1. SH!ReadLine(p) => Steps1(p, "run", SH!NextLine(p))
  BY DEF SH!ReadLine
<1>2. SH!ReadEnd(p) => Steps1(p, "zombie", hand[p])
  BY DEF SH!ReadEnd
<1>3. SH!BuiltIn(p) => Steps1(p, "read", hand[p])
  BY DEF SH!BuiltIn
<1>4. SH!Crash(p) \/ SH!ForkFails(p) \/ SH!CommandEnds(p) => Steps1(p, "zombie", hand[p])
  BY DEF SH!Crash, SH!ForkFails, SH!CommandEnds
<1>5. SH!Exec(p) => Steps1(p, IF SH!Line(p) = "typo" THEN "read" ELSE "command", hand[p])
  BY DEF SH!Exec
<1>6. QED BY <1>1, <1>2, <1>3, <1>4, <1>5

LEMMA ForkSteps ==
  ASSUME ShellInv, NEW p \in SH!Procs, SH!Fork(p)
  PROVE  \E c \in SH!Procs :
           /\ does[c] = "unused" /\ does[p] = "run" /\ Steps2(p, "wait", c, "exec", hand[p])
           /\ SH!Line(p) \in {"command", "typo"} /\ taken' = taken
           /\ parent' = [parent EXCEPT ![c] = p] /\ cwd' = [cwd EXCEPT ![c] = cwd[p]]
<1> DEFINE c == CHOOSE q \in SH!Procs : SH!Unused(q)
<1>1. does[p] = "run" /\ SH!Line(p) \in {"command", "typo"}
  BY DEF SH!Fork
<1>2. c \in SH!Procs /\ SH!Unused(c)
  BY <1>1, SomeUnused
<1>3. /\ does' = [does EXCEPT ![p] = "wait", ![c] = "exec"]
      /\ parent' = [parent EXCEPT ![c] = p] /\ hand' = [hand EXCEPT ![c] = hand[p]]
      /\ cwd' = [cwd EXCEPT ![c] = cwd[p]] /\ UNCHANGED <<script, ends, taken, runs, broken>>
  BY DEF SH!Fork, SH!Input
<1> HIDE DEF c
<1>4. does[c] = "unused" /\ p # c
  BY <1>1, <1>2 DEF SH!Unused
<1>5. Steps2(p, "wait", c, "exec", hand[p])
  BY <1>2, <1>3, <1>4 DEF Steps2, ShellInv, ShellTypes
<1>6. QED BY <1>1, <1>2, <1>3, <1>4, <1>5

LEMMA WaitSteps ==
  ASSUME ShellInv, NEW p \in SH!Procs, SH!Wait(p)
  PROVE  \E c \in SH!Procs :
           /\ does[c] = "zombie" /\ does[p] = "wait" /\ Steps2(p, "read", c, "unused", hand[c])
           /\ c # SH!First /\ parent[c] = p /\ UNCHANGED <<taken, cwd, parent>>
<1>1. PICK c \in SH!Procs :
        /\ parent[c] = p /\ c # SH!First /\ does[c] = "zombie"
        /\ does' = [does EXCEPT ![p] = "read", ![c] = "unused"]
  BY DEF SH!Wait
<1>2. does[p] = "wait" /\ UNCHANGED <<script, ends, taken, hand, cwd, parent, runs, broken>>
  BY DEF SH!Wait, SH!Input
<1>3. Steps2(p, "read", c, "unused", hand[c])
  BY <1>1, <1>2 DEF Steps2, ShellInv, ShellTypes
<1>4. QED BY <1>1, <1>2, <1>3

LEMMA LineStays == ShellInv /\ LineInv /\ [SH!Next]_(SH!vars) => LineInv'
<1> SUFFICES ASSUME ShellInv, LineInv, [SH!Next]_(SH!vars) PROVE LineInv'
  OBVIOUS
<1> USE DEF LineInv, SH!Line
<1>1. ASSUME NEW p \in SH!Procs, NEW to \in {"read", "run", "zombie"}, NEW h, Steps1(p, to, h)
      PROVE  LineInv'
  BY <1>1 DEF Steps1
<1>2. ASSUME NEW p \in SH!Procs, SH!Exec(p) PROVE LineInv'
  <2>1. does[p] = "exec"
    BY <1>2 DEF SH!Exec, SH!Goto
  <2>2. Steps1(p, IF SH!Line(p) = "typo" THEN "read" ELSE "command", hand[p])
    BY <1>2, EachStep
  <2>3. QED BY <2>1, <2>2 DEF Steps1
<1>3. ASSUME NEW p \in SH!Procs, SH!Fork(p) PROVE LineInv'
  <2>1. PICK c \in SH!Procs :
          Steps2(p, "wait", c, "exec", hand[p]) /\ SH!Line(p) \in {"command", "typo"}
    BY <1>3, ForkSteps
  <2>2. QED BY <2>1 DEF Steps2
<1>4. ASSUME NEW p \in SH!Procs, SH!Wait(p) PROVE LineInv'
  <2>1. PICK c \in SH!Procs : Steps2(p, "read", c, "unused", hand[c])
    BY <1>4, WaitSteps
  <2>2. QED BY <2>1 DEF Steps2
<1>5. CASE UNCHANGED SH!vars
  BY <1>5 DEF SH!vars
<1>6. QED BY <1>1, <1>2, <1>3, <1>4, <1>5, EachStep DEF SH!Next, SH!process

\* No step gives a line back or mends what is broken.
LEMMA TakenGrows ==
  ASSUME ShellInv, ShellInv', SH!Next
  PROVE  /\ script' = script /\ ends' = ends /\ taken \in Nat /\ taken' \in Nat
         /\ taken <= taken' /\ taken' <= Len(script) /\ Len(script) \in Nat
         /\ SH!Abandoned => SH!Abandoned'
<1>1. PICK p \in SH!Procs : SH!process(p)
  BY DEF SH!Next
<1>2. script' = script /\ ends' = ends /\ (broken => broken')
  <2>1. script' = script /\ ends' = ends /\ (broken' = broken \/ broken' = TRUE)
    BY <1>1 DEF SH!process, SH!ReadLine, SH!ReadEnd, SH!BuiltIn, SH!Crash, SH!Fork, SH!ForkFails,
                SH!Exec, SH!CommandEnds, SH!Wait, SH!Input
  <2>2. QED BY <2>1
<1>3. /\ taken \in Nat /\ taken' \in Nat /\ Len(script) \in Nat /\ taken' <= Len(script)
  BY <1>2 DEF ShellInv, ShellTypes, InputInv
<1>4. taken <= taken'
  <2>1. CASE SH!ReadLine(p)
    <3>1. /\ does[p] = "read" /\ SH!NextLine(p) <= Len(script)
          /\ taken' = IF SH!InBuffer(p) THEN taken ELSE SH!ReadTo(SH!NextLine(p))
      BY <2>1 DEF SH!ReadLine, SH!Goto
    <3>2. ASSUME ~SH!InBuffer(p) PROVE taken + 1 <= taken'
      BY <3>1, <3>2, FromInput
    <3>3. QED BY <1>3, <3>1, <3>2
  <2>2. CASE SH!ReadEnd(p)
    <3>1. /\ does[p] = "read"
          /\ taken' = IF SH!NextLine(p) <= Len(script) THEN SH!NextLine(p) ELSE taken
          /\ SH!NextLine(p) <= Len(script) => script[SH!NextLine(p)] = "eof"
      BY <2>2 DEF SH!ReadEnd, SH!Exit, SH!Goto
    <3>2. CASE SH!InBuffer(p)
      <4>1. /\ hand[p] + 1 = SH!NextLine(p) /\ hand[p] + 1 \in DOMAIN script
            /\ script[hand[p] + 1] # "eof"
        BY <3>1, <3>2, FromBuffer
      <4>2. hand[p] + 1 <= Len(script)
        BY <4>1 DEF ShellInv, ShellTypes
      <4>3. QED BY <3>1, <4>1, <4>2
    <3>3. CASE ~SH!InBuffer(p)
      BY <1>3, <3>1, <3>3, FromInput
    <3>4. QED BY <3>2, <3>3
  <2>3. CASE ~SH!ReadLine(p) /\ ~SH!ReadEnd(p)
    <3>1. taken' = taken
      BY <1>1, <2>3 DEF SH!process, SH!BuiltIn, SH!Crash, SH!Fork, SH!ForkFails,
                        SH!Exec, SH!CommandEnds, SH!Wait
    <3>2. QED BY <1>3, <3>1
  <2>4. QED BY <2>1, <2>2, <2>3
<1>5. SH!Abandoned => SH!Abandoned'
  BY <1>2, <1>3, <1>4 DEF SH!Abandoned
<1>6. QED BY <1>2, <1>3, <1>4, <1>5

\* A shell that ends before the input leaves it abandoned; the others end when
\* all of it has been read.
LEMMA EndsAbandoned ==
  ASSUME ShellInv, NEW p \in SH!Procs, taken' >= taken, taken' \in Nat
  PROVE  /\ SH!Crash(p) \/ SH!ForkFails(p) => SH!Abandoned'
         /\ SH!ReadEnd(p) => SH!Abandoned' \/ (taken = Len(script) /\ taken' = taken)
<1>1. ASSUME SH!Crash(p) PROVE SH!Abandoned'
  <2>1. does[p] = "run" /\ script[hand[p]] = "blank" /\ script' = script
    BY <1>1 DEF SH!Crash, SH!Exit, SH!Goto, SH!Line, SH!Input
  <2>2. hand[p] \in 1 .. Len(script) /\ hand[p] <= taken /\ taken \in Nat /\ Len(script) \in Nat
    BY <2>1 DEF ShellInv, ShellTypes, HandInv
  <2>3. hand[p] \in 1 .. taken'
    BY <2>2
  <2>4. QED BY <2>1, <2>3 DEF SH!Abandoned
<1>2. ASSUME SH!ForkFails(p) PROVE SH!Abandoned'
  BY <1>2 DEF SH!ForkFails, SH!Abandoned
<1>3. ASSUME SH!ReadEnd(p) PROVE SH!Abandoned' \/ (taken = Len(script) /\ taken' = taken)
  <2> DEFINE n == SH!NextLine(p)
  <2>1. /\ does[p] = "read" /\ taken' = (IF n <= Len(script) THEN n ELSE taken)
        /\ script' = script /\ (n <= Len(script) => script[n] = "eof")
    BY <1>3 DEF SH!ReadEnd, SH!Exit, SH!Goto, SH!Input
  <2>2. CASE SH!InBuffer(p)
    <3>1. n = hand[p] + 1 /\ n \in DOMAIN script /\ script[n] # "eof"
      BY <2>1, <2>2, FromBuffer
    <3>2. n <= Len(script)
      BY <3>1 DEF ShellInv, ShellTypes
    <3>3. QED BY <2>1, <3>1, <3>2
  <2>3. CASE ~SH!InBuffer(p)
    <3>1. n = taken + 1 /\ taken \in Nat /\ Len(script) \in Nat /\ taken <= Len(script)
      <4>1. taken <= Len(script)
        BY DEF ShellInv, InputInv
      <4>2. QED BY <2>1, <2>3, <4>1, FromInput
    <3> HIDE DEF n
    <3>2. CASE n <= Len(script)
      <4>1. taken' = n /\ n \in 1 .. taken' /\ script'[n] = "eof"
        BY <2>1, <3>1, <3>2
      <4>2. QED BY <4>1 DEF SH!Abandoned
    <3>3. CASE ~(n <= Len(script))
      BY <2>1, <3>1, <3>3
    <3>4. QED BY <3>2, <3>3
  <2>4. QED BY <2>2, <2>3
<1>4. QED BY <1>1, <1>2, <1>3

LEMMA ChildStays == ShellInv /\ ChildInv /\ [SH!Next]_(SH!vars) => ChildInv'
<1> SUFFICES ASSUME ShellInv, ChildInv, [SH!Next]_(SH!vars) PROVE ChildInv'
  OBVIOUS
<1>0. /\ \A p, q \in SH!Procs : Active(p) /\ Active(q) => p = q
      /\ does[SH!First] # "unused" /\ \A p \in SH!Procs : parent[p] \in SH!Procs
      /\ parent \in [SH!Procs -> SH!Procs]
  BY DEF ShellInv, ShellTypes, ActiveInv
<1> USE DEF Active
<1>1. ASSUME NEW p \in SH!Procs, Active(p), NEW to \in {"read", "run", "zombie"}, NEW h, Steps1(p, to, h)
      PROVE  ChildInv'
  <2>1. \A q \in SH!Procs : does'[q] \notin {"exec", "command"}
    BY <1>0, <1>1 DEF Steps1
  <2>2. QED BY <2>1 DEF ChildInv
<1>2. ASSUME NEW p \in SH!Procs, SH!Exec(p) PROVE ChildInv'
  <2>1. does[p] = "exec" /\ parent' = parent /\ hand' = hand
    BY <1>2 DEF SH!Exec, SH!Goto
  <2>2. Steps1(p, IF SH!Line(p) = "typo" THEN "read" ELSE "command", hand[p])
    BY <1>2, EachStep
  <2>3. \A q \in SH!Procs : does'[q] \in {"exec", "command"} => q = p
    BY <1>0, <2>1, <2>2 DEF Steps1
  <2>4. p # SH!First /\ hand[parent[p]] = hand[p]
    BY <2>1 DEF ChildInv
  <2>5. QED BY <2>1, <2>3, <2>4 DEF ChildInv
<1>3. ASSUME NEW p \in SH!Procs, SH!Fork(p) PROVE ChildInv'
  <2>1. PICK c \in SH!Procs :
          /\ does[c] = "unused" /\ does[p] = "run" /\ Steps2(p, "wait", c, "exec", hand[p])
          /\ parent' = [parent EXCEPT ![c] = p]
    BY <1>3, ForkSteps
  <2>2. \A q \in SH!Procs : does'[q] \in {"exec", "command"} => q = c
    BY <1>0, <2>1 DEF Steps2
  <2>3. c # SH!First /\ parent'[c] = p /\ hand'[p] = hand[p] /\ hand'[c] = hand[p]
    BY <1>0, <2>1 DEF Steps2
  <2>4. QED BY <2>2, <2>3 DEF ChildInv
<1>4. ASSUME NEW p \in SH!Procs, SH!Wait(p) PROVE ChildInv'
  <2>1. PICK c \in SH!Procs : does[c] = "zombie" /\ Steps2(p, "read", c, "unused", hand[c])
    BY <1>4, WaitSteps
  <2>2. \A q \in SH!Procs : does'[q] \notin {"exec", "command"}
    BY <1>0, <2>1 DEF Steps2
  <2>3. QED BY <2>2 DEF ChildInv
<1>5. ASSUME NEW p \in SH!Procs,
             \/ SH!ReadLine(p) \/ SH!ReadEnd(p) \/ SH!BuiltIn(p)
             \/ SH!Crash(p) \/ SH!ForkFails(p) \/ SH!CommandEnds(p)
      PROVE  ChildInv'
  <2>1. Active(p)
    BY <1>5 DEF SH!ReadLine, SH!ReadEnd, SH!BuiltIn, SH!Crash, SH!ForkFails, SH!CommandEnds, SH!Goto, SH!Exit
  <2>2. \E to \in {"read", "run", "zombie"} : \E h : Steps1(p, to, h)
    BY <1>5, EachStep
  <2>3. QED BY <1>1, <2>1, <2>2
<1>6. CASE UNCHANGED SH!vars
  BY <1>6 DEF SH!vars, ChildInv
<1>7. QED BY <1>2, <1>3, <1>4, <1>5, <1>6 DEF SH!Next, SH!process

LEMMA LastStays ==
  ASSUME ShellInv, ShellInv', ChildInv, LastInv, SH!Next
  PROVE  LastInv'
<1> SUFFICES ASSUME ~SH!Abandoned', taken' < Len(script)', NEW q \in SH!Procs, Active(q)'
             PROVE  /\ Last(ends', hand'[q], taken')
                    /\ (does'[q] = "zombie" /\ q # SH!First => hand'[parent'[q]] = hand'[q])
  BY DEF LastInv
<1>1. /\ script' = script /\ ends' = ends /\ taken \in Nat /\ taken' \in Nat
      /\ taken <= taken' /\ Len(script) \in Nat /\ (SH!Abandoned => SH!Abandoned')
  BY TakenGrows
<1>2. ~SH!Abandoned /\ taken < Len(script)
  BY <1>1
<1>3. /\ \A p \in SH!Procs : Active(p) =>
           /\ Last(ends, hand[p], taken)
           /\ (does[p] = "zombie" /\ p # SH!First => hand[parent[p]] = hand[p])
      /\ \A p, r \in SH!Procs : Active(p) /\ Active(r) => p = r
      /\ \A p \in SH!Procs : hand[p] \in Nat /\ parent[p] \in SH!Procs
  BY <1>2 DEF LastInv, ShellInv, ShellTypes, ActiveInv
<1>4. ASSUME NEW p \in SH!Procs, SH!ReadLine(p) PROVE q = p /\ Last(ends', hand'[p], taken') /\ does'[p] = "run"
  <2>1. /\ does[p] = "read" /\ SH!NextLine(p) <= Len(script) /\ Steps1(p, "run", SH!NextLine(p))
        /\ taken' = IF SH!InBuffer(p) THEN taken ELSE SH!ReadTo(SH!NextLine(p))
    BY <1>4, EachStep DEF SH!ReadLine, SH!Goto
  <2>2. q = p /\ hand'[p] = SH!NextLine(p) /\ does'[p] = "run"
    BY <1>3, <2>1 DEF Steps1, Active
  <2>3. CASE SH!InBuffer(p)
    <3>1. SH!NextLine(p) = hand[p] + 1 /\ hand[p] \in Nat
      BY <2>1, <2>3, FromBuffer
    <3>2. Last(ends, hand[p], taken)
      BY <1>3, <2>1 DEF Active
    <3>3. Last(ends, hand[p] + 1, taken)
      BY <1>1, <3>1, <3>2 DEF Last
    <3>4. QED BY <1>1, <2>1, <2>2, <2>3, <3>1, <3>3
  <2>4. CASE ~SH!InBuffer(p)
    <3>1. SH!NextLine(p) = taken + 1 /\ SH!SameRead(taken + 1, taken')
      BY <2>1, <2>4, FromInput
    <3>2. \A e \in taken + 1 .. taken' - 1 : e \notin ends
      BY <3>1 DEF SH!SameRead
    <3>3. taken + 1 # 0
      BY <1>1
    <3>4. Last(ends, taken + 1, taken')
      BY <3>2, <3>3 DEF Last
    <3>5. QED BY <1>1, <2>2, <3>1, <3>4
  <2>5. QED BY <2>2, <2>3, <2>4
<1>5. ASSUME NEW p \in SH!Procs, SH!BuiltIn(p) \/ SH!Exec(p) \/ SH!CommandEnds(p)
      PROVE  /\ q = p /\ Last(ends', hand'[p], taken')
             /\ (does'[p] = "zombie" /\ p # SH!First => hand'[parent'[p]] = hand'[p])
  <2>1. /\ does[p] \in {"run", "exec", "command"} /\ taken' = taken /\ hand' = hand /\ parent' = parent
    BY <1>5 DEF SH!BuiltIn, SH!Exec, SH!CommandEnds, SH!Goto, SH!Exit
  <2>2. PICK to \in {"read", "command", "zombie"} : Steps1(p, to, hand[p])
    BY <1>5, EachStep
  <2>3. q = p
    BY <1>3, <2>1, <2>2 DEF Steps1, Active
  <2>4. Last(ends, hand[p], taken)
    BY <1>3, <2>1 DEF Active
  <2>5. does'[p] = "zombie" => does[p] = "command"
    <3>1. CASE SH!CommandEnds(p)
      BY <3>1 DEF SH!CommandEnds, SH!Exit, SH!Goto
    <3>2. CASE SH!BuiltIn(p)
      <4>1. Steps1(p, "read", hand[p])
        BY <3>2, EachStep
      <4>2. QED BY <4>1 DEF Steps1
    <3>3. CASE SH!Exec(p)
      <4>1. Steps1(p, IF SH!Line(p) = "typo" THEN "read" ELSE "command", hand[p])
        BY <3>3, EachStep
      <4>2. QED BY <4>1 DEF Steps1
    <3>4. QED BY <1>5, <3>1, <3>2, <3>3
  <2>6. QED BY <1>1, <2>1, <2>3, <2>4, <2>5 DEF ChildInv
<1>6. ASSUME NEW p \in SH!Procs, SH!Fork(p)
      PROVE  Last(ends', hand'[q], taken') /\ does'[q] = "exec"
  <2>1. PICK c \in SH!Procs :
          /\ does[c] = "unused" /\ does[p] = "run" /\ Steps2(p, "wait", c, "exec", hand[p])
          /\ taken' = taken
    BY <1>6, ForkSteps
  <2>2. q = c /\ hand'[c] = hand[p] /\ does'[c] = "exec"
    BY <1>3, <2>1 DEF Steps2, Active
  <2>3. Last(ends, hand[p], taken)
    BY <1>3, <2>1 DEF Active
  <2>4. QED BY <1>1, <2>1, <2>2, <2>3
<1>7. ASSUME NEW p \in SH!Procs, SH!Wait(p)
      PROVE  Last(ends', hand'[q], taken') /\ does'[q] = "read"
  <2>1. PICK c \in SH!Procs :
          /\ does[c] = "zombie" /\ does[p] = "wait" /\ Steps2(p, "read", c, "unused", hand[c])
          /\ c # SH!First /\ parent[c] = p /\ taken' = taken
    BY <1>7, WaitSteps
  <2>2. q = p /\ hand'[p] = hand[p] /\ does'[p] = "read"
    BY <1>3, <2>1 DEF Steps2, Active
  <2>3. Last(ends, hand[c], taken) /\ hand[p] = hand[c]
    BY <1>3, <2>1 DEF Active
  <2>4. QED BY <1>1, <2>1, <2>2, <2>3
<1>8. PICK p \in SH!Procs : SH!process(p)
  BY DEF SH!Next
<1>9. ~SH!Crash(p) /\ ~SH!ForkFails(p) /\ ~SH!ReadEnd(p)
  <2>1. SH!ReadEnd(p) => taken' = Len(script)
    BY <1>1, <1>8, EndsAbandoned
  <2>2. ~(taken' = Len(script))
    BY <1>1
  <2>3. QED BY <1>1, <2>1, <2>2, EndsAbandoned
<1>10. QED BY <1>4, <1>5, <1>6, <1>7, <1>8, <1>9 DEF SH!process

LEMMA EndStays ==
  ASSUME ShellInv, ShellInv', ChildInv, EndInv, SH!Next
  PROVE  EndInv'
<1> SUFFICES ASSUME ~SH!Abandoned', does'[SH!First] = "zombie" PROVE taken' = Len(script')
  BY DEF EndInv
<1>1. /\ script' = script /\ taken \in Nat /\ taken' \in Nat /\ taken <= taken'
      /\ taken' <= Len(script) /\ Len(script) \in Nat /\ (SH!Abandoned => SH!Abandoned')
  BY TakenGrows
<1>2. CASE does[SH!First] = "zombie"
  BY <1>1, <1>2 DEF EndInv
<1>3. CASE does[SH!First] # "zombie"
  <2>1. PICK p \in SH!Procs : SH!process(p)
    BY DEF SH!Next
  <2>2. ASSUME NEW to, to # "zombie", NEW h, Steps1(p, to, h) PROVE FALSE
    BY <1>3, <2>2, FirstIs DEF Steps1
  <2>3. ASSUME NEW to, to # "zombie", NEW c, NEW to2, to2 # "zombie", NEW h, Steps2(p, to, c, to2, h)
        PROVE FALSE
    BY <1>3, <2>3, FirstIs DEF Steps2
  <2>4. CASE SH!ReadLine(p) \/ SH!BuiltIn(p) \/ SH!Exec(p)
    <3>1. \E to \in {"read", "run", "command"} : \E h : Steps1(p, to, h)
      BY <2>4, EachStep
    <3>2. QED BY <2>2, <3>1
  <2>5. CASE SH!Fork(p)
    <3>1. PICK c \in SH!Procs : Steps2(p, "wait", c, "exec", hand[p])
      BY <2>5, ForkSteps
    <3>2. QED BY <2>3, <3>1
  <2>6. CASE SH!Wait(p)
    <3>1. PICK c \in SH!Procs : Steps2(p, "read", c, "unused", hand[c])
      BY <2>6, WaitSteps
    <3>2. QED BY <2>3, <3>1
  <2>7. CASE SH!Crash(p) \/ SH!ForkFails(p) \/ SH!ReadEnd(p)
    BY <1>1, <2>7, EndsAbandoned
  <2>8. CASE SH!CommandEnds(p)
    <3>1. does[p] = "command" /\ Steps1(p, "zombie", hand[p])
      BY <2>8, EachStep DEF SH!CommandEnds, SH!Exit, SH!Goto
    <3>2. p # SH!First
      BY <3>1 DEF ChildInv
    <3>3. QED BY <1>3, <3>1, <3>2, FirstIs DEF Steps1
  <2>9. QED BY <2>1, <2>4, <2>5, <2>6, <2>7, <2>8 DEF SH!process
<1>4. QED BY <1>2, <1>3

\* A cd leads to a new place, and no other line does.
LEMMA CwdStays ==
  ASSUME ShellInv, ShellInv', LineInv, LastInv, CwdInv, SH!Next
  PROVE  CwdInv'
<1> DEFINE Right ==
      \A p \in SH!Procs :
        /\ does[p] \in {"run", "wait", "exec", "command"} => cwd[p] = SH!Place(hand[p])
        /\ does[p] = "read" => cwd[p] = SH!Place(hand[p] + 1)
<1> SUFFICES ASSUME ~SH!Abandoned' PROVE Right'
  BY DEF CwdInv
<1>0. /\ script' = script /\ ~SH!Abandoned /\ Right /\ cwd \in [SH!Procs -> Nat]
      /\ \A p \in SH!Procs : hand[p] \in Nat
      /\ \A p \in SH!Procs : does[p] \in {"run", "wait", "exec", "command"} => hand[p] >= 1
  <2>1. script' = script /\ ~SH!Abandoned
    BY TakenGrows
  <2>2. QED BY <2>1 DEF CwdInv, ShellInv, ShellTypes, HandInv
<1>00. \A n : SH!Place(n)' = SH!Place(n)
  BY <1>0 DEF SH!Place
<1>1. ASSUME NEW p \in SH!Procs, SH!ReadLine(p) PROVE Right'
  <2>1. does[p] = "read" /\ cwd' = cwd /\ SH!NextLine(p) <= Len(script) /\ Steps1(p, "run", SH!NextLine(p))
    BY <1>1, EachStep DEF SH!ReadLine, SH!Goto
  <2>2. SH!NextLine(p) = hand[p] + 1
    <3>1. CASE SH!InBuffer(p)
      BY <2>1, <3>1, FromBuffer
    <3>2. CASE ~SH!InBuffer(p)
      <4>1. /\ SH!NextLine(p) = taken + 1 /\ taken \in Nat /\ Len(script) \in Nat
            /\ hand[p] \in Nat /\ hand[p] <= taken /\ (hand[p] = 0 \/ hand[p] \in ends)
        BY <2>1, <3>2, FromInput
      <4>2. Last(ends, hand[p], taken)
        BY <1>0, <2>1, <4>1 DEF LastInv, Active
      <4>3. hand[p] = taken
        BY <4>1, <4>2 DEF Last
      <4>4. QED BY <4>1, <4>3
    <3>3. QED BY <3>1, <3>2
  <2>3. QED BY <1>0, <1>00, <2>1, <2>2 DEF Steps1
<1>2. ASSUME NEW p \in SH!Procs, SH!BuiltIn(p) PROVE Right'
  <2>1. /\ does[p] = "run" /\ cwd' = [cwd EXCEPT ![p] = IF SH!Line(p) = "cd" THEN hand[p] ELSE @]
        /\ Steps1(p, "read", hand[p])
    BY <1>2, EachStep DEF SH!BuiltIn, SH!Goto
  <2>2. cwd'[p] = SH!Place(hand[p] + 1)
    <3>1. hand[p] \in Nat /\ hand[p] >= 1 /\ cwd[p] = SH!Place(hand[p])
      BY <1>0, <2>1
    <3>2. QED BY <1>0, <2>1, <3>1, PlaceStep DEF SH!Line
  <2>3. QED BY <1>0, <1>00, <2>1, <2>2 DEF Steps1
<1>3. ASSUME NEW p \in SH!Procs,
             SH!ReadEnd(p) \/ SH!Crash(p) \/ SH!ForkFails(p) \/ SH!CommandEnds(p)
      PROVE  Right'
  <2>1. cwd' = cwd
    BY <1>3 DEF SH!ReadEnd, SH!Crash, SH!ForkFails, SH!CommandEnds
  <2>2. Steps1(p, "zombie", hand[p])
    BY <1>3, EachStep
  <2>3. QED BY <1>0, <1>00, <2>1, <2>2 DEF Steps1
<1>4. ASSUME NEW p \in SH!Procs, SH!Exec(p) PROVE Right'
  <2>1. does[p] = "exec" /\ cwd' = cwd
    BY <1>4 DEF SH!Exec, SH!Goto
  <2>2. PICK to \in {"read", "command"} : Steps1(p, to, hand[p])
    BY <1>4, EachStep
  <2>3. SH!Place(hand[p] + 1) = SH!Place(hand[p])
    <3>1. hand[p] \in Nat /\ hand[p] >= 1 /\ script[hand[p]] # "cd"
      BY <1>0, <2>1 DEF LineInv, SH!Line
    <3>2. QED BY <3>1, PlaceStep
  <2>4. QED BY <1>0, <1>00, <2>1, <2>2, <2>3 DEF Steps1
<1>5. ASSUME NEW p \in SH!Procs, SH!Fork(p) PROVE Right'
  <2>1. PICK c \in SH!Procs : /\ does[p] = "run" /\ Steps2(p, "wait", c, "exec", hand[p])
                              /\ cwd' = [cwd EXCEPT ![c] = cwd[p]]
    BY <1>5, ForkSteps
  <2>2. QED BY <1>0, <1>00, <2>1 DEF Steps2
<1>6. ASSUME NEW p \in SH!Procs, SH!Wait(p) PROVE Right'
  <2>1. PICK c \in SH!Procs : /\ does[p] = "wait" /\ Steps2(p, "read", c, "unused", hand[c])
                              /\ cwd' = cwd
    BY <1>6, WaitSteps
  <2>2. SH!Place(hand[p] + 1) = SH!Place(hand[p])
    <3>1. hand[p] \in Nat /\ hand[p] >= 1 /\ script[hand[p]] # "cd"
      BY <1>0, <2>1 DEF LineInv, SH!Line
    <3>2. QED BY <3>1, PlaceStep
  <2>3. QED BY <1>0, <1>00, <2>1, <2>2 DEF Steps2
<1>7. QED BY <1>1, <1>2, <1>3, <1>4, <1>5, <1>6 DEF SH!Next, SH!process

\* A step that leaves what has run and what is pending in balance with what is
\* due: it may lose something only if the line is not one that is run, or if a
\* fork fails.
Gain(i) == Due(script, ends, taken', i) - Due(script, ends, taken, i)

Balances(i) ==
  /\ runs'[i] \in Nat /\ runs[i] \in Nat
  /\ runs'[i] + AllPending(script, ends, does', hand', i) <=
       runs[i] + AllPending(script, ends, does, hand, i) + Gain(i)
  /\ ~broken' /\ SH!Reached(i) =>
       /\ ~broken
       /\ runs'[i] + AllPending(script, ends, does', hand', i) =
            runs[i] + AllPending(script, ends, does, hand, i) + Gain(i)

\* The same of a step that takes no line.
Levels(i) ==
  /\ runs'[i] \in Nat /\ runs[i] \in Nat
  /\ runs'[i] + AllPending(script, ends, does', hand', i) <=
       runs[i] + AllPending(script, ends, does, hand, i)
  /\ ~broken' /\ SH!Reached(i) =>
       /\ ~broken
       /\ runs'[i] + AllPending(script, ends, does', hand', i) =
            runs[i] + AllPending(script, ends, does, hand, i)

LEMMA BalanceStays ==
  ASSUME CountInv, ShellInv, ShellInv', script' = script, ends' = ends,
         \A i \in DOMAIN script : Balances(i)
  PROVE  CountInv'
<1>1. ASSUME NEW i \in DOMAIN script
      PROVE  /\ runs'[i] + AllPending(script, ends, does', hand', i) <= Due(script, ends, taken', i)
             /\ ~broken' /\ SH!Reached(i) =>
                  runs'[i] + AllPending(script, ends, does', hand', i) = Due(script, ends, taken', i)
  <2>1. i \in Nat /\ hand \in [SH!Procs -> Nat] /\ hand' \in [SH!Procs -> Nat]
        /\ taken \in Nat /\ taken' \in Nat
    BY DEF ShellInv, ShellTypes
  <2>2. /\ AllPending(script, ends, does', hand', i) \in Int /\ AllPending(script, ends, does, hand, i) \in Int
        /\ Due(script, ends, taken, i) \in Nat /\ Due(script, ends, taken', i) \in Nat
    BY <2>1, AllPendingType, DueType
  <2>3. Balances(i) /\ runs[i] + AllPending(script, ends, does, hand, i) <= Due(script, ends, taken, i)
        /\ (~broken /\ SH!Reached(i) =>
              runs[i] + AllPending(script, ends, does, hand, i) = Due(script, ends, taken, i))
    BY DEF CountInv
  <2>4. QED BY <2>2, <2>3 DEF Balances, Gain
<1>2. \A i : SH!Reached(i)' <=> SH!Reached(i)
  BY DEF SH!Reached, SH!SameRead
<1>3. QED BY <1>1, <1>2 DEF CountInv

LEMMA PendingAfter ==
  ASSUME ShellInv, NEW p \in SH!Procs, NEW to, NEW h \in Nat, Steps1(p, to, h), NEW i \in DOMAIN script
  PROVE  /\ i \in Nat /\ hand[p] \in Nat /\ runs[i] \in Nat
         /\ Pending(script, ends, does[p], hand[p], i) \in Nat /\ Pending(script, ends, to, h, i) \in Nat
         /\ AllPending(script, ends, does, hand, i) \in Int
         /\ AllPending(script, ends, does', hand', i) =
              AllPending(script, ends, does, hand, i) - Pending(script, ends, does[p], hand[p], i)
                + Pending(script, ends, to, h, i)
<1>1. i \in Nat /\ hand \in [SH!Procs -> Nat] /\ hand[p] \in Nat /\ runs[i] \in Nat
  BY DEF ShellInv, ShellTypes
<1>2. Pending(script, ends, does[p], hand[p], i) \in Nat /\ Pending(script, ends, to, h, i) \in Nat
  BY <1>1, PendingType
<1>3. AllPending(script, ends, does, hand, i) \in Int
  BY <1>1, AllPendingType
<1>4. Differs(does, does', p, to) /\ Differs(hand, hand', p, h)
  BY DEF Steps1, Differs
<1>5. AllPending(script, ends, does', hand', i) =
        AllPending(script, ends, does, hand, i) - Pending(script, ends, does[p], hand[p], i)
          + Pending(script, ends, to, h, i)
  BY <1>1, <1>4, OneStep
<1>6. QED BY <1>1, <1>2, <1>3, <1>5

\* Two processes change: the one that forked and then its child, or the one
\* that waited and then its child.
LEMMA PendingAfter2 ==
  ASSUME ShellInv, NEW p \in SH!Procs, NEW to, NEW c \in SH!Procs, NEW to2, NEW h \in Nat,
         Steps2(p, to, c, to2, h), NEW i \in DOMAIN script
  PROVE  /\ i \in Nat /\ hand[p] \in Nat /\ runs[i] \in Nat /\ runs' = runs /\ broken' = broken
         /\ \A q \in {p, c} : Pending(script, ends, does[q], hand[q], i) \in Nat
         /\ Pending(script, ends, to, hand[p], i) \in Nat /\ Pending(script, ends, to2, h, i) \in Nat
         /\ AllPending(script, ends, does, hand, i) \in Int
         /\ AllPending(script, ends, does', hand', i) =
              AllPending(script, ends, does, hand, i)
                - Pending(script, ends, does[p], hand[p], i) + Pending(script, ends, to, hand[p], i)
                - Pending(script, ends, does[c], hand[c], i) + Pending(script, ends, to2, h, i)
<1> DEFINE mid == [q \in SH!Procs |-> IF q = p THEN to ELSE does[q]]
<1>1. i \in Nat /\ hand \in [SH!Procs -> Nat] /\ runs[i] \in Nat
  BY DEF ShellInv, ShellTypes
<1>2. hand[p] \in Nat /\ hand[c] \in Nat /\ runs' = runs /\ broken' = broken /\ p # c
  BY <1>1 DEF Steps2
<1>3. /\ \A q \in {p, c} : Pending(script, ends, does[q], hand[q], i) \in Nat
      /\ Pending(script, ends, to, hand[p], i) \in Nat /\ Pending(script, ends, to2, h, i) \in Nat
  BY <1>1, <1>2, PendingType
<1>4. AllPending(script, ends, does, hand, i) \in Int /\ AllPending(script, ends, mid, hand, i) \in Int
  BY <1>1, AllPendingType
<1>5. AllPending(script, ends, mid, hand, i) =
        AllPending(script, ends, does, hand, i) - Pending(script, ends, does[p], hand[p], i)
          + Pending(script, ends, to, hand[p], i)
  <2>1. Differs(does, mid, p, to) /\ Differs(hand, hand, p, hand[p])
    BY DEF Differs
  <2> HIDE DEF mid
  <2>2. QED BY <1>1, <1>2, <2>1, OneStep
<1>6. AllPending(script, ends, does', hand', i) =
        AllPending(script, ends, mid, hand, i) - Pending(script, ends, mid[c], hand[c], i)
          + Pending(script, ends, to2, h, i)
  <2>1. Differs(mid, does', c, to2) /\ Differs(hand, hand', c, h)
    BY DEF Steps2, Differs
  <2> HIDE DEF mid
  <2>2. QED BY <1>1, <2>1, OneStep
<1>7. mid[c] = does[c]
  BY <1>2
<1> HIDE DEF mid
<1>8. QED BY <1>1, <1>2, <1>3, <1>4, <1>5, <1>6, <1>7

\* Every step keeps the balance.
LEMMA StepBalances ==
  ASSUME ShellInv, ShellInv', LineInv, NEW p \in SH!Procs, SH!process(p), NEW i \in DOMAIN script
  PROVE  Balances(i)
<1>0. /\ hand[p] \in Nat /\ i \in 1 .. Len(script) /\ i \in Nat /\ i >= 1 /\ runs[i] \in Nat
      /\ Len(script) \in Nat /\ taken \in Nat /\ taken' \in Nat
      /\ does[p] \in {"run", "wait", "exec", "command"} => hand[p] # 0
      /\ Runs(script, ends, hand[p], i) \in Nat /\ After(script, ends, hand[p], i) \in Nat
  <2>1. hand[p] \in Nat /\ i \in Nat
    BY DEF ShellInv, ShellTypes
  <2>2. Runs(script, ends, hand[p], i) \in Nat /\ After(script, ends, hand[p], i) \in Nat
    BY <2>1, RunsType
  <2>3. QED BY <2>1, <2>2 DEF ShellInv, ShellTypes, HandInv
<1>a. Due(script, ends, taken, i) \in Nat /\ Due(script, ends, taken', i) \in Nat
  BY <1>0, DueType
<1>b. /\ AllPending(script, ends, does, hand, i) \in Int
      /\ AllPending(script, ends, does', hand', i) \in Int
  BY <1>0, AllPendingType DEF ShellInv, ShellTypes
<1>c. ASSUME taken' = taken, Levels(i) PROVE Balances(i)
  <2>1. Gain(i) = 0
    BY <1>a, <1>c DEF Gain
  <2>2. QED BY <1>b, <1>c, <2>1 DEF Balances, Levels
<1> DEFINE h == hand[p]
<1>1. CASE SH!ReadLine(p)
  <2> DEFINE n == SH!NextLine(p)
  <2>1. /\ does[p] = "read" /\ Steps1(p, "run", n) /\ runs' = runs /\ broken' = broken
        /\ n <= Len(script) /\ taken' = IF SH!InBuffer(p) THEN taken ELSE SH!ReadTo(n)
    BY <1>1, EachStep DEF SH!ReadLine, SH!Goto
  <2>2. n \in Nat /\ Runs(script, ends, n, i) = After(script, ends, h, i) + Gain(i)
    <3>1. CASE SH!InBuffer(p)
      <4>1. n = h + 1 /\ h # 0 /\ h \notin ends
        BY <2>1, <3>1, FromBuffer
      <4>2. Runs(script, ends, n, i) = After(script, ends, h, i)
        BY <4>1 DEF After
      <4>3. Gain(i) = 0
        BY <1>a, <2>1, <3>1 DEF Gain
      <4>4. QED BY <1>0, <4>1, <4>2, <4>3
    <3>2. CASE ~SH!InBuffer(p)
      <4>1. /\ n = taken + 1 /\ (h = 0 \/ h \in ends) /\ taken' \in ends /\ n <= taken'
            /\ SH!SameRead(taken + 1, taken')
        BY <2>1, <3>2, FromInput
      <4>2. After(script, ends, h, i) = 0
        BY <4>1 DEF After
      <4>3. n \in Nat /\ n >= 1 /\ n - 1 = taken /\ (n = 1 \/ n - 1 \in ends)
        <5>1. taken # 0 => taken \in ends
          BY DEF ShellInv, InputInv
        <5>2. QED BY <1>0, <4>1, <5>1
      <4>4. IsRead(ends, n, taken')
        <5>1. \A e \in n .. taken' - 1 : e \notin ends
          BY <4>1 DEF SH!SameRead
        <5>2. QED BY <1>0, <4>1, <4>3, <5>1 DEF IsRead
      <4> HIDE DEF n
      <4>5. Runs(script, ends, n, i) = Due(script, ends, taken', i) - Due(script, ends, n - 1, i)
        BY <1>0, <4>4, ReadRuns
      <4>6. Runs(script, ends, n, i) = Gain(i)
        BY <4>3, <4>5 DEF Gain
      <4>7. QED BY <1>a, <4>2, <4>3, <4>6 DEF Gain
    <3>3. QED BY <3>1, <3>2
  <2>3. /\ Pending(script, ends, does[p], hand[p], i) = After(script, ends, h, i)
        /\ Pending(script, ends, "run", n, i) = Runs(script, ends, n, i)
    BY <2>1 DEF Pending
  <2> HIDE DEF n
  <2>4. AllPending(script, ends, does', hand', i) =
          AllPending(script, ends, does, hand, i) - Pending(script, ends, does[p], hand[p], i)
            + Pending(script, ends, "run", n, i)
    BY <2>1, <2>2, PendingAfter
  <2>5. Gain(i) \in Int
    BY <1>a DEF Gain
  <2>6. AllPending(script, ends, does', hand', i) = AllPending(script, ends, does, hand, i) + Gain(i)
    BY <1>0, <1>b, <2>2, <2>3, <2>4, <2>5
  <2>7. QED BY <1>0, <1>b, <2>1, <2>5, <2>6 DEF Balances
<1>2. CASE SH!ReadEnd(p)
  <2> DEFINE n == SH!NextLine(p)
  <2>1. /\ does[p] = "read" /\ Steps1(p, "zombie", h) /\ runs' = runs /\ broken' = broken
        /\ (n <= Len(script) => script[n] = "eof") /\ taken' = IF n <= Len(script) THEN n ELSE taken
    BY <1>2, EachStep DEF SH!ReadEnd, SH!Exit, SH!Goto
  <2>2. ~SH!InBuffer(p)
    <3>1. SUFFICES ASSUME SH!InBuffer(p) PROVE FALSE
      OBVIOUS
    <3>2. n \in DOMAIN script /\ script[n] # "eof"
      BY <2>1, <3>1, FromBuffer
    <3>3. n <= Len(script)
      BY <3>2 DEF ShellInv, ShellTypes
    <3>4. QED BY <2>1, <3>2, <3>3
  <2>3. n = taken + 1 /\ (h = 0 \/ h \in ends)
    BY <2>1, <2>2, FromInput
  <2>4. Pending(script, ends, does[p], h, i) = 0 /\ Pending(script, ends, "zombie", h, i) = 0
    BY <2>1, <2>3 DEF Pending, After
  <2>5. AllPending(script, ends, does', hand', i) = AllPending(script, ends, does, hand, i)
    BY <1>0, <1>b, <2>1, <2>4, PendingAfter
  <2>6. Gain(i) \in Nat /\ (SH!Reached(i) => Gain(i) = 0)
    <3>1. CASE taken' = taken
      BY <1>a, <3>1 DEF Gain
    <3>2. CASE taken' = taken + 1 /\ script[taken + 1] = "eof"
      <4>1. Due(script, ends, taken', i) = Due(script, ends, taken, i) \/ i = taken + 1
        BY <1>0, <3>2 DEF Due
      <4>2. i = taken + 1 => Due(script, ends, taken, i) = 0
        BY <1>0 DEF Due
      <4>3. SH!Reached(i) => i # taken + 1
        BY <3>2 DEF SH!Reached
      <4>4. QED BY <1>a, <4>1, <4>2, <4>3 DEF Gain
    <3>3. QED BY <2>1, <2>3, <3>1, <3>2
  <2>7. QED BY <1>0, <1>b, <2>1, <2>5, <2>6 DEF Balances
<1>3. ASSUME SH!BuiltIn(p) PROVE Levels(i)
  <2>1. /\ does[p] = "run" /\ Steps1(p, "read", h) /\ runs' = runs /\ broken' = broken
        /\ script[h] \in {"cd", "bad cd"}
    BY <1>3, EachStep DEF SH!BuiltIn, SH!Goto, SH!Line
  <2>2. Runs(script, ends, h, i) = (IF h = i THEN 1 ELSE 0) + After(script, ends, h, i)
    <3>1. script[h] # "typo"
      BY <2>1
    <3>2. h \in Nat /\ h # 0 /\ i \in Nat
      BY <1>0, <2>1
    <3> HIDE DEF h
    <3>3. QED BY <3>1, <3>2, RunsStep
  <2>3. /\ Pending(script, ends, does[p], h, i) = Runs(script, ends, h, i)
        /\ Pending(script, ends, "read", h, i) = After(script, ends, h, i)
    BY <2>1 DEF Pending
  <2>4. /\ AllPending(script, ends, does, hand, i) \in Int
        /\ AllPending(script, ends, does', hand', i) =
             AllPending(script, ends, does, hand, i) - Pending(script, ends, does[p], h, i) + Pending(script, ends, "read", h, i)
    BY <1>0, <2>1, PendingAfter
  <2>5. SH!Reached(i) => h # i
    BY <2>1 DEF SH!Reached
  <2>6. CASE h = i
    <3>1. AllPending(script, ends, does', hand', i) = AllPending(script, ends, does, hand, i) - 1
      BY <1>0, <2>2, <2>3, <2>4, <2>6
    <3>2. runs'[i] = runs[i]
      BY <2>1
    <3>3. runs'[i] + AllPending(script, ends, does', hand', i) <= runs[i] + AllPending(script, ends, does, hand, i)
      BY <1>0, <2>4, <3>1, <3>2
    <3>4. runs'[i] \in Nat /\ ~SH!Reached(i)
      BY <1>0, <2>5, <2>6, <3>2
    <3>5. QED BY <1>0, <3>3, <3>4 DEF Levels
  <2>7. CASE h # i
    <3>1. AllPending(script, ends, does', hand', i) = AllPending(script, ends, does, hand, i)
      BY <1>0, <2>2, <2>3, <2>4, <2>7
    <3>2. runs'[i] = runs[i] /\ (~broken' => ~broken)
      BY <2>1
    <3>3. QED BY <1>0, <2>4, <3>1, <3>2 DEF Levels
  <2>8. QED BY <2>6, <2>7
<1>4. ASSUME SH!Crash(p) PROVE Levels(i)
  <2>1. /\ does[p] = "run" /\ Steps1(p, "zombie", h) /\ runs' = runs /\ broken' = broken
        /\ script[h] = "blank"
    BY <1>4, EachStep DEF SH!Crash, SH!Exit, SH!Goto, SH!Line
  <2>2. /\ Pending(script, ends, does[p], h, i) = Runs(script, ends, h, i) /\ Pending(script, ends, "zombie", h, i) = 0
    BY <2>1 DEF Pending
  <2>3. SH!Reached(i) => Runs(script, ends, h, i) = 0
    BY <1>0, <2>1 DEF SH!Reached, SH!SameRead, Runs
  <2>4. /\ AllPending(script, ends, does, hand, i) \in Int
        /\ AllPending(script, ends, does', hand', i) =
             AllPending(script, ends, does, hand, i) - Runs(script, ends, h, i)
    BY <1>0, <2>1, <2>2, PendingAfter, SMTT(20)
  <2>5. QED BY <1>0, <2>1, <2>3, <2>4 DEF Levels
<1>5. ASSUME SH!Fork(p) PROVE Levels(i)
  <2>1. PICK c \in SH!Procs :
          /\ does[p] = "run" /\ does[c] = "unused" /\ Steps2(p, "wait", c, "exec", h)
          /\ SH!Line(p) \in {"command", "typo"}
    BY <1>5, ForkSteps
  <2>2. /\ Pending(script, ends, does[p], h, i) = Runs(script, ends, h, i) /\ Pending(script, ends, does[c], hand[c], i) = 0
        /\ Pending(script, ends, "wait", h, i) = After(script, ends, h, i)
        /\ Pending(script, ends, "exec", h, i) =
             (IF h = i THEN 1 ELSE 0) + (IF script[h] = "typo" THEN After(script, ends, h, i) ELSE 0)
    BY <2>1 DEF Pending
  <2>3. Runs(script, ends, h, i) = (IF h = i THEN 1 ELSE 0) + After(script, ends, h, i)
                               + (IF script[h] = "typo" THEN After(script, ends, h, i) ELSE 0)
    BY <1>0, <2>1, RunsStep
  <2>4. /\ AllPending(script, ends, does, hand, i) \in Int /\ runs' = runs /\ broken' = broken
        /\ AllPending(script, ends, does', hand', i) =
             AllPending(script, ends, does, hand, i)
               - Pending(script, ends, does[p], h, i) + Pending(script, ends, "wait", h, i)
               - Pending(script, ends, does[c], hand[c], i) + Pending(script, ends, "exec", h, i)
    <3>1. h \in Nat /\ Steps2(p, "wait", c, "exec", h)
      BY <1>0, <2>1
    <3>2. hand[p] = h
      OBVIOUS
    <3> HIDE DEF h
    <3>3. QED BY <3>1, <3>2, PendingAfter2
  <2>5. AllPending(script, ends, does', hand', i) = AllPending(script, ends, does, hand, i)
    <3> HIDE DEF h
    <3>1. CASE script[h] = "typo"
      BY <1>0, <2>2, <2>3, <2>4, <3>1, SMTT(20) DEF h
    <3>2. CASE script[h] # "typo"
      BY <1>0, <2>2, <2>3, <2>4, <3>2 DEF h
    <3>3. QED BY <3>1, <3>2
  <2>6. QED BY <1>0, <2>4, <2>5 DEF Levels
<1>6. ASSUME SH!ForkFails(p) PROVE Levels(i)
  <2>1. does[p] = "run" /\ Steps1(p, "zombie", h) /\ runs' = runs /\ broken' = TRUE
    BY <1>6, EachStep DEF SH!ForkFails, SH!Exit, SH!Goto
  <2>2. Pending(script, ends, does[p], h, i) = Runs(script, ends, h, i) /\ Pending(script, ends, "zombie", h, i) = 0
    BY <2>1 DEF Pending
  <2>3. /\ AllPending(script, ends, does, hand, i) \in Int
        /\ AllPending(script, ends, does', hand', i) =
             AllPending(script, ends, does, hand, i) - Runs(script, ends, h, i)
    BY <1>0, <2>1, <2>2, PendingAfter
  <2>4. QED BY <1>0, <2>1, <2>3 DEF Levels
<1>7. ASSUME SH!Exec(p) PROVE Levels(i)
  <2> DEFINE to == IF SH!Line(p) = "typo" THEN "read" ELSE "command"
  <2>1. /\ does[p] = "exec" /\ Steps1(p, to, h) /\ broken' = broken
        /\ runs' = [runs EXCEPT ![h] = @ + 1]
    BY <1>7, EachStep DEF SH!Exec, SH!Goto
  <2>2. runs'[i] = runs[i] + (IF h = i THEN 1 ELSE 0)
    BY <1>0, <2>1 DEF ShellInv, ShellTypes
  <2>3. /\ Pending(script, ends, does[p], h, i) =
             (IF h = i THEN 1 ELSE 0) + (IF script[h] = "typo" THEN After(script, ends, h, i) ELSE 0)
        /\ Pending(script, ends, to, h, i) = IF script[h] = "typo" THEN After(script, ends, h, i) ELSE 0
    BY <2>1 DEF Pending, SH!Line
  <2> HIDE DEF to
  <2>4. /\ AllPending(script, ends, does, hand, i) \in Int
        /\ AllPending(script, ends, does', hand', i) =
             AllPending(script, ends, does, hand, i) - Pending(script, ends, does[p], h, i) + Pending(script, ends, to, h, i)
    BY <1>0, <2>1, PendingAfter
  <2>5. AllPending(script, ends, does', hand', i) =
          AllPending(script, ends, does, hand, i) - (IF h = i THEN 1 ELSE 0)
    BY <1>0, <2>3, <2>4
  <2>6. QED BY <1>0, <2>1, <2>2, <2>4, <2>5, SMTT(20) DEF Levels
<1>8. ASSUME SH!CommandEnds(p) PROVE Levels(i)
  <2>1. does[p] = "command" /\ Steps1(p, "zombie", h) /\ runs' = runs /\ broken' = broken
    BY <1>8, EachStep DEF SH!CommandEnds, SH!Exit, SH!Goto
  <2>2. Pending(script, ends, does[p], h, i) = 0 /\ Pending(script, ends, "zombie", h, i) = 0
    BY <2>1 DEF Pending
  <2>3. AllPending(script, ends, does', hand', i) = AllPending(script, ends, does, hand, i)
        /\ AllPending(script, ends, does, hand, i) \in Int
    BY <1>0, <2>1, <2>2, PendingAfter
  <2>4. QED BY <1>0, <2>1, <2>3 DEF Levels
<1>9. ASSUME SH!Wait(p) PROVE Levels(i)
  <2>1. PICK c \in SH!Procs :
          does[c] = "zombie" /\ does[p] = "wait" /\ Steps2(p, "read", c, "unused", hand[c])
    BY <1>9, WaitSteps
  <2>2. /\ Pending(script, ends, does[p], h, i) = Pending(script, ends, "read", h, i)
        /\ Pending(script, ends, does[c], hand[c], i) = 0 /\ Pending(script, ends, "unused", hand[c], i) = 0
    BY <2>1 DEF Pending
  <2>3. hand[c] \in Nat
    BY DEF ShellInv, ShellTypes
  <2>4. /\ AllPending(script, ends, does, hand, i) \in Int /\ runs' = runs /\ broken' = broken
        /\ Pending(script, ends, "read", h, i) \in Nat
        /\ AllPending(script, ends, does', hand', i) =
             AllPending(script, ends, does, hand, i)
               - Pending(script, ends, does[p], h, i) + Pending(script, ends, "read", h, i)
               - Pending(script, ends, does[c], hand[c], i) + Pending(script, ends, "unused", hand[c], i)
    BY <2>1, <2>3, PendingAfter2
  <2>5. AllPending(script, ends, does', hand', i) = AllPending(script, ends, does, hand, i)
    BY <2>2, <2>4
  <2>6. QED BY <1>0, <2>4, <2>5 DEF Levels
<1>10. CASE ~SH!ReadLine(p) /\ ~SH!ReadEnd(p)
  <2>1. Levels(i)
    BY <1>3, <1>4, <1>5, <1>6, <1>7, <1>8, <1>9, <1>10 DEF SH!process
  <2>2. taken' = taken
    BY <1>10 DEF SH!process, SH!BuiltIn, SH!Crash, SH!Fork, SH!ForkFails, SH!Exec, SH!CommandEnds, SH!Wait
  <2>3. QED BY <1>c, <2>1, <2>2
<1>11. QED BY <1>1, <1>2, <1>10

LEMMA LineRunInitInv == SH!Init => LineRunInv
<1> SUFFICES ASSUME SH!Init PROVE LineRunInv
  OBVIOUS
<1>1. ShellInv
  BY ShellInitInv
<1>2. /\ \A p \in SH!Procs : does[p] = IF p = SH!First THEN "read" ELSE "unused"
      /\ \A p \in SH!Procs : hand[p] = 0 /\ cwd[p] = 0
      /\ SH!First \in SH!Procs /\ taken = 0 /\ \A i \in DOMAIN script : runs[i] = 0
  BY FirstIs DEF SH!Init
<1>3. LineInv /\ ChildInv /\ EndInv
  BY <1>2 DEF LineInv, ChildInv, EndInv
<1>4. LastInv
  BY <1>2 DEF LastInv, Last, Active
<1>5. CwdInv
  BY <1>2, PlaceFirst DEF CwdInv
<1>6. ASSUME NEW i \in DOMAIN script PROVE AllPending(script, ends, does, hand, i) = 0
  <2> DEFINE f == [p \in SH!Procs |-> Pending(script, ends, does[p], hand[p], i)]
  <2>1. \A p \in SH!Procs : f[p] = 0
    BY <1>2 DEF Pending, After
  <2>2. AllPending(script, ends, does, hand, i) = SumFunctionOnSet(f, SH!Procs)
    BY DEF AllPending
  <2> HIDE DEF f
  <2>3. QED BY <2>1, <2>2, ProcsFinite, SumZeros
<1>7. CountInv
  <2>1. \A i \in DOMAIN script : i \in Nat /\ i >= 1
    BY <1>1 DEF ShellInv, ShellTypes
  <2>2. \A i \in DOMAIN script : Due(script, ends, taken, i) = 0
    BY <1>2, <2>1 DEF Due
  <2>3. QED BY <1>2, <1>6, <2>2 DEF CountInv
<1>8. QED BY <1>1, <1>3, <1>4, <1>5, <1>7 DEF LineRunInv

LEMMA LineRunNext == LineRunInv /\ [SH!Next]_(SH!vars) => LineRunInv'
<1> SUFFICES ASSUME LineRunInv, [SH!Next]_(SH!vars) PROVE LineRunInv'
  OBVIOUS
<1>1. ShellInv /\ LineInv /\ ChildInv /\ LastInv /\ EndInv /\ CwdInv /\ CountInv
  BY DEF LineRunInv
<1>2. ShellInv' /\ LineInv' /\ ChildInv'
  BY <1>1, ShellNextInv, LineStays, ChildStays
<1>3. CASE SH!Next
  <2>1. LastInv' /\ EndInv' /\ CwdInv'
    BY <1>1, <1>2, <1>3, LastStays, EndStays, CwdStays
  <2>2. PICK p \in SH!Procs : SH!process(p)
    BY <1>3 DEF SH!Next
  <2>3. \A i \in DOMAIN script : Balances(i)
    BY <1>1, <1>2, <2>2, StepBalances
  <2>4. script' = script /\ ends' = ends
    BY <1>1, <1>2, <1>3, TakenGrows
  <2>5. CountInv'
    BY <1>1, <1>2, <2>3, <2>4, BalanceStays
  <2>6. QED BY <1>2, <2>1, <2>5 DEF LineRunInv
<1>4. CASE UNCHANGED SH!vars
  <2>1. UNCHANGED <<script, ends, taken, hand, cwd, does, parent, runs, broken>>
    BY <1>4 DEF SH!vars
  <2>2. SH!Abandoned' <=> SH!Abandoned
    BY <2>1 DEF SH!Abandoned
  <2>3. LastInv' /\ EndInv'
    BY <1>1, <2>1, <2>2 DEF LastInv, EndInv, Active
  <2>4. CwdInv'
    BY <1>1, <2>1, <2>2 DEF CwdInv, SH!Place
  <2>5. CountInv'
    BY <1>1, <2>1 DEF CountInv, SH!Reached, SH!SameRead, AllPending
  <2>6. QED BY <1>2, <2>3, <2>4, <2>5 DEF LineRunInv
<1>5. QED BY <1>3, <1>4

LEMMA LineRunInvHolds == SH!Spec => []LineRunInv
BY LineRunInitInv, LineRunNext, PTL DEF SH!Spec

LEMMA DueIs ==
  ASSUME NEW i, NEW t, i <= t
  PROVE  Due(script, ends, t, i) = 2 ^ SH!Typos(i)
BY DEF Due, Names, SH!Typos, SH!SameRead, SH!Cardinality, Cardinality

\* When the shell that was started has ended no other one is left.
LEMMA OverIsOver == ShellInv /\ SH!Over => \A p \in SH!Procs : does[p] \in {"zombie", "unused"}
<1> SUFFICES ASSUME ShellInv, SH!Over PROVE \A p \in SH!Procs : does[p] \in {"zombie", "unused"}
  OBVIOUS
<1> USE DEF Active, Waits
<1>1. \A p \in SH!Procs : Active(p) => p = SH!First
  BY FirstIs DEF ShellInv, ActiveInv, SH!Over
<1>2. ASSUME NEW v \in SH!Procs, Waits(v) PROVE FALSE
  <2> DEFINE H == {n \in Nat : \E w \in SH!Procs : Waits(w) /\ hand[w] = n}
  <2>1. hand[v] \in H
    BY <1>2 DEF ShellInv, ShellTypes
  <2>2. PICK m \in H : \A n \in H : m <= n
    <3>1. H \in SUBSET Nat /\ H # {}
      BY <2>1
    <3> HIDE DEF H
    <3>2. QED BY <3>1, LeastNat
  <2>3. PICK w \in SH!Procs : Waits(w) /\ hand[w] = m
    OBVIOUS
  <2>4. w # SH!First
    BY <2>3 DEF SH!Over
  <2>5. parent[w] \in SH!Procs /\ Waits(parent[w]) /\ hand[parent[w]] < m /\ hand[parent[w]] \in Nat
    BY <2>3, <2>4 DEF ShellInv, ShellTypes, StackInv, Stacked
  <2>6. hand[parent[w]] \in H
    BY <2>5
  <2>7. m <= hand[parent[w]]
    BY <2>2, <2>6
  <2>8. QED BY <2>5, <2>7
<1>3. QED BY <1>1, <1>2 DEF SH!Over

\* For inputs of any length, however the reads divide them: each line runs as
\* often as there are copies of the shell that come to it, twice as often after
\* each name that was read along with it and could not be executed.  Unless a
\* shell has ended early, no line is left out and the commands run where the
\* cd commands before them lead.
THEOREM LinesRunTwiceAsOften == SH!Spec => []LinesDouble
<1>1. LineRunInv => LinesDouble
  <2> SUFFICES ASSUME LineRunInv PROVE LinesDouble
    OBVIOUS
  <2>0. /\ \A i \in DOMAIN script : i \in Nat /\ i >= 1 /\ runs[i] \in Nat
        /\ taken \in Nat /\ taken <= Len(script) /\ Len(script) \in Nat
        /\ DOMAIN script = 1 .. Len(script)
    BY DEF LineRunInv, ShellInv, ShellTypes, InputInv
  <2>1. ASSUME NEW i \in DOMAIN script PROVE runs[i] <= IF i <= taken THEN 2 ^ SH!Typos(i) ELSE 0
    <3> DEFINE f == [p \in SH!Procs |-> Pending(script, ends, does[p], hand[p], i)]
    <3>1. \A p \in SH!Procs : f[p] \in Nat
      <4>1. \A p \in SH!Procs : hand[p] \in Nat
        BY DEF LineRunInv, ShellInv, ShellTypes
      <4>2. QED BY <2>0, <4>1, PendingType
    <3>2. AllPending(script, ends, does, hand, i) \in Nat
      <4>1. AllPending(script, ends, does, hand, i) = SumFunctionOnSet(f, SH!Procs)
        BY DEF AllPending
      <4> HIDE DEF f
      <4>2. QED BY <3>1, <4>1, ProcsFinite, SumNats
    <3>3. runs[i] + AllPending(script, ends, does, hand, i) <= Due(script, ends, taken, i)
      BY DEF LineRunInv, CountInv
    <3>4. Due(script, ends, taken, i) \in Nat
      BY <2>0, DueType
    <3>5. runs[i] <= Due(script, ends, taken, i)
      BY <2>0, <3>2, <3>3, <3>4
    <3>6. CASE i <= taken
      BY <3>5, <3>6, DueIs
    <3>7. CASE ~(i <= taken)
      BY <3>5, <3>7 DEF Due
    <3>8. QED BY <3>6, <3>7
  <2>2. ASSUME SH!Over, ~broken, NEW i \in 1 .. taken, SH!Reached(i)
        PROVE  runs[i] = 2 ^ SH!Typos(i)
    <3> DEFINE f == [p \in SH!Procs |-> Pending(script, ends, does[p], hand[p], i)]
    <3>0. i \in DOMAIN script /\ i <= taken /\ runs[i] \in Nat
      BY <2>0
    <3>1. \A p \in SH!Procs : f[p] = 0
      BY <2>2, OverIsOver DEF Pending, LineRunInv
    <3>2. AllPending(script, ends, does, hand, i) = 0
      <4>1. AllPending(script, ends, does, hand, i) = SumFunctionOnSet(f, SH!Procs)
        BY DEF AllPending
      <4> HIDE DEF f
      <4>2. QED BY <3>1, <4>1, ProcsFinite, SumZeros
    <3>3. runs[i] + AllPending(script, ends, does, hand, i) = Due(script, ends, taken, i)
      BY <2>2, <3>0 DEF LineRunInv, CountInv
    <3>4. runs[i] = Due(script, ends, taken, i)
      BY <3>0, <3>2, <3>3
    <3>5. QED BY <3>0, <3>4, DueIs
  <2>3. SH!Over /\ ~SH!Abandoned => taken = Len(script)
    BY DEF LineRunInv, EndInv, SH!Over
  <2>4. ASSUME ~SH!Abandoned, NEW p \in SH!Procs, does[p] \in {"exec", "command"}
        PROVE  cwd[p] = SH!Place(hand[p])
    BY <2>4 DEF LineRunInv, CwdInv
  <2>5. QED BY <2>1, <2>2, <2>3, <2>4 DEF LinesDouble, SH!LinesDouble
<1>2. QED BY <1>1, LineRunInvHolds, PTL

-----------------------------------------------------------------------------
(* BrainFuck: counting brackets *)

\* What the bracket at i adds, BF!Depth and BF!Around for the program c.
Bracket(c, i) == IF c[i + 1] = "[" THEN 1 ELSE IF c[i + 1] = "]" THEN -1 ELSE 0

Count(c, v, i, j) == Cardinality({k \in i .. j : c[k + 1] = v})

Deep(c, i, j) == Count(c, "[", i, j) - Count(c, "]", i, j)

Loops(c, i) == {j \in 0 .. i - 1 : c[j + 1] = "[" /\ \A k \in j .. i - 1 : Deep(c, j, k) > 0}

\* The number of the characters v in i .. k, in two parts.
LEMMA CountAdds ==
  ASSUME NEW c, NEW v, NEW i \in Int, NEW j \in Int, NEW k \in Int, i <= j, j <= k + 1
  PROVE  /\ Count(c, v, i, k) \in Nat /\ Count(c, v, i, j - 1) \in Nat /\ Count(c, v, j, k) \in Nat
         /\ Count(c, v, i, k) = Count(c, v, i, j - 1) + Count(c, v, j, k)
<1> DEFINE S == {n \in i .. k : c[n + 1] = v}
           T == {n \in i .. j - 1 : c[n + 1] = v}
           U == {n \in j .. k : c[n + 1] = v}
<1>1. IsFiniteSet(i .. k) /\ IsFiniteSet(i .. j - 1) /\ IsFiniteSet(j .. k)
  BY FS_Interval
<1>2. IsFiniteSet(S) /\ IsFiniteSet(T) /\ IsFiniteSet(U)
  BY <1>1, FS_Subset
<1>3. S = T \cup U /\ T \cap U = {}
  OBVIOUS
<1> HIDE DEF S, T, U
<1>4. Cardinality(T \cap U) = 0
  BY <1>3, FS_EmptySet
<1>5. Cardinality(S) \in Nat /\ Cardinality(T) \in Nat /\ Cardinality(U) \in Nat
  BY <1>2, FS_CardinalityType
<1>6. Cardinality(S) = Cardinality(T) + Cardinality(U)
  <2>1. Cardinality(T \cup U) = Cardinality(T) + Cardinality(U) - Cardinality(T \cap U)
    BY <1>2, FS_Union
  <2>2. QED BY <1>3, <1>4, <1>5, <2>1
<1>7. QED BY <1>5, <1>6 DEF S, T, U, Count

LEMMA DeepAdds ==
  ASSUME NEW c, NEW i \in Int, NEW j \in Int, NEW k \in Int, i <= j, j <= k + 1
  PROVE  /\ Deep(c, i, k) \in Int /\ Deep(c, i, j - 1) \in Int /\ Deep(c, j, k) \in Int
         /\ Deep(c, i, k) = Deep(c, i, j - 1) + Deep(c, j, k)
<1>1. /\ Count(c, "[", i, k) \in Nat /\ Count(c, "[", i, j - 1) \in Nat /\ Count(c, "[", j, k) \in Nat
      /\ Count(c, "[", i, k) = Count(c, "[", i, j - 1) + Count(c, "[", j, k)
  BY CountAdds
<1>2. /\ Count(c, "]", i, k) \in Nat /\ Count(c, "]", i, j - 1) \in Nat /\ Count(c, "]", j, k) \in Nat
      /\ Count(c, "]", i, k) = Count(c, "]", i, j - 1) + Count(c, "]", j, k)
  BY CountAdds
<1>3. QED BY <1>1, <1>2 DEF Deep

LEMMA DeepOne ==
  ASSUME NEW c, NEW i \in Int
  PROVE  Deep(c, i, i) = Bracket(c, i)
<1>1. ASSUME NEW v PROVE Count(c, v, i, i) = IF c[i + 1] = v THEN 1 ELSE 0
  <2>1. i .. i = {i}
    OBVIOUS
  <2>2. {k \in i .. i : c[k + 1] = v} = IF c[i + 1] = v THEN {i} ELSE {}
    BY <2>1
  <2>3. Cardinality({i}) = 1 /\ Cardinality({}) = 0
    BY FS_Singleton, FS_EmptySet
  <2>4. QED BY <2>2, <2>3 DEF Count
<1>2. /\ Count(c, "[", i, i) = IF c[i + 1] = "[" THEN 1 ELSE 0
      /\ Count(c, "]", i, i) = IF c[i + 1] = "]" THEN 1 ELSE 0
  BY <1>1
<1>3. QED BY <1>2 DEF Deep, Bracket

LEMMA DeepNone ==
  ASSUME NEW c, NEW i \in Int
  PROVE  Deep(c, i, i - 1) = 0
<1>1. ASSUME NEW v PROVE {k \in i .. i - 1 : c[k + 1] = v} = {}
  <2>1. i .. i - 1 = {}
    OBVIOUS
  <2>2. QED BY <2>1
<1>2. Deep(c, i, i - 1) = Cardinality({}) - Cardinality({})
  BY <1>1 DEF Deep, Count
<1>3. QED BY <1>2, FS_EmptySet

LEMMA DeepStep ==
  ASSUME NEW c, NEW i \in Int, NEW j \in Int, i <= j
  PROVE  /\ Deep(c, i, j) \in Int /\ Deep(c, i, j - 1) \in Int
         /\ Deep(c, i, j) = Deep(c, i, j - 1) + Bracket(c, j)
BY DeepAdds, DeepOne

\* Where the depth exceeds v from n on, n is a bracket that is still open.
LEMMA Rises ==
  ASSUME NEW c, NEW s \in Nat, NEW i \in Nat, s < i, NEW v \in Nat, Deep(c, s, i - 1) > v
  PROVE  \E n \in s .. i - 1 : n \in Loops(c, i) /\ Deep(c, s, n - 1) = v
<1> DEFINE T == {n \in Nat : n \in s .. i - 1 /\ \A l \in n .. i - 1 : Deep(c, s, l) > v}
<1>1. i - 1 \in T
  OBVIOUS
<1>2. PICK n \in T : \A m \in T : n <= m
  <2>1. T \in SUBSET Nat /\ T # {}
    BY <1>1
  <2> HIDE DEF T
  <2>2. QED BY <2>1, LeastNat
<1>3. n \in Nat /\ n \in s .. i - 1 /\ \A l \in n .. i - 1 : Deep(c, s, l) > v
  OBVIOUS
<1>4. /\ Deep(c, s, n) \in Int /\ Deep(c, s, n - 1) \in Int
      /\ Deep(c, s, n) = Deep(c, s, n - 1) + Bracket(c, n)
  BY <1>3, DeepStep
<1>5. Deep(c, s, n - 1) <= v
  <2>1. CASE n = s
    BY <2>1, DeepNone
  <2>2. CASE n # s
    <3>1. n - 1 \notin T /\ n - 1 \in Nat /\ n - 1 \in s .. i - 1
      BY <1>2, <1>3, <2>2
    <3>2. PICK l \in n - 1 .. i - 1 : ~(Deep(c, s, l) > v)
      BY <3>1
    <3>3. l = n - 1
      BY <1>3, <3>2
    <3>4. QED BY <1>4, <3>2, <3>3
  <2>3. QED BY <2>1, <2>2
<1>6. Deep(c, s, n) > v
  BY <1>3
<1>7. Bracket(c, n) = 1 /\ Deep(c, s, n - 1) = v
  BY <1>4, <1>5, <1>6 DEF Bracket
<1>8. c[n + 1] = "["
  BY <1>7 DEF Bracket
<1>9. ASSUME NEW l \in n .. i - 1 PROVE Deep(c, n, l) > 0
  <2>1. n \in Int /\ s <= n /\ n <= l + 1 /\ l \in Int
    BY <1>3
  <2>2. Deep(c, s, l) = Deep(c, s, n - 1) + Deep(c, n, l) /\ Deep(c, n, l) \in Int
    BY <2>1, DeepAdds
  <2>3. Deep(c, s, l) > v
    BY <1>3
  <2>4. QED BY <1>7, <2>2, <2>3
<1>10. n \in Loops(c, i)
  BY <1>3, <1>8, <1>9 DEF Loops
<1>11. QED BY <1>3, <1>7, <1>10

\* On its way down from an opening bracket the depth comes to 0 first.
LEMMA Falls ==
  ASSUME NEW c, NEW i \in Nat, c[i + 1] = "[", NEW z \in Nat, i <= z, Deep(c, i, z) <= 0
  PROVE  \E e \in i + 1 .. z : Deep(c, i, e) = 0 /\ \A k \in i .. e - 1 : Deep(c, i, k) > 0
<1> DEFINE T == {n \in Nat : n \in i .. z /\ Deep(c, i, n) <= 0}
<1>1. PICK e \in T : \A m \in T : e <= m
  <2>1. T \in SUBSET Nat /\ T # {}
    OBVIOUS
  <2> HIDE DEF T
  <2>2. QED BY <2>1, LeastNat
<1>2. e \in Nat /\ e \in i .. z /\ Deep(c, i, e) <= 0
  OBVIOUS
<1>3. \A k \in i .. e - 1 : Deep(c, i, k) > 0
  <2> SUFFICES ASSUME NEW k \in i .. e - 1 PROVE Deep(c, i, k) > 0
    OBVIOUS
  <2>1. k \in Nat /\ k \in i .. z /\ ~(e <= k)
    BY <1>2
  <2>2. Deep(c, i, k) \in Int
    BY <2>1, DeepStep
  <2>3. ~(Deep(c, i, k) <= 0)
    BY <1>1, <2>1
  <2>4. QED BY <2>2, <2>3
<1>4. e # i
  <2>1. Deep(c, i, i) = 1
    BY DeepOne DEF Bracket
  <2>2. QED BY <1>2, <2>1
<1>5. Deep(c, i, e) \in Int /\ Deep(c, i, e - 1) \in Int
      /\ Deep(c, i, e) = Deep(c, i, e - 1) + Bracket(c, e)
  BY <1>2, DeepStep
<1>6. Deep(c, i, e - 1) > 0
  BY <1>2, <1>3, <1>4
<1>7. Deep(c, i, e) = 0
  BY <1>2, <1>5, <1>6 DEF Bracket
<1>8. QED BY <1>2, <1>3, <1>4, <1>7

\* What is around the next character, if this one is no bracket, and if it is
\* an opening one.
LEMMA LoopsStep ==
  ASSUME NEW c, NEW i \in Nat
  PROVE  /\ c[i + 1] \notin {"[", "]"} => Loops(c, i + 1) = Loops(c, i)
         /\ c[i + 1] = "[" => Loops(c, i + 1) = Loops(c, i) \cup {i}
<1>1. ASSUME NEW j \in 0 .. i - 1, c[i + 1] # "]"
      PROVE  j \in Loops(c, i + 1) <=> j \in Loops(c, i)
  <2>1. Deep(c, j, i) = Deep(c, j, i - 1) + Bracket(c, i) /\ Deep(c, j, i - 1) \in Int
    BY DeepStep
  <2>2. Deep(c, j, i - 1) > 0 => Deep(c, j, i) > 0
    BY <1>1, <2>1 DEF Bracket
  <2>3. \A k \in Int : k \in j .. (i + 1) - 1 <=> k \in j .. i - 1 \/ k = i
    OBVIOUS
  <2>4. i - 1 \in j .. i - 1 /\ j \in 0 .. (i + 1) - 1
    OBVIOUS
  <2>5. QED BY <2>2, <2>3, <2>4 DEF Loops
<1>2. i \in Loops(c, i + 1) <=> c[i + 1] = "["
  <2>1. c[i + 1] = "[" => Deep(c, i, i) > 0
    BY DeepOne DEF Bracket
  <2>2. \A k \in i .. (i + 1) - 1 : k = i
    OBVIOUS
  <2>3. i \in 0 .. (i + 1) - 1
    OBVIOUS
  <2>4. QED BY <2>1, <2>2, <2>3 DEF Loops
<1>3. \A j \in Loops(c, i + 1) : j \in 0 .. i - 1 \/ j = i
  BY DEF Loops
<1>4. \A j \in Loops(c, i) : j \in 0 .. i - 1
  BY DEF Loops
<1>5. QED BY <1>1, <1>2, <1>3, <1>4

\* What is around a loop is around its end.
LEMMA LoopsSkip ==
  ASSUME NEW c, NEW i \in Nat, NEW e \in Nat, i < e, Deep(c, i, e) = 0,
         \A k \in i .. e - 1 : Deep(c, i, k) > 0
  PROVE  Loops(c, e + 1) = Loops(c, i)
<1>1. ASSUME NEW j \in 0 .. i - 1 PROVE j \in Loops(c, e + 1) <=> j \in Loops(c, i)
  <2>1. i - 1 \in j .. i - 1 /\ j <= i
    OBVIOUS
  <2>2. ASSUME NEW k \in i .. e PROVE Deep(c, j, i - 1) > 0 => Deep(c, j, k) > 0
    <3>1. /\ Deep(c, j, k) = Deep(c, j, i - 1) + Deep(c, i, k)
          /\ Deep(c, j, i - 1) \in Int /\ Deep(c, i, k) \in Int
      BY <2>1, DeepAdds
    <3>2. Deep(c, i, k) >= 0
      <4>1. k = e \/ k \in i .. e - 1
        OBVIOUS
      <4>2. QED BY <3>1, <4>1
    <3>3. QED BY <3>1, <3>2
  <2>3. \A k \in Int : k \in j .. (e + 1) - 1 <=> k \in j .. i - 1 \/ k \in i .. e
    OBVIOUS
  <2>4. j \in 0 .. (e + 1) - 1
    OBVIOUS
  <2>5. QED BY <2>1, <2>2, <2>3, <2>4 DEF Loops
<1>2. ASSUME NEW j \in i .. e PROVE j \notin Loops(c, e + 1)
  <2>1. j \in Int /\ i <= j /\ j <= e + 1
    OBVIOUS
  <2>2. /\ Deep(c, i, e) = Deep(c, i, j - 1) + Deep(c, j, e)
        /\ Deep(c, i, j - 1) \in Int /\ Deep(c, j, e) \in Int
    BY <2>1, DeepAdds
  <2>3. Deep(c, i, j - 1) >= 0
    <3>1. CASE j = i
      BY <3>1, DeepNone
    <3>2. CASE j # i
      <4>1. j - 1 \in i .. e - 1
        BY <3>2
      <4>2. QED BY <2>2, <4>1
    <3>3. QED BY <3>1, <3>2
  <2>4. Deep(c, j, e) <= 0
    BY <2>2, <2>3
  <2>5. e \in j .. (e + 1) - 1 /\ ~(Deep(c, j, e) > 0)
    BY <2>2, <2>4
  <2>6. QED BY <2>5 DEF Loops
<1>3. \A j \in Loops(c, e + 1) : j \in 0 .. i - 1 \/ j \in i .. e
  BY DEF Loops
<1>4. \A j \in Loops(c, i) : j \in 0 .. i - 1
  BY DEF Loops
<1>5. QED BY <1>1, <1>2, <1>3, <1>4

\* m is the innermost loop around i.
Innermost(c, m, i) == m \in Loops(c, i) /\ \A j \in Loops(c, i) : j <= m

\* The loops around the innermost one are all the others.
LEMMA LoopsBack ==
  ASSUME NEW c, NEW i \in Nat, NEW m, Innermost(c, m, i)
  PROVE  Loops(c, m) = Loops(c, i) \ {m}
<1>1. m \in 0 .. i - 1 /\ \A k \in m .. i - 1 : Deep(c, m, k) > 0
  BY DEF Innermost, Loops
<1>2. ASSUME NEW j \in Loops(c, i), j # m PROVE j \in Loops(c, m)
  <2>1. j <= m /\ j \in 0 .. i - 1 /\ \A k \in j .. i - 1 : Deep(c, j, k) > 0
    BY DEF Innermost, Loops
  <2>2. j \in 0 .. m - 1 /\ \A k \in j .. m - 1 : k \in j .. i - 1
    BY <1>1, <1>2, <2>1
  <2>3. QED BY <2>1, <2>2 DEF Loops
<1>3. ASSUME NEW j \in Loops(c, m) PROVE j \in Loops(c, i) /\ j # m
  <2>1. j \in 0 .. m - 1 /\ \A k \in j .. m - 1 : Deep(c, j, k) > 0
    BY DEF Loops
  <2>2. ASSUME NEW k \in m .. i - 1 PROVE Deep(c, j, k) > 0
    <3>1. m \in Int /\ j \in Int /\ k \in Int /\ m - 1 \in j .. m - 1 /\ m <= k + 1 /\ j <= m
      BY <1>1, <2>1
    <3>2. /\ Deep(c, j, k) = Deep(c, j, m - 1) + Deep(c, m, k)
          /\ Deep(c, j, m - 1) \in Int /\ Deep(c, m, k) \in Int
      BY <3>1, DeepAdds
    <3>3. Deep(c, m, k) > 0 /\ Deep(c, j, m - 1) > 0
      BY <1>1, <2>1, <3>1
    <3>4. QED BY <3>2, <3>3
  <2>3. j \in 0 .. i - 1 /\ \A k \in j .. i - 1 : k \in j .. m - 1 \/ k \in m .. i - 1
    BY <1>1, <2>1
  <2>4. QED BY <2>1, <2>2, <2>3 DEF Loops
<1>4. QED BY <1>2, <1>3

\* A closing bracket closes the innermost loop.
LEMMA LoopsClose ==
  ASSUME NEW c, NEW i \in Nat, NEW m, Innermost(c, m, i), c[i + 1] = "]"
  PROVE  Loops(c, i + 1) = Loops(c, i) \ {m}
<1>1. m \in 0 .. i - 1 /\ \A k \in m .. i - 1 : Deep(c, m, k) > 0
  BY DEF Innermost, Loops
<1>2. i - 1 \in m .. i - 1 /\ m \in Nat /\ m < i /\ m <= i
  BY <1>1
<1>3. /\ Deep(c, m, i) = Deep(c, m, i - 1) + Bracket(c, i)
      /\ Deep(c, m, i) \in Int /\ Deep(c, m, i - 1) \in Int
  BY <1>2, DeepStep
<1>4. Deep(c, m, i - 1) = 1
  <2>1. SUFFICES ASSUME Deep(c, m, i - 1) > 1 PROVE FALSE
    BY <1>1, <1>2, <1>3
  <2>2. PICK n \in m .. i - 1 : n \in Loops(c, i) /\ Deep(c, m, n - 1) = 1
    BY <1>2, <2>1, Rises
  <2>3. n <= m
    BY <2>2 DEF Innermost
  <2>4. n = m
    BY <1>2, <2>3
  <2>5. Deep(c, m, m - 1) = 0
    BY <1>2, DeepNone
  <2>6. QED BY <2>2, <2>4, <2>5
<1>5. Deep(c, m, i) = 0
  BY <1>3, <1>4 DEF Bracket
<1>6. m \notin Loops(c, i + 1)
  <2>1. i \in m .. (i + 1) - 1
    BY <1>2
  <2>2. QED BY <1>5, <2>1 DEF Loops
<1>7. i \notin Loops(c, i + 1)
  BY DEF Loops
<1>8. ASSUME NEW j \in Loops(c, i + 1) PROVE j \in Loops(c, i)
  <2>1. j # i /\ j \in 0 .. (i + 1) - 1 /\ c[j + 1] = "["
        /\ \A k \in j .. (i + 1) - 1 : Deep(c, j, k) > 0
    BY <1>7 DEF Loops
  <2>2. j \in 0 .. i - 1 /\ \A k \in j .. i - 1 : k \in j .. (i + 1) - 1
    BY <2>1
  <2>3. QED BY <2>1, <2>2 DEF Loops
<1>9. ASSUME NEW j \in Loops(c, i), j # m PROVE j \in Loops(c, i + 1)
  <2>1. j \in 0 .. i - 1 /\ c[j + 1] = "[" /\ j <= m /\ \A k \in j .. i - 1 : Deep(c, j, k) > 0
    BY DEF Loops, Innermost
  <2>2. m \in Int /\ m - 1 \in j .. i - 1 /\ m <= i + 1 /\ j <= m
    BY <1>2, <1>9, <2>1
  <2>3. /\ Deep(c, j, i) = Deep(c, j, m - 1) + Deep(c, m, i)
        /\ Deep(c, j, m - 1) \in Int /\ Deep(c, m, i) \in Int
    BY <1>2, <2>1, <2>2, DeepAdds
  <2>4. Deep(c, j, i) > 0
    BY <1>5, <2>1, <2>2, <2>3
  <2>5. j \in 0 .. (i + 1) - 1 /\ \A k \in j .. (i + 1) - 1 : k \in j .. i - 1 \/ k = i
    BY <2>1
  <2>6. QED BY <2>1, <2>4, <2>5 DEF Loops
<1>10. QED BY <1>6, <1>8, <1>9

-----------------------------------------------------------------------------
(* BrainFuck: the stack of loops *)

\* The stack s holds the loops L, from the outermost inwards.
Holds(s, L) ==
  /\ {s[n] : n \in DOMAIN s} = L
  /\ \A m, n \in DOMAIN s : m < n => s[m] < s[n]

LEMMA Pushed ==
  ASSUME NEW s \in Seq(Nat), NEW L, Holds(s, L), NEW x \in Nat, \A y \in L : y < x
  PROVE  Append(s, x) \in Seq(Nat) /\ Holds(Append(s, x), L \cup {x})
<1> DEFINE t == Append(s, x)
<1>1. /\ t \in Seq(Nat) /\ Len(t) = Len(s) + 1 /\ DOMAIN t = 1 .. Len(s) + 1 /\ DOMAIN s = 1 .. Len(s)
      /\ \A n \in 1 .. Len(s) : t[n] = s[n]
      /\ t[Len(s) + 1] = x /\ Len(s) \in Nat
  OBVIOUS
<1> HIDE DEF t
<1>2. {t[n] : n \in DOMAIN t} = L \cup {x}
  <2>1. \A n \in DOMAIN t : t[n] \in L \cup {x}
    <3>1. \A n \in DOMAIN s : s[n] \in L
      BY DEF Holds
    <3>2. \A n \in DOMAIN t : n \in DOMAIN s \/ n = Len(s) + 1
      BY <1>1
    <3>3. QED BY <1>1, <3>1, <3>2
  <2>2. \A y \in L : \E n \in DOMAIN t : t[n] = y
    BY <1>1 DEF Holds
  <2>3. \E n \in DOMAIN t : t[n] = x
    BY <1>1
  <2>4. QED BY <2>1, <2>2, <2>3
<1>3. \A m, n \in DOMAIN t : m < n => t[m] < t[n]
  <2> SUFFICES ASSUME NEW m \in DOMAIN t, NEW n \in DOMAIN t, m < n PROVE t[m] < t[n]
    OBVIOUS
  <2>1. m \in DOMAIN s /\ t[m] = s[m]
    BY <1>1
  <2>2. CASE n \in DOMAIN s
    BY <1>1, <2>1, <2>2 DEF Holds
  <2>3. CASE n = Len(s) + 1
    BY <1>1, <2>1, <2>3 DEF Holds
  <2>4. QED BY <1>1, <2>2, <2>3
<1>4. QED BY <1>1, <1>2, <1>3 DEF Holds, t

LEMMA Popped ==
  ASSUME NEW c, NEW i \in Nat, NEW s \in Seq(Nat), Holds(s, Loops(c, i)), s # <<>>
  PROVE  /\ Innermost(c, s[Len(s)], i)
         /\ SubSeq(s, 1, Len(s) - 1) \in Seq(Nat)
         /\ Holds(SubSeq(s, 1, Len(s) - 1), Loops(c, i) \ {s[Len(s)]})
<1> DEFINE t == SubSeq(s, 1, Len(s) - 1)
           m == s[Len(s)]
<1>1. Len(s) \in Nat /\ Len(s) >= 1 /\ DOMAIN s = 1 .. Len(s) /\ \A n \in DOMAIN s : s[n] \in Nat
  OBVIOUS
<1>2. /\ t \in Seq(Nat) /\ DOMAIN t = 1 .. Len(s) - 1
      /\ \A n \in 1 .. Len(s) - 1 : t[n] = s[n]
  BY <1>1
<1>3. \A n \in 1 .. Len(s) - 1 : s[n] < m
  BY <1>1 DEF Holds
<1>4. Innermost(c, m, i)
  <2>1. m \in Loops(c, i)
    BY <1>1 DEF Holds
  <2>2. \A j \in Loops(c, i) : \E n \in 1 .. Len(s) : j = s[n]
    BY <1>1 DEF Holds
  <2>3. \A n \in 1 .. Len(s) : s[n] <= m
    <3> SUFFICES ASSUME NEW n \in 1 .. Len(s) PROVE s[n] <= m
      OBVIOUS
    <3>1. s[n] \in Nat /\ m \in Nat
      BY <1>1
    <3>2. CASE n = Len(s)
      BY <3>1, <3>2
    <3>3. CASE n # Len(s)
      <4>0. Len(s) \in Nat /\ n \in Nat /\ 1 <= n /\ n <= Len(s)
        BY <1>1
      <4>1. n \in 1 .. Len(s) - 1
        <5>1. \A l \in Nat : n <= l /\ n # l => n \in 1 .. l - 1
          BY <4>0
        <5>2. QED BY <3>3, <4>0, <5>1
      <4>2. s[n] < m
        BY <1>3, <4>1
      <4>3. QED BY <3>1, <4>2
    <3>4. QED BY <3>2, <3>3
  <2>4. QED BY <2>1, <2>2, <2>3 DEF Innermost
<1> HIDE DEF t, m
<1>5. {t[n] : n \in DOMAIN t} = Loops(c, i) \ {m}
  <2>1. \A n \in DOMAIN t : t[n] \in Loops(c, i) /\ t[n] # m
    <3> SUFFICES ASSUME NEW n \in DOMAIN t PROVE t[n] \in Loops(c, i) /\ t[n] # m
      OBVIOUS
    <3>1. n \in DOMAIN s /\ t[n] = s[n] /\ n \in 1 .. Len(s) - 1
      BY <1>1, <1>2
    <3>2. s[n] < m /\ s[n] \in Nat
      BY <1>1, <1>3, <3>1
    <3>3. QED BY <3>1, <3>2 DEF Holds
  <2>2. ASSUME NEW j \in Loops(c, i), j # m PROVE \E n \in DOMAIN t : t[n] = j
    <3>1. PICK n \in DOMAIN s : s[n] = j
      BY DEF Holds
    <3>2. n # Len(s)
      BY <2>2, <3>1 DEF m
    <3>3. n \in DOMAIN t
      BY <1>1, <1>2, <3>2
    <3>4. QED BY <1>2, <3>1, <3>3
  <2>3. QED BY <2>1, <2>2
<1>6. \A k, n \in DOMAIN t : k < n => t[k] < t[n]
  <2> SUFFICES ASSUME NEW k \in DOMAIN t, NEW n \in DOMAIN t, k < n PROVE t[k] < t[n]
    OBVIOUS
  <2>1. ASSUME NEW l \in 1 .. Len(s) - 1 PROVE l \in 1 .. Len(s)
    <3>1. Len(s) \in Nat
      BY <1>1
    <3>2. QED BY <3>1
  <2>2. \A l \in DOMAIN t : l \in DOMAIN s /\ t[l] = s[l]
    <3>1. DOMAIN t = 1 .. Len(s) - 1 /\ DOMAIN s = 1 .. Len(s)
      BY <1>1, <1>2
    <3>2. QED BY <1>2, <2>1, <3>1
  <2>3. QED BY <2>2 DEF Holds
<1>7. QED BY <1>2, <1>4, <1>5, <1>6 DEF Holds, t, m

CodeTypes ==
  /\ code \in Seq(BF!Commands) /\ startLoopPos \in Seq(Nat)
  /\ ip \in Nat /\ ip <= Len(code) /\ dp \in Int
  /\ outcome \in {"running", "ended", "threw"}

\* An exception has a command to blame that there is not, if brackets match.
Blamed == BF!Balanced /\ dp >= 0 => BF!charAt(ip) = "?"

CodeInv ==
  /\ CodeTypes
  /\ outcome # "threw" => Holds(startLoopPos, Loops(code, ip))
  /\ outcome = "threw" => Blamed

LEMMA DepthIs == \A i, j : BF!Depth(i, j) = Deep(code, i, j)
BY DEF BF!Depth, BF!charAt, Deep, Count, BF!Cardinality, Cardinality

LEMMA AroundIs == \A i : BF!Around(i) = Loops(code, i)
BY DepthIs DEF BF!Around, BF!charAt, Loops

LEMMA NestedIs == BF!Nested <=> Holds(startLoopPos, Loops(code, ip))
BY AroundIs DEF BF!Nested, BF!Range, Holds

LEMMA CodeInitInv == BF!Init => CodeInv
<1> SUFFICES ASSUME BF!Init PROVE CodeInv
  OBVIOUS
<1>1. code \in Seq(BF!Commands)
  <2>1. PICK n \in 0 .. MaxCode : code \in [1 .. n -> BF!Commands]
    BY DEF BF!Init
  <2>2. n \in Nat
    BY <2>1, CodeAssumption
  <2>3. QED BY <2>1, <2>2
<1>2. CodeTypes
  BY <1>1 DEF BF!Init, CodeTypes
<1>3. Holds(startLoopPos, Loops(code, ip))
  <2>1. startLoopPos = <<>> /\ ip = 0 /\ 0 .. 0 - 1 = {} /\ DOMAIN startLoopPos = {}
    BY DEF BF!Init
  <2>2. Loops(code, ip) = {}
    BY <2>1 DEF Loops
  <2>3. QED BY <2>1, <2>2 DEF Holds
<1>4. QED BY <1>2, <1>3 DEF CodeInv, BF!Init

\* A bracket that is not balanced by the last one: the brackets do not match.
LEMMA SkipEnds ==
  ASSUME CodeTypes, BF!Balanced, ip <= BF!Last0, BF!charAt(ip) = "["
  PROVE  BF!Ends(ip) # {}
<1>1. /\ ip \in Nat /\ BF!Last0 \in Nat /\ code[ip + 1] = "["
      /\ Deep(code, 0, BF!Last0) = 0 /\ \A i \in 0 .. BF!Last0 : Deep(code, 0, i) >= 0
  BY DepthIs DEF BF!Balanced, BF!Last0, BF!charAt, CodeTypes
<1>2. /\ Deep(code, 0, BF!Last0) = Deep(code, 0, ip - 1) + Deep(code, ip, BF!Last0)
      /\ Deep(code, 0, ip - 1) \in Int /\ Deep(code, ip, BF!Last0) \in Int
  BY <1>1, DeepAdds
<1>3. Deep(code, 0, ip - 1) >= 0
  <2>1. CASE ip = 0
    BY <2>1, DeepNone
  <2>2. CASE ip # 0
    <3>1. ip - 1 \in 0 .. BF!Last0
      BY <1>1, <2>2
    <3>2. QED BY <1>1, <3>1
  <2>3. QED BY <2>1, <2>2
<1>4. Deep(code, ip, BF!Last0) <= 0
  BY <1>1, <1>2, <1>3
<1>5. PICK e \in ip + 1 .. BF!Last0 : Deep(code, ip, e) = 0
  BY <1>1, <1>4, Falls
<1>6. e \in BF!Ends(ip)
  BY <1>1, <1>5, DepthIs DEF BF!Ends
<1>7. QED BY <1>6

\* Where a loop is skipped to.
LEMMA SkipTo ==
  ASSUME CodeTypes, BF!charAt(ip) = "[", BF!Ends(ip) # {}
  PROVE  /\ BF!Min(BF!Ends(ip)) \in Nat /\ BF!Min(BF!Ends(ip)) <= BF!Last0
         /\ Loops(code, BF!Min(BF!Ends(ip)) + 1) = Loops(code, ip)
<1>1. /\ ip \in Nat /\ code[ip + 1] = "["
      /\ \A j : j \in BF!Ends(ip) <=> j \in ip .. BF!Last0 /\ Deep(code, ip, j) = 0
  BY DepthIs DEF BF!Ends, BF!charAt, CodeTypes
<1>2. PICK z \in BF!Ends(ip) : z \in Nat /\ ip <= z /\ z <= BF!Last0 /\ Deep(code, ip, z) = 0
  BY <1>1 DEF CodeTypes, BF!Last0
<1>3. PICK e \in ip + 1 .. z : Deep(code, ip, e) = 0 /\ \A k \in ip .. e - 1 : Deep(code, ip, k) > 0
  BY <1>1, <1>2, Falls
<1>4. e \in BF!Ends(ip) /\ e \in Nat /\ ip < e
  BY <1>1, <1>2, <1>3 DEF CodeTypes, BF!Last0
<1>5. \A j \in BF!Ends(ip) : e <= j
  <2> SUFFICES ASSUME NEW j \in BF!Ends(ip), j < e PROVE FALSE
    BY <1>1, <1>4 DEF CodeTypes, BF!Last0
  <2>1. j \in ip .. e - 1 /\ Deep(code, ip, j) = 0
    BY <1>1, <1>4 DEF CodeTypes, BF!Last0
  <2>2. QED BY <1>3, <2>1
<1>6. BF!Min(BF!Ends(ip)) = e
  <2> DEFINE E == BF!Ends(ip)
             m == CHOOSE x \in E : \A y \in E : x <= y
  <2>1. \E x \in E : \A y \in E : x <= y
    BY <1>4, <1>5
  <2> HIDE DEF E
  <2>2. m \in E /\ \A y \in E : m <= y
    BY <2>1
  <2> HIDE DEF m
  <2>3. m <= e /\ e <= m /\ m \in Int
    BY <1>1, <1>4, <1>5, <2>2 DEF E
  <2>4. m = e
    BY <1>4, <2>3
  <2>5. QED BY <2>4 DEF BF!Min, E, m
<1>7. Loops(code, e + 1) = Loops(code, ip)
  BY <1>1, <1>3, <1>4, LoopsSkip
<1>8. e <= BF!Last0
  BY <1>1, <1>4
<1>9. QED BY <1>4, <1>6, <1>7, <1>8

LEMMA CodeNextInv == CodeInv /\ [BF!Next]_(BF!vars) => CodeInv'
<1> SUFFICES ASSUME CodeInv, [BF!Next]_(BF!vars) PROVE CodeInv'
  OBVIOUS
<1>0. /\ code \in Seq(BF!Commands) /\ startLoopPos \in Seq(Nat) /\ Len(code) \in Nat
      /\ ip \in Nat /\ ip <= Len(code) /\ dp \in Int /\ BF!Last0 = Len(code) - 1
      /\ BF!charAt(ip) = code[ip + 1]
      /\ outcome = "running" => Holds(startLoopPos, Loops(code, ip))
  BY DEF CodeInv, CodeTypes, BF!Last0, BF!charAt
<1> USE DEF CodeInv, CodeTypes
<1>1. ASSUME BF!Change \/ BF!Move \/ BF!Write PROVE CodeInv'
  <2>1. /\ outcome = "running" /\ ip <= BF!Last0 /\ code[ip + 1] \notin {"[", "]"}
        /\ ip' = ip + 1 /\ dp' \in Int /\ UNCHANGED <<code, startLoopPos, outcome>>
    BY <1>0, <1>1 DEF BF!Change, BF!Move, BF!Write, BF!At, BF!Quiet
  <2>2. Loops(code, ip + 1) = Loops(code, ip)
    BY <1>0, <2>1, LoopsStep
  <2>3. QED BY <1>0, <2>1, <2>2
<1>2. ASSUME BF!Read PROVE CodeInv'
  <2>1. outcome = "running" /\ UNCHANGED <<code, ip, dp, startLoopPos, outcome>>
    BY <1>2 DEF BF!Read, BF!At
  <2>2. QED BY <1>0, <2>1
<1>3. ASSUME BF!Skip PROVE CodeInv'
  <2>1. /\ outcome = "running" /\ ip <= BF!Last0 /\ BF!charAt(ip) = "["
        /\ UNCHANGED <<code, startLoopPos, dp>>
        /\ IF BF!Ends(ip) # {} THEN ip' = BF!Min(BF!Ends(ip)) + 1 /\ outcome' = outcome
                               ELSE ip' = Len(code) /\ outcome' = "threw"
    BY <1>3 DEF BF!Skip, BF!At, BF!Quiet
  <2>2. CASE BF!Ends(ip) # {}
    <3>1. /\ BF!Min(BF!Ends(ip)) \in Nat /\ BF!Min(BF!Ends(ip)) <= BF!Last0
          /\ Loops(code, BF!Min(BF!Ends(ip)) + 1) = Loops(code, ip)
      BY <2>1, <2>2, SkipTo
    <3>2. ip' \in Nat /\ ip' <= Len(code) /\ Loops(code, ip') = Loops(code, ip)
      BY <1>0, <2>1, <2>2, <3>1
    <3>3. QED BY <1>0, <2>1, <2>2, <3>2
  <2>3. CASE BF!Ends(ip) = {}
    <3>1. ~BF!Balanced
      BY <2>1, <2>3, SkipEnds
    <3>2. ~BF!Balanced'
      BY <2>1, <3>1 DEF BF!Balanced, BF!Depth, BF!charAt, BF!Last0
    <3>3. QED BY <1>0, <2>1, <2>3, <3>2 DEF Blamed
  <2>4. QED BY <2>2, <2>3
<1>4. ASSUME BF!Enter PROVE CodeInv'
  <2>1. /\ outcome = "running" /\ ip <= BF!Last0 /\ code[ip + 1] = "["
        /\ ip' = ip + 1 /\ startLoopPos' = Append(startLoopPos, ip)
        /\ UNCHANGED <<code, dp, outcome>>
    BY <1>0, <1>4 DEF BF!Enter, BF!At
  <2>2. Loops(code, ip + 1) = Loops(code, ip) \cup {ip}
    BY <1>0, <2>1, LoopsStep
  <2>3. \A y \in Loops(code, ip) : y < ip
    BY <1>0 DEF Loops
  <2>4. startLoopPos' \in Seq(Nat) /\ Holds(startLoopPos', Loops(code, ip) \cup {ip})
    BY <1>0, <2>1, <2>3, Pushed
  <2>5. ip' \in Nat /\ ip' <= Len(code)
    BY <1>0, <2>1
  <2>6. QED BY <1>0, <2>1, <2>2, <2>4, <2>5
<1>5. ASSUME BF!Close PROVE CodeInv'
  <2> DEFINE last == startLoopPos[Len(startLoopPos)]
             front == SubSeq(startLoopPos, 1, Len(startLoopPos) - 1)
  <2>1. /\ outcome = "running" /\ ip <= BF!Last0 /\ code[ip + 1] = "]" /\ startLoopPos # <<>>
        /\ startLoopPos' = front
        /\ ip' = IF memory[dp] = 0 THEN ip + 1 ELSE last
        /\ UNCHANGED <<code, dp, outcome>>
    BY <1>0, <1>5 DEF BF!Close, BF!At, BF!Front, BF!Last
  <2>2. /\ Innermost(code, last, ip) /\ front \in Seq(Nat)
        /\ Holds(front, Loops(code, ip) \ {last})
    BY <1>0, <2>1, Popped
  <2> HIDE DEF last, front
  <2>3. /\ Loops(code, last) = Loops(code, ip) \ {last}
        /\ Loops(code, ip + 1) = Loops(code, ip) \ {last}
    <3>1. ip \in Nat /\ code[ip + 1] = "]" /\ Innermost(code, last, ip)
      BY <1>0, <2>1, <2>2
    <3>2. Loops(code, last) = Loops(code, ip) \ {last}
      BY <3>1, LoopsBack
    <3>3. Loops(code, ip + 1) = Loops(code, ip) \ {last}
      BY <3>1, LoopsClose
    <3>4. QED BY <3>2, <3>3
  <2>4. last \in Nat /\ last <= ip
    BY <1>0, <2>2 DEF Innermost, Loops
  <2>5. ip' \in Nat /\ ip' <= Len(code) /\ Loops(code, ip') = Loops(code, ip) \ {last}
    BY <1>0, <2>1, <2>3, <2>4
  <2>6. QED BY <1>0, <2>1, <2>2, <2>5
<1>6. ASSUME BF!Throw PROVE CodeInv'
  <2>1. /\ outcome = "running" /\ ip <= BF!Last0 /\ outcome' = "threw"
        /\ UNCHANGED <<code, ip, dp, startLoopPos>>
        /\ dp < 0 \/ code[ip + 1] = "?" \/ (code[ip + 1] = "]" /\ startLoopPos = <<>>)
    BY <1>0, <1>6 DEF BF!Throw, BF!Quiet
  <2>2. Blamed
    <3>1. SUFFICES ASSUME BF!Balanced, code[ip + 1] = "]", startLoopPos = <<>> PROVE FALSE
      BY <1>0, <2>1 DEF Blamed
    <3>2. \A i \in 0 .. BF!Last0 : Deep(code, 0, i) >= 0
      BY <3>1, DepthIs DEF BF!Balanced
    <3>3. Loops(code, ip) = {}
      BY <1>0, <2>1, <3>1 DEF Holds
    <3>4. /\ Deep(code, 0, ip) = Deep(code, 0, ip - 1) + Bracket(code, ip)
          /\ Deep(code, 0, ip - 1) \in Int /\ Deep(code, 0, ip) >= 0
      BY <1>0, <2>1, <3>2, DeepStep
    <3>5. Deep(code, 0, ip - 1) > 0
      BY <3>1, <3>4 DEF Bracket
    <3>6. ip # 0
      BY <3>5, DeepNone
    <3>7. QED BY <1>0, <3>3, <3>5, <3>6, Rises
  <2>3. Blamed'
    BY <2>1, <2>2 DEF Blamed, BF!Balanced, BF!Depth, BF!charAt, BF!Last0
  <2>4. QED BY <1>0, <2>1, <2>3
<1>7. ASSUME BF!End PROVE CodeInv'
  <2>1. outcome = "running" /\ outcome' = "ended" /\ UNCHANGED <<code, ip, dp, startLoopPos>>
    BY <1>7 DEF BF!End, BF!Quiet
  <2>2. QED BY <1>0, <2>1
<1>8. CASE UNCHANGED BF!vars
  <2>1. UNCHANGED <<code, ip, dp, startLoopPos, outcome>>
    BY <1>8 DEF BF!vars
  <2>2. Blamed' <=> Blamed
    BY <2>1 DEF Blamed, BF!Balanced, BF!Depth, BF!charAt, BF!Last0
  <2>3. QED BY <2>1, <2>2
<1>9. QED BY <1>1, <1>2, <1>3, <1>4, <1>5, <1>6, <1>7, <1>8 DEF BF!Next

\* For programs of any length: the stack of the interpreter holds the loops
\* around the instruction, and a program whose brackets match does not make it
\* throw by its brackets.
THEOREM StackHoldsTheLoops == BF!Spec => []LoopsNest
<1>1. CodeInv => LoopsNest
  <2>1. CodeInv => (outcome = "threw" \/ BF!Nested)
    BY NestedIs DEF CodeInv
  <2>2. CodeInv => (outcome = "threw" /\ BF!Balanced /\ dp >= 0 => BF!charAt(ip) = "?")
    BY DEF CodeInv, Blamed
  <2>3. QED BY <2>1, <2>2 DEF LoopsNest, BF!LoopsNest
<1>2. BF!Init => CodeInv
  BY CodeInitInv
<1>3. CodeInv /\ [BF!Next]_(BF!vars) => CodeInv'
  BY CodeNextInv
<1>4. QED BY <1>1, <1>2, <1>3, PTL DEF BF!Spec

-----------------------------------------------------------------------------
(* Autocompletion: the order of words *)

\* s is a prefix of t.
Pre(s, t) == Len(s) <= Len(t) /\ \A n \in 1 .. Len(s) : s[n] = t[n]

\* s comes before t in a dictionary.
Less(s, t) ==
  \/ Pre(s, t) /\ Len(s) < Len(t)
  \/ \E n \in 1 .. Len(s) : /\ n <= Len(t) /\ s[n] < t[n]
                            /\ \A m \in 1 .. n - 1 : s[m] = t[m]

\* The search that stands at p has been at w.
Passed(p, w) == Pre(p, w) \/ Less(w, p)

\* t is s with c at the end.
Ext(s, c, t) ==
  /\ Len(t) = Len(s) + 1 /\ t[Len(s) + 1] = c
  /\ \A n \in 1 .. Len(s) : t[n] = s[n]

Str(s) == Len(s) \in Nat /\ \A n \in 1 .. Len(s) : s[n] \in Nat

LEMMA StrIs == ASSUME NEW s \in Seq(Nat) PROVE Str(s)
BY DEF Str

LEMMA ExtIs ==
  ASSUME NEW s \in Seq(Nat), NEW c \in Nat
  PROVE  Append(s, c) \in Seq(Nat) /\ Ext(s, c, Append(s, c))
BY DEF Ext

LEMMA PrefixIs ==
  ASSUME NEW s \in Seq(Nat), NEW t \in Seq(Nat)
  PROVE  AC!IsPrefix(s, t) <=> Pre(s, t)
<1> DEFINE u == SubSeq(t, 1, Len(s))
<1>1. Len(s) \in Nat /\ Len(t) \in Nat /\ SubSeq(s, 1, Len(s)) = s
  OBVIOUS
<1>2. CASE Len(s) <= Len(t)
  <2>1. u \in Seq(Nat) /\ Len(u) = Len(s) /\ \A n \in 1 .. Len(s) : u[n] = t[n]
    BY <1>1, <1>2
  <2> HIDE DEF u
  <2>2. s = u <=> \A n \in 1 .. Len(s) : s[n] = u[n]
    BY <2>1, SeqEqual
  <2>3. AC!IsPrefix(s, t) <=> s = u
    BY <1>1, <1>2 DEF AC!IsPrefix, u
  <2>4. QED BY <1>2, <2>1, <2>2, <2>3 DEF Pre
<1>3. CASE ~(Len(s) <= Len(t))
  BY <1>3 DEF Pre, AC!IsPrefix
<1>4. QED BY <1>2, <1>3

\* Two words of one length, one a prefix of the other.
LEMMA PreSame ==
  ASSUME NEW s \in Seq(Nat), NEW t \in Seq(Nat), Pre(s, t), Len(s) = Len(t)
  PROVE  s = t
BY SeqEqual DEF Pre

LEMMA BeforeIs ==
  ASSUME NEW s \in Seq(Nat), NEW t \in Seq(Nat)
  PROVE  AC!Before(s, t) <=> Less(s, t)
<1>1. Len(s) \in Nat /\ Len(t) \in Nat
  OBVIOUS
<1>2. AC!IsStrictPrefix(s, t) <=> Pre(s, t) /\ Len(s) < Len(t)
  <2>1. AC!IsStrictPrefix(s, t) <=> Pre(s, t) /\ s # t
    BY PrefixIs DEF AC!IsStrictPrefix
  <2>2. Pre(s, t) => Len(s) <= Len(t)
    BY DEF Pre
  <2>3. QED BY <1>1, <2>1, <2>2, PreSame
<1>3. \A n : n \in 1 .. AC!Min({Len(s), Len(t)}) <=> n \in 1 .. Len(s) /\ n <= Len(t)
  <2> DEFINE m == CHOOSE x \in {Len(s), Len(t)} : \A y \in {Len(s), Len(t)} : x <= y
  <2>1. m \in {Len(s), Len(t)} /\ m <= Len(s) /\ m <= Len(t)
    <3>1. \E x \in {Len(s), Len(t)} : \A y \in {Len(s), Len(t)} : x <= y
      BY <1>1
    <3>2. QED BY <3>1
  <2>2. AC!Min({Len(s), Len(t)}) = m
    BY DEF AC!Min
  <2> HIDE DEF m
  <2>3. QED BY <1>1, <2>1, <2>2
<1>4. ASSUME NEW n \in 1 .. Len(s), n <= Len(t)
      PROVE  SubSeq(s, 1, n - 1) = SubSeq(t, 1, n - 1) <=> \A m \in 1 .. n - 1 : s[m] = t[m]
  <2> DEFINE u == SubSeq(s, 1, n - 1)
             v == SubSeq(t, 1, n - 1)
  <2>1. /\ u \in Seq(Nat) /\ v \in Seq(Nat) /\ Len(u) = n - 1 /\ Len(v) = n - 1
        /\ \A m \in 1 .. n - 1 : u[m] = s[m] /\ v[m] = t[m]
    BY <1>1, <1>4, SMTT(20)
  <2> HIDE DEF u, v
  <2>2. u = v <=> \A m \in 1 .. n - 1 : u[m] = v[m]
    BY <2>1, SeqEqual
  <2>3. QED BY <2>1, <2>2 DEF u, v
<1>5. (\E n \in 1 .. AC!Min({Len(s), Len(t)}) :
         s[n] < t[n] /\ SubSeq(s, 1, n - 1) = SubSeq(t, 1, n - 1))
      <=> \E n \in 1 .. Len(s) : n <= Len(t) /\ s[n] < t[n] /\ \A m \in 1 .. n - 1 : s[m] = t[m]
  BY <1>3, <1>4
<1>6. QED BY <1>2, <1>5 DEF AC!Before, Less

\* The search goes from a node to its child c, and no word is between them.
\* p is the node with the child d before it, q the child and r its start.
LEMMA PassedChild ==
  ASSUME NEW s, NEW d \in Nat, NEW c \in Nat, d < c, NEW w, NEW p, NEW q,
         Str(s), Str(w), Ext(s, d, p), Ext(s, c, q)
  PROVE  /\ Passed(p, w) => Less(w, q)
         /\ Less(w, q) /\ (Pre(s, w) /\ Len(s) < Len(w) => ~(d < w[Len(s) + 1] /\ w[Len(s) + 1] < c))
              => Passed(p, w)
<1>0. Len(s) \in Nat /\ Len(w) \in Nat /\ \A n \in 1 .. Len(w) : w[n] \in Nat
  BY DEF Str
<1>1. /\ Len(p) = Len(s) + 1 /\ p[Len(s) + 1] = d /\ \A n \in 1 .. Len(s) : p[n] = s[n]
      /\ Len(q) = Len(s) + 1 /\ q[Len(s) + 1] = c /\ \A n \in 1 .. Len(s) : q[n] = s[n]
  BY DEF Ext
<1>2. ASSUME Pre(p, w) PROVE Less(w, q)
  <2>1. Len(s) + 1 <= Len(w) /\ w[Len(s) + 1] = d /\ \A n \in 1 .. Len(s) : w[n] = q[n]
    BY <1>0, <1>1, <1>2 DEF Pre
  <2>2. Len(s) + 1 \in 1 .. Len(w) /\ (Len(s) + 1) - 1 = Len(s)
    BY <1>0, <2>1
  <2>3. QED BY <1>1, <2>1, <2>2 DEF Less
<1>3. ASSUME Less(w, p) PROVE Less(w, q)
  <2>1. CASE Pre(w, p) /\ Len(w) < Len(p)
    <3>1. Len(w) <= Len(s) /\ \A n \in 1 .. Len(w) : n \in 1 .. Len(s) /\ w[n] = p[n]
      BY <1>0, <1>1, <2>1 DEF Pre
    <3>2. QED BY <1>0, <1>1, <3>1 DEF Less, Pre
  <2>2. ASSUME NEW n \in 1 .. Len(w), n <= Len(p), w[n] < p[n], \A m \in 1 .. n - 1 : w[m] = p[m]
        PROVE  Less(w, q)
    <3>1. \A m \in 1 .. n - 1 : w[m] = q[m]
      BY <1>0, <1>1, <2>2
    <3>2. w[n] < q[n]
      <4>1. CASE n = Len(s) + 1
        BY <1>0, <1>1, <2>2, <4>1
      <4>2. CASE n # Len(s) + 1
        <5>1. n \in 1 .. Len(s)
          BY <1>0, <1>1, <2>2, <4>2
        <5>2. QED BY <1>1, <2>2, <5>1
      <4>3. QED BY <4>1, <4>2
    <3>3. n <= Len(q)
      BY <1>1, <2>2
    <3>4. QED BY <3>1, <3>2, <3>3 DEF Less
  <2>3. QED BY <1>3, <2>1, <2>2 DEF Less
<1>4. ASSUME Less(w, q), Pre(s, w) /\ Len(s) < Len(w) => ~(d < w[Len(s) + 1] /\ w[Len(s) + 1] < c)
      PROVE  Passed(p, w)
  <2>1. CASE Pre(w, q) /\ Len(w) < Len(q)
    <3>1. Len(w) <= Len(s) /\ \A n \in 1 .. Len(w) : n \in 1 .. Len(s) /\ w[n] = q[n]
      BY <1>0, <1>1, <2>1 DEF Pre
    <3>2. QED BY <1>0, <1>1, <3>1 DEF Less, Pre, Passed
  <2>2. ASSUME NEW n \in 1 .. Len(w), n <= Len(q), w[n] < q[n], \A m \in 1 .. n - 1 : w[m] = q[m]
        PROVE  Passed(p, w)
    <3>1. \A m \in 1 .. n - 1 : m \in 1 .. Len(s) /\ w[m] = p[m]
      BY <1>0, <1>1, <2>2
    <3>2. CASE n # Len(s) + 1
      <4>1. n \in 1 .. Len(s)
        BY <1>0, <1>1, <2>2, <3>2
      <4>2. w[n] < p[n] /\ n <= Len(p)
        BY <1>0, <1>1, <2>2, <4>1
      <4>3. QED BY <3>1, <4>2 DEF Less, Passed
    <3>3. CASE n = Len(s) + 1
      <4>1. /\ Len(s) + 1 \in 1 .. Len(w) /\ w[Len(s) + 1] < c /\ w[Len(s) + 1] \in Nat
            /\ \A m \in 1 .. Len(s) : w[m] = p[m]
        BY <1>0, <1>1, <2>2, <3>1, <3>3
      <4>2. Pre(s, w) /\ Len(s) < Len(w)
        BY <1>0, <1>1, <4>1 DEF Pre
      <4>3. w[Len(s) + 1] <= d
        BY <1>4, <4>1, <4>2
      <4>4. CASE w[Len(s) + 1] = d
        <5>1. \A m \in 1 .. Len(p) : m \in 1 .. Len(s) \/ m = Len(s) + 1
          BY <1>0, <1>1
        <5>2. Pre(p, w)
          BY <1>0, <1>1, <4>1, <4>4, <5>1 DEF Pre
        <5>3. QED BY <5>2 DEF Passed
      <4>5. CASE w[Len(s) + 1] < d
        BY <1>0, <1>1, <3>1, <3>3, <4>1, <4>5 DEF Less, Passed
      <4>6. QED BY <4>1, <4>3, <4>4, <4>5
    <3>4. QED BY <3>2, <3>3
  <2>3. QED BY <1>4, <2>1, <2>2 DEF Less
<1>5. QED BY <1>2, <1>3, <1>4 DEF Passed

\* A node is where the search stands when it comes to it: no letter is a 0.
LEMMA PassedNode ==
  ASSUME NEW q, NEW r, NEW w, Str(q), Str(w), Ext(q, 0, r), \A n \in 1 .. Len(w) : w[n] # 0,
         Pre(w, q) /\ Len(w) = Len(q) => w = q
  PROVE  Passed(r, w) <=> w = q \/ Less(w, q)
<1>0. /\ Len(q) \in Nat /\ Len(w) \in Nat
      /\ \A n \in 1 .. Len(w) : w[n] \in Nat /\ w[n] # 0
  BY DEF Str
<1>1. Len(r) = Len(q) + 1 /\ r[Len(q) + 1] = 0 /\ \A n \in 1 .. Len(q) : r[n] = q[n]
  BY DEF Ext
<1>2. ~Pre(r, w)
  <2>1. Len(q) + 1 \in 1 .. Len(r)
    BY <1>0, <1>1
  <2>2. QED BY <1>0, <1>1, <2>1 DEF Pre
<1>3. ASSUME w = q \/ Less(w, q) PROVE Less(w, r)
  <2>1. CASE w = q
    BY <1>0, <1>1, <2>1 DEF Less, Pre
  <2>2. CASE Pre(w, q) /\ Len(w) < Len(q)
    BY <1>0, <1>1, <2>2 DEF Less, Pre
  <2>3. ASSUME NEW n \in 1 .. Len(w), n <= Len(q), w[n] < q[n], \A m \in 1 .. n - 1 : w[m] = q[m]
        PROVE  Less(w, r)
    <3>1. n <= Len(r) /\ w[n] < r[n] /\ \A m \in 1 .. n - 1 : w[m] = r[m]
      BY <1>0, <1>1, <2>3
    <3>2. QED BY <3>1 DEF Less
  <2>4. QED BY <1>3, <2>1, <2>2, <2>3 DEF Less
<1>4. ASSUME Less(w, r) PROVE w = q \/ Less(w, q)
  <2>1. CASE Pre(w, r) /\ Len(w) < Len(r)
    <3>1. Len(w) <= Len(q) /\ Pre(w, q)
      BY <1>0, <1>1, <2>1 DEF Pre
    <3>2. Len(w) = Len(q) => w = q
      BY <3>1
    <3>3. QED BY <1>0, <3>1, <3>2 DEF Less
  <2>2. ASSUME NEW n \in 1 .. Len(w), n <= Len(r), w[n] < r[n], \A m \in 1 .. n - 1 : w[m] = r[m]
        PROVE  Less(w, q)
    <3>1. n # Len(q) + 1
      BY <1>0, <1>1, <2>2
    <3>2. n \in 1 .. Len(q)
      BY <1>0, <1>1, <2>2, <3>1
    <3>3. n <= Len(q) /\ w[n] < q[n] /\ \A m \in 1 .. n - 1 : w[m] = q[m]
      BY <1>0, <1>1, <2>2, <3>2
    <3>4. QED BY <3>3 DEF Less
  <2>3. QED BY <1>4, <2>1, <2>2 DEF Less
<1>5. QED BY <1>2, <1>3, <1>4 DEF Passed

\* A call returns when the words below its node are behind it.
LEMMA PassedReturn ==
  ASSUME NEW s, NEW d \in Nat, NEW p, NEW w, Str(s), Str(w), Ext(s, d, p),
         Pre(s, w) /\ Len(s) < Len(w) => w[Len(s) + 1] <= d
  PROVE  Passed(s, w) <=> Passed(p, w)
<1>0. Len(s) \in Nat /\ Len(w) \in Nat /\ \A n \in 1 .. Len(w) : w[n] \in Nat
  BY DEF Str
<1>1. Len(p) = Len(s) + 1 /\ p[Len(s) + 1] = d /\ \A n \in 1 .. Len(s) : p[n] = s[n]
  BY DEF Ext
<1>2. ASSUME Pre(s, w) PROVE Passed(p, w)
  <2>1. \A n \in 1 .. Len(s) : w[n] = p[n]
    BY <1>1, <1>2 DEF Pre
  <2>2. CASE Len(w) = Len(s)
    BY <1>0, <1>1, <2>1, <2>2 DEF Passed, Less, Pre
  <2>3. CASE Len(s) < Len(w)
    <3>1. Len(s) + 1 \in 1 .. Len(w) /\ w[Len(s) + 1] <= d /\ w[Len(s) + 1] \in Nat
      BY <1>0, <1>2, <2>3
    <3>2. CASE w[Len(s) + 1] = d
      <4>1. \A m \in 1 .. Len(p) : m \in 1 .. Len(s) \/ m = Len(s) + 1
        BY <1>0, <1>1
      <4>2. QED BY <1>0, <1>1, <2>1, <3>1, <3>2, <4>1 DEF Passed, Pre
    <3>3. CASE w[Len(s) + 1] < d
      <4>1. (Len(s) + 1) - 1 = Len(s)
        BY <1>0
      <4>2. QED BY <1>0, <1>1, <2>1, <3>1, <3>3, <4>1 DEF Passed, Less
    <3>4. QED BY <3>1, <3>2, <3>3
  <2>4. QED BY <1>0, <1>2, <2>2, <2>3 DEF Pre
<1>3. ASSUME Less(w, s) PROVE Passed(p, w)
  <2>1. CASE Pre(w, s) /\ Len(w) < Len(s)
    BY <1>0, <1>1, <2>1 DEF Passed, Less, Pre
  <2>2. ASSUME NEW n \in 1 .. Len(w), n <= Len(s), w[n] < s[n], \A m \in 1 .. n - 1 : w[m] = s[m]
        PROVE  Less(w, p)
    <3>1. n <= Len(p) /\ w[n] < p[n] /\ \A m \in 1 .. n - 1 : w[m] = p[m]
      BY <1>0, <1>1, <2>2
    <3>2. QED BY <3>1 DEF Less
  <2>3. QED BY <1>3, <2>1, <2>2 DEF Less, Passed
<1>4. ASSUME Pre(p, w) PROVE Pre(s, w)
  BY <1>0, <1>1, <1>4 DEF Pre
<1>5. ASSUME Less(w, p) PROVE Passed(s, w)
  <2>1. CASE Pre(w, p) /\ Len(w) < Len(p)
    <3>1. Len(w) <= Len(s) /\ Pre(w, s)
      BY <1>0, <1>1, <2>1 DEF Pre
    <3>2. Len(w) = Len(s) => Pre(s, w)
      BY <1>0, <3>1 DEF Pre
    <3>3. QED BY <1>0, <3>1, <3>2 DEF Passed, Less
  <2>2. ASSUME NEW n \in 1 .. Len(w), n <= Len(p), w[n] < p[n], \A m \in 1 .. n - 1 : w[m] = p[m]
        PROVE  Passed(s, w)
    <3>1. CASE n # Len(s) + 1
      <4>1. n \in 1 .. Len(s)
        BY <1>0, <1>1, <2>2, <3>1
      <4>2. n <= Len(s) /\ w[n] < s[n] /\ \A m \in 1 .. n - 1 : w[m] = s[m]
        BY <1>0, <1>1, <2>2, <4>1
      <4>3. QED BY <4>2 DEF Passed, Less
    <3>2. CASE n = Len(s) + 1
      BY <1>0, <1>1, <2>2, <3>2 DEF Passed, Pre
    <3>3. QED BY <3>1, <3>2
  <2>3. QED BY <1>5, <2>1, <2>2 DEF Less
<1>6. QED BY <1>2, <1>3, <1>4, <1>5 DEF Passed

-----------------------------------------------------------------------------
(* Autocompletion: the invariant *)

Frames == [node : Seq(Nat), child : Nat, word : Nat]

TrieTypes ==
  /\ wordlist \in Seq(AC!Words) /\ loaded \in 0 .. Len(wordlist)
  /\ arg \in AC!Strings \cup {AC!None, AC!Help}
  /\ arg \in AC!Strings => Len(arg) < Room
  /\ text \in Seq(Nat) /\ stack \in Seq(Frames) /\ stdout \in Seq(Seq(Nat))
  /\ buffer \in Nat /\ buffer >= 1 /\ buffsize \in Nat /\ buffsize >= Room
  /\ phase \in {"load", "search", "print", "free", "done", "crashed", "dangling"}

Loaded == {wordlist[k] : k \in 1 .. loaded}

\* The nodes are the prefixes of the words that are loaded.
NodesInv ==
  phase # "done" =>
    /\ isEnd = Loaded
    /\ \A v \in nodes : v \in Seq(Nat)
    /\ \A v \in Seq(Nat) : v \in nodes <=> v = <<>> \/ \E w \in Loaded : Pre(v, w)

PhaseInv ==
  /\ phase = "load" => stack = <<>> /\ text = <<>> /\ buffer = 1 /\ stdout = <<>>
  /\ phase = "search" =>
       /\ arg # <<>> /\ arg \in nodes /\ text = arg /\ stack = <<>> /\ buffer = 1 /\ stdout = <<>>
  /\ phase \in {"search", "print", "free", "dangling"} => AC!Searches
  /\ phase # "load" /\ AC!Searches => loaded = Len(wordlist)

\* The buffer has room for one letter more while the search goes on, and it
\* has been moved only for a long word.
LongWord == \E w \in AC!Completions : Len(w) >= Room - 1

\* The buffers these calls hold are numbered up to b.
Held(s, b) == \A k \in DOMAIN s : s[k].word >= 1 /\ s[k].word <= b

BufferInv ==
  /\ Len(text) < buffsize
  /\ phase = "print" => Len(text) + 1 < buffsize
  /\ buffer # 1 \/ phase = "dangling" => LongWord
  /\ Held(stack, buffer)

\* The calls of dfs_and_print are a path from the prefix to the word in the buffer.
Path(s, a, ns) ==
  /\ s # <<>> => s[1].node = a
  /\ \A k \in 1 .. Len(s) - 1 : s[k + 1].node = Append(s[k].node, s[k].child)
  /\ \A k \in DOMAIN s : s[k].node \in ns /\ Pre(a, s[k].node)

PathInv ==
  phase = "print" =>
    /\ stack # <<>> /\ arg # <<>> /\ Path(stack, arg, nodes)
    /\ text = stack[Len(stack)].node

\* What the search has been at is printed.
Lists(s, D) ==
  /\ {s[n] : n \in DOMAIN s} = D
  /\ \A m, n \in DOMAIN s : m < n => Less(s[m], s[n])

Position == Append(stack[Len(stack)].node, stack[Len(stack)].child)

PrintedInv ==
  /\ phase = "print" => Lists(stdout, {w \in AC!Completions : Passed(Position, w)})
  /\ phase \in {"free", "done"} /\ AC!Searches => Lists(stdout, AC!Completions)

TrieInv == TrieTypes /\ NodesInv /\ PhaseInv /\ BufferInv /\ PathInv /\ PrintedInv

LEMMA StringsAre ==
  ASSUME NEW w \in AC!Strings
  PROVE  w \in Seq(Nat) /\ \A n \in 1 .. Len(w) : w[n] \in Nat /\ w[n] # 0 /\ w[n] <= Letters
<1>1. PICK n \in 0 .. MaxLength : w \in [1 .. n -> 1 .. Letters]
  BY DEF AC!Strings
<1>2. n \in Nat /\ Letters \in Nat
  BY <1>1, TrieAssumption
<1>3. w \in Seq(1 .. Letters) /\ Len(w) = n
  BY <1>1, <1>2
<1>4. \A m \in 1 .. n : w[m] \in 1 .. Letters
  BY <1>1
<1>5. w \in Seq(Nat)
  BY <1>2, <1>3, SeqMonotonic
<1>6. QED BY <1>2, <1>3, <1>4, <1>5

LEMMA WordsAre ==
  ASSUME NEW w \in AC!Words
  PROVE  w \in AC!Strings /\ w # <<>>
BY DEF AC!Words

\* Words of a bounded length are finitely many: a word is known by the pairs of
\* a place and the letter there.
LEMMA StringsFinite == IsFiniteSet(AC!Strings)
<1> DEFINE W(n) == [1 .. n -> 1 .. Letters]
           S == {W(n) : n \in 0 .. MaxLength}
<1>1. ASSUME NEW n \in 0 .. MaxLength PROVE IsFiniteSet(W(n))
  <2> DEFINE A == (1 .. n) \X (1 .. Letters)
             f == [w \in W(n) |-> {<<k, w[k]>> : k \in 1 .. n}]
  <2>1. IsFiniteSet(1 .. n) /\ IsFiniteSet(1 .. Letters)
    BY TrieAssumption, FS_Interval
  <2>2. IsFiniteSet(SUBSET A)
    <3>1. IsFiniteSet(A)
      BY <2>1, FS_Product
    <3> HIDE DEF A
    <3>2. QED BY <3>1, FS_SUBSET
  <2>3. f \in Injection(W(n), SUBSET A)
    <3>1. \A w \in W(n) : {<<k, w[k]>> : k \in 1 .. n} \in SUBSET A
      OBVIOUS
    <3>2. f \in [W(n) -> SUBSET A]
      BY <3>1
    <3>3. ASSUME NEW v \in W(n), NEW w \in W(n), f[v] = f[w] PROVE v = w
      <4>1. \A k \in 1 .. n : <<k, v[k]>> \in {<<l, w[l]>> : l \in 1 .. n}
        BY <3>3
      <4>2. \A k \in 1 .. n : v[k] = w[k]
        BY <4>1
      <4>3. QED BY <4>2
    <3> HIDE DEF f, A, W
    <3>4. QED BY <3>2, <3>3 DEF Injection, IsInjective
  <2> HIDE DEF f, A, W
  <2>4. QED BY <2>2, <2>3, FS_Injection
<1>2. IsFiniteSet(S)
  <2> DEFINE g == [n \in 0 .. MaxLength |-> W(n)]
  <2>1. IsFiniteSet(0 .. MaxLength)
    BY TrieAssumption, FS_Interval
  <2>2. g \in Surjection(0 .. MaxLength, S)
    <3>1. g \in [0 .. MaxLength -> S] /\ \A t \in S : \E n \in 0 .. MaxLength : g[n] = t
      BY DEF W
    <3> HIDE DEF g, S
    <3>2. QED BY <3>1 DEF Surjection
  <2> HIDE DEF g, S
  <2>3. QED BY <2>1, <2>2, FS_Surjection
<1>3. \A T \in S : IsFiniteSet(T)
  BY <1>1
<1>4. AC!Strings = UNION S
  BY DEF AC!Strings
<1> HIDE DEF S
<1>5. QED BY <1>2, <1>3, <1>4, FS_UNION

LEMMA WordlistType == AC!Init => wordlist \in Seq(AC!Words)
<1> SUFFICES ASSUME AC!Init PROVE wordlist \in Seq(AC!Words)
  OBVIOUS
<1>1. PICK ws \in SUBSET AC!Words : wordlist = AC!SetToSeq(ws)
  BY DEF AC!Init
<1>2. IsFiniteSet(ws)
  <2>1. ws \in SUBSET AC!Strings
    BY WordsAre
  <2>2. QED BY <2>1, StringsFinite, FS_Subset
<1>3. Cardinality(ws) \in Nat /\ ExistsBijection(1 .. Cardinality(ws), ws)
  BY <1>2, FS_CardinalityType
<1> DEFINE n == Cardinality(ws)
<1>4. \E f \in [1 .. n -> ws] : IsInjective(f)
  BY <1>3 DEF ExistsBijection, Bijection, Injection
<1>5. AC!SetToSeq(ws) = CHOOSE f \in [1 .. n -> ws] : IsInjective(f)
  BY DEF AC!SetToSeq, AC!Cardinality, Cardinality, AC!IsInjective, IsInjective
<1> HIDE DEF n
<1>6. wordlist \in [1 .. n -> ws]
  BY <1>1, <1>4, <1>5
<1>7. n \in Nat
  BY <1>3 DEF n
<1>8. QED BY <1>6, <1>7

LEMMA ArgIs ==
  /\ AC!Searches /\ TrieTypes => arg \in AC!Strings /\ arg \in Seq(Nat)
  /\ arg \in AC!Strings => AC!Searches
<1>1. ASSUME arg \in AC!Strings PROVE AC!Searches
  <2>1. \A n \in 1 .. Len(arg) : arg[n] \in Nat /\ arg[n] # 0
    BY <1>1, StringsAre
  <2>2. arg # <<0>> /\ arg # <<-1>>
    BY <2>1
  <2>3. QED BY <2>2 DEF AC!Searches, AC!None, AC!Help
<1>2. QED BY <1>1, StringsAre DEF AC!Searches, TrieTypes

\* The completions, in terms of Pre.
LEMMA CompletionsAre ==
  ASSUME TrieTypes, AC!Searches
  PROVE  /\ \A w : w \in AC!Completions <=>
              arg # <<>> /\ (\E k \in 1 .. Len(wordlist) : wordlist[k] = w) /\ Pre(arg, w)
         /\ \A k \in 1 .. Len(wordlist) : wordlist[k] \in AC!Strings
<1>1. \A k \in 1 .. Len(wordlist) : wordlist[k] \in AC!Strings /\ wordlist[k] \in Seq(Nat)
  BY WordsAre, StringsAre DEF TrieTypes
<1>2. DOMAIN wordlist = 1 .. Len(wordlist)
  BY DEF TrieTypes
<1>3. arg \in Seq(Nat)
  BY ArgIs
<1>4. \A w : w \in AC!Range(wordlist) <=> \E k \in 1 .. Len(wordlist) : wordlist[k] = w
  BY <1>2 DEF AC!Range
<1>5. \A k \in 1 .. Len(wordlist) : AC!IsPrefix(arg, wordlist[k]) <=> Pre(arg, wordlist[k])
  BY <1>1, <1>3, PrefixIs
<1>6. QED BY <1>1, <1>4, <1>5 DEF AC!Completions

LEMMA PreTrans ==
  ASSUME NEW s, NEW t, NEW u, Str(s), Str(t), Str(u), Pre(s, t), Pre(t, u)
  PROVE  Pre(s, u)
BY DEF Pre, Str

LEMMA PreNotLess == ASSUME NEW s, NEW w, Str(s), Str(w), Pre(s, w) PROVE ~Less(w, s)
<1>1. ~(Len(w) < Len(s))
  BY DEF Pre, Str
<1>2. ASSUME NEW n \in 1 .. Len(w), n <= Len(s) PROVE ~(w[n] < s[n])
  <2>1. n \in 1 .. Len(s) /\ w[n] \in Nat
    BY <1>2 DEF Str
  <2>2. s[n] = w[n]
    BY <2>1 DEF Pre
  <2>3. QED BY <2>1, <2>2
<1>3. QED BY <1>1, <1>2 DEF Less

LEMMA TrieInitInv == AC!Init => TrieInv
<1> SUFFICES ASSUME AC!Init PROVE TrieInv
  OBVIOUS
<1>1. /\ loaded = 0 /\ nodes = {<<>>} /\ isEnd = {} /\ stack = <<>> /\ text = <<>> /\ buffer = 1
      /\ buffsize = Room /\ stdout = <<>> /\ phase = "load" /\ Room \in Nat /\ Room # 0
  BY TrieAssumption DEF AC!Init, AC!root
<1>2. wordlist \in Seq(AC!Words)
  BY WordlistType
<1>3. /\ arg \in AC!Strings \cup {AC!None, AC!Help}
      /\ arg \in AC!Strings => Len(arg) < Room
  <2>1. AC!None \notin AC!Strings /\ AC!Help \notin AC!Strings
    <3>1. ASSUME NEW w \in AC!Strings PROVE w # <<0>> /\ w # <<-1>>
      <4>1. \A n \in 1 .. Len(w) : w[n] \in Nat /\ w[n] # 0
        BY StringsAre
      <4>2. w # <<0>>
        BY <4>1
      <4>3. w # <<-1>>
        <5>1. SUFFICES ASSUME w = <<-1>> PROVE FALSE
          OBVIOUS
        <5>2. Len(w) = 1 /\ w[1] = -1
          BY <5>1
        <5>3. QED BY <4>1, <5>2
      <4>4. QED BY <4>2, <4>3
    <3>2. QED BY <3>1 DEF AC!None, AC!Help
  <2>2. QED BY <2>1 DEF AC!Init
<1>4. TrieTypes
  BY <1>1, <1>2, <1>3 DEF TrieTypes
<1>5. NodesInv
  <2>1. Loaded = {}
    BY <1>1 DEF Loaded
  <2>2. QED BY <1>1, <2>1 DEF NodesInv
<1>6. PhaseInv
  BY <1>1 DEF PhaseInv
<1>7. BufferInv
  BY <1>1 DEF BufferInv, Held
<1>8. PathInv /\ PrintedInv
  BY <1>1 DEF PathInv, PrintedInv
<1>9. QED BY <1>4, <1>5, <1>6, <1>7, <1>8 DEF TrieInv

\* The nodes that insert makes for a word.
LEMMA NodesOfWord ==
  ASSUME NEW w \in Seq(Nat), NEW v \in Seq(Nat)
  PROVE  v \in {SubSeq(w, 1, n) : n \in 1 .. Len(w)} <=> v # <<>> /\ Pre(v, w)
<1>1. \A n \in 1 .. Len(w) : /\ SubSeq(w, 1, n) \in Seq(Nat) /\ Len(SubSeq(w, 1, n)) = n
                             /\ \A m \in 1 .. n : SubSeq(w, 1, n)[m] = w[m]
  OBVIOUS
<1>2. ASSUME NEW n \in 1 .. Len(w), v = SubSeq(w, 1, n) PROVE v # <<>> /\ Pre(v, w)
  BY <1>1, <1>2, SMTT(20) DEF Pre
<1>3. ASSUME v # <<>>, Pre(v, w) PROVE v = SubSeq(w, 1, Len(v)) /\ Len(v) \in 1 .. Len(w)
  <2>1. Len(v) \in 1 .. Len(w) /\ \A m \in 1 .. Len(v) : v[m] = w[m]
    BY <1>3 DEF Pre
  <2> DEFINE u == SubSeq(w, 1, Len(v))
  <2>2. u \in Seq(Nat) /\ Len(u) = Len(v) /\ \A m \in 1 .. Len(v) : v[m] = u[m]
    BY <1>1, <2>1
  <2> HIDE DEF u
  <2>3. v = u
    BY <2>2, SeqEqual
  <2>4. QED BY <2>1, <2>3 DEF u
<1>4. QED BY <1>2, <1>3

\* A word more: the nodes are still the prefixes.
LEMMA LoadStep == ASSUME TrieInv, AC!LoadWord PROVE TrieInv'
<1>0. TrieTypes /\ NodesInv /\ PhaseInv /\ BufferInv
  BY DEF TrieInv
<1> DEFINE w == wordlist[loaded + 1]
<1>1. /\ phase = "load" /\ AC!Searches /\ loaded < Len(wordlist) /\ AC!insert(w)
      /\ loaded' = loaded + 1
      /\ UNCHANGED <<wordlist, arg, stack, text, buffer, buffsize, stdout, phase>>
  BY DEF AC!LoadWord, AC!Memory
<1>2. loaded \in Nat /\ loaded + 1 \in 1 .. Len(wordlist) /\ w \in AC!Words /\ w \in Seq(Nat)
  <2>1. loaded \in Nat /\ loaded + 1 \in 1 .. Len(wordlist)
    BY <1>0, <1>1 DEF TrieTypes
  <2>2. w \in AC!Words
    BY <1>0, <2>1 DEF TrieTypes
  <2>3. QED BY <2>1, <2>2, WordsAre, StringsAre
<1> HIDE DEF w
<1>3. TrieTypes'
  BY <1>0, <1>1, <1>2 DEF TrieTypes
<1>4. Loaded' = Loaded \cup {w}
  <2>1. 1 .. loaded + 1 = (1 .. loaded) \cup {loaded + 1}
    BY <1>2
  <2>2. QED BY <1>1, <2>1 DEF Loaded, w
<1>5. NodesInv'
  <2>1. /\ nodes' = nodes \cup {SubSeq(w, 1, n) : n \in 1 .. Len(w)} /\ isEnd' = isEnd \cup {w}
        /\ isEnd = Loaded /\ (\A v \in nodes : v \in Seq(Nat))
        /\ \A v \in Seq(Nat) : v \in nodes <=> v = <<>> \/ \E u \in Loaded : Pre(v, u)
    BY <1>0, <1>1 DEF AC!insert, NodesInv
  <2>2. \A v \in nodes' : v \in Seq(Nat)
    <3>1. \A n \in 1 .. Len(w) : SubSeq(w, 1, n) \in Seq(Nat)
      BY <1>2
    <3>2. QED BY <2>1, <3>1
  <2>3. ASSUME NEW v \in Seq(Nat)
        PROVE  v \in nodes' <=> v = <<>> \/ \E u \in Loaded' : Pre(v, u)
    <3>1. v \in {SubSeq(w, 1, n) : n \in 1 .. Len(w)} <=> v # <<>> /\ Pre(v, w)
      BY <1>2, NodesOfWord
    <3>2. v \in nodes <=> v = <<>> \/ \E u \in Loaded : Pre(v, u)
      BY <2>1
    <3>3. QED BY <1>4, <2>1, <3>1, <3>2
  <2>4. QED BY <1>4, <2>1, <2>2, <2>3 DEF NodesInv
<1>6. PhaseInv' /\ BufferInv'
  BY <1>0, <1>1 DEF PhaseInv, BufferInv
<1>7. PathInv' /\ PrintedInv'
  <2>1. stdout = <<>>
    BY <1>0, <1>1 DEF PhaseInv
  <2>2. QED BY <1>1, <2>1 DEF PathInv, PrintedInv
<1>8. QED BY <1>3, <1>5, <1>6, <1>7 DEF TrieInv

\* The words, all loaded, below a node.
LEMMA Below ==
  ASSUME TrieTypes, NodesInv, AC!Searches, phase # "done", loaded = Len(wordlist), arg # <<>>,
         NEW v \in Seq(Nat), Pre(arg, v)
  PROVE  /\ v \in nodes <=> \E w \in AC!Completions : Pre(v, w)
         /\ v \in isEnd <=> v \in AC!Completions
<1>1. /\ \A w : w \in AC!Completions <=> (\E k \in 1 .. Len(wordlist) : wordlist[k] = w) /\ Pre(arg, w)
      /\ \A k \in 1 .. Len(wordlist) : wordlist[k] \in AC!Strings
  BY CompletionsAre
<1>2. \A w : w \in Loaded <=> \E k \in 1 .. Len(wordlist) : wordlist[k] = w
  BY DEF Loaded
<1>3. v \in isEnd <=> v \in AC!Completions
  BY <1>1, <1>2 DEF NodesInv
<1>4. v # <<>>
  <2>1. Len(arg) # 0 /\ Len(arg) \in Nat
    BY ArgIs
  <2>2. QED BY <2>1 DEF Pre
<1>5. ASSUME NEW w \in Loaded, Pre(v, w) PROVE Pre(arg, w)
  <2>1. w \in Seq(Nat) /\ arg \in Seq(Nat)
    BY <1>1, <1>2, StringsAre, ArgIs
  <2>2. Str(arg) /\ Str(v) /\ Str(w)
    BY <2>1, StrIs
  <2>3. QED BY <1>5, <2>2, PreTrans
<1>6. v \in nodes <=> \E w \in AC!Completions : Pre(v, w)
  BY <1>1, <1>2, <1>4, <1>5 DEF NodesInv
<1>7. QED BY <1>3, <1>6

LEMMA AppendIs ==
  ASSUME NEW S, NEW s \in Seq(S), NEW f \in S
  PROVE  /\ Append(s, f) \in Seq(S) /\ Append(s, f) # <<>> /\ Len(Append(s, f)) = Len(s) + 1
         /\ DOMAIN Append(s, f) = 1 .. Len(s) + 1 /\ DOMAIN s = 1 .. Len(s)
         /\ \A n \in 1 .. Len(s) : Append(s, f)[n] = s[n]
         /\ Append(s, f)[Len(s) + 1] = f /\ Len(s) \in Nat
OBVIOUS

LEMMA FrontIs ==
  ASSUME NEW S, NEW s \in Seq(S), s # <<>>
  PROVE  /\ AC!Front(s) \in Seq(S) /\ Len(AC!Front(s)) = Len(s) - 1
         /\ DOMAIN AC!Front(s) = 1 .. Len(s) - 1 /\ DOMAIN s = 1 .. Len(s)
         /\ \A n \in 1 .. Len(s) - 1 : AC!Front(s)[n] = s[n]
         /\ Len(s) \in Nat /\ Len(s) >= 1
<1>1. Len(s) \in Nat /\ Len(s) >= 1 /\ DOMAIN s = 1 .. Len(s)
  OBVIOUS
<1>2. /\ SubSeq(s, 1, Len(s) - 1) \in Seq(S) /\ Len(SubSeq(s, 1, Len(s) - 1)) = Len(s) - 1
      /\ \A n \in 1 .. Len(s) - 1 : SubSeq(s, 1, Len(s) - 1)[n] = s[n]
  BY <1>1
<1>3. DOMAIN SubSeq(s, 1, Len(s) - 1) = 1 .. Len(s) - 1
  BY <1>2
<1>4. QED BY <1>1, <1>2, <1>3 DEF AC!Front

\* A call prints its word after those before it.
LEMMA PrintOne ==
  ASSUME NEW out \in Seq(Seq(Nat)), NEW D, Lists(out, D), NEW q \in Seq(Nat),
         \A w \in D : Less(w, q)
  PROVE  Append(out, q) \in Seq(Seq(Nat)) /\ Lists(Append(out, q), D \cup {q})
<1> DEFINE t == Append(out, q)
<1>1. /\ t \in Seq(Seq(Nat)) /\ DOMAIN t = 1 .. Len(out) + 1 /\ DOMAIN out = 1 .. Len(out)
      /\ \A n \in 1 .. Len(out) : t[n] = out[n]
      /\ t[Len(out) + 1] = q /\ Len(out) \in Nat
  BY AppendIs
<1> HIDE DEF t
<1>2. {t[n] : n \in DOMAIN t} = D \cup {q}
  <2>1. \A n \in DOMAIN t : t[n] \in D \cup {q}
    <3>1. \A n \in DOMAIN out : out[n] \in D
      BY DEF Lists
    <3>2. \A n \in DOMAIN t : n \in DOMAIN out \/ n = Len(out) + 1
      BY <1>1
    <3>3. QED BY <1>1, <3>1, <3>2
  <2>2. \A w \in D : \E n \in DOMAIN t : t[n] = w
    BY <1>1 DEF Lists
  <2>3. \E n \in DOMAIN t : t[n] = q
    BY <1>1
  <2>4. QED BY <2>1, <2>2, <2>3
<1>3. \A m, n \in DOMAIN t : m < n => Less(t[m], t[n])
  <2> SUFFICES ASSUME NEW m \in DOMAIN t, NEW n \in DOMAIN t, m < n PROVE Less(t[m], t[n])
    OBVIOUS
  <2>1. m \in DOMAIN out /\ t[m] = out[m] /\ t[m] \in D
    BY <1>1 DEF Lists
  <2>2. CASE n \in DOMAIN out
    BY <1>1, <2>1, <2>2 DEF Lists
  <2>3. CASE n = Len(out) + 1
    BY <1>1, <2>1, <2>3
  <2>4. QED BY <1>1, <2>2, <2>3
<1>4. QED BY <1>1, <1>2, <1>3 DEF Lists, t

\* A call is added to a path, or taken off it.
LEMMA PathPush ==
  ASSUME NEW s \in Seq(Frames), NEW a, NEW ns, NEW b \in Nat, NEW f \in Frames,
         Path(s, a, ns), Held(s, b), f.node \in ns, Pre(a, f.node), f.word >= 1, f.word <= b,
         IF s = <<>> THEN f.node = a ELSE f.node = Append(s[Len(s)].node, s[Len(s)].child)
  PROVE  /\ Append(s, f) \in Seq(Frames) /\ Append(s, f) # <<>>
         /\ Len(Append(s, f)) = Len(s) + 1 /\ Append(s, f)[Len(s) + 1] = f
         /\ Path(Append(s, f), a, ns) /\ Held(Append(s, f), b)
<1>0. Len(s) \in Nat
  OBVIOUS
<1> DEFINE t == Append(s, f)
<1>1. /\ t \in Seq(Frames) /\ t # <<>> /\ Len(t) = Len(s) + 1 /\ DOMAIN t = 1 .. Len(s) + 1
      /\ DOMAIN s = 1 .. Len(s) /\ \A n \in 1 .. Len(s) : t[n] = s[n]
      /\ t[Len(s) + 1] = f /\ Len(s) \in Nat
  BY AppendIs
<1> HIDE DEF t
<1>2. t[1].node = a
  <2>1. CASE s = <<>>
    <3>1. Len(s) + 1 = 1
      BY <2>1
    <3>2. QED BY <1>1, <2>1, <3>1
  <2>2. CASE s # <<>>
    <3>1. 1 \in 1 .. Len(s)
      BY <2>2
    <3>2. QED BY <1>1, <2>2, <3>1 DEF Path
  <2>3. QED BY <2>1, <2>2
<1>3. ASSUME NEW k \in 1 .. Len(t) - 1
      PROVE  t[k + 1].node = Append(t[k].node, t[k].child)
  <2>1. k \in 1 .. Len(s) /\ t[k] = s[k]
    BY <1>1
  <2>2. CASE k = Len(s)
    <3>1. s # <<>>
      BY <2>1, <2>2
    <3>2. QED BY <1>1, <2>1, <2>2, <3>1
  <2>3. CASE k # Len(s)
    <3>1. k \in 1 .. Len(s) - 1 /\ k + 1 \in 1 .. Len(s)
      BY <1>0, <2>1, <2>3
    <3>2. QED BY <1>1, <2>1, <3>1 DEF Path
  <2>4. QED BY <2>2, <2>3
<1>4. \A k \in DOMAIN t : t[k].node \in ns /\ Pre(a, t[k].node) /\ t[k].word >= 1 /\ t[k].word <= b
  BY <1>1 DEF Path, Held
<1>5. QED BY <1>1, <1>2, <1>3, <1>4 DEF Path, Held, t

LEMMA PathPop ==
  ASSUME NEW s \in Seq(Frames), NEW a, NEW ns, NEW b \in Nat, Path(s, a, ns), Held(s, b), s # <<>>
  PROVE  /\ AC!Front(s) \in Seq(Frames) /\ Len(AC!Front(s)) = Len(s) - 1
         /\ \A k \in 1 .. Len(s) - 1 : AC!Front(s)[k] = s[k]
         /\ Path(AC!Front(s), a, ns) /\ Held(AC!Front(s), b)
<1> DEFINE t == AC!Front(s)
<1>1. /\ t \in Seq(Frames) /\ Len(t) = Len(s) - 1 /\ DOMAIN t = 1 .. Len(s) - 1
      /\ DOMAIN s = 1 .. Len(s) /\ \A n \in 1 .. Len(s) - 1 : t[n] = s[n]
      /\ Len(s) \in Nat /\ Len(s) >= 1
  BY FrontIs
<1> HIDE DEF t
<1>2. ASSUME t # <<>> PROVE t[1].node = a
  <2>1. 1 \in 1 .. Len(s) - 1
    BY <1>1, <1>2
  <2>2. QED BY <1>1, <2>1 DEF Path
<1>3. ASSUME NEW k \in 1 .. Len(t) - 1
      PROVE  t[k + 1].node = Append(t[k].node, t[k].child)
  <2>1. k \in 1 .. Len(s) - 1 /\ k + 1 \in 1 .. Len(s) - 1
    BY <1>1
  <2>2. QED BY <1>1, <2>1 DEF Path
<1>4. \A k \in DOMAIN t : t[k].node \in ns /\ Pre(a, t[k].node) /\ t[k].word >= 1 /\ t[k].word <= b
  BY <1>1 DEF Path, Held
<1>5. QED BY <1>1, <1>2, <1>3, <1>4 DEF Path, Held, t

\* dfs_and_print is called for the node q, when the words before q are printed.
LEMMA CallStep ==
  ASSUME TrieInv, phase \in {"search", "print"}, phase' = "print", arg # <<>>,
         UNCHANGED <<wordlist, loaded, nodes, isEnd, arg>>,
         NEW q \in Seq(Nat), q \in nodes, Pre(arg, q), Len(q) + 1 <= buffsize,
         NEW callers \in Seq(Frames), Path(callers, arg, nodes), Held(callers, buffer),
         IF callers = <<>> THEN q = arg
           ELSE q = Append(callers[Len(callers)].node, callers[Len(callers)].child),
         NEW move \in BOOLEAN, AC!Call(callers, q, q, move),
         NEW D, Lists(stdout, D), D \subseteq AC!Completions, \A w \in D : Less(w, q),
         \A w \in AC!Completions : w = q \/ w \in D <=> Passed(Append(q, 0), w)
  PROVE  TrieInv'
<1> DEFINE full == Len(q) = buffsize - 1
           to   == IF full /\ move THEN buffer + 1 ELSE buffer
           f    == [node |-> q, child |-> 0, word |-> to]
<1>0. TrieTypes /\ NodesInv /\ PhaseInv /\ BufferInv /\ AC!Searches /\ loaded = Len(wordlist)
  BY DEF TrieInv, PhaseInv
<1>1. /\ text' = q /\ buffer' = to
      /\ buffsize' = IF full THEN 2 * buffsize ELSE buffsize
      /\ stack' = Append(callers, f)
      /\ stdout' = IF q \in isEnd THEN Append(stdout, q) ELSE stdout
  BY DEF AC!Call
<1>2. /\ q \in isEnd <=> q \in AC!Completions
      /\ \E w \in AC!Completions : Pre(q, w)
  BY <1>0, Below
<1>3. /\ buffer \in Nat /\ buffer >= 1 /\ buffsize \in Nat /\ buffsize >= Room
      /\ Room \in Nat /\ Room # 0 /\ Len(q) \in Nat
  BY <1>0, TrieAssumption DEF TrieTypes
<1>4. to \in Nat /\ to >= buffer /\ (to # buffer => full) /\ f \in Frames /\ f.node = q /\ f.word = to
  <2>1. to \in Nat /\ to >= buffer /\ (to # buffer => full)
    BY <1>3
  <2> HIDE DEF to
  <2>2. QED BY <2>1 DEF Frames
<1>5. AC!Completions' = AC!Completions /\ LongWord' = LongWord
  BY DEF AC!Completions, LongWord
<1>6. full => LongWord
  <2>1. PICK w \in AC!Completions : Pre(q, w)
    BY <1>2
  <2>2. w \in Seq(Nat)
    BY <1>0, CompletionsAre, StringsAre
  <2>3. full => Len(w) >= Room - 1
    BY <1>3, <2>1, <2>2 DEF Pre
  <2>4. QED BY <2>3 DEF LongWord
<1>7. /\ buffsize' \in Nat /\ buffsize' >= Room /\ Len(q) + 1 < buffsize'
  <2>1. CASE full
    BY <1>1, <1>3, <2>1
  <2>2. CASE ~full
    BY <1>1, <1>3, <2>2
  <2>3. QED BY <2>1, <2>2
<1> HIDE DEF full, to
<1>8. Held(callers, to)
  <2>1. \A k \in DOMAIN callers : callers[k] \in Frames
    OBVIOUS
  <2>2. \A k \in DOMAIN callers : callers[k].word \in Nat
    BY <2>1 DEF Frames
  <2>3. QED BY <1>3, <1>4, <2>2 DEF Held
<1> HIDE DEF f
<1>9. /\ stack' \in Seq(Frames) /\ stack' # <<>> /\ Len(stack') = Len(callers) + 1
      /\ stack'[Len(callers) + 1] = f
      /\ Path(stack', arg, nodes) /\ Held(stack', to)
  <2>1. to \in Nat /\ f \in Frames /\ f.word >= 1 /\ f.word <= to
    BY <1>3, <1>4
  <2>2. f.node \in nodes /\ Pre(arg, f.node)
    BY <1>4
  <2>3. IF callers = <<>> THEN f.node = arg
          ELSE f.node = Append(callers[Len(callers)].node, callers[Len(callers)].child)
    BY <1>4
  <2>4. stack' = Append(callers, f)
    BY <1>1
  <2>5. QED BY <1>8, <2>1, <2>2, <2>3, <2>4, PathPush
<1>10. stdout' \in Seq(Seq(Nat)) /\ Lists(stdout', {w \in AC!Completions : Passed(Append(q, 0), w)})
  <2>1. CASE q \in isEnd
    <3>1. {w \in AC!Completions : Passed(Append(q, 0), w)} = D \cup {q}
      BY <1>2, <2>1
    <3>2. stdout \in Seq(Seq(Nat))
      BY <1>0 DEF TrieTypes
    <3>3. /\ Append(stdout, q) \in Seq(Seq(Nat))
          /\ Lists(Append(stdout, q), D \cup {q})
      BY <3>2, PrintOne
    <3>4. stdout' = Append(stdout, q)
      BY <1>1, <2>1
    <3>5. QED BY <3>1, <3>3, <3>4
  <2>2. CASE q \notin isEnd
    <3>1. {w \in AC!Completions : Passed(Append(q, 0), w)} = D
      BY <1>2, <2>2
    <3>2. QED BY <1>0, <1>1, <2>2, <3>1 DEF TrieTypes
  <2>3. QED BY <2>1, <2>2
<1>11. Position' = Append(q, 0)
  <2>1. f.child = 0 /\ f.node = q
    BY DEF f
  <2>2. QED BY <1>9, <2>1 DEF Position
<1>12. TrieTypes'
  BY <1>0, <1>1, <1>3, <1>4, <1>7, <1>9, <1>10 DEF TrieTypes
<1>13. NodesInv'
  <2>1. Loaded' = Loaded
    BY DEF Loaded
  <2>2. QED BY <1>0, <2>1 DEF NodesInv
<1>14. PhaseInv'
  <2>1. AC!Searches'
    BY <1>0 DEF AC!Searches
  <2>2. QED BY <1>0, <2>1 DEF PhaseInv
<1>15. BufferInv'
  <2>1. to # 1 => LongWord
    BY <1>0, <1>3, <1>4, <1>6 DEF BufferInv
  <2>2. Len(text') < buffsize' /\ Len(text') + 1 < buffsize'
    BY <1>1, <1>3, <1>7
  <2>3. QED BY <1>1, <1>5, <1>9, <2>1, <2>2 DEF BufferInv
<1>16. PathInv'
  BY <1>1, <1>4, <1>9 DEF PathInv
<1>17. PrintedInv'
  BY <1>5, <1>10, <1>11 DEF PrintedInv
<1>18. QED BY <1>12, <1>13, <1>14, <1>15, <1>16, <1>17 DEF TrieInv

LEMMA CompletionIs ==
  ASSUME TrieTypes, AC!Searches, NEW w \in AC!Completions
  PROVE  /\ w \in Seq(Nat) /\ Str(w) /\ Pre(arg, w)
         /\ \A n \in 1 .. Len(w) : w[n] \in Nat /\ w[n] # 0 /\ w[n] <= Letters
BY CompletionsAre, StringsAre, StrIs

LEMMA UsageStep == ASSUME TrieInv, AC!Usage PROVE TrieInv'
<1>1. /\ TrieTypes /\ NodesInv /\ PhaseInv /\ BufferInv /\ phase = "load"
      /\ arg \in {AC!None, AC!Help} /\ ~AC!Searches
  BY DEF TrieInv, AC!Usage, AC!Searches
<1>2. /\ phase' = IF arg = AC!None THEN "crashed" ELSE "done"
      /\ UNCHANGED <<wordlist, loaded, nodes, isEnd, arg, stack, text, buffer, buffsize, stdout>>
  BY DEF AC!Usage, AC!Trie, AC!Memory
<1>3. phase' \in {"crashed", "done"} /\ ~AC!Searches' /\ Loaded' = Loaded
  BY <1>1, <1>2 DEF AC!Searches, Loaded
<1>4. TrieTypes' /\ NodesInv' /\ PhaseInv'
  BY <1>1, <1>2, <1>3 DEF TrieTypes, NodesInv, PhaseInv
<1>5. BufferInv'
  BY <1>1, <1>2, <1>3 DEF BufferInv, PhaseInv
<1>6. PathInv' /\ PrintedInv'
  BY <1>3 DEF PathInv, PrintedInv
<1>7. QED BY <1>4, <1>5, <1>6 DEF TrieInv

\* The search begins, or there is nothing to search.
LEMMA StartStep == ASSUME TrieInv, AC!autocomplete PROVE TrieInv'
<1>1. /\ TrieTypes /\ NodesInv /\ PhaseInv /\ BufferInv /\ phase = "load"
      /\ AC!Searches /\ loaded = Len(wordlist)
      /\ stack = <<>> /\ buffer = 1 /\ stdout = <<>>
  BY DEF TrieInv, PhaseInv, AC!autocomplete
<1>2. /\ text' = arg
      /\ phase' = IF arg # <<>> /\ arg \in nodes THEN "search" ELSE "free"
      /\ UNCHANGED <<wordlist, loaded, nodes, isEnd, arg, stack, buffer, buffsize, stdout>>
  BY DEF AC!autocomplete, AC!Trie, AC!Memory
<1>3. /\ phase' \in {"search", "free"} /\ AC!Searches' /\ Loaded' = Loaded
      /\ AC!Completions' = AC!Completions /\ LongWord' = LongWord
  BY <1>1, <1>2 DEF AC!Searches, Loaded, AC!Completions, LongWord
<1>4. arg \in Seq(Nat) /\ Len(arg) < Room
  BY <1>1, ArgIs DEF TrieTypes
<1>5. TrieTypes'
  BY <1>1, <1>2, <1>3, <1>4 DEF TrieTypes
<1>6. NodesInv' /\ PhaseInv'
  BY <1>1, <1>2, <1>3 DEF NodesInv, PhaseInv
<1>7. BufferInv'
  <2>1. Len(arg) < buffsize
    BY <1>1, <1>4, TrieAssumption DEF TrieTypes
  <2>2. QED BY <1>1, <1>2, <1>3, <2>1 DEF BufferInv
<1>8. PathInv'
  BY <1>3 DEF PathInv
<1>9. PrintedInv'
  <2>1. SUFFICES ASSUME phase' = "free" PROVE Lists(stdout, AC!Completions)
    BY <1>2, <1>3 DEF PrintedInv
  <2>2. AC!Completions = {}
    <3>1. CASE arg = <<>>
      BY <3>1 DEF AC!Completions
    <3>2. CASE arg # <<>>
      <4>1. arg \notin nodes
        BY <1>2, <2>1, <3>2
      <4>2. Pre(arg, arg)
        BY <1>4 DEF Pre
      <4>3. ASSUME NEW w \in AC!Completions PROVE FALSE
        <5>1. Pre(arg, w)
          BY <1>1, CompletionIs
        <5>2. arg \in nodes
          BY <1>1, <1>4, <3>2, <4>2, <5>1, Below
        <5>3. QED BY <4>1, <5>2
      <4>4. QED BY <4>3
    <3>3. QED BY <3>1, <3>2
  <2>3. QED BY <1>1, <2>2 DEF Lists
<1>10. QED BY <1>5, <1>6, <1>7, <1>8, <1>9 DEF TrieInv

LEMMA SearchStep == ASSUME TrieInv, AC!Search PROVE TrieInv'
<1>1. /\ TrieTypes /\ NodesInv /\ PhaseInv /\ phase = "search" /\ phase' = "print"
      /\ UNCHANGED <<wordlist, loaded, nodes, isEnd, arg>>
  BY DEF TrieInv, AC!Search, AC!Trie
<1>2. /\ arg # <<>> /\ arg \in nodes /\ text = arg /\ stdout = <<>> /\ AC!Searches
      /\ arg \in Seq(Nat) /\ Len(arg) < Room
  <2>1. arg # <<>> /\ arg \in nodes /\ text = arg /\ stdout = <<>> /\ AC!Searches
    BY <1>1 DEF PhaseInv
  <2>2. QED BY <1>1, <2>1, ArgIs DEF TrieTypes
<1>3. PICK move \in BOOLEAN : AC!Call(<<>>, arg, arg, move)
  BY <1>2 DEF AC!Search
<1>4. Len(arg) + 1 <= buffsize /\ Pre(arg, arg) /\ Str(arg) /\ Len(arg) \in Nat
  BY <1>1, <1>2, StrIs, TrieAssumption DEF TrieTypes, Pre
<1>5. Path(<<>>, arg, nodes) /\ Held(<<>>, buffer) /\ <<>> \in Seq(Frames) /\ Lists(stdout, {})
  BY <1>2 DEF Path, Held, Lists
<1>6. ASSUME NEW w \in AC!Completions
      PROVE  w = arg \/ w \in {} <=> Passed(Append(arg, 0), w)
  <2>1. w \in Seq(Nat) /\ Str(w) /\ Pre(arg, w) /\ \A n \in 1 .. Len(w) : w[n] # 0
    BY <1>1, <1>2, CompletionIs
  <2>2. Ext(arg, 0, Append(arg, 0))
    BY <1>2, ExtIs
  <2>3. Pre(w, arg) /\ Len(w) = Len(arg) => w = arg
    BY <1>2, <2>1, PreSame
  <2>4. ~Less(w, arg)
    BY <1>4, <2>1, PreNotLess
  <2>5. Passed(Append(arg, 0), w) <=> w = arg \/ Less(w, arg)
    BY <1>4, <2>1, <2>2, <2>3, PassedNode
  <2>6. QED BY <2>4, <2>5
<1> DEFINE D == {}
<1>7. /\ Lists(stdout, D) /\ D \subseteq AC!Completions /\ \A w \in D : Less(w, arg)
      /\ \A w \in AC!Completions : w = arg \/ w \in D <=> Passed(Append(arg, 0), w)
  BY <1>5, <1>6
<1> HIDE DEF D
<1>8. QED BY <1>1, <1>2, <1>3, <1>4, <1>5, <1>7, CallStep

\* The top call of a path looks at another child.
LEMMA PathTurn ==
  ASSUME NEW s \in Seq(Frames), NEW a, NEW ns, NEW b \in Nat, Path(s, a, ns), Held(s, b),
         s # <<>>, NEW f \in Frames,
         f.node = s[Len(s)].node, f.word = s[Len(s)].word
  PROVE  LET u == Append(AC!Front(s), f)
         IN  /\ u \in Seq(Frames) /\ u # <<>> /\ Path(u, a, ns) /\ Held(u, b)
             /\ u[Len(u)] = f
<1> DEFINE r == AC!Front(s)
<1>1. Len(s) \in Nat /\ Len(s) >= 1 /\ DOMAIN s = 1 .. Len(s) /\ s[Len(s)] \in Frames
  OBVIOUS
<1>2. f.node = s[Len(s)].node /\ f.word = s[Len(s)].word
  OBVIOUS
<1>3. /\ r \in Seq(Frames) /\ Len(r) = Len(s) - 1 /\ Path(r, a, ns) /\ Held(r, b)
      /\ \A k \in 1 .. Len(s) - 1 : r[k] = s[k]
  BY PathPop
<1>4. f.node \in ns /\ Pre(a, f.node) /\ f.word >= 1 /\ f.word <= b
  BY <1>1, <1>2 DEF Path, Held
<1> HIDE DEF r
<1>5. IF r = <<>> THEN f.node = a ELSE f.node = Append(r[Len(r)].node, r[Len(r)].child)
  <2>1. CASE Len(s) = 1
    <3>1. r = <<>> /\ f.node = s[1].node
      BY <1>2, <1>3, <2>1
    <3>2. QED BY <3>1 DEF Path
  <2>2. CASE Len(s) # 1
    <3>1. Len(s) - 1 \in 1 .. Len(s) - 1 /\ (Len(s) - 1) + 1 = Len(s)
      BY <1>1, <2>2
    <3>2. s[Len(s)].node = Append(s[Len(s) - 1].node, s[Len(s) - 1].child)
      BY <3>1 DEF Path
    <3>3. r # <<>> /\ r[Len(r)] = s[Len(s) - 1]
      BY <1>3, <3>1
    <3>4. QED BY <1>2, <3>2, <3>3
  <2>3. QED BY <2>1, <2>2
<1>6. /\ Append(r, f) \in Seq(Frames) /\ Append(r, f) # <<>>
      /\ Len(Append(r, f)) = Len(r) + 1 /\ Append(r, f)[Len(r) + 1] = f
      /\ Path(Append(r, f), a, ns) /\ Held(Append(r, f), b)
  BY <1>2, <1>3, <1>4, <1>5, PathPush
<1>7. QED BY <1>6 DEF r

\* The call at the top while the search prints.
LEMMA TopIs ==
  ASSUME TrieInv, phase = "print", NEW t, t = stack[Len(stack)]
  PROVE  /\ AC!Top = t /\ t.node \in Seq(Nat) /\ t.child \in Nat
         /\ t.node \in nodes /\ Pre(arg, t.node) /\ text = t.node
         /\ t.word >= 1 /\ t.word <= buffer /\ t.word \in Nat
         /\ Path(stack, arg, nodes) /\ Held(stack, buffer)
         /\ stack \in Seq(Frames) /\ stack # <<>> /\ Position = Append(t.node, t.child)
         /\ AC!Searches /\ loaded = Len(wordlist) /\ arg # <<>> /\ arg \in Seq(Nat)
         /\ Lists(stdout, {w \in AC!Completions : Passed(Position, w)})
<1>1. TrieTypes /\ PhaseInv /\ BufferInv /\ PathInv /\ PrintedInv
  BY DEF TrieInv
<1>2. stack \in Seq(Frames) /\ stack # <<>> /\ Path(stack, arg, nodes) /\ Held(stack, buffer)
      /\ text = t.node /\ arg # <<>>
  BY <1>1 DEF TrieTypes, PathInv, BufferInv
<1>3. Len(stack) \in DOMAIN stack /\ t \in Frames
  BY <1>2
<1>4. t.node \in Seq(Nat) /\ t.child \in Nat /\ t.word \in Nat
  BY <1>3 DEF Frames
<1>5. t.node \in nodes /\ Pre(arg, t.node) /\ t.word >= 1 /\ t.word <= buffer
  BY <1>2, <1>3 DEF Path, Held
<1>6. AC!Top = t
  BY DEF AC!Top, AC!Last
<1>7. AC!Searches /\ loaded = Len(wordlist)
  BY <1>1 DEF PhaseInv
<1>8. arg \in Seq(Nat)
  BY <1>1, <1>7, ArgIs
<1>9. QED BY <1>1, <1>2, <1>4, <1>5, <1>6, <1>7, <1>8 DEF Position, PrintedInv

\* A letter after which a completion goes on is the letter of a child.
LEMMA ChildOf ==
  ASSUME TrieInv, phase = "print", NEW t, t = stack[Len(stack)],
         NEW w \in AC!Completions, Pre(t.node, w), Len(t.node) < Len(w),
         t.child < w[Len(t.node) + 1]
  PROVE  w[Len(t.node) + 1] \in AC!Children
<1> DEFINE c == w[Len(t.node) + 1]
           v == Append(t.node, c)
<1>1. /\ AC!Top = t /\ t.node \in Seq(Nat) /\ t.child \in Nat /\ Pre(arg, t.node)
      /\ AC!Searches /\ loaded = Len(wordlist) /\ arg # <<>> /\ arg \in Seq(Nat)
      /\ TrieTypes /\ NodesInv
  BY TopIs DEF TrieInv
<1>2. Len(t.node) + 1 \in 1 .. Len(w) /\ Len(t.node) \in Nat /\ w \in Seq(Nat) /\ Letters \in Nat
  <2>1. w \in Seq(Nat)
    BY <1>1, CompletionIs
  <2>2. Len(t.node) \in Nat /\ Len(w) \in Nat
    BY <1>1, <2>1
  <2>3. QED BY <2>1, <2>2, TrieAssumption
<1>3. c \in Nat /\ c <= Letters
  BY <1>1, <1>2, CompletionIs
<1>4. c \in t.child + 1 .. Letters
  <2>1. t.child \in Nat /\ t.child < c /\ Letters \in Nat
    BY <1>1, <1>2
  <2> HIDE DEF c
  <2>2. QED BY <1>3, <2>1
<1> HIDE DEF c
<1>5. v \in Seq(Nat) /\ Ext(t.node, c, v)
  BY <1>1, <1>3, ExtIs
<1> HIDE DEF v
<1>6. Pre(v, w)
  <2>1. Len(v) = Len(t.node) + 1 /\ v[Len(t.node) + 1] = c /\ \A n \in 1 .. Len(t.node) : v[n] = w[n]
    BY <1>5 DEF Ext, Pre
  <2>2. \A n \in 1 .. Len(v) : n \in 1 .. Len(t.node) \/ n = Len(t.node) + 1
    BY <1>2, <2>1
  <2>3. Len(v) <= Len(w)
    BY <1>2, <2>1
  <2>4. QED BY <2>1, <2>2, <2>3 DEF Pre, c
<1>7. Pre(arg, v)
  <2>1. Pre(t.node, v)
    BY <1>2, <1>5 DEF Ext, Pre
  <2>2. Str(arg) /\ Str(t.node) /\ Str(v)
    BY <1>1, <1>5, StrIs
  <2>3. QED BY <1>1, <2>1, <2>2, PreTrans
<1>8. v \in nodes
  BY <1>1, <1>5, <1>6, <1>7, Below
<1>9. c \in AC!Children
  BY <1>1, <1>4, <1>8 DEF AC!Children, v
<1>10. QED BY <1>9 DEF c

LEMMA ChildStep == ASSUME TrieInv, AC!Child PROVE TrieInv'
<1> DEFINE t == stack[Len(stack)]
           c == AC!Min(AC!Children)
           q == Append(t.node, c)
           p == Append(t.node, t.child)
           callers == Append(AC!Front(stack), [t EXCEPT !.child = c])
           D == {w \in AC!Completions : Passed(p, w)}
<1>1. /\ AC!Top = t /\ t.node \in Seq(Nat) /\ t.child \in Nat /\ Pre(arg, t.node)
      /\ text = t.node /\ stack \in Seq(Frames) /\ stack # <<>>
      /\ Path(stack, arg, nodes) /\ Held(stack, buffer)
      /\ AC!Searches /\ arg # <<>> /\ arg \in Seq(Nat) /\ Lists(stdout, D)
  <2>1. /\ AC!Top = t /\ t.node \in Seq(Nat) /\ t.child \in Nat /\ Pre(arg, t.node)
        /\ text = t.node /\ stack \in Seq(Frames) /\ stack # <<>>
        /\ Path(stack, arg, nodes) /\ Held(stack, buffer)
        /\ AC!Searches /\ arg # <<>> /\ arg \in Seq(Nat)
    <3>1. phase = "print"
      BY DEF AC!Child
    <3>2. QED BY <3>1, TopIs
  <2>2. Position = p /\ Lists(stdout, {w \in AC!Completions : Passed(Position, w)})
    BY TopIs DEF AC!Child
  <2>3. QED BY <2>1, <2>2
<1>2. /\ phase = "print" /\ phase' = "print" /\ AC!Children # {}
      /\ UNCHANGED <<wordlist, loaded, nodes, isEnd, arg>>
  BY DEF AC!Child, AC!Trie
<1>3. PICK move \in BOOLEAN : AC!Call(callers, q, q, move)
  BY <1>1 DEF AC!Child
<1>4. /\ c \in Nat /\ t.child < c /\ q \in nodes
      /\ \A d \in AC!Children : c <= d
  <2>1. \A d \in AC!Children : d \in Nat /\ t.child < d /\ Append(t.node, d) \in nodes
    BY <1>1, TrieAssumption DEF AC!Children
  <2>2. \E m \in AC!Children : \A d \in AC!Children : m <= d
    BY <1>2, <2>1, LeastNat
  <2>3. c \in AC!Children /\ \A d \in AC!Children : c <= d
    BY <2>2 DEF AC!Min
  <2> HIDE DEF c
  <2>4. QED BY <2>1, <2>3
<1> HIDE DEF c
<1>5. /\ callers \in Seq(Frames) /\ callers # <<>> /\ Path(callers, arg, nodes) /\ Held(callers, buffer)
      /\ callers[Len(callers)].node = t.node /\ callers[Len(callers)].child = c
  <2>1. buffer \in Nat
    BY DEF TrieInv, TrieTypes
  <2>2. stack[Len(stack)] \in Frames
    BY <1>1
  <2> DEFINE f == [stack[Len(stack)] EXCEPT !.child = c]
  <2>3. /\ f \in Frames /\ f.node = stack[Len(stack)].node
        /\ f.word = stack[Len(stack)].word /\ f.child = c
    BY <1>4, <2>2 DEF Frames
  <2>4. callers = Append(AC!Front(stack), f)
    OBVIOUS
  <2> HIDE DEF callers, f
  <2>5. /\ callers \in Seq(Frames) /\ callers # <<>> /\ Path(callers, arg, nodes)
        /\ Held(callers, buffer) /\ callers[Len(callers)] = f
    BY <1>1, <2>1, <2>3, <2>4, PathTurn
  <2>6. QED BY <2>3, <2>5
<1> HIDE DEF callers, t
<1>6. /\ q \in Seq(Nat) /\ Ext(t.node, c, q) /\ Ext(t.node, t.child, p)
      /\ Ext(q, 0, Append(q, 0)) /\ Str(t.node) /\ Str(q) /\ Str(arg)
  <2>1. q \in Seq(Nat) /\ Ext(t.node, c, q) /\ Ext(t.node, t.child, p)
    BY <1>1, <1>4, ExtIs
  <2> HIDE DEF q, p
  <2>2. QED BY <1>1, <2>1, ExtIs, StrIs
<1> HIDE DEF q, p
<1>7. Pre(arg, q)
  <2>1. Pre(t.node, q)
    <3>1. Len(t.node) \in Nat
      BY <1>6 DEF Str
    <3>2. QED BY <1>6, <3>1 DEF Ext, Pre
  <2>2. QED BY <1>1, <1>6, <2>1, PreTrans
<1>8. Len(q) + 1 <= buffsize
  <2>1. Len(text) + 1 < buffsize /\ Len(text) \in Nat /\ buffsize \in Nat
    BY <1>2 DEF TrieInv, BufferInv, TrieTypes
  <2>2. Len(q) = Len(text) + 1
    BY <1>1, <1>6 DEF Ext
  <2>3. QED BY <2>1, <2>2
<1>9. ASSUME NEW w \in AC!Completions
      PROVE  /\ Passed(p, w) <=> Less(w, q)
             /\ w = q \/ Passed(p, w) <=> Passed(Append(q, 0), w)
  <2>1. w \in Seq(Nat) /\ Str(w) /\ \A n \in 1 .. Len(w) : w[n] \in Nat /\ w[n] # 0
    BY <1>1, CompletionIs DEF TrieInv
  <2>2. Pre(t.node, w) /\ Len(t.node) < Len(w) => ~(t.child < w[Len(t.node) + 1] /\ w[Len(t.node) + 1] < c)
    <3> SUFFICES ASSUME Pre(t.node, w), Len(t.node) < Len(w), t.child < w[Len(t.node) + 1]
                 PROVE  ~(w[Len(t.node) + 1] < c)
      OBVIOUS
    <3>1. w[Len(t.node) + 1] \in AC!Children
      BY <1>2, ChildOf DEF t
    <3>2. Len(t.node) + 1 \in 1 .. Len(w)
      BY <1>6, <2>1 DEF Str
    <3>3. QED BY <1>4, <2>1, <3>1, <3>2
  <2>3. Passed(p, w) <=> Less(w, q)
    BY <1>1, <1>4, <1>6, <2>1, <2>2, PassedChild
  <2>4. Pre(w, q) /\ Len(w) = Len(q) => w = q
    BY <1>6, <2>1, PreSame
  <2>5. Passed(Append(q, 0), w) <=> w = q \/ Less(w, q)
    BY <1>6, <2>1, <2>4, PassedNode
  <2>6. QED BY <2>3, <2>5
<1>10. /\ D \subseteq AC!Completions /\ \A w \in D : Less(w, q)
       /\ \A w \in AC!Completions : w = q \/ w \in D <=> Passed(Append(q, 0), w)
  BY <1>9
<1> HIDE DEF D
<1>11. IF callers = <<>> THEN q = arg
         ELSE q = Append(callers[Len(callers)].node, callers[Len(callers)].child)
  BY <1>5 DEF q
<1>12. QED BY <1>1, <1>2, <1>3, <1>4, <1>5, <1>6, <1>7, <1>8, <1>10, <1>11, CallStep

\* A call returns to the one before it, or the search is over.
LEMMA ReturnStep == ASSUME TrieInv, AC!Return PROVE TrieInv'
<1> DEFINE L == Len(stack)
           t == stack[L]
           r == AC!Front(stack)
<1>1. /\ AC!Top = t /\ t.node \in Seq(Nat) /\ t.child \in Nat /\ Pre(arg, t.node)
      /\ text = t.node /\ stack \in Seq(Frames) /\ stack # <<>>
      /\ Path(stack, arg, nodes) /\ Held(stack, buffer) /\ Position = Append(t.node, t.child)
      /\ AC!Searches /\ arg # <<>> /\ arg \in Seq(Nat)
      /\ Lists(stdout, {w \in AC!Completions : Passed(Position, w)})
      /\ TrieTypes /\ NodesInv /\ PhaseInv /\ BufferInv /\ loaded = Len(wordlist)
  BY TopIs DEF AC!Return, TrieInv
<1>2. /\ phase = "print" /\ AC!Children = {} /\ stack' = r
      /\ IF L > 1 THEN phase' = "print" /\ text' = AC!Front(text) ELSE phase' = "free" /\ text' = text
      /\ UNCHANGED <<wordlist, loaded, nodes, isEnd, arg, buffer, buffsize, stdout>>
  BY DEF AC!Return, AC!Trie, AC!Memory
<1>3. /\ r \in Seq(Frames) /\ Len(r) = L - 1 /\ Path(r, arg, nodes) /\ Held(r, buffer)
      /\ \A k \in 1 .. L - 1 : r[k] = stack[k]
  <2>1. buffer \in Nat
    BY <1>1 DEF TrieTypes
  <2>2. QED BY <1>1, <2>1, PathPop
<1>4. L \in Nat /\ L >= 1
  BY <1>1
<1>5. /\ AC!Searches' /\ Loaded' = Loaded /\ AC!Completions' = AC!Completions /\ LongWord' = LongWord
  BY <1>1, <1>2 DEF AC!Searches, Loaded, AC!Completions, LongWord
<1>6. {w \in AC!Completions : Passed(Position, w)} = {w \in AC!Completions : Passed(t.node, w)}
  <2> SUFFICES ASSUME NEW w \in AC!Completions PROVE Passed(t.node, w) <=> Passed(Position, w)
    OBVIOUS
  <2>1. w \in Seq(Nat) /\ Str(w) /\ Str(t.node) /\ Ext(t.node, t.child, Position)
    BY <1>1, CompletionIs, StrIs, ExtIs
  <2>2. Pre(t.node, w) /\ Len(t.node) < Len(w) => w[Len(t.node) + 1] <= t.child
    <3> SUFFICES ASSUME Pre(t.node, w), Len(t.node) < Len(w) PROVE w[Len(t.node) + 1] <= t.child
      OBVIOUS
    <3>1. ~(t.child < w[Len(t.node) + 1])
      BY <1>2, ChildOf
    <3>2. Len(t.node) + 1 \in 1 .. Len(w)
      BY <2>1 DEF Str
    <3>3. w[Len(t.node) + 1] \in Nat
      BY <2>1, <3>2 DEF Str
    <3>4. QED BY <1>1, <3>1, <3>3
  <2> HIDE DEF t
  <2>3. QED BY <1>1, <2>1, <2>2, PassedReturn, SMTT(20)
<1>7. Lists(stdout', {w \in AC!Completions' : Passed(t.node, w)})
  BY <1>1, <1>2, <1>5, <1>6
<1>8. CASE L > 1
  <2>1. L - 1 \in 1 .. L - 1 /\ (L - 1) + 1 = L /\ r # <<>> /\ r[L - 1] = stack[L - 1]
    BY <1>3, <1>4, <1>8
  <2>2. t.node = Append(r[L - 1].node, r[L - 1].child)
    BY <1>1, <2>1 DEF Path
  <2>3. r[L - 1].node \in Seq(Nat) /\ r[L - 1].child \in Nat
    <3>1. L - 1 \in DOMAIN r
      BY <1>3, <2>1
    <3>2. r[L - 1] \in Frames
      BY <1>3, <3>1
    <3>3. QED BY <3>2 DEF Frames
  <2>4. text' = r[L - 1].node
    <3>1. \A x \in Seq(Nat), y \in Nat : SubSeq(Append(x, y), 1, Len(Append(x, y)) - 1) = x
      OBVIOUS
    <3>2. text' = AC!Front(Append(r[L - 1].node, r[L - 1].child))
      BY <1>1, <1>2, <1>8, <2>2
    <3>3. QED BY <2>3, <3>1, <3>2 DEF AC!Front
  <2>5. Position' = t.node
    BY <1>2, <1>3, <2>2 DEF Position
  <2>6. Len(t.node) = Len(text') + 1 /\ Len(text') \in Nat
    BY <2>2, <2>3, <2>4
  <2> HIDE DEF t, r, L
  <2>7. TrieTypes'
    BY <1>1, <1>2, <1>3, <1>8, <2>3, <2>4 DEF TrieTypes
  <2>8. NodesInv' /\ PhaseInv'
    BY <1>1, <1>2, <1>5, <1>8 DEF NodesInv, PhaseInv
  <2>9. BufferInv'
    <3>1. Len(text) + 1 < buffsize /\ Len(text) \in Nat /\ buffsize \in Nat /\ (buffer # 1 => LongWord)
      BY <1>1, <1>2 DEF BufferInv, TrieTypes
    <3>2. Len(text) = Len(text') + 1
      BY <1>1, <2>6
    <3>3. Len(text') < buffsize /\ Len(text') + 1 < buffsize
      BY <2>6, <3>1, <3>2
    <3>4. QED BY <1>2, <1>3, <1>5, <1>8, <3>1, <3>3 DEF BufferInv
  <2>10. PathInv'
    BY <1>1, <1>2, <1>3, <1>8, <2>1, <2>4 DEF PathInv
  <2>11. PrintedInv'
    BY <1>2, <1>7, <1>8, <2>5 DEF PrintedInv
  <2>12. QED BY <2>7, <2>8, <2>9, <2>10, <2>11 DEF TrieInv
<1>9. CASE L = 1
  <2>0. phase' = "free" /\ text' = text
    BY <1>2, <1>9
  <2>1. t.node = arg
    BY <1>1, <1>9 DEF Path
  <2>2. {w \in AC!Completions' : Passed(t.node, w)} = AC!Completions
    <3>1. \A w \in AC!Completions : Passed(arg, w)
      BY <1>1, CompletionIs DEF Passed
    <3>2. QED BY <1>5, <2>1, <3>1
  <2> HIDE DEF t, r, L
  <2>3. TrieTypes' /\ NodesInv' /\ PhaseInv'
    BY <1>1, <1>2, <1>3, <1>5, <2>0 DEF TrieTypes, NodesInv, PhaseInv
  <2>4. BufferInv'
    BY <1>1, <1>2, <1>3, <1>5, <2>0 DEF BufferInv
  <2>5. PathInv' /\ PrintedInv'
    BY <1>5, <1>7, <2>0, <2>2 DEF PathInv, PrintedInv
  <2>6. QED BY <2>3, <2>4, <2>5 DEF TrieInv
<1>10. L > 1 \/ L = 1
  <2>1. \A l \in Nat : l >= 1 => l > 1 \/ l = 1
    OBVIOUS
  <2>2. QED BY <1>4, <2>1
<1>11. QED BY <1>8, <1>9, <1>10

\* A call finds its buffer freed: the buffer has been moved for a long word.
LEMMA DangleStep == ASSUME TrieInv, AC!Dangle PROVE TrieInv'
<1>1. /\ TrieTypes /\ NodesInv /\ PhaseInv /\ BufferInv
      /\ phase = "print" /\ AC!Stale /\ phase' = "dangling"
      /\ UNCHANGED <<wordlist, loaded, nodes, isEnd, arg, stack, text, buffer, buffsize, stdout>>
  BY DEF TrieInv, AC!Dangle, AC!Trie, AC!Memory
<1>2. /\ AC!Completions' = AC!Completions /\ LongWord' = LongWord /\ Loaded' = Loaded
      /\ AC!Searches' = AC!Searches
  BY <1>1 DEF AC!Completions, LongWord, Loaded, AC!Searches
<1>3. LongWord
  <2>1. AC!Top.word # buffer /\ AC!Top.word >= 1 /\ AC!Top.word <= buffer /\ AC!Top.word \in Nat
    BY <1>1, TopIs DEF AC!Stale
  <2>2. buffer \in Nat
    BY <1>1 DEF TrieTypes
  <2>3. buffer # 1
    BY <2>1, <2>2
  <2>4. QED BY <1>1, <2>3 DEF BufferInv
<1>4. TrieTypes' /\ NodesInv' /\ PhaseInv'
  BY <1>1, <1>2 DEF TrieTypes, NodesInv, PhaseInv
<1>5. BufferInv'
  BY <1>1, <1>2, <1>3 DEF BufferInv
<1>6. PathInv' /\ PrintedInv'
  BY <1>1 DEF PathInv, PrintedInv
<1>7. QED BY <1>4, <1>5, <1>6 DEF TrieInv

LEMMA FreeStep == ASSUME TrieInv, AC!Free PROVE TrieInv'
<1>1. /\ TrieTypes /\ NodesInv /\ PhaseInv /\ BufferInv /\ PrintedInv /\ phase = "free"
      /\ IF buffer = 1 THEN phase' = "done" ELSE phase' = "dangling" /\ UNCHANGED <<nodes, isEnd>>
      /\ UNCHANGED <<wordlist, loaded, arg, stack, text, buffer, buffsize, stdout>>
  BY DEF TrieInv, AC!Free, AC!Memory
<1>2. /\ AC!Completions' = AC!Completions /\ LongWord' = LongWord /\ Loaded' = Loaded
      /\ AC!Searches' = AC!Searches
  BY <1>1 DEF AC!Completions, LongWord, Loaded, AC!Searches
<1>3. phase' = "done" \/ (phase' = "dangling" /\ UNCHANGED <<nodes, isEnd>> /\ buffer # 1)
  BY <1>1
<1>4. TrieTypes'
  BY <1>1, <1>3 DEF TrieTypes
<1>5. NodesInv'
  BY <1>1, <1>2, <1>3 DEF NodesInv
<1>6. PhaseInv'
  BY <1>1, <1>2, <1>3 DEF PhaseInv
<1>7. BufferInv'
  BY <1>1, <1>2, <1>3 DEF BufferInv
<1>8. PathInv' /\ PrintedInv'
  BY <1>1, <1>2, <1>3 DEF PathInv, PrintedInv
<1>9. QED BY <1>4, <1>5, <1>6, <1>7, <1>8 DEF TrieInv

LEMMA TrieNextInv == TrieInv /\ [AC!Next]_(AC!vars) => TrieInv'
<1> SUFFICES ASSUME TrieInv, [AC!Next]_(AC!vars) PROVE TrieInv'
  OBVIOUS
<1>1. CASE AC!Usage
  BY <1>1, UsageStep
<1>2. CASE AC!LoadWord
  BY <1>2, LoadStep
<1>3. CASE AC!autocomplete
  BY <1>3, StartStep
<1>4. CASE AC!Search
  BY <1>4, SearchStep
<1>5. CASE AC!Child
  BY <1>5, ChildStep
<1>6. CASE AC!Return
  BY <1>6, ReturnStep
<1>7. CASE AC!Dangle
  BY <1>7, DangleStep
<1>8. CASE AC!Free
  BY <1>8, FreeStep
<1>9. CASE UNCHANGED AC!vars
  <2>1. /\ TrieTypes /\ NodesInv /\ PhaseInv /\ BufferInv /\ PathInv /\ PrintedInv
        /\ UNCHANGED <<wordlist, loaded, nodes, isEnd, arg, stack, text, buffer, buffsize, stdout, phase>>
    BY <1>9 DEF TrieInv, AC!vars
  <2>2. /\ AC!Completions' = AC!Completions /\ LongWord' = LongWord /\ Loaded' = Loaded
        /\ AC!Searches' = AC!Searches /\ Position' = Position
    BY <2>1 DEF AC!Completions, LongWord, Loaded, AC!Searches, Position
  <2>3. TrieTypes' /\ NodesInv' /\ PhaseInv'
    BY <2>1, <2>2 DEF TrieTypes, NodesInv, PhaseInv
  <2>4. BufferInv' /\ PathInv' /\ PrintedInv'
    BY <2>1, <2>2 DEF BufferInv, PathInv, PrintedInv
  <2>5. QED BY <2>3, <2>4 DEF TrieInv
<1>10. QED BY <1>1, <1>2, <1>3, <1>4, <1>5, <1>6, <1>7, <1>8, <1>9 DEF AC!Next

\* What the search has printed in the end are the words of the list that begin
\* with the prefix, in the order of a dictionary, whatever the list and
\* wherever realloc puts the buffer; it goes on in a freed buffer only if one of
\* those words leaves no byte of the first buffer free.
THEOREM CompletionsArePrinted == AC!Spec => []PrintsCompletions
<1>1. TrieInv => PrintsCompletions
  <2> SUFFICES ASSUME TrieInv PROVE AC!PrintsCompletions
    BY DEF PrintsCompletions
  <2>1. TrieTypes /\ BufferInv /\ PrintedInv
    BY DEF TrieInv
  <2>2. ASSUME phase = "done", AC!Searches
        PROVE  /\ AC!Range(stdout) = AC!Completions
               /\ \A m, n \in DOMAIN stdout : m < n => AC!Before(stdout[m], stdout[n])
    <3>1. Lists(stdout, AC!Completions)
      BY <2>1, <2>2 DEF PrintedInv
    <3>2. \A n \in DOMAIN stdout : stdout[n] \in Seq(Nat)
      BY <2>1 DEF TrieTypes
    <3>3. ASSUME NEW m \in DOMAIN stdout, NEW n \in DOMAIN stdout, m < n
          PROVE  AC!Before(stdout[m], stdout[n])
      <4>1. Less(stdout[m], stdout[n])
        BY <3>1, <3>3 DEF Lists
      <4>2. QED BY <3>2, <4>1, BeforeIs
    <3>4. AC!Range(stdout) = AC!Completions
      BY <3>1 DEF Lists, AC!Range
    <3>5. QED BY <3>3, <3>4
  <2>3. Len(text) < buffsize
    BY <2>1 DEF BufferInv
  <2>4. phase = "dangling" => \E w \in AC!Completions : Len(w) >= Room - 1
    BY <2>1 DEF BufferInv, LongWord
  <2>5. QED BY <2>2, <2>3, <2>4 DEF AC!PrintsCompletions
<1>2. AC!Init => TrieInv
  BY TrieInitInv
<1>3. TrieInv /\ [AC!Next]_(AC!vars) => TrieInv'
  BY TrieNextInv
<1>4. QED BY <1>1, <1>2, <1>3, PTL DEF AC!Spec
=============================================================================
