-------------------------- MODULE Splitwise_proofs --------------------------
(***************************************************************************)
(* Theorems about the group of Splitwise for any users, amounts, shares -- *)
(* negative ones too -- and threads.  Over a playLogs that throws as well: *)
(* types; two users have an edge each way only after a negative share      *)
(* between them; and a debt that is read has in it everything that was in  *)
(* the log when the call began.  Until one throws: the debt graph is the   *)
(* sum of the log, and a settlement that was alone clears the debt.        *)
(***************************************************************************)
EXTENDS Splitwise, SumTheorems

Expenses ==
  [kind : {"split"}, payer : Users, owes : Given(Int)]
  \cup [kind : {"settlement"}, payer : Users, owes : Given(Int), alone : BOOLEAN]

\* Nobody owes to themselves.
NoSelf(e) == e.payer \notin DOMAIN e.owes

LogInv == log \in Seq(Expenses) /\ \A i \in DOMAIN log : NoSelf(log[i])

\* The expense in hand is the next one of the log, played by the thread in
\* the monitor.
PlayInv ==
  /\ played \in 0 .. Len(log)
  /\ lock \in Threads \cup {Free}
  /\ lock # Free => call[lock].at \in Playing
  /\ todo # {} => /\ lock # Free /\ played < Len(log)
                  /\ todo \subseteq DOMAIN log[played + 1].owes

\* A call knows a length the log has had.
CallInv ==
  /\ call \in [Threads -> Calls]
  /\ \A t \in Threads : call[t] # Idle => call[t].since <= Len(log)

DebtInv == debt \in [Pairs -> Nat] /\ rows \subseteq Users /\ OneDirection

IInv == LogInv /\ PlayInv /\ CallInv /\ DebtInv /\ ReadsAreFresh /\ failures \in Nat

-----------------------------------------------------------------------------
(* Expenses *)

LEMMA SplitIsExpense ==
  ASSUME NEW payer \in Users, NEW S \in SUBSET Users, NEW share \in [S -> Int]
  PROVE  LET e == Split(payer, share)
         IN e \in Expenses /\ NoSelf(e) /\ e.kind = "split"
<1> DEFINE owes == [u \in S \ {payer} |-> share[u]]
<1>1. Split(payer, share) = [kind |-> "split", payer |-> payer, owes |-> owes]
  BY DEF Split, Restrict
<1>2. owes \in [S \ {payer} -> Int] /\ S \ {payer} \in SUBSET Users
  OBVIOUS
<1>3. owes \in Given(Int)
  BY <1>2 DEF Given
<1>4. DOMAIN owes = S \ {payer}
  OBVIOUS
<1> HIDE DEF owes
<1>5. QED BY <1>1, <1>3, <1>4 DEF Expenses, NoSelf

LEMMA AcceptedAreExpenses ==
  ASSUME NEW payer \in Users, NEW amount \in Amounts, NEW e \in Accepted(payer, amount)
  PROVE  e \in Expenses /\ NoSelf(e) /\ e.kind = "split"
<1>0. amount \in Nat
  BY AmountsAssumption
<1>1. ASSUME NEW among \in SUBSET Users, e = SplitEqual(payer, amount, among)
      PROVE  e \in Expenses /\ NoSelf(e) /\ e.kind = "split"
  <2>1. IsFiniteSet(among)
    BY UsersAssumption, FS_Subset
  <2>2. ASSUME NEW u \in among PROVE amount \div Cardinality(among) \in Int
    <3>1. Cardinality(among) \in Nat /\ Cardinality(among) # 0
      BY <2>1, FS_CardinalityType, FS_EmptySet
    <3>2. QED BY <3>1, <1>0
  <2>3. [u \in among |-> amount \div Cardinality(among)] \in [among -> Int]
    BY <2>2
  <2>4. QED BY <1>1, <2>3, SplitIsExpense DEF SplitEqual
<1>2. ASSUME NEW percent \in Given(Percents), e = SpiltPercentWise(payer, amount, percent)
      PROVE  e \in Expenses /\ NoSelf(e) /\ e.kind = "split"
  <2>1. PICK some \in SUBSET Users : percent \in [some -> Percents]
    BY DEF Given
  <2>2. ASSUME NEW u \in some PROVE (amount * percent[u]) \div 100 \in Int
    <3>1. percent[u] \in Percents
      BY <2>1
    <3>2. percent[u] \in Int
      BY <3>1, SharesAssumption
    <3>3. amount * percent[u] \in Int
      BY <3>2, <1>0
    <3>4. \A n \in Int : n \div 100 \in Int
      OBVIOUS
    <3>5. QED BY <3>3, <3>4
  <2>3. DOMAIN percent = some
    BY <2>1
  <2>4. [u \in some |-> (amount * percent[u]) \div 100] \in [some -> Int]
    BY <2>2
  <2>5. QED BY <1>2, <2>3, <2>4, SplitIsExpense DEF SpiltPercentWise
<1>3. ASSUME NEW share \in Given(Shares), e = SplitExact(payer, share)
      PROVE  e \in Expenses /\ NoSelf(e) /\ e.kind = "split"
  <2>1. PICK some \in SUBSET Users : share \in [some -> Shares]
    BY DEF Given
  <2>2. share \in [some -> Int]
    BY <2>1, SharesAssumption
  <2>3. QED BY <1>3, <2>2, SplitIsExpense DEF SplitExact
<1>4. QED BY <1>1, <1>2, <1>3 DEF Accepted

LEMMA SettlementIsExpense ==
  ASSUME NEW p \in Pairs, NEW amount \in Int, NEW alone \in BOOLEAN
  PROVE  /\ Settlment(p[1], p[2], amount, alone) \in Expenses
         /\ NoSelf(Settlment(p[1], p[2], amount, alone))
<1> DEFINE owes == [u \in {p[2]} |-> amount]
<1>1. p[1] \in Users /\ p[2] \in Users /\ p[1] # p[2]
  BY DEF Pairs
<1>2. owes \in [{p[2]} -> Int] /\ {p[2]} \in SUBSET Users /\ DOMAIN owes = {p[2]}
  BY <1>1
<1>3. owes \in Given(Int)
  BY <1>2 DEF Given
<1>4. Settlment(p[1], p[2], amount, alone)
        = [kind |-> "settlement", payer |-> p[1], owes |-> owes, alone |-> alone]
  BY DEF Settlment
<1> HIDE DEF owes
<1>5. QED BY <1>1, <1>2, <1>3, <1>4 DEF Expenses, NoSelf

\* What an expense of the log looks like to addDept.
LEMMA Debtors ==
  ASSUME NEW e \in Expenses, NoSelf(e), NEW u \in DOMAIN e.owes
  PROVE  /\ u \in Users /\ e.payer \in Users /\ u # e.payer
         /\ <<u, e.payer>> \in Pairs /\ <<e.payer, u>> \in Pairs
         /\ e.owes[u] \in Int
<1>1. e.payer \in Users /\ e.owes \in Given(Int)
  BY DEF Expenses
<1>2. PICK S \in SUBSET Users : e.owes \in [S -> Int]
  BY <1>1 DEF Given
<1>3. QED BY <1>1, <1>2 DEF NoSelf, Pairs

\* A negative share in the graph stays there: the log and what is played of it
\* only grow.
LEMMA NegativeStays ==
  ASSUME LogInv, played \in Nat, played' \in Nat, played' >= played,
         \A i \in DOMAIN log : i \in DOMAIN log' /\ log'[i] = log[i],
         NEW u, NEW v, Negative(u, v)
  PROVE  Negative(u, v)'
<1>1. PICK i \in DOMAIN log :
        i <= played + 1 /\ (Owes(log[i], u, v) < 0 \/ Owes(log[i], v, u) < 0)
  BY DEF Negative
<1>2. i \in DOMAIN log' /\ log'[i] = log[i] /\ i \in Int
  BY DEF LogInv
<1>3. i <= played' + 1
  BY <1>1, <1>2
<1>4. QED BY <1>1, <1>2, <1>3 DEF Negative

\* A step that leaves the graph alone.
LEMMA DebtStays ==
  ASSUME LogInv, DebtInv, played \in Nat, played' \in Nat, played' >= played,
         \A i \in DOMAIN log : i \in DOMAIN log' /\ log'[i] = log[i],
         UNCHANGED <<debt, rows>>
  PROVE  DebtInv'
<1>1. \A p \in Pairs : debt[p] = 0 \/ debt[<<p[2], p[1]>>] = 0 \/ Negative(p[1], p[2])'
  BY NegativeStays DEF DebtInv, OneDirection
<1>2. QED BY <1>1 DEF DebtInv, OneDirection

\* addDept keeps the edges natural and touches two of them; when the amount is
\* not negative, the debt the other way is used up before one this way appears.
LEMMA AddDept ==
  ASSUME debt \in [Pairs -> Nat], rows \subseteq Users,
         NEW from \in Users, NEW to \in Users, from # to, NEW amount \in Int,
         addDept(from, to, amount)
  PROVE  /\ debt' \in [Pairs -> Nat] /\ rows' \subseteq Users
         /\ \A p \in Pairs : p # <<from, to>> /\ p # <<to, from>> => debt'[p] = debt[p]
         /\ amount >= 0 /\ (debt[<<from, to>>] = 0 \/ debt[<<to, from>>] = 0)
              => debt'[<<from, to>>] = 0 \/ debt'[<<to, from>>] = 0
<1> DEFINE b == debt[<<to, from>>]
<1>1. <<from, to>> \in Pairs /\ <<to, from>> \in Pairs /\ <<from, to>> # <<to, from>>
  BY DEF Pairs
<1>2. b \in Nat /\ debt[<<from, to>>] \in Nat
  BY <1>1
<1>3. debt' = [debt EXCEPT ![<<to, from>>] = Above(b, amount),
                           ![<<from, to>>] = @ + Above(amount, b)]
  BY DEF addDept
<1>4. Above(b, amount) \in Nat /\ Above(amount, b) \in Nat
  BY <1>2 DEF Above
<1>5. /\ debt' \in [Pairs -> Nat]
      /\ debt'[<<to, from>>] = Above(b, amount)
      /\ debt'[<<from, to>>] = debt[<<from, to>>] + Above(amount, b)
      /\ \A p \in Pairs : p # <<from, to>> /\ p # <<to, from>> => debt'[p] = debt[p]
  BY <1>1, <1>2, <1>3, <1>4
<1>6. rows' \subseteq Users
  BY DEF addDept
<1>7. ASSUME amount >= 0, debt[<<from, to>>] = 0 \/ b = 0
      PROVE  debt'[<<from, to>>] = 0 \/ debt'[<<to, from>>] = 0
  BY <1>2, <1>5, <1>7 DEF Above
<1>8. QED BY <1>5, <1>6, <1>7

\* When a debtor of the next expense is entered: a second edge between two
\* users comes with a negative share, or has done so before.
LEMMA EnteredStays ==
  ASSUME LogInv, DebtInv, played \in Nat, played' \in Nat, played' >= played,
         log' = log, played < Len(log),
         NEW from, NEW to, NEW amount, log[played + 1].payer = to,
         from \in DOMAIN log[played + 1].owes, amount = log[played + 1].owes[from],
         addDept(from, to, amount)
  PROVE  DebtInv'
<1> DEFINE e == log[played + 1]
           two(p) == debt'[p] # 0 /\ debt'[<<p[2], p[1]>>] # 0
<1>1. played + 1 \in DOMAIN log /\ e \in Expenses /\ NoSelf(e)
  BY DEF LogInv
<1>2. /\ from \in Users /\ to \in Users /\ from # to /\ amount \in Int
      /\ <<from, to>> \in Pairs /\ <<to, from>> \in Pairs
  BY <1>1, Debtors
<1>3. amount = Owes(e, from, to)
  BY DEF Owes
<1>4. \A p \in Pairs : Negative(p[1], p[2]) => Negative(p[1], p[2])'
  BY NegativeStays
<1>5. amount < 0 => \A p \in {<<from, to>>, <<to, from>>} : Negative(p[1], p[2])'
  <2> SUFFICES ASSUME amount < 0, NEW p \in {<<from, to>>, <<to, from>>}
               PROVE  Negative(p[1], p[2])'
    OBVIOUS
  <2>1. Owes(log[played + 1], p[1], p[2]) < 0 \/ Owes(log[played + 1], p[2], p[1]) < 0
    BY <1>3
  <2>2. /\ played + 1 \in DOMAIN log' /\ log'[played + 1] = log[played + 1]
        /\ played + 1 <= played' + 1
    <3>1. played + 1 \in DOMAIN log' /\ log'[played + 1] = log[played + 1]
      BY <1>1
    <3>2. \A m, n \in Nat : m >= n => n + 1 <= m + 1
      OBVIOUS
    <3>3. QED BY <3>1, <3>2
  <2>3. QED BY <2>1, <2>2 DEF Negative
<1> HIDE DEF e
<1>6. /\ debt' \in [Pairs -> Nat] /\ rows' \subseteq Users
      /\ \A p \in Pairs : p # <<from, to>> /\ p # <<to, from>> => debt'[p] = debt[p]
      /\ amount >= 0 /\ (debt[<<from, to>>] = 0 \/ debt[<<to, from>>] = 0)
           => debt'[<<from, to>>] = 0 \/ debt'[<<to, from>>] = 0
  BY <1>2, AddDept DEF DebtInv
<1>7. ASSUME NEW p \in Pairs, two(p) PROVE Negative(p[1], p[2])'
  <2>1. p = <<p[1], p[2]>> /\ <<p[2], p[1]>> \in Pairs
    BY DEF Pairs
  <2>2. CASE p \in {<<from, to>>, <<to, from>>}
    <3>1. CASE amount < 0
      BY <2>2, <3>1, <1>5
    <3>2. CASE ~(amount < 0)
      <4>1. debt'[<<from, to>>] # 0 /\ debt'[<<to, from>>] # 0
        BY <2>2, <1>7
      <4>2. debt[<<from, to>>] # 0 /\ debt[<<to, from>>] # 0
        BY <4>1, <3>2, <1>2, <1>6
      <4>3. debt[p] # 0 /\ debt[<<p[2], p[1]>>] # 0
        BY <4>2, <2>2
      <4>4. QED BY <4>3, <1>4 DEF DebtInv, OneDirection
    <3>3. QED BY <3>1, <3>2
  <2>3. CASE p \notin {<<from, to>>, <<to, from>>}
    <3>1. <<p[2], p[1]>> # <<from, to>> /\ <<p[2], p[1]>> # <<to, from>>
      BY <2>1, <2>3
    <3>2. debt[p] # 0 /\ debt[<<p[2], p[1]>>] # 0
      BY <2>1, <2>3, <3>1, <1>6, <1>7
    <3>3. QED BY <3>2, <1>4 DEF DebtInv, OneDirection
  <2>4. QED BY <2>2, <2>3
<1>8. OneDirection'
  BY <1>7 DEF OneDirection
<1>9. QED BY <1>6, <1>8 DEF DebtInv

-----------------------------------------------------------------------------
(* The invariant *)

\* An append keeps what is said of the log and of its length.
LEMMA Appended ==
  ASSUME LogInv, NEW e \in Expenses, NoSelf(e), log' = Append(log, e)
  PROVE  /\ LogInv' /\ Len(log) \in Nat /\ Len(log') = Len(log) + 1
         /\ \A i \in 1 .. Len(log) : log'[i] = log[i]
<1>1. /\ log' \in Seq(Expenses) /\ Len(log) \in Nat /\ Len(log') = Len(log) + 1
      /\ DOMAIN log = 1 .. Len(log) /\ DOMAIN log' = 1 .. Len(log) + 1
      /\ \A i \in 1 .. Len(log) : log'[i] = log[i]
      /\ log'[Len(log) + 1] = e
  BY DEF LogInv
<1>2. ASSUME NEW i \in DOMAIN log' PROVE NoSelf(log'[i])
  <2>1. CASE i = Len(log) + 1
    BY <2>1, <1>1
  <2>2. CASE i # Len(log) + 1
    <3>1. i \in 1 .. Len(log)
      BY <2>2, <1>1
    <3>2. QED BY <3>1, <1>1 DEF LogInv
  <2>3. QED BY <2>1, <2>2
<1>3. QED BY <1>1, <1>2 DEF LogInv

\* Calls as they are after one of them has moved.
LEMMA CallShapes ==
  ASSUME NEW c \in Calls
  PROVE  /\ c = Idle \/ c.since \in Nat
         /\ c = Idle <=> c.at = "idle"
         /\ c.at \in {"play1", "read1", "play2", "read2", "record"} =>
              c.users \in Pairs /\ c.got \in Int
BY DEF Calls, Idle

LEMMA SettleShape ==
  ASSUME NEW c \in Calls, c.at \in {"play1", "read1", "play2", "read2", "record"}
  PROVE  /\ c \in [at : {"play1", "read1", "play2", "read2", "record"},
                  users : Pairs, got : Int, since : Nat]
         /\ c # Idle
BY DEF Calls, Idle

LEMMA CallMoves ==
  ASSUME NEW c \in Calls
  PROVE  /\ c.at \in Playing =>
              LET d == [c EXCEPT !.at = AfterPlay(c.at)]
              IN d \in Calls /\ d.at = AfterPlay(c.at) /\ d.since = c.since
         /\ c.at = "read1" => \A n \in Int :
              LET d == [c EXCEPT !.at = "play2", !.got = n]
              IN d \in Calls /\ d.at = "play2" /\ d.since = c.since
         /\ c.at = "read2" => \A n \in Int :
              LET d == [c EXCEPT !.at = "record", !.got = n]
              IN d \in Calls /\ d.at = "record" /\ d.since = c.since
<1>1. ASSUME c.at \in Playing
      PROVE  LET d == [c EXCEPT !.at = AfterPlay(c.at)]
             IN d \in Calls /\ d.at = AfterPlay(c.at) /\ d.since = c.since
  <2>1. CASE c.at = "playSummary"
    <3>1. c \in [at : {"playSummary", "readSummary"}, since : Nat]
      BY <2>1 DEF Calls, Idle
    <3>2. QED BY <2>1, <3>1 DEF Calls, AfterPlay
  <2>2. CASE c.at \in {"play1", "play2"}
    <3>1. c \in [at : {"play1", "read1", "play2", "read2", "record"},
                 users : Pairs, got : Int, since : Nat]
      BY <2>2 DEF Calls, Idle
    <3>2. AfterPlay(c.at) \in {"read1", "read2"}
      BY <2>2 DEF AfterPlay
    <3>3. QED BY <3>1, <3>2 DEF Calls
  <2>3. QED BY <1>1, <2>1, <2>2 DEF Playing
<1>2. ASSUME c.at \in {"read1", "read2"}
      PROVE  c \in [at : {"play1", "read1", "play2", "read2", "record"},
                    users : Pairs, got : Int, since : Nat]
  BY <1>2 DEF Calls, Idle
<1>3. ASSUME c.at = "read1", NEW n \in Int
      PROVE  LET d == [c EXCEPT !.at = "play2", !.got = n]
             IN d \in Calls /\ d.at = "play2" /\ d.since = c.since
  BY <1>2, <1>3 DEF Calls
<1>4. ASSUME c.at = "read2", NEW n \in Int
      PROVE  LET d == [c EXCEPT !.at = "record", !.got = n]
             IN d \in Calls /\ d.at = "record" /\ d.since = c.since
  BY <1>2, <1>4 DEF Calls
<1>5. QED BY <1>1, <1>3, <1>4

\* A thread outside the monitor moves on in its call.
LEMMA CallStep ==
  ASSUME LogInv, PlayInv, CallInv, ReadsAreFresh,
         NEW t \in Threads, NEW c \in Calls,
         lock # t \/ lock' = Free,
         call' = [call EXCEPT ![t] = c],
         c # Idle => c.since <= Len(log),
         c.at \in {"read1", "read2", "readSummary"} => played >= c.since,
         UNCHANGED <<log, played>>, lock' \in {lock, Free}, todo' \subseteq todo,
         lock' = Free => todo' = {}
  PROVE  LogInv' /\ PlayInv' /\ CallInv' /\ ReadsAreFresh'
<1>1. LogInv'
  BY DEF LogInv
<1>2. CallInv'
  BY DEF CallInv
<1>3. PlayInv'
  BY DEF PlayInv, CallInv
<1>4. ReadsAreFresh'
  BY DEF ReadsAreFresh, CallInv
<1>5. QED BY <1>1, <1>2, <1>3, <1>4

LEMMA InitIInv == Init => IInv
<1> SUFFICES ASSUME Init PROVE IInv
  OBVIOUS
<1>1. LogInv
  BY DEF Init, LogInv
<1>2. CallInv
  BY DEF Init, CallInv, Calls
<1>3. PlayInv
  BY DEF Init, PlayInv
<1>4. ASSUME NEW p \in Pairs PROVE <<p[2], p[1]>> \in Pairs
  BY DEF Pairs
<1>5. DebtInv
  BY <1>4 DEF Init, DebtInv, OneDirection
<1>6. ReadsAreFresh
  BY DEF Init, ReadsAreFresh, Idle
<1>7. QED BY <1>1, <1>2, <1>3, <1>5, <1>6 DEF IInv, Init

LEMMA NextIInv == IInv /\ [Next]_vars => IInv'
<1> SUFFICES ASSUME IInv, [Next]_vars PROVE IInv'
  OBVIOUS
<1>0. LogInv /\ PlayInv /\ CallInv /\ DebtInv /\ ReadsAreFresh /\ failures \in Nat
  BY DEF IInv
<1>a. Len(log) \in Nat /\ DOMAIN log = 1 .. Len(log) /\ played \in Nat /\ played <= Len(log)
  BY <1>0 DEF LogInv, PlayInv
<1>1. CASE UNCHANGED vars
  <2>1. UNCHANGED <<log, played, debt, rows, lock, todo, call, failures>>
    BY <1>1 DEF vars
  <2>2. LogInv' /\ CallInv' /\ ReadsAreFresh'
    BY <2>1, <1>0 DEF LogInv, CallInv, ReadsAreFresh
  <2>3. PlayInv' /\ DebtInv'
    BY <2>1, <1>0 DEF PlayInv, DebtInv, OneDirection, Negative
  <2>4. QED BY <2>1, <2>2, <2>3, <1>0 DEF IInv
<1>2. ASSUME NEW t \in Threads, AddExpense(t) PROVE IInv'
  <2>1. PICK payer \in Users, amount \in Amounts :
          \E e \in Accepted(payer, amount) : log' = Append(log, e)
    BY <1>2 DEF AddExpense
  <2>2. PICK e \in Accepted(payer, amount) : log' = Append(log, e)
    BY <2>1
  <2>3. UNCHANGED <<played, debt, rows, lock, todo, call, failures>>
    BY <1>2 DEF AddExpense
  <2>4. /\ LogInv' /\ Len(log') = Len(log) + 1
        /\ \A i \in 1 .. Len(log) : log'[i] = log[i]
    BY <2>2, <1>0, AcceptedAreExpenses, Appended
  <2>5. PlayInv'
    BY <2>3, <2>4, <1>0, <1>a DEF PlayInv
  <2>6. CallInv'
    BY <2>3, <2>4, <1>0, <1>a, CallShapes DEF CallInv
  <2>a. DOMAIN log' = 1 .. Len(log) + 1
    BY <2>2, <1>0 DEF LogInv
  <2>b. DebtInv'
    BY <2>3, <2>4, <2>a, <1>0, <1>a, DebtStays
  <2>7. DebtInv' /\ ReadsAreFresh'
    BY <2>3, <2>b, <1>0 DEF ReadsAreFresh
  <2>8. QED BY <2>3, <2>4, <2>5, <2>6, <2>7, <1>0 DEF IInv
\* A call of settleExpense or groupSummary begins.
<1>3. ASSUME NEW t \in Threads, settleExpense(t) \/ groupSummary(t) PROVE IInv'
  <2>1. PICK c \in Calls : /\ call' = [call EXCEPT ![t] = c]
                           /\ c.at \in {"play1", "playSummary"} /\ c.since = Len(log)
    <3>1. CASE settleExpense(t)
      <4>1. PICK p \in Pairs : call' = [call EXCEPT ![t] =
                [at |-> "play1", users |-> p, got |-> 0, since |-> Len(log)]]
        BY <3>1 DEF settleExpense
      <4>2. [at |-> "play1", users |-> p, got |-> 0, since |-> Len(log)] \in Calls
        BY <1>a DEF Calls
      <4>3. QED BY <4>1, <4>2
    <3>2. CASE groupSummary(t)
      <4>1. [at |-> "playSummary", since |-> Len(log)] \in Calls
        BY <1>a DEF Calls
      <4>2. QED BY <3>2, <4>1 DEF groupSummary
    <3>3. QED BY <1>3, <3>1, <3>2
  <2>2. /\ call[t] = Idle
        /\ UNCHANGED <<log, played, debt, rows, lock, todo, failures>>
    BY <1>3 DEF settleExpense, groupSummary
  <2>3. LogInv' /\ DebtInv'
    BY <2>2, <1>0 DEF LogInv, DebtInv, OneDirection, Negative
  <2>4. CallInv'
    BY <2>1, <2>2, <1>0, <1>a DEF CallInv
  <2>5. lock # t
    BY <2>2, <1>0, ThreadsAssumption DEF PlayInv, Idle, Playing
  <2>6. PlayInv'
    BY <2>1, <2>2, <2>5, <1>0 DEF PlayInv, CallInv
  <2>7. ReadsAreFresh'
    BY <2>1, <2>2, <1>0 DEF ReadsAreFresh, CallInv
  <2>8. QED BY <2>2, <2>3, <2>4, <2>6, <2>7, <1>0 DEF IInv

<1>4. ASSUME NEW t \in Threads, Enter(t) PROVE IInv'
  <2>1. /\ call[t].at \in Playing /\ lock = Free /\ lock' = t
        /\ UNCHANGED <<log, played, debt, rows, todo, call, failures>>
    BY <1>4 DEF Enter
  <2>2. LogInv' /\ CallInv' /\ DebtInv' /\ ReadsAreFresh'
    BY <2>1, <1>0 DEF LogInv, CallInv, DebtInv, OneDirection, Negative, ReadsAreFresh
  <2>3. PlayInv'
    BY <2>1, <1>0, ThreadsAssumption DEF PlayInv
  <2>4. QED BY <2>1, <2>2, <2>3, <1>0 DEF IInv
<1>5. ASSUME NEW t \in Threads, TakeExpense(t) PROVE IInv'
  <2>1. /\ lock = t /\ todo = {} /\ played < Len(log)
        /\ todo' = DOMAIN log[played + 1].owes
        /\ played' = IF todo' = {} THEN played + 1 ELSE played
        /\ UNCHANGED <<log, debt, rows, lock, call, failures>>
    BY <1>5 DEF TakeExpense
  <2>2. played' \in 0 .. Len(log) /\ played' >= played
    BY <2>1, <1>a
  <2>d. DebtInv'
    BY <2>1, <2>2, <1>0, <1>a, DebtStays
  <2>3. LogInv' /\ CallInv' /\ DebtInv'
    BY <2>1, <2>d, <1>0 DEF LogInv, CallInv
  <2>4. PlayInv'
    BY <2>1, <2>2, <1>0, ThreadsAssumption DEF PlayInv
  <2>5. ReadsAreFresh'
    <3> SUFFICES ASSUME NEW u \in Threads, call[u].at \in {"read1", "read2", "readSummary"}
                 PROVE  played' >= call[u].since
      BY <2>1 DEF ReadsAreFresh
    <3>1. call[u] \in Calls /\ call[u] # Idle /\ played >= call[u].since
      BY <1>0 DEF CallInv, ReadsAreFresh, Idle
    <3>2. call[u].since \in Nat
      BY <3>1, CallShapes
    <3>3. QED BY <3>1, <3>2, <2>2, <1>a
  <2>6. QED BY <2>1, <2>3, <2>4, <2>5, <1>0 DEF IInv
<1>6. ASSUME NEW t \in Threads, EnterDebt(t) PROVE IInv'
  <2> DEFINE e == log[played + 1]
  <2>1. PICK u \in todo : addDept(u, e.payer, e.owes[u]) /\ todo' = todo \ {u}
    BY <1>6 DEF EnterDebt
  <2>2. /\ lock = t
        /\ played' = IF todo' = {} THEN played + 1 ELSE played
        /\ UNCHANGED <<log, lock, call, failures>>
    BY <1>6 DEF EnterDebt
  <2>3. played < Len(log) /\ todo \subseteq DOMAIN e.owes
    BY <2>1, <1>0 DEF PlayInv
  <2>4. e \in Expenses /\ NoSelf(e)
    BY <2>3, <1>0, <1>a DEF LogInv
  <2>5. u \in DOMAIN e.owes
    BY <2>1, <2>3
  <2>7. played' \in 0 .. Len(log) /\ played' >= played
    BY <2>2, <2>3, <1>a
  <2>6. DebtInv'
    BY <2>1, <2>2, <2>3, <2>5, <2>7, <1>0, <1>a, EnteredStays
  <2> HIDE DEF e
  <2>8. LogInv' /\ CallInv'
    BY <2>2, <1>0 DEF LogInv, CallInv
  <2>9. PlayInv'
    BY <2>1, <2>2, <2>3, <2>7, <1>0, ThreadsAssumption DEF PlayInv, e
  <2>10. ReadsAreFresh'
    <3> SUFFICES ASSUME NEW v \in Threads, call[v].at \in {"read1", "read2", "readSummary"}
                 PROVE  played' >= call[v].since
      BY <2>2 DEF ReadsAreFresh
    <3>1. call[v] \in Calls /\ call[v] # Idle /\ played >= call[v].since
      BY <1>0 DEF CallInv, ReadsAreFresh, Idle
    <3>2. call[v].since \in Nat
      BY <3>1, CallShapes
    <3>3. QED BY <3>1, <3>2, <2>7, <1>a
  <2>11. QED BY <2>2, <2>6, <2>8, <2>9, <2>10, <1>0 DEF IInv
<1>7. ASSUME NEW t \in Threads, PlayFails(t) PROVE IInv'
  <2>1. /\ lock = t /\ lock' = Free /\ todo' = {} /\ failures' = failures + 1
        /\ call' = [call EXCEPT ![t] = Idle]
        /\ UNCHANGED <<log, played, debt, rows>>
    BY <1>7 DEF PlayFails
  <2>2. Idle \in Calls /\ Idle.at = "idle"
    BY DEF Calls, Idle
  <2>3. LogInv' /\ PlayInv' /\ CallInv' /\ ReadsAreFresh'
    BY <2>1, <2>2, <1>0, CallStep
  <2>4. DebtInv' /\ failures' \in Nat
    BY <2>1, <1>0 DEF DebtInv, OneDirection, Negative
  <2>5. QED BY <2>3, <2>4 DEF IInv
\* The loop of playLogs has ended, so the log is played to its end: a read
\* that follows has everything the log held when the call began.
<1>8. ASSUME NEW t \in Threads, Leave(t) PROVE IInv'
  <2> DEFINE c == [call[t] EXCEPT !.at = AfterPlay(call[t].at)]
  <2>1. /\ lock = t /\ todo = {} /\ played = Len(log) /\ lock' = Free
        /\ call' = [call EXCEPT ![t].at = AfterPlay(@)]
        /\ UNCHANGED <<log, played, debt, rows, todo, failures>>
    BY <1>8 DEF Leave
  <2>2. call[t] \in Calls /\ call[t].at \in Playing /\ call[t] # Idle
    BY <2>1, <1>0, ThreadsAssumption DEF CallInv, PlayInv, Playing, Idle
  <2>3. c \in Calls /\ c.since = call[t].since /\ call[t].since \in Nat
    BY <2>2, CallMoves, CallShapes
  <2>4. call[t].since <= Len(log)
    BY <2>2, <1>0 DEF CallInv
  <2>5. call' = [call EXCEPT ![t] = c]
    BY <2>1, <1>0 DEF CallInv
  <2> HIDE DEF c
  <2>6. LogInv' /\ PlayInv' /\ CallInv' /\ ReadsAreFresh'
    BY <2>1, <2>3, <2>4, <2>5, <1>0, <1>a, CallStep
  <2>7. DebtInv'
    BY <2>1, <1>0 DEF DebtInv, OneDirection, Negative
  <2>8. QED BY <2>1, <2>6, <2>7, <1>0 DEF IInv
<1>9. ASSUME NEW t \in Threads, ReadForth(t) PROVE IInv'
  <2> DEFINE n == debt[call[t].users]
             c == [call[t] EXCEPT !.at = "play2", !.got = n]
  <2>1. /\ call[t].at = "read1"
        /\ call' = [call EXCEPT ![t].at = "play2", ![t].got = debt[call[t].users]]
        /\ UNCHANGED <<log, played, debt, rows, lock, todo, failures>>
    BY <1>9 DEF ReadForth
  <2>2. call[t] \in Calls /\ call[t] # Idle /\ call[t].users \in Pairs
    BY <2>1, <1>0, CallShapes DEF CallInv, Idle
  <2>3. n \in Int
    BY <2>2, <1>0 DEF DebtInv
  <2>4. call' = [call EXCEPT ![t] = c]
    BY <2>1, <1>0 DEF CallInv
  <2> HIDE DEF n
  <2>5. c \in Calls /\ c.at = "play2" /\ c.since = call[t].since
    BY <2>1, <2>2, <2>3, CallMoves
  <2>6. call[t].since <= Len(log) /\ lock # t
    BY <2>1, <2>2, <1>0, ThreadsAssumption DEF CallInv, PlayInv, Playing
  <2> HIDE DEF c
  <2>7. todo # {} => lock # Free
    BY <1>0 DEF PlayInv
  <2>8. LogInv' /\ PlayInv' /\ CallInv' /\ ReadsAreFresh'
    BY <2>1, <2>4, <2>5, <2>6, <2>7, <1>0, CallStep
  <2>9. DebtInv'
    BY <2>1, <1>0 DEF DebtInv, OneDirection, Negative
  <2>10. QED BY <2>1, <2>8, <2>9, <1>0 DEF IInv
<1>10. ASSUME NEW t \in Threads, ReadBack(t) PROVE IInv'
  <2> DEFINE p == call[t].users
             d == call[t].got - debt[<<p[2], p[1]>>]
             c == IF d = 0 THEN Idle ELSE [call[t] EXCEPT !.at = "record", !.got = d]
  <2>1. /\ call[t].at = "read2" /\ call' = [call EXCEPT ![t] = c]
        /\ UNCHANGED <<log, played, debt, rows, lock, todo, failures>>
    BY <1>10, <1>0 DEF ReadBack, CallInv
  <2>2. call[t] \in Calls /\ call[t] # Idle /\ p \in Pairs /\ call[t].got \in Int
    BY <2>1, <1>0, CallShapes DEF CallInv, Idle
  <2>3. <<p[2], p[1]>> \in Pairs
    BY <2>2 DEF Pairs
  <2>4. d \in Int
    BY <2>2, <2>3, <1>0 DEF DebtInv
  <2>5. Idle \in Calls /\ Idle.at = "idle"
    BY DEF Calls, Idle
  <2> HIDE DEF d
  <2>6. /\ c \in Calls /\ c.at \in {"idle", "record"}
        /\ c # Idle => c.since = call[t].since
    BY <2>1, <2>2, <2>4, <2>5, CallMoves
  <2>7. call[t].since <= Len(log) /\ lock # t
    BY <2>1, <2>2, <1>0, ThreadsAssumption DEF CallInv, PlayInv, Playing
  <2>8. todo # {} => lock # Free
    BY <1>0 DEF PlayInv
  <2> HIDE DEF c
  <2>9. LogInv' /\ PlayInv' /\ CallInv' /\ ReadsAreFresh'
    BY <2>1, <2>6, <2>7, <2>8, <1>0, CallStep
  <2>10. DebtInv'
    BY <2>1, <1>0 DEF DebtInv, OneDirection, Negative
  <2>11. QED BY <2>1, <2>9, <2>10, <1>0 DEF IInv
<1>11. ASSUME NEW t \in Threads, Record(t) PROVE IInv'
  <2> DEFINE p == call[t].users
             d == call[t].got
             alone == call[t].since = Len(log)
             e == IF d > 0 THEN Settlment(p[1], p[2], d, alone)
                           ELSE Settlment(p[2], p[1], -d, alone)
  <2>1. /\ call[t].at = "record" /\ log' = Append(log, e)
        /\ call' = [call EXCEPT ![t] = Idle]
        /\ UNCHANGED <<played, debt, rows, lock, todo, failures>>
    BY <1>11 DEF Record
  <2>2. call[t] \in Calls /\ p \in Pairs /\ d \in Int
    BY <2>1, <1>0, CallShapes DEF CallInv
  <2>3. e \in Expenses /\ NoSelf(e)
    <3>1. alone \in BOOLEAN
      OBVIOUS
    <3> HIDE DEF d, alone, p
    <3>2. CASE d > 0
      BY <3>1, <3>2, <2>2, SettlementIsExpense
    <3>3. CASE ~(d > 0)
      <4> DEFINE q == <<p[2], p[1]>>
      <4>1. q \in Pairs /\ q[1] = p[2] /\ q[2] = p[1]
        BY <2>2 DEF Pairs
      <4>2. -d \in Nat
        BY <3>3, <2>2
      <4> HIDE DEF q
      <4>3. /\ Settlment(q[1], q[2], -d, alone) \in Expenses
            /\ NoSelf(Settlment(q[1], q[2], -d, alone))
        BY <4>1, <4>2, <3>1, SettlementIsExpense
      <4>4. QED BY <3>3, <4>1, <4>3
    <3>4. QED BY <3>2, <3>3
  <2> HIDE DEF e
  <2>4. /\ LogInv' /\ Len(log') = Len(log) + 1
        /\ \A i \in 1 .. Len(log) : log'[i] = log[i]
    BY <2>1, <2>3, <1>0, Appended
  <2>5. Idle \in Calls /\ Idle.at = "idle" /\ lock # t
    BY <2>1, <1>0, ThreadsAssumption DEF Calls, Idle, PlayInv, Playing
  <2>6. CallInv'
    BY <2>1, <2>4, <2>5, <1>0, <1>a, CallShapes DEF CallInv
  <2>7. PlayInv'
    BY <2>1, <2>4, <2>5, <1>0, <1>a DEF PlayInv, CallInv
  <2>a. DOMAIN log' = 1 .. Len(log) + 1
    BY <2>1, <1>0 DEF LogInv
  <2>b. DebtInv'
    BY <2>1, <2>4, <2>a, <1>0, <1>a, DebtStays
  <2>8. DebtInv' /\ ReadsAreFresh'
    BY <2>1, <2>5, <2>b, <1>0 DEF ReadsAreFresh, CallInv
  <2>9. QED BY <2>1, <2>4, <2>6, <2>7, <2>8, <1>0 DEF IInv
<1>12. ASSUME NEW t \in Threads, ReadSummary(t) PROVE IInv'
  <2>1. /\ call[t].at = "readSummary" /\ call' = [call EXCEPT ![t] = Idle]
        /\ UNCHANGED <<log, played, debt, rows, lock, todo, failures>>
    BY <1>12 DEF ReadSummary
  <2>2. Idle \in Calls /\ Idle.at = "idle"
    BY DEF Calls, Idle
  <2>3. lock # t /\ (todo # {} => lock # Free)
    BY <2>1, <1>0, ThreadsAssumption DEF PlayInv, Playing
  <2>4. LogInv' /\ PlayInv' /\ CallInv' /\ ReadsAreFresh'
    BY <2>1, <2>2, <2>3, <1>0, CallStep
  <2>5. DebtInv'
    BY <2>1, <1>0 DEF DebtInv, OneDirection, Negative
  <2>6. QED BY <2>1, <2>4, <2>5, <1>0 DEF IInv
<1>13. QED
  BY <1>1, <1>2, <1>3, <1>4, <1>5, <1>6, <1>7, <1>8, <1>9, <1>10, <1>11, <1>12 DEF Next

-----------------------------------------------------------------------------
LEMMA IInvHolds == Spec => []IInv
<1>1. QED BY InitIInv, NextIInv, PTL DEF Spec

-----------------------------------------------------------------------------
(* The books: the debt graph is the sum of the log *)

\* The balance of u with v over the first n of the expenses of l, and the
\* share of an expense that is entered when the debtors in T are not.
Net(e, u, v) == Owes(e, u, v) - Owes(e, v, u)
NetOf(l, u, v) == [i \in DOMAIN l |-> Net(l[i], u, v)]
BalanceOf(l, n, u, v) == SumFunctionOnSet(NetOf(l, u, v), 1 .. n)
Part(e, T, u, v) == IF e.payer = v /\ u \in DOMAIN e.owes \ T THEN e.owes[u] ELSE 0

\* What a call that nobody has added to the log under has read is still the
\* debt, and the whole log is in it.
AloneInv ==
  failures = 0 => \A t \in Threads :
    LET c == call[t] IN
    c # Idle /\ c.since = Len(log) =>
      /\ c.at \in {"play2", "read2", "record"} => played = Len(log)
      /\ c.at \in {"play2", "read2"} => c.got = debt[c.users]
      /\ c.at = "record" => c.got = debt[c.users] - debt[<<c.users[2], c.users[1]>>]

BooksInv == IInv /\ BooksBalance /\ AloneInv /\ SettlementsClear

LEMMA BalanceIs == \A n, u, v : Balance(n, u, v) = BalanceOf(log, n, u, v)
BY DEF Balance, BalanceOf, NetOf, Net

LEMMA PartType ==
  ASSUME NEW e \in Expenses, NoSelf(e), NEW T, NEW u, NEW v
  PROVE  Part(e, T, u, v) \in Int /\ Part(e, {}, u, v) = Owes(e, u, v)
<1>1. u \in DOMAIN e.owes => e.owes[u] \in Int
  BY Debtors
<1>2. QED BY <1>1 DEF Part, Owes

\* One more expense is one more summand.
LEMMA BalanceStep ==
  ASSUME NEW l \in Seq(Expenses), \A i \in DOMAIN l : NoSelf(l[i]), NEW u, NEW v,
         NEW n \in Nat, n < Len(l)
  PROVE  /\ BalanceOf(l, n, u, v) \in Int
         /\ BalanceOf(l, n + 1, u, v) = BalanceOf(l, n, u, v) + Net(l[n + 1], u, v)
<1> DEFINE f == NetOf(l, u, v)
<1>1. \A i \in 1 .. n + 1 : i \in DOMAIN l
  OBVIOUS
<1>2. ASSUME NEW i \in DOMAIN l PROVE f[i] \in Int /\ f[i] = Net(l[i], u, v)
  <2>1. l[i] \in Expenses /\ NoSelf(l[i])
    OBVIOUS
  <2>2. Owes(l[i], u, v) \in Int /\ Owes(l[i], v, u) \in Int
    BY <2>1, PartType
  <2>3. QED BY <2>2 DEF NetOf, Net
<1>3. n + 1 \in DOMAIN l
  BY <1>1
<1> HIDE DEF f
<1>4. /\ SumFunctionOnSet(f, 1 .. n) \in Int
      /\ SumFunctionOnSet(f, 1 .. n + 1) = SumFunctionOnSet(f, 1 .. n) + f[n + 1]
  BY <1>1, <1>2, SumUpTo
<1>5. QED BY <1>2, <1>3, <1>4 DEF BalanceOf, f

LEMMA BalanceType ==
  ASSUME NEW l \in Seq(Expenses), \A i \in DOMAIN l : NoSelf(l[i]), NEW u, NEW v,
         NEW n \in Nat, n <= Len(l)
  PROVE  BalanceOf(l, n, u, v) \in Int
<1> DEFINE f == NetOf(l, u, v)
<1>1. ASSUME NEW i \in 1 .. n PROVE f[i] \in Int
  <2>1. i \in DOMAIN l /\ l[i] \in Expenses /\ NoSelf(l[i])
    OBVIOUS
  <2>2. Owes(l[i], u, v) \in Int /\ Owes(l[i], v, u) \in Int
    BY <2>1, PartType
  <2>3. QED BY <2>1, <2>2 DEF NetOf, Net
<1> HIDE DEF f
<1>2. IsFiniteSet(1 .. n)
  BY FS_Interval
<1>3. QED BY <1>1, <1>2, SumType DEF BalanceOf, f

\* Nothing is owed before the first expense.
LEMMA BalanceOfNone ==
  ASSUME NEW l, NEW u, NEW v
  PROVE  BalanceOf(l, 0, u, v) = 0
<1>1. 1 .. 0 = {}
  OBVIOUS
<1>2. QED BY <1>1, SumEmpty DEF BalanceOf

\* An append changes no balance but the last.
LEMMA BalanceKept ==
  ASSUME NEW l \in Seq(Expenses), NEW e \in Expenses, NEW u, NEW v,
         NEW n \in Nat, n <= Len(l)
  PROVE  BalanceOf(Append(l, e), n, u, v) = BalanceOf(l, n, u, v)
<1> DEFINE f == NetOf(l, u, v)
           g == NetOf(Append(l, e), u, v)
<1>1. ASSUME NEW i \in 1 .. n PROVE g[i] = f[i]
  <2>1. i \in DOMAIN l /\ i \in DOMAIN Append(l, e) /\ Append(l, e)[i] = l[i]
    OBVIOUS
  <2>2. QED BY <2>1 DEF NetOf
<1> HIDE DEF f, g
<1>2. SumFunctionOnSet(g, 1 .. n) = SumFunctionOnSet(f, 1 .. n)
  <2>1. IsFiniteSet(1 .. n)
    BY FS_Interval
  <2>2. QED BY <1>1, <2>1, SumSame
<1>3. QED BY <1>2 DEF BalanceOf, f, g

\* An expense of which only the debtors outside T are entered.
LEMMA EnteredIs ==
  ASSUME NEW e \in Expenses, NEW T, NEW u, NEW v
  PROVE  LET entered == [e EXCEPT !.owes = Restrict(@, DOMAIN @ \ T)]
         IN Owes(entered, u, v) - Owes(entered, v, u) = Part(e, T, u, v) - Part(e, T, v, u)
<1> DEFINE left == DOMAIN e.owes \ T
           entered == [e EXCEPT !.owes = Restrict(@, DOMAIN @ \ T)]
<1>1. entered.payer = e.payer /\ entered.owes = Restrict(e.owes, left)
  BY DEF Expenses
<1>2. DOMAIN entered.owes = left /\ \A w \in left : entered.owes[w] = e.owes[w]
  BY <1>1 DEF Restrict
<1> HIDE DEF entered
<1>3. Owes(entered, u, v) - Owes(entered, v, u) = Part(e, T, u, v) - Part(e, T, v, u)
  BY <1>1, <1>2 DEF Owes, Part
<1>4. QED BY <1>3 DEF entered

\* The expense in hand, seen through the debtors still to be entered.
LEMMA InHandIs ==
  ASSUME LogInv, PlayInv, todo # {}, NEW u, NEW v
  PROVE  InHand(u, v) = Part(log[played + 1], todo, u, v) - Part(log[played + 1], todo, v, u)
<1>1. log[played + 1] \in Expenses
  BY DEF LogInv, PlayInv
<1>2. QED BY <1>1, EnteredIs DEF InHand

\* addDept moves what two users owe each other on balance by the amount.
LEMMA AddDeptMoves ==
  ASSUME debt \in [Pairs -> Nat], NEW from \in Users, NEW to \in Users, from # to,
         NEW amount \in Int, addDept(from, to, amount)
  PROVE  /\ debt'[<<from, to>>] - debt'[<<to, from>>]
              = debt[<<from, to>>] - debt[<<to, from>>] + amount
         /\ debt'[<<to, from>>] - debt'[<<from, to>>]
              = debt[<<to, from>>] - debt[<<from, to>>] - amount
         /\ \A p \in Pairs : p # <<from, to>> /\ p # <<to, from>> => debt'[p] = debt[p]
<1> DEFINE b == debt[<<to, from>>]
<1>1. <<from, to>> \in Pairs /\ <<to, from>> \in Pairs /\ <<from, to>> # <<to, from>>
  BY DEF Pairs
<1>2. b \in Nat /\ debt[<<from, to>>] \in Nat
  BY <1>1
<1>3. debt' = [debt EXCEPT ![<<to, from>>] = Above(b, amount),
                           ![<<from, to>>] = @ + Above(amount, b)]
  BY DEF addDept
<1>4. Above(b, amount) \in Nat /\ Above(amount, b) \in Nat
  BY <1>2 DEF Above
<1>5. /\ debt'[<<to, from>>] = Above(b, amount)
      /\ debt'[<<from, to>>] = debt[<<from, to>>] + Above(amount, b)
      /\ \A p \in Pairs : p # <<from, to>> /\ p # <<to, from>> => debt'[p] = debt[p]
  BY <1>1, <1>2, <1>3, <1>4
<1>6. QED BY <1>2, <1>5 DEF Above

LEMMA InitBooksInv == Init => BooksInv
<1> SUFFICES ASSUME Init PROVE BooksInv
  OBVIOUS
<1>1. IInv
  BY InitIInv
<1>2. log = <<>> /\ Len(log) = 0 /\ DOMAIN log = {} /\ played = 0 /\ todo = {}
  BY DEF Init
<1>3. BooksBalance
  <2>1. ASSUME NEW p \in Pairs PROVE debt[p] = 0 /\ debt[<<p[2], p[1]>>] = 0
    BY DEF Init, Pairs
  <2>2. \A u, v : Balance(0, u, v) = 0
    BY BalanceIs, BalanceOfNone
  <2>3. \A u, v : InHand(u, v) = 0
    BY <1>2 DEF InHand
  <2>4. ASSUME NEW x \in Pairs
        PROVE  debt[x] - debt[<<x[2], x[1]>>] = Balance(played, x[1], x[2]) + InHand(x[1], x[2])
    <3>1. Balance(played, x[1], x[2]) = 0 /\ InHand(x[1], x[2]) = 0
      BY <1>2, <2>2, <2>3
    <3>2. QED BY <2>1, <3>1
  <2>5. QED BY <2>4 DEF BooksBalance
<1>4. AloneInv
  BY DEF Init, AloneInv
<1>5. SettlementsClear
  BY <1>2 DEF SettlementsClear
<1>6. QED BY <1>1, <1>3, <1>4, <1>5 DEF BooksInv

\* What the steps use of the invariant.
LEMMA BooksFacts ==
  ASSUME IInv
  PROVE  /\ log \in Seq(Expenses) /\ \A i \in DOMAIN log : NoSelf(log[i])
         /\ DOMAIN log = 1 .. Len(log) /\ Len(log) \in Nat
         /\ played \in Nat /\ played <= Len(log)
         /\ debt \in [Pairs -> Nat] /\ call \in [Threads -> Calls] /\ failures \in Nat
         /\ \A t \in Threads : call[t] # Idle => call[t].since \in Nat
BY CallShapes DEF IInv, LogInv, PlayInv, DebtInv, CallInv

\* A step that leaves the log and the books alone.
LEMMA BooksSame ==
  ASSUME UNCHANGED <<log, debt, played, todo>>, failures' = failures
  PROVE  /\ BooksBalance => BooksBalance'
         /\ SettlementsClear => SettlementsClear'
<1>1. \A n, u, v : Balance(n, u, v)' = Balance(n, u, v)
  BY DEF Balance
<1>2. \A u, v : InHand(u, v)' = InHand(u, v)
  BY DEF InHand
<1>3. \A u, v : Balance(played, u, v)' = Balance(played, u, v)
  BY DEF Balance
<1>4. QED BY <1>1, <1>2, <1>3 DEF BooksBalance, SettlementsClear

\* A step of one thread's call beside the books.
LEMMA AloneStep ==
  ASSUME IInv, AloneInv, failures' = failures, UNCHANGED <<log, played, debt>>,
         NEW t \in Threads, NEW c, call' = [call EXCEPT ![t] = c],
         failures = 0 /\ c # Idle /\ c.since = Len(log) =>
           /\ c.at \in {"play2", "read2", "record"} => played = Len(log)
           /\ c.at \in {"play2", "read2"} => c.got = debt[c.users]
           /\ c.at = "record" => c.got = debt[c.users] - debt[<<c.users[2], c.users[1]>>]
  PROVE  AloneInv'
<1>1. call \in [Threads -> Calls]
  BY BooksFacts
<1>2. call'[t] = c /\ \A u \in Threads : u # t => call'[u] = call[u]
  BY <1>1
<1>3. QED BY <1>2 DEF AloneInv

\* An append: the balances that the books are about stay, and a call that was
\* alone with the log is not any more.
LEMMA BooksAppend ==
  ASSUME IInv, BooksBalance, AloneInv, SettlementsClear, NEW e \in Expenses, NoSelf(e),
         log' = Append(log, e), UNCHANGED <<played, debt, todo, failures>>,
         \A u \in Threads : call'[u] = call[u] \/ call'[u] = Idle,
         failures = 0 /\ e.kind = "settlement" /\ e.alone =>
           \A u \in DOMAIN e.owes :
             BalanceOf(log, Len(log), e.payer, u) + Net(e, e.payer, u) = 0
  PROVE  BooksBalance' /\ AloneInv' /\ SettlementsClear'
<1> DEFINE n == Len(log)
<1>1. /\ log \in Seq(Expenses) /\ n \in Nat /\ DOMAIN log = 1 .. n
      /\ played \in Nat /\ played <= n
      /\ \A i \in DOMAIN log : NoSelf(log[i])
  BY BooksFacts
<1>2. /\ Len(log') = n + 1 /\ DOMAIN log' = 1 .. n + 1 /\ log'[n + 1] = e
      /\ \A i \in 1 .. n : log'[i] = log[i]
      /\ log' \in Seq(Expenses)
  BY <1>1
<1>3. \A i \in DOMAIN log' : NoSelf(log'[i])
  <2>1. \A i \in DOMAIN log' : i = n + 1 \/ i \in 1 .. n
    BY <1>1, <1>2
  <2>2. QED BY <1>1, <1>2, <2>1
<1>4. \A u, v : \A i \in Nat : i <= n => BalanceOf(log', i, u, v) = BalanceOf(log, i, u, v)
  BY <1>1, BalanceKept
<1>5. \A i, u, v : Balance(i, u, v)' = BalanceOf(log', i, u, v)
  BY DEF Balance, BalanceOf, NetOf, Net
<1>6. BooksBalance'
  <2>1. \A u, v : InHand(u, v)' = InHand(u, v)
    <3>1. CASE todo = {}
      BY <3>1 DEF InHand
    <3>2. CASE todo # {}
      <4>1. played + 1 \in 1 .. n
        BY <1>1, <3>2 DEF IInv, PlayInv
      <4>2. log'[played + 1] = log[played + 1]
        BY <1>2, <4>1
      <4>3. QED BY <4>2 DEF InHand
    <3>3. QED BY <3>1, <3>2
  <2>2. \A u, v : Balance(played, u, v)' = Balance(played, u, v)
    <3>1. \A u, v : Balance(played, u, v)' = BalanceOf(log', played', u, v)
      BY DEF Balance, BalanceOf, NetOf, Net
    <3>2. QED BY <1>1, <1>4, <3>1, BalanceIs
  <2>3. QED BY <2>1, <2>2 DEF BooksBalance
<1>7. AloneInv'
  <2>1. ASSUME NEW u \in Threads, call'[u] # Idle PROVE call'[u].since # Len(log')
    <3>1. call'[u] = call[u] /\ call[u].since \in Nat /\ call[u].since <= n
      BY <2>1, BooksFacts DEF IInv, CallInv
    <3>2. QED BY <1>1, <1>2, <3>1
  <2>2. QED BY <2>1 DEF AloneInv
<1>8. SettlementsClear'
  <2> SUFFICES ASSUME failures = 0, NEW i \in DOMAIN log',
                      log'[i].kind = "settlement" /\ log'[i].alone,
                      NEW u \in DOMAIN log'[i].owes
               PROVE  BalanceOf(log', i, log'[i].payer, u) = 0
    BY <1>5 DEF SettlementsClear
  <2>1. CASE i \in 1 .. n
    <3>1. log'[i] = log[i] /\ i \in DOMAIN log /\ i \in Nat /\ i <= n
      BY <1>1, <1>2, <2>1
    <3>2. Balance(i, log[i].payer, u) = 0
      BY <3>1 DEF SettlementsClear
    <3>3. QED BY <1>4, <3>1, <3>2, BalanceIs
  <2>2. CASE i = n + 1
    <3>1. log'[i] = e
      BY <1>2, <2>2
    <3>2. BalanceOf(log', n + 1, e.payer, u)
            = BalanceOf(log', n, e.payer, u) + Net(e, e.payer, u)
      <4> DEFINE l == log'
      <4>1. /\ l \in Seq(Expenses) /\ \A j \in DOMAIN l : NoSelf(l[j])
            /\ n \in Nat /\ n < Len(l) /\ l[n + 1] = e
        BY <1>1, <1>2, <1>3
      <4> HIDE DEF l, n
      <4>2. BalanceOf(l, n + 1, e.payer, u)
              = BalanceOf(l, n, e.payer, u) + Net(l[n + 1], e.payer, u)
        BY <4>1, BalanceStep
      <4>3. QED BY <4>1, <4>2 DEF l
    <3>3. BalanceOf(log', n, e.payer, u) = BalanceOf(log, n, e.payer, u)
      BY <1>1, <1>4
    <3>4. QED BY <2>2, <3>1, <3>2, <3>3
  <2>3. QED BY <1>1, <1>2, <2>1, <2>2
<1>9. QED BY <1>6, <1>7, <1>8

LEMMA NextBooksInv == BooksInv /\ [Next]_vars => BooksInv'
<1> SUFFICES ASSUME BooksInv, [Next]_vars PROVE BooksInv'
  OBVIOUS
<1>0. IInv /\ BooksBalance /\ AloneInv /\ SettlementsClear
  BY DEF BooksInv
<1>i. IInv'
  BY <1>0, NextIInv
<1>a. /\ log \in Seq(Expenses) /\ \A i \in DOMAIN log : NoSelf(log[i])
      /\ DOMAIN log = 1 .. Len(log) /\ Len(log) \in Nat
      /\ played \in Nat /\ played <= Len(log)
      /\ debt \in [Pairs -> Nat] /\ call \in [Threads -> Calls] /\ failures \in Nat
      /\ \A t \in Threads : call[t] # Idle => call[t].since \in Nat
  BY <1>0, BooksFacts
<1>b. todo # {} => played < Len(log)
  BY <1>0 DEF IInv, PlayInv
<1>n. Len(log) \in Nat /\ played \in Nat /\ played <= Len(log)
  BY <1>a
<1>1. CASE UNCHANGED vars
  <2>1. UNCHANGED <<log, played, debt, rows, lock, todo, call, failures>>
    BY <1>1 DEF vars
  <2>2. BooksBalance' /\ SettlementsClear'
    BY <2>1, <1>0, BooksSame
  <2>3. AloneInv'
    BY <2>1, <1>0 DEF AloneInv
  <2>4. QED BY <2>2, <2>3, <1>i DEF BooksInv
<1>2. ASSUME NEW t \in Threads, AddExpense(t) PROVE BooksInv'
  <2>1. PICK payer \in Users, amount \in Amounts :
          \E e \in Accepted(payer, amount) : log' = Append(log, e)
    BY <1>2 DEF AddExpense
  <2>2. PICK e \in Accepted(payer, amount) : log' = Append(log, e)
    BY <2>1
  <2>3. UNCHANGED <<played, debt, todo, call, failures>>
    BY <1>2 DEF AddExpense
  <2>4. e \in Expenses /\ NoSelf(e) /\ e.kind = "split"
    BY AcceptedAreExpenses
  <2>5. BooksBalance' /\ AloneInv' /\ SettlementsClear'
    BY <2>2, <2>3, <2>4, <1>0, BooksAppend
  <2>6. QED BY <2>5, <1>i DEF BooksInv
\* A call begins, or its thread enters, leaves or reports: the books stay.
<1>3. ASSUME NEW t \in Threads,
             settleExpense(t) \/ groupSummary(t) \/ ReadSummary(t)
      PROVE  BooksInv'
  <2>1. UNCHANGED <<log, played, debt, todo>> /\ failures' = failures
    BY <1>3 DEF settleExpense, groupSummary, ReadSummary
  <2>2. \E c : call' = [call EXCEPT ![t] = c] /\ c.at \in {"play1", "playSummary", "idle"}
    BY <1>3 DEF settleExpense, groupSummary, ReadSummary, Idle
  <2>3. PICK c : call' = [call EXCEPT ![t] = c] /\ c.at \in {"play1", "playSummary", "idle"}
    BY <2>2
  <2>4. AloneInv'
    BY <2>1, <2>3, <1>0, AloneStep
  <2>5. QED BY <2>1, <2>4, <1>0, <1>i, BooksSame DEF BooksInv
<1>4. ASSUME NEW t \in Threads, Enter(t) PROVE BooksInv'
  <2>1. UNCHANGED <<log, played, debt, todo, call>> /\ failures' = failures
    BY <1>4 DEF Enter
  <2>2. AloneInv'
    BY <2>1, <1>0 DEF AloneInv
  <2>3. QED BY <2>1, <2>2, <1>0, <1>i, BooksSame DEF BooksInv
<1>5. ASSUME NEW t \in Threads, TakeExpense(t) PROVE BooksInv'
  <2> DEFINE e == log[played + 1]
  <2>1. /\ todo = {} /\ played < Len(log) /\ todo' = DOMAIN e.owes
        /\ played' = IF todo' = {} THEN played + 1 ELSE played
        /\ UNCHANGED <<log, debt, call, failures>>
    BY <1>5 DEF TakeExpense
  <2>2. e \in Expenses /\ NoSelf(e)
    BY <2>1, <1>a
  <2>3. \A u, v : InHand(u, v) = 0
    BY <2>1 DEF InHand
  <2>4. ASSUME NEW u, NEW v
        PROVE  BalanceOf(log, played', u, v) + InHand(u, v)' = BalanceOf(log, played, u, v)
    <3>1. /\ BalanceOf(log, played, u, v) \in Int
          /\ BalanceOf(log, played + 1, u, v) = BalanceOf(log, played, u, v) + Net(e, u, v)
      BY <2>1, <1>a, BalanceStep
    <3>2. CASE todo' = {}
      <4>1. Net(e, u, v) = 0
        BY <2>1, <3>2 DEF Net, Owes
      <4>2. InHand(u, v)' = 0
        BY <3>2 DEF InHand
      <4>3. QED BY <2>1, <3>1, <3>2, <4>1, <4>2
    <3>3. CASE todo' # {}
      <4>1. InHand(u, v)' = Part(e, todo, u, v)' - Part(e, todo, v, u)'
        <5>1. log'[played' + 1] = e
          BY <2>1, <3>3
        <5>2. QED BY <5>1, <2>2, <3>3, EnteredIs DEF InHand
      <4>2. Part(e, todo, u, v)' = 0 /\ Part(e, todo, v, u)' = 0
        BY <2>1, <3>3 DEF Part
      <4>3. played' = played
        BY <2>1, <3>3
      <4>4. QED BY <3>1, <4>1, <4>2, <4>3
    <3>4. QED BY <3>2, <3>3
  <2>5. BooksBalance'
    <3>1. \A u, v : Balance(played, u, v)' = BalanceOf(log, played', u, v)
      BY <2>1 DEF Balance, BalanceOf, NetOf, Net
    <3> SUFFICES ASSUME failures = 0, NEW p \in Pairs
                 PROVE  debt[p] - debt[<<p[2], p[1]>>]
                          = Balance(played, p[1], p[2])' + InHand(p[1], p[2])'
      BY <2>1 DEF BooksBalance
    <3>2. debt[p] - debt[<<p[2], p[1]>>] = BalanceOf(log, played, p[1], p[2]) + 0
      BY <2>3, <1>0, BalanceIs DEF BooksBalance
    <3>3. BalanceOf(log, played, p[1], p[2]) \in Int
      BY <2>1, <1>a, BalanceStep
    <3>4. QED BY <2>4, <3>1, <3>2, <3>3
  <2>6. SettlementsClear'
    <3>1. \A i, u, v : Balance(i, u, v)' = Balance(i, u, v)
      BY <2>1 DEF Balance
    <3>2. QED BY <2>1, <3>1, <1>0 DEF SettlementsClear
  <2>7. AloneInv'
    <3>1. \A u \in Threads : failures = 0 /\ call[u] # Idle /\ call[u].since = Len(log)
            => call[u].at \notin {"play2", "read2", "record"}
      <4>1. played < Len(log)
        BY <2>1
      <4>2. played # Len(log)
        BY <4>1, <1>n
      <4>3. QED BY <4>2, <1>0 DEF AloneInv
    <3>2. QED BY <2>1, <3>1 DEF AloneInv
  <2>8. QED BY <2>5, <2>6, <2>7, <1>i DEF BooksInv
<1>6. ASSUME NEW t \in Threads, EnterDebt(t) PROVE BooksInv'
  <2> DEFINE e == log[played + 1]
  <2>1. PICK w \in todo : addDept(w, e.payer, e.owes[w]) /\ todo' = todo \ {w}
    BY <1>6 DEF EnterDebt
  <2>2. /\ played' = IF todo' = {} THEN played + 1 ELSE played
        /\ UNCHANGED <<log, call, failures>>
    BY <1>6 DEF EnterDebt
  <2>3. played < Len(log) /\ todo \subseteq DOMAIN e.owes
    BY <2>1, <1>0 DEF IInv, PlayInv
  <2>4. e \in Expenses /\ NoSelf(e) /\ w \in DOMAIN e.owes
    BY <2>1, <2>3, <1>a
  <2>5. /\ w \in Users /\ e.payer \in Users /\ w # e.payer /\ e.owes[w] \in Int
        /\ <<w, e.payer>> \in Pairs /\ <<e.payer, w>> \in Pairs
    BY <2>4, Debtors
  <2>6. \A u, v : InHand(u, v) = Part(e, todo, u, v) - Part(e, todo, v, u)
    BY <2>1, <1>0, InHandIs DEF IInv
  <2>7. ASSUME NEW u, NEW v
        PROVE  BalanceOf(log, played', u, v) + InHand(u, v)'
                 = BalanceOf(log, played, u, v)
                     + (Part(e, todo \ {w}, u, v) - Part(e, todo \ {w}, v, u))
    <3>1. /\ BalanceOf(log, played, u, v) \in Int
          /\ BalanceOf(log, played + 1, u, v) = BalanceOf(log, played, u, v) + Net(e, u, v)
      BY <2>3, <1>a, BalanceStep
    <3>2. CASE todo' = {}
      <4>1. Net(e, u, v) = Part(e, todo \ {w}, u, v) - Part(e, todo \ {w}, v, u)
        BY <2>1, <2>4, <3>2, PartType DEF Net
      <4>2. InHand(u, v)' = 0
        BY <3>2 DEF InHand
      <4>3. Part(e, todo \ {w}, u, v) \in Int /\ Part(e, todo \ {w}, v, u) \in Int
        BY <2>4, PartType
      <4>4. played' = played + 1
        BY <2>2, <3>2
      <4>5. QED BY <3>1, <4>1, <4>2, <4>3, <4>4
    <3>3. CASE todo' # {}
      <4>1. InHand(u, v)' = Part(e, todo, u, v)' - Part(e, todo, v, u)'
        <5>1. log'[played' + 1] = e
          BY <2>2, <3>3
        <5>2. QED BY <5>1, <2>4, <3>3, EnteredIs DEF InHand
      <4>2. played' = played
        BY <2>2, <3>3
      <4>3. Part(e, todo, u, v)' = Part(e, todo \ {w}, u, v)
            /\ Part(e, todo, v, u)' = Part(e, todo \ {w}, v, u)
        BY <2>1, <2>2, <4>2 DEF Part
      <4>4. QED BY <4>1, <4>2, <4>3
    <3>4. QED BY <3>2, <3>3
  <2>8. \A u, v : u # w \/ v # e.payer => Part(e, todo \ {w}, u, v) = Part(e, todo, u, v)
    BY DEF Part
  <2>9. Part(e, todo, w, e.payer) = 0 /\ Part(e, todo \ {w}, w, e.payer) = e.owes[w]
    BY <2>1, <2>4 DEF Part
  <2>10. \A u, v : Part(e, todo, u, v) \in Int /\ BalanceOf(log, played, u, v) \in Int
    BY <2>3, <2>4, <1>a, PartType, BalanceStep
  <2>11. BooksBalance'
    <3>1. \A u, v : Balance(played, u, v)' = BalanceOf(log, played', u, v)
      BY <2>2 DEF Balance, BalanceOf, NetOf, Net
    <3> SUFFICES ASSUME failures = 0, NEW p \in Pairs
                 PROVE  debt'[p] - debt'[<<p[2], p[1]>>]
                          = Balance(played, p[1], p[2])' + InHand(p[1], p[2])'
      BY <2>2 DEF BooksBalance
    <3> DEFINE x == p[1]
               y == p[2]
    <3>2. p = <<x, y>> /\ <<y, x>> \in Pairs /\ x # y
      BY DEF Pairs
    <3>3. debt[p] - debt[<<y, x>>] = BalanceOf(log, played, x, y)
                                       + (Part(e, todo, x, y) - Part(e, todo, y, x))
      BY <2>6, <1>0, BalanceIs DEF BooksBalance
    <3>4. debt[p] \in Nat /\ debt[<<y, x>>] \in Nat
      BY <3>2, <1>a
    <3>5. /\ debt'[<<w, e.payer>>] - debt'[<<e.payer, w>>]
               = debt[<<w, e.payer>>] - debt[<<e.payer, w>>] + e.owes[w]
          /\ debt'[<<e.payer, w>>] - debt'[<<w, e.payer>>]
               = debt[<<e.payer, w>>] - debt[<<w, e.payer>>] - e.owes[w]
          /\ \A q \in Pairs : q # <<w, e.payer>> /\ q # <<e.payer, w>> => debt'[q] = debt[q]
      BY <2>1, <2>5, <1>a, AddDeptMoves
    <3>6. Balance(played, x, y)' + InHand(x, y)'
            = BalanceOf(log, played, x, y)
                + (Part(e, todo \ {w}, x, y) - Part(e, todo \ {w}, y, x))
      BY <2>7, <3>1
    <3> HIDE DEF x, y, e
    <3>7. CASE p = <<w, e.payer>>
      <4>1. x = w /\ y = e.payer
        BY <3>2, <3>7
      <4>2. Part(e, todo \ {w}, y, x) = Part(e, todo, y, x)
        BY <2>5, <2>8, <4>1
      <4>3. QED BY <2>5, <2>9, <2>10, <3>2, <3>3, <3>4, <3>5, <3>6, <4>1, <4>2 DEF x, y
    <3>8. CASE p = <<e.payer, w>>
      <4>1. x = e.payer /\ y = w
        BY <3>2, <3>8
      <4>2. Part(e, todo \ {w}, x, y) = Part(e, todo, x, y)
        BY <2>5, <2>8, <4>1
      <4>3. QED BY <2>5, <2>9, <2>10, <3>2, <3>3, <3>4, <3>5, <3>6, <4>1, <4>2 DEF x, y
    <3>9. CASE p # <<w, e.payer>> /\ p # <<e.payer, w>>
      <4>1. <<y, x>> # <<w, e.payer>> /\ <<y, x>> # <<e.payer, w>>
        BY <3>2, <3>9
      <4>2. debt'[p] = debt[p] /\ debt'[<<y, x>>] = debt[<<y, x>>]
        BY <3>2, <3>5, <3>9, <4>1
      <4>3. /\ Part(e, todo \ {w}, x, y) = Part(e, todo, x, y)
            /\ Part(e, todo \ {w}, y, x) = Part(e, todo, y, x)
        BY <2>8, <3>2, <3>9, <4>1
      <4>4. QED BY <3>3, <3>6, <4>2, <4>3 DEF x, y
    <3>10. QED BY <3>7, <3>8, <3>9
  <2>12. SettlementsClear'
    <3>1. \A i, u, v : Balance(i, u, v)' = Balance(i, u, v)
      BY <2>2 DEF Balance
    <3>2. QED BY <2>2, <3>1, <1>0 DEF SettlementsClear
  <2>13. AloneInv'
    <3>1. \A u \in Threads : failures = 0 /\ call[u] # Idle /\ call[u].since = Len(log)
            => call[u].at \notin {"play2", "read2", "record"}
      <4>1. played < Len(log)
        BY <2>3
      <4>2. played # Len(log)
        BY <4>1, <1>n
      <4>3. QED BY <4>2, <1>0 DEF AloneInv
    <3>2. QED BY <2>2, <3>1 DEF AloneInv
  <2>14. QED BY <2>11, <2>12, <2>13, <1>i DEF BooksInv
<1>7. ASSUME NEW t \in Threads, PlayFails(t) PROVE BooksInv'
  <2>1. failures' = failures + 1
    BY <1>7 DEF PlayFails
  <2>2. failures' # 0
    BY <2>1, <1>a
  <2>3. QED BY <2>2, <1>i DEF BooksInv, BooksBalance, AloneInv, SettlementsClear
<1>8. ASSUME NEW t \in Threads, Leave(t) PROVE BooksInv'
  <2> DEFINE c == [call[t] EXCEPT !.at = AfterPlay(call[t].at)]
  <2>1. /\ lock = t /\ played = Len(log)
        /\ UNCHANGED <<log, played, debt, todo>> /\ failures' = failures
        /\ call' = [call EXCEPT ![t].at = AfterPlay(@)]
    BY <1>8 DEF Leave
  <2>2. call' = [call EXCEPT ![t] = c]
    BY <2>1, <1>a
  <2>3. call[t] \in Calls /\ call[t].at \in Playing /\ call[t] # Idle
    BY <2>1, <1>0, ThreadsAssumption DEF IInv, CallInv, PlayInv, Playing, Idle
  <2>4. /\ c.since = call[t].since
        /\ c.at \in {"read2"} => call[t].at = "play2" /\ c.got = call[t].got
                                  /\ c.users = call[t].users
        /\ c.at \notin {"play2", "record"}
    <3>1. CASE call[t].at = "playSummary"
      <4>1. call[t] \in [at : {"playSummary", "readSummary"}, since : Nat]
        BY <2>3, <3>1 DEF Calls, Idle
      <4>2. QED BY <3>1, <4>1 DEF AfterPlay
    <3>2. CASE call[t].at \in {"play1", "play2"}
      <4>1. call[t] \in [at : {"play1", "read1", "play2", "read2", "record"},
                         users : Pairs, got : Int, since : Nat]
        BY <2>3, <3>2 DEF Calls, Idle
      <4>2. QED BY <3>2, <4>1 DEF AfterPlay
    <3>3. QED BY <2>3, <3>1, <3>2 DEF Playing
  <2> HIDE DEF c
  <2>5. failures = 0 /\ c.since = Len(log) /\ c.at = "read2" => c.got = debt[c.users]
    BY <2>3, <2>4, <1>0 DEF AloneInv
  <2>6. AloneInv'
    BY <2>1, <2>2, <2>4, <2>5, <1>0, AloneStep
  <2>7. QED BY <2>1, <2>6, <1>0, <1>i, BooksSame DEF BooksInv
<1>9. ASSUME NEW t \in Threads, ReadForth(t) PROVE BooksInv'
  <2> DEFINE n == debt[call[t].users]
             c == [call[t] EXCEPT !.at = "play2", !.got = n]
  <2>1. /\ call[t].at = "read1"
        /\ call' = [call EXCEPT ![t].at = "play2", ![t].got = debt[call[t].users]]
        /\ UNCHANGED <<log, played, debt, todo>> /\ failures' = failures
    BY <1>9 DEF ReadForth
  <2>2. call' = [call EXCEPT ![t] = c]
    BY <2>1, <1>a
  <2>3. /\ call[t] \in [at : {"play1", "read1", "play2", "read2", "record"},
                        users : Pairs, got : Int, since : Nat]
        /\ call[t] # Idle
    BY <2>1, <1>a, SettleShape
  <2>4. c.at = "play2" /\ c.got = n /\ c.users = call[t].users /\ c.since = call[t].since
    BY <2>3
  <2>5. played >= call[t].since
    BY <2>1, <1>0 DEF IInv, ReadsAreFresh
  <2> HIDE DEF c
  <2>6. c.since = Len(log) => played = Len(log)
    BY <2>4, <2>5, <1>n
  <2>7. c.got = debt[c.users]
    BY <2>4
  <2> HIDE DEF n
  <2>8. AloneInv'
    BY <2>1, <2>2, <2>4, <2>6, <2>7, <1>0, AloneStep
  <2>9. QED BY <2>1, <2>8, <1>0, <1>i, BooksSame DEF BooksInv
<1>10. ASSUME NEW t \in Threads, ReadBack(t) PROVE BooksInv'
  <2> DEFINE p == call[t].users
             d == call[t].got - debt[<<p[2], p[1]>>]
             c == IF d = 0 THEN Idle ELSE [call[t] EXCEPT !.at = "record", !.got = d]
  <2>1. /\ call[t].at = "read2" /\ call' = [call EXCEPT ![t] = c]
        /\ UNCHANGED <<log, played, debt, todo>> /\ failures' = failures
    BY <1>10, <1>a DEF ReadBack
  <2>2. /\ call[t] \in [at : {"play1", "read1", "play2", "read2", "record"},
                        users : Pairs, got : Int, since : Nat]
        /\ call[t] # Idle
    BY <2>1, <1>a, SettleShape
  <2>3. c # Idle => c.at = "record" /\ c.got = d /\ c.users = p /\ c.since = call[t].since
    BY <2>2
  <2>4. failures = 0 /\ call[t].since = Len(log) =>
          played = Len(log) /\ call[t].got = debt[p]
    BY <2>1, <2>2, <1>0 DEF AloneInv
  <2>5. failures = 0 /\ c # Idle /\ c.since = Len(log) =>
          /\ c.at = "record" /\ played = Len(log)
          /\ c.got = debt[c.users] - debt[<<c.users[2], c.users[1]>>]
    BY <2>3, <2>4
  <2> HIDE DEF c
  <2>6. AloneInv'
    BY <2>1, <2>5, <1>0, AloneStep
  <2>7. QED BY <2>1, <2>6, <1>0, <1>i, BooksSame DEF BooksInv
\* The settlement of a call that was alone is what is owed on balance.
<1>11. ASSUME NEW t \in Threads, Record(t) PROVE BooksInv'
  <2> DEFINE p == call[t].users
             q == <<p[2], p[1]>>
             d == call[t].got
             alone == call[t].since = Len(log)
             e == IF d > 0 THEN Settlment(p[1], p[2], d, alone)
                           ELSE Settlment(p[2], p[1], -d, alone)
  <2>1. /\ call[t].at = "record" /\ log' = Append(log, e)
        /\ call' = [call EXCEPT ![t] = Idle]
        /\ UNCHANGED <<played, debt, todo, failures>>
    BY <1>11 DEF Record
  <2>2. call[t] # Idle /\ p \in Pairs /\ d \in Int
    BY <2>1, <1>a, CallShapes DEF Idle
  <2>3. q \in Pairs /\ q[1] = p[2] /\ q[2] = p[1] /\ p = <<p[1], p[2]>> /\ p[1] # p[2]
    BY <2>2 DEF Pairs
  <2>4. e \in Expenses /\ NoSelf(e)
    <3>1. alone \in BOOLEAN /\ (d > 0 => d \in Nat) /\ (~(d > 0) => -d \in Nat)
      BY <2>2
    <3> HIDE DEF d, alone, q, p
    <3>2. CASE d > 0
      BY <3>1, <3>2, <2>2, SettlementIsExpense
    <3>3. CASE ~(d > 0)
      BY <3>1, <3>3, <2>3, SettlementIsExpense
    <3>4. QED BY <3>2, <3>3
  <2>5. e.alone = alone
    BY DEF Settlment
  <2>6. ASSUME failures = 0, alone, NEW u \in DOMAIN e.owes
        PROVE  BalanceOf(log, Len(log), e.payer, u) + Net(e, e.payer, u) = 0
    <3>1. played = Len(log) /\ d = debt[p] - debt[q]
      BY <2>1, <2>2, <2>6, <1>0 DEF AloneInv
    <3>2. \A a, b : InHand(a, b) = 0
      BY <3>1, <1>a, <1>b DEF InHand
    <3>3. debt[p] \in Nat /\ debt[q] \in Nat
      BY <2>2, <2>3, <1>a
    <3>4. debt[p] - debt[q] = BalanceOf(log, Len(log), p[1], p[2]) + 0
      BY <2>2, <2>6, <3>1, <3>2, <1>0, BalanceIs DEF BooksBalance
    <3>5. debt[q] - debt[p] = BalanceOf(log, Len(log), p[2], p[1]) + 0
      <4>1. <<q[2], q[1]>> = p
        BY <2>3
      <4>2. debt[q] - debt[<<q[2], q[1]>>] = Balance(played, q[1], q[2]) + InHand(q[1], q[2])
        BY <2>3, <2>6, <1>0 DEF BooksBalance
      <4>3. QED BY <2>3, <3>1, <3>2, <4>1, <4>2, BalanceIs
    <3>6. /\ BalanceOf(log, Len(log), p[1], p[2]) \in Int
          /\ BalanceOf(log, Len(log), p[2], p[1]) \in Int
      <4> HIDE DEF p
      <4>1. ASSUME NEW a, NEW b PROVE BalanceOf(log, Len(log), a, b) \in Int
        BY <1>a, BalanceType
      <4>2. QED BY <4>1
    <3>7. CASE d > 0
      <4>1. e.payer = p[1] /\ u = p[2] /\ DOMAIN e.owes = {p[2]} /\ e.owes[p[2]] = d
        BY <3>7 DEF Settlment
      <4>2. Net(e, p[1], p[2]) = 0 - d
        BY <2>3, <4>1 DEF Net, Owes
      <4> HIDE DEF p, q, d, e
      <4>3. QED BY <2>2, <3>1, <3>3, <3>4, <3>6, <4>1, <4>2
    <3>8. CASE ~(d > 0)
      <4>1. e.payer = p[2] /\ u = p[1] /\ DOMAIN e.owes = {p[1]} /\ e.owes[p[1]] = -d
        BY <3>8 DEF Settlment
      <4>2. Net(e, p[2], p[1]) = 0 - (-d)
        BY <2>3, <4>1 DEF Net, Owes
      <4> HIDE DEF p, q, d, e
      <4>3. QED BY <2>2, <3>1, <3>3, <3>5, <3>6, <4>1, <4>2
    <3>9. QED BY <3>7, <3>8
  <2>7. \A u \in Threads : call'[u] = call[u] \/ call'[u] = Idle
    BY <2>1, <1>a
  <2> HIDE DEF e
  <2>8. BooksBalance' /\ AloneInv' /\ SettlementsClear'
    BY <2>1, <2>4, <2>5, <2>6, <2>7, <1>0, BooksAppend
  <2>9. QED BY <2>8, <1>i DEF BooksInv
<1>12. QED
  BY <1>1, <1>2, <1>3, <1>4, <1>5, <1>6, <1>7, <1>8, <1>9, <1>10, <1>11 DEF Next

LEMMA BooksInvHolds == Spec => []BooksInv
<1>1. QED BY InitBooksInv, NextBooksInv, PTL DEF Spec

-----------------------------------------------------------------------------
\* Types: what the log holds are expenses of the users, debts are natural
\* numbers, and every call is one that settleExpense or groupSummary makes.
THEOREM TypeCorrect == Spec => []TypeOK
<1>1. ASSUME IInv PROVE TypeOK
  <2>1. LogInv /\ PlayInv /\ CallInv /\ DebtInv /\ failures \in Nat
    BY <1>1 DEF IInv
  <2>2. ASSUME NEW i \in DOMAIN log
        PROVE  log[i].payer \in Users /\ log[i].payer \notin DOMAIN log[i].owes
    <3>1. log[i] \in Expenses /\ NoSelf(log[i])
      BY <2>1 DEF LogInv
    <3>2. QED BY <3>1 DEF Expenses, NoSelf
  <2>3. todo \subseteq Users
    <3>1. CASE todo # {}
      <4>1. played + 1 \in DOMAIN log /\ todo \subseteq DOMAIN log[played + 1].owes
        BY <3>1, <2>1 DEF PlayInv, LogInv
      <4>2. log[played + 1] \in Expenses /\ NoSelf(log[played + 1])
        BY <4>1, <2>1 DEF LogInv
      <4>3. QED BY <4>1, <4>2, Debtors
    <3>2. QED BY <3>1
  <2>4. QED BY <2>1, <2>2, <2>3 DEF TypeOK, PlayInv, CallInv, DebtInv
<1>2. QED BY <1>1, IInvHolds, PTL

\* addDept nets what two users owe each other into one edge, over any sequence
\* of expenses and of exceptions, until a share that is negative comes between
\* the two: the constructors accept one, and it leaves them an edge each way.
THEOREM OneEdgePerPair == Spec => []OneDirection
<1>1. IInv => OneDirection
  BY DEF IInv, DebtInv
<1>2. QED BY <1>1, IInvHolds, PTL

\* A debt is read after the whole of the log that the call has met is played.
THEOREM ReadsAreNeverStale == Spec => []ReadsAreFresh
<1>1. IInv => ReadsAreFresh
  BY DEF IInv
<1>2. QED BY <1>1, IInvHolds, PTL

\* The debt graph is what the expenses played so far come to, for every two
\* users and between any two steps of the threads, until a playLogs throws.
THEOREM GraphIsTheLog == Spec => []BooksBalance
<1>1. BooksInv => BooksBalance
  BY DEF BooksInv
<1>2. QED BY <1>1, BooksInvHolds, PTL

\* A settlement recorded with no other append since its call began brings the
\* two users' balance over the log up to it to nothing.
THEOREM SettledIsSettled == Spec => []SettlementsClear
<1>1. BooksInv => SettlementsClear
  BY DEF BooksInv
<1>2. QED BY <1>1, BooksInvHolds, PTL
=============================================================================
