----------------------------- MODULE Splitwise ------------------------------
(***************************************************************************)
(* lld/Splitwise.java: one group, its log of expenses and its debt graph,  *)
(* used by several threads.  An expense is only appended to the log; the   *)
(* log is played into the debt graph, entry by entry, when somebody asks   *)
(* for a debt.  playLogs holds the group's monitor; reading a debt does    *)
(* not, so it falls between any two entries another thread plays.          *)
(*                                                                         *)
(* Amounts are whole and shares exact: the rounding of doubles is left     *)
(* out, so a difference below ROUDING_ERROR is a difference of 0.  Who is  *)
(* a member of the group is left out: the code never looks.                *)
(***************************************************************************)
EXTENDS Integers, Sequences, FiniteSetsExt, Functions

CONSTANTS
  Users,
  Threads,
  Amounts,   \* what an expense may come to
  Percents,  \* the percentages a caller may give a participant
  Shares,    \* the exact shares
  MaxLog,    \* bound: no expense or settlement is begun on a longer log
  MaxFailures  \* bound: no call is begun after that many have thrown

ASSUME UsersAssumption == IsFiniteSet(Users)
ASSUME AmountsAssumption == Amounts \subseteq Nat \ {0}
ASSUME SharesAssumption == Percents \subseteq Int /\ Shares \subseteq Int

VARIABLES
  log,     \* expenses: who paid and what every other participant owes
  played,  \* logPlayedTill
  debt,    \* debt[u, v]: the edge from u to v, 0 when it is absent
  rows,    \* the users who have a map of their own in graph
  lock,    \* the thread in playLogs, or Free
  todo,    \* the debtors of the expense being played still to be entered
  call,    \* what each thread is doing, and for which users
  failures \* history: the calls of playLogs that have thrown

vars == <<log, played, debt, rows, lock, todo, call, failures>>

Free == "free"
ASSUME ThreadsAssumption == Free \notin Threads

Pairs == {p \in Users \X Users : p[1] # p[2]}

\* A call is at its first or second playLogs (and may still wait for the
\* monitor), at the read of a debt after it, or about to record a settlement.
\* users are the two to be settled, got what it has read, and since (history)
\* the length of the log when it began.
Playing == {"play1", "play2", "playSummary"}
AfterPlay(at) == CASE at = "play1" -> "read1" [] at = "play2" -> "read2" [] OTHER -> "readSummary"
Idle == [at |-> "idle"]

Init ==
  /\ log = <<>> /\ played = 0
  /\ debt = [p \in Pairs |-> 0] /\ rows = {}
  /\ lock = Free /\ todo = {}
  /\ call = [t \in Threads |-> Idle]
  /\ failures = 0

-----------------------------------------------------------------------------
(* The expenses: userOwesTo of the four subclasses *)

\* Every participant but the one who paid owes a share.
Split(payer, share) == [kind |-> "split", payer |-> payer,
                        owes |-> Restrict(share, DOMAIN share \ {payer})]

SplitEqual(payer, amount, among) ==
  Split(payer, [u \in among |-> amount \div Cardinality(among)])

SpiltPercentWise(payer, amount, percent) ==
  Split(payer, [u \in DOMAIN percent |-> (amount * percent[u]) \div 100])

SplitExact(payer, share) == Split(payer, share)

\* alone is history: nobody has added to the log since settleExpense began.
Settlment(payer, receiver, amount, alone) ==
  [kind |-> "settlement", payer |-> payer, owes |-> [u \in {receiver} |-> amount], alone |-> alone]

\* What the caller says of some of the users.
Given(S) == UNION {[some -> S] : some \in SUBSET Users}

\* The expenses the constructors accept, as far as shares are whole: they test
\* the sum, and a share may be negative.  A list for splitEqual may be empty; a
\* name in it that comes twice is left out.
Accepted(payer, amount) ==
  {SplitEqual(payer, amount, among) :
     among \in {a \in SUBSET Users : a = {} \/ amount % Cardinality(a) = 0}}
  \cup
  {SpiltPercentWise(payer, amount, percent) :
     percent \in {p \in Given(Percents) :
                    SumFunction(p) = 100 /\ \A u \in DOMAIN p : (amount * p[u]) % 100 = 0}}
  \cup
  {SplitExact(payer, share) : share \in {s \in Given(Shares) : SumFunction(s) = amount}}

\* splitEqual, splitPercentWise, splitExact: one append to a concurrent list.
AddExpense(t) ==
  /\ call[t] = Idle /\ Len(log) < MaxLog /\ failures < MaxFailures
  /\ \E payer \in Users, amount \in Amounts :
       \E e \in Accepted(payer, amount) : log' = Append(log, e)
  /\ UNCHANGED <<played, debt, rows, lock, todo, call, failures>>

-----------------------------------------------------------------------------
(* Group.playLogs, in the monitor of the group *)

Enter(t) ==
  /\ call[t].at \in Playing
  /\ lock = Free
  /\ lock' = t
  /\ UNCHANGED <<log, played, debt, rows, todo, call, failures>>

\* The next expense; one that nobody owes for is over at once.
TakeExpense(t) ==
  /\ lock = t /\ todo = {} /\ played < Len(log)
  /\ todo' = DOMAIN log[played + 1].owes
  /\ played' = IF todo' = {} THEN played + 1 ELSE played
  /\ UNCHANGED <<log, debt, rows, lock, call, failures>>

Above(a, b) == IF a > b THEN a - b ELSE 0

\* DebtGraph.addDept: the debt the other way is used up first, and what is
\* left of either is the one edge between the two.  A negative amount adds to
\* the debt the other way, and the one this way stays beside it.
BadAddDept(from, to, amount) ==
  /\ debt' = [debt EXCEPT ![<<from, to>>] = @ + amount]
  /\ rows' = rows \cup {from}

addDept(from, to, amount) ==
  LET backward == debt[<<to, from>>] IN
  /\ debt' = [debt EXCEPT ![<<to, from>>] = Above(backward, amount),
                          ![<<from, to>>] = @ + Above(amount, backward)]
  /\ rows' = CASE backward = amount -> rows
               [] backward > amount -> rows \cup {to}
               [] OTHER -> rows \cup {from}

\* backward == amount, and graph.get(to).remove(from) has no map to remove
\* from.  assert amount > 0 would have stopped this, if assertions were on.
Throws(from, to, amount) == debt[<<to, from>>] = amount /\ to \notin rows

\* logPlayedTill moves only when the last debtor has been entered.
BadEnterDebt(t) ==
  /\ lock = t
  /\ \E u \in todo :
       LET e == log[played + 1] IN
       /\ ~Throws(u, e.payer, e.owes[u])
       /\ addDept(u, e.payer, e.owes[u])
       /\ todo' = {}
  /\ played' = played + 1
  /\ UNCHANGED <<log, lock, call, failures>>

EnterDebt(t) ==
  /\ lock = t
  /\ \E u \in todo :
       LET e == log[played + 1] IN
       /\ ~Throws(u, e.payer, e.owes[u])
       /\ addDept(u, e.payer, e.owes[u])
       /\ todo' = todo \ {u}
  /\ played' = IF todo' = {} THEN played + 1 ELSE played
  /\ UNCHANGED <<log, lock, call, failures>>

\* The exception leaves playLogs and the caller; the debtors entered so far
\* stay, and logPlayedTill does not move.
PlayFails(t) ==
  /\ lock = t
  /\ \E u \in todo :
       LET e == log[played + 1] IN Throws(u, e.payer, e.owes[u])
  /\ lock' = Free /\ todo' = {} /\ failures' = failures + 1
  /\ call' = [call EXCEPT ![t] = Idle]
  /\ UNCHANGED <<log, played, debt, rows>>

\* The loop test fails and the monitor is left.
BadLeave(t) ==
  /\ lock = t /\ todo = {}
  /\ lock' = Free
  /\ call' = [call EXCEPT ![t].at = AfterPlay(@)]
  /\ UNCHANGED <<log, played, debt, rows, todo, failures>>

Leave(t) ==
  /\ lock = t /\ todo = {} /\ played = Len(log)
  /\ lock' = Free
  /\ call' = [call EXCEPT ![t].at = AfterPlay(@)]
  /\ UNCHANGED <<log, played, debt, rows, todo, failures>>

-----------------------------------------------------------------------------
(* settleExpense and groupSummary *)

settleExpense(t) ==
  /\ call[t] = Idle /\ Len(log) < MaxLog /\ failures < MaxFailures
  /\ \E p \in Pairs : call' = [call EXCEPT ![t] =
       [at |-> "play1", users |-> p, got |-> 0, since |-> Len(log)]]
  /\ UNCHANGED <<log, played, debt, rows, lock, todo, failures>>

groupSummary(t) ==
  /\ call[t] = Idle /\ failures < MaxFailures
  /\ call' = [call EXCEPT ![t] = [at |-> "playSummary", since |-> Len(log)]]
  /\ UNCHANGED <<log, played, debt, rows, lock, todo, failures>>

\* user1ToUser2, and on to requiredAmountForSettlement the other way.
ReadForth(t) ==
  /\ call[t].at = "read1"
  /\ call' = [call EXCEPT ![t].at = "play2", ![t].got = debt[call[t].users]]
  /\ UNCHANGED <<log, played, debt, rows, lock, todo, failures>>

\* user2ToUser1, the difference, and the return if there is none.
ReadBack(t) ==
  /\ call[t].at = "read2"
  /\ LET p == call[t].users
         difference == call[t].got - debt[<<p[2], p[1]>>]
     IN call' = [call EXCEPT ![t] =
                   IF difference = 0 THEN Idle
                   ELSE [@ EXCEPT !.at = "record", !.got = difference]]
  /\ UNCHANGED <<log, played, debt, rows, lock, todo, failures>>

\* The debtor of the two pays the difference.
BadRecord(t) ==
  /\ call[t].at = "record"
  /\ LET p == call[t].users
         d == call[t].got
         alone == call[t].since = Len(log)
     IN log' = Append(log, IF d > 0 THEN Settlment(p[2], p[1], d, alone)
                                    ELSE Settlment(p[1], p[2], -d, alone))
  /\ call' = [call EXCEPT ![t] = Idle]
  /\ UNCHANGED <<played, debt, rows, lock, todo, failures>>

Record(t) ==
  /\ call[t].at = "record"
  /\ LET p == call[t].users
         d == call[t].got
         alone == call[t].since = Len(log)
     IN log' = Append(log, IF d > 0 THEN Settlment(p[1], p[2], d, alone)
                                    ELSE Settlment(p[2], p[1], -d, alone))
  /\ call' = [call EXCEPT ![t] = Idle]
  /\ UNCHANGED <<played, debt, rows, lock, todo, failures>>

\* toStringSummary.
ReadSummary(t) ==
  /\ call[t].at = "readSummary"
  /\ call' = [call EXCEPT ![t] = Idle]
  /\ UNCHANGED <<log, played, debt, rows, lock, todo, failures>>

Next == \E t \in Threads :
  \/ AddExpense(t) \/ settleExpense(t) \/ groupSummary(t)
  \/ Enter(t) \/ TakeExpense(t) \/ EnterDebt(t) \/ PlayFails(t) \/ Leave(t)
  \/ ReadForth(t) \/ ReadBack(t) \/ Record(t) \/ ReadSummary(t)

Spec == Init /\ [][Next]_vars

-----------------------------------------------------------------------------
(* Properties *)

Calls ==
  [at : {"play1", "read1", "play2", "read2", "record"}, users : Pairs, got : Int, since : Nat]
  \cup [at : {"playSummary", "readSummary"}, since : Nat]
  \cup {Idle}

TypeOK ==
  /\ \A i \in DOMAIN log : log[i].payer \in Users /\ log[i].payer \notin DOMAIN log[i].owes
  /\ played \in 0 .. Len(log)
  /\ debt \in [Pairs -> Nat]
  /\ rows \subseteq Users /\ todo \subseteq Users
  /\ lock \in Threads \cup {Free} /\ (todo # {} => lock # Free)
  /\ call \in [Threads -> Calls]
  /\ failures \in Nat

\* What u owes v for an expense, and on balance for the first n of the log.
Owes(e, u, v) == IF e.payer = v /\ u \in DOMAIN e.owes THEN e.owes[u] ELSE 0
Balance(n, u, v) ==
  SumFunctionOnSet([i \in DOMAIN log |-> Owes(log[i], u, v) - Owes(log[i], v, u)], 1 .. n)

\* The part of the expense in hand that is already in the graph.
InHand(u, v) ==
  IF todo = {} THEN 0
  ELSE LET e == log[played + 1]
           entered == [e EXCEPT !.owes = Restrict(@, DOMAIN @ \ todo)]
       IN Owes(entered, u, v) - Owes(entered, v, u)

\* Whatever the threads do, the debt graph is the sum of the log as far as it
\* has been played: no expense is played twice, skipped or half played, until
\* a call of playLogs throws.
BooksBalance ==
  failures = 0 => \A p \in Pairs :
    debt[p] - debt[<<p[2], p[1]>>] = Balance(played, p[1], p[2]) + InHand(p[1], p[2])

\* A negative share has come into the graph, or is just coming, between u and v.
Negative(u, v) ==
  \E i \in DOMAIN log : i <= played + 1 /\ (Owes(log[i], u, v) < 0 \/ Owes(log[i], v, u) < 0)

\* Two users owe each other, with an edge each way, only where there has been a
\* negative share between them: whatever else the threads log and play, what
\* they owe is netted into one edge at most.
OneDirection ==
  \A p \in Pairs : debt[p] = 0 \/ debt[<<p[2], p[1]>>] = 0 \/ Negative(p[1], p[2])

\* A debt that is read has every expense in it that was in the log when the
\* call began, whichever thread played the log.
ReadsAreFresh ==
  \A t \in Threads : call[t].at \in {"read1", "read2", "readSummary"} => played >= call[t].since

\* Line 22: "The system should handle concurrent transactions and ensure data
\* consistency": what has just been settled is not settled again.
SettledOnce ==
  \A i \in 2 .. Len(log) :
    ~ (log[i].kind = "settlement" /\ log[i - 1].kind = "settlement"
       /\ log[i].payer = log[i - 1].payer /\ DOMAIN log[i].owes = DOMAIN log[i - 1].owes)

\* A settlement that no other call has added to the log under leaves exactly
\* nothing owed between the two, whoever played the log meanwhile.
SettlementsClear ==
  failures = 0 =>
    \A i \in DOMAIN log : log[i].kind = "settlement" /\ log[i].alone =>
      \A u \in DOMAIN log[i].owes : Balance(i, log[i].payer, u) = 0
=============================================================================
