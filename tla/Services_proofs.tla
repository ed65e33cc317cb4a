-------------------------- MODULE Services_proofs --------------------------
(***************************************************************************)
(* Proofs about GoogleLogger/GoogleLogger.java for any processes and any   *)
(* number of polls at once, and about lld/PubSubDemo.java for any topics,  *)
(* subscribers, messages and workers.                                      *)
(***************************************************************************)
EXTENDS MCServices, FiniteSetTheorems, SequenceTheorems, TLAPS

(* The process log *)

\* An entry that a poll holds has been in the queue.
HeldWasAdded == \A c \in Polls : held[c] \in Procs => starter[held[c]] = "done"

LogInv == LC!TypeOK /\ EachEntryOnce /\ HeldWasAdded

\* Before the first call the log is empty and no poll holds an entry.
LEMMA LogInitInv == LC!Init => LogInv
<1> SUFFICES ASSUME LC!Init PROVE LogInv
  OBVIOUS
<1> USE MaxTimeAssumption, ProcsAssumption
<1>1. LC!TypeOK
  BY DEF LC!Init, LC!TypeOK, LC!NoProc
<1>2. \A p \in Procs : LC!Holders(p) = {} /\ p \notin entries /\ starter[p] = "uncalled"
  BY DEF LC!Init, LC!Holders, LC!NoProc
<1>3. EachEntryOnce
  BY <1>2 DEF EachEntryOnce, LC!EachEntryOnce
<1>4. HeldWasAdded
  BY DEF LC!Init, HeldWasAdded, LC!NoProc
<1>5. QED BY <1>1, <1>3, <1>4 DEF LogInv

\* start moves an entry into the queue; only take moves one out of it, and
\* into one hand.
LEMMA LogNextInv == LogInv /\ [LC!Next]_(LC!vars) => LogInv'
<1> SUFFICES ASSUME LogInv, [LC!Next]_(LC!vars) PROVE LogInv'
  OBVIOUS
<1> USE MaxTimeAssumption, ProcsAssumption
<1>0. /\ LC!TypeOK /\ HeldWasAdded
      /\ \A p \in Procs :
           /\ p \in entries => starter[p] = "done" /\ \A c \in Polls : held[c] # p
           /\ \A c, d \in Polls : held[c] = p /\ held[d] = p => c = d
           /\ starter[p] = "done" /\ p \notin entries => \E c \in Polls : held[c] = p
  BY DEF LogInv, EachEntryOnce, LC!EachEntryOnce, LC!Holders
<1>1. SUFFICES /\ LC!TypeOK' /\ HeldWasAdded'
               /\ \A p \in Procs :
                    /\ p \in entries' => starter'[p] = "done" /\ \A c \in Polls : held'[c] # p
                    /\ \A c, d \in Polls : held'[c] = p /\ held'[d] = p => c = d
                    /\ starter'[p] = "done" /\ p \notin entries' => \E c \in Polls : held'[c] = p
  BY DEF LogInv, EachEntryOnce, LC!EachEntryOnce, LC!Holders
<1>2. CASE UNCHANGED LC!vars
  BY <1>0, <1>2 DEF LC!vars, LC!TypeOK, HeldWasAdded
<1>3. ASSUME NEW p \in Procs, NEW time \in 1 .. MaxTime, LC!Put(p, time) PROVE LogInv'
  <2>1. /\ starter[p] = "uncalled" /\ starter' = [starter EXCEPT ![p] = "add"]
        /\ startTime' = [startTime EXCEPT ![p] = time] /\ processes' = processes \cup {p}
        /\ UNCHANGED <<entries, ended, ender, poll, held>>
    BY <1>3 DEF LC!Put
  <2>2. LC!TypeOK' /\ HeldWasAdded'
    BY <1>0, <2>1 DEF LC!TypeOK, HeldWasAdded
  <2>3. EachEntryOnce'
    BY <1>0, <2>1 DEF LC!TypeOK, HeldWasAdded, EachEntryOnce, LC!EachEntryOnce, LC!Holders
  <2>4. QED BY <2>2, <2>3 DEF LogInv
<1>4. ASSUME NEW p \in Procs, LC!Add(p) PROVE LogInv'
  <2>1. /\ starter[p] = "add" /\ starter' = [starter EXCEPT ![p] = "done"]
        /\ entries' = entries \cup {p}
        /\ UNCHANGED <<startTime, processes, ended, ender, poll, held>>
    BY <1>4 DEF LC!Add
  <2>2. LC!TypeOK' /\ HeldWasAdded'
    BY <1>0, <2>1 DEF LC!TypeOK, HeldWasAdded
  <2>3. \A c \in Polls : held[c] # p
    BY <1>0, <2>1 DEF HeldWasAdded
  <2>4. EachEntryOnce'
    BY <1>0, <2>1, <2>3 DEF LC!TypeOK, EachEntryOnce, LC!EachEntryOnce, LC!Holders
  <2>5. QED BY <2>2, <2>4 DEF LogInv
<1>5. ASSUME NEW p \in Procs, LC!End(p) \/ LC!enderThread(p) PROVE LogInv'
  <2>1. /\ UNCHANGED <<startTime, entries, starter, poll, held>>
        /\ \E to \in {"find", "complete", "remove", "done"} : ender' = [ender EXCEPT ![p] = to]
        /\ ended' \subseteq Procs /\ processes' \subseteq Procs
    BY <1>5, <1>0 DEF LC!End, LC!enderThread, LC!Find, LC!Complete, LC!Remove, LC!TypeOK
  <2>2. LC!TypeOK' /\ HeldWasAdded'
    BY <1>0, <2>1 DEF LC!TypeOK, HeldWasAdded
  <2>3. EachEntryOnce'
    BY <1>0, <2>1 DEF EachEntryOnce, LC!EachEntryOnce, LC!Holders
  <2>4. QED BY <2>2, <2>3 DEF LogInv
<1>6. ASSUME NEW c \in Polls, LC!Take(c) PROVE LogInv'
  <2>1. PICK p \in entries :
          /\ entries' = entries \ {p} /\ held' = [held EXCEPT ![c] = p]
          /\ poll[c] = "take" /\ poll' = [poll EXCEPT ![c] = "wait"]
          /\ UNCHANGED <<startTime, processes, ended, starter, ender>>
    BY <1>6 DEF LC!Take
  <2>2. p \in Procs /\ starter[p] = "done" /\ held[c] = "none" /\ \A d \in Polls : held[d] # p
    BY <1>0, <2>1 DEF LC!TypeOK, LC!NoProc
  <2>3. LC!TypeOK' /\ HeldWasAdded'
    BY <1>0, <2>1, <2>2 DEF LC!TypeOK, HeldWasAdded, LC!NoProc
  <2>4. \A d \in Polls : held'[d] = IF d = c THEN p ELSE held[d]
    BY <1>0, <2>1 DEF LC!TypeOK
  <2>5. ASSUME NEW q \in Procs
        PROVE  /\ q \in entries' => starter'[q] = "done" /\ \A d \in Polls : held'[d] # q
               /\ \A d, e \in Polls : held'[d] = q /\ held'[e] = q => d = e
               /\ starter'[q] = "done" /\ q \notin entries' => \E d \in Polls : held'[d] = q
    <3>1. CASE q = p
      BY <1>0, <2>1, <2>2, <2>4, <3>1
    <3>2. CASE q # p
      BY <1>0, <2>1, <2>2, <2>4, <3>2
    <3>3. QED BY <3>1, <3>2
  <2>6. QED BY <2>3, <2>5 DEF LogInv, EachEntryOnce, LC!EachEntryOnce, LC!Holders
<1>7. ASSUME NEW c \in Polls, LC!Return(c) \/ LC!Timeout(c) PROVE LogInv'
  <2>1. /\ poll[c] = "wait" /\ \E to \in {"returned", "threw"} : poll' = [poll EXCEPT ![c] = to]
        /\ UNCHANGED <<startTime, processes, entries, ended, starter, ender, held>>
    BY <1>7 DEF LC!Return, LC!Timeout
  <2>2. LC!TypeOK' /\ HeldWasAdded'
    BY <1>0, <2>1 DEF LC!TypeOK, HeldWasAdded
  <2>3. EachEntryOnce'
    BY <1>0, <2>1 DEF EachEntryOnce, LC!EachEntryOnce, LC!Holders
  <2>4. QED BY <2>2, <2>3 DEF LogInv
<1>8. QED
  BY <1>1, <1>2, <1>3, <1>4, <1>5, <1>6, <1>7
     DEF LC!Next, LC!pollCall, LogInv, EachEntryOnce, LC!EachEntryOnce, LC!Holders

\* For any processes and polls, and whatever the order of start, end and poll,
\* an entry is in the queue or with one poll.
THEOREM EntriesAreOnce == LC!Spec => []EachEntryOnce
<1>1. LogInv => EachEntryOnce
  BY DEF LogInv
<1>2. QED BY <1>1, LogInitInv, LogNextInv, PTL DEF LC!Spec

-----------------------------------------------------------------------------
(* The broker *)

NoTwice(l) == \A i, j \in DOMAIN l : l[i] = l[j] => i = j
Lists == {l \in Seq(Subscribers) : NoTwice(l)}

Tasks ==
  [kind : {"broadcast"}, topic : Topics, msg : Messages]
  \cup [kind : {"notify"}, sub : Subscribers, msg : Messages]
Jobs ==
  Tasks \cup {Idle}
  \cup {[kind |-> "notifying", msg |-> m, left |-> l] : m \in Messages, l \in Lists \ {<<>>}}

BrokerTypes ==
  /\ DOMAIN topicMap \subseteq Topics /\ \A t \in DOMAIN topicMap : topicMap[t] \in Lists
  /\ queue \in Seq(Tasks) /\ work \in [Workers -> Jobs]
  /\ delivered \in [Subscribers \X Messages -> Nat]
  /\ rejected \subseteq Subscribers \X Messages
  /\ DOMAIN loyal \subseteq Messages /\ DOMAIN audience \subseteq DOMAIN loyal
  /\ \A m \in DOMAIN loyal : loyal[m].topic \in DOMAIN topicMap

\* What a job has with it: the message to be broadcast, or copies of it.
Carried(job) ==
  CASE job.kind = "broadcast" -> {<<job.msg>>}
    [] job.kind = "notify"    -> {<<job.sub, job.msg>>}
    [] job.kind = "notifying" -> ToSet(job.left) \X {job.msg}
    [] OTHER                  -> {}

OnTheWay(x) ==
  \/ \E i \in DOMAIN queue : x \in Carried(queue[i])
  \/ \E w \in Workers : x \in Carried(work[w])

\* Nothing is in two places.
Apart ==
  /\ \A x : \A i, j \in DOMAIN queue : x \in Carried(queue[i]) /\ x \in Carried(queue[j]) => i = j
  /\ \A x : \A v, w \in Workers : x \in Carried(work[v]) /\ x \in Carried(work[w]) => v = w
  /\ \A x : \A i \in DOMAIN queue, w \in Workers : ~(x \in Carried(queue[i]) /\ x \in Carried(work[w]))

\* A message waits to be broadcast until it is, and for the topic it was
\* published to.
RightTopic(job, published) ==
  job.kind = "broadcast" => job.topic = published[job.msg].topic
NewsInv ==
  /\ \A m \in Messages : OnTheWay(<<m>>) => m \in DOMAIN loyal \ DOMAIN audience
  /\ \A i \in DOMAIN queue : RightTopic(queue[i], loyal)
  /\ \A w \in Workers : RightTopic(work[w], loyal)

\* A loyal subscriber is subscribed, and in the audience once there is one.
LoyalInv ==
  /\ \A m \in DOMAIN loyal : loyal[m].subs \subseteq Subscribed(loyal[m].topic)
  /\ \A m \in DOMAIN audience : loyal[m].subs \subseteq audience[m]

Addressed(s, m) == m \in DOMAIN audience /\ s \in audience[m]
Accounted(s, m) ==
  LET on == OnTheWay(<<s, m>>)
      out == <<s, m>> \in rejected
  IN IF Addressed(s, m)
     THEN \/ on /\ delivered[<<s, m>>] = 0 /\ ~out
          \/ ~on /\ delivered[<<s, m>>] = 1 /\ ~out
          \/ ~on /\ delivered[<<s, m>>] = 0 /\ out
     ELSE ~on /\ delivered[<<s, m>>] = 0 /\ ~out
CopyInv == \A s \in Subscribers, m \in Messages : Accounted(s, m)

BrokerInv == BrokerTypes /\ Apart /\ NewsInv /\ LoyalInv /\ CopyInv

-----------------------------------------------------------------------------
(* Lists of subscribers *)

LEMMA ListEmpty == <<>> \in Lists /\ ToSet(<<>>) = {}
BY DEF Lists, NoTwice, ToSet

LEMMA ListFacts ==
  ASSUME NEW l \in Lists
  PROVE  /\ l \in Seq(Subscribers) /\ Len(l) \in Nat /\ DOMAIN l = 1 .. Len(l)
         /\ \A i, j \in 1 .. Len(l) : l[i] = l[j] => i = j
         /\ \A x : x \in ToSet(l) <=> \E i \in 1 .. Len(l) : l[i] = x
BY DEF Lists, NoTwice, ToSet

\* A sequence of subscribers, told by its elements, is a list.
LEMMA ListIs ==
  ASSUME NEW l \in Seq(Subscribers), NEW n \in Nat, Len(l) = n,
         \A i, j \in 1 .. n : l[i] = l[j] => i = j
  PROVE  l \in Lists
BY DEF Lists, NoTwice

LEMMA ListAppend ==
  ASSUME NEW l \in Lists, NEW s \in Subscribers, s \notin ToSet(l)
  PROVE  Append(l, s) \in Lists /\ ToSet(Append(l, s)) = ToSet(l) \cup {s}
<1> DEFINE r == Append(l, s)
           n == Len(l)
<1>1. /\ l \in Seq(Subscribers) /\ n \in Nat
      /\ \A i, j \in 1 .. n : l[i] = l[j] => i = j
      /\ \A x : x \in ToSet(l) <=> \E i \in 1 .. n : l[i] = x
  BY ListFacts
<1>2. r \in Seq(Subscribers) /\ Len(r) = n + 1 /\ r[n + 1] = s
      /\ (\A i \in 1 .. n : r[i] = l[i]) /\ DOMAIN r = 1 .. n + 1
  BY <1>1
<1> HIDE DEF r, n
<1>3. \A i, j \in 1 .. n + 1 : r[i] = r[j] => i = j
  <2>1. \A i \in 1 .. n + 1 : i = n + 1 \/ i \in 1 .. n
    BY <1>1
  <2>2. \A i \in 1 .. n : r[i] # s
    BY <1>1, <1>2
  <2>3. QED BY <1>1, <1>2, <2>1, <2>2
<1>4. r \in Lists
  BY <1>1, <1>2, <1>3, ListIs
<1>5. ASSUME NEW x PROVE x \in ToSet(r) <=> x \in ToSet(l) \cup {s}
  <2>1. x \in ToSet(r) <=> \E i \in 1 .. n + 1 : r[i] = x
    BY <1>2 DEF ToSet
  <2>2. \A i \in Nat : i \in 1 .. n + 1 <=> i = n + 1 \/ i \in 1 .. n
    BY <1>1
  <2>3. QED BY <1>1, <1>2, <2>1, <2>2
<1>6. QED BY <1>4, <1>5 DEF r

LEMMA ListTail ==
  ASSUME NEW l \in Lists, l # <<>>
  PROVE  /\ Head(l) \in Subscribers /\ Tail(l) \in Lists
         /\ Head(l) \in ToSet(l) /\ ToSet(Tail(l)) = ToSet(l) \ {Head(l)}
<1> DEFINE r == Tail(l)
           n == Len(l)
<1>1. /\ l \in Seq(Subscribers) /\ n \in Nat
      /\ \A i, j \in 1 .. n : l[i] = l[j] => i = j
      /\ \A x : x \in ToSet(l) <=> \E i \in 1 .. n : l[i] = x
  BY ListFacts
<1>2. n >= 1 /\ Head(l) = l[1] /\ l[1] \in Subscribers
  BY <1>1
<1>3. r \in Seq(Subscribers) /\ Len(r) = n - 1 /\ DOMAIN r = 1 .. n - 1
      /\ \A i \in 1 .. n - 1 : r[i] = l[i + 1]
  BY <1>1, <1>2
<1> HIDE DEF r, n
<1>4. \A i \in 1 .. n - 1 : i + 1 \in 1 .. n /\ i + 1 # 1
  BY <1>1
<1>5. \A i, j \in 1 .. n - 1 : r[i] = r[j] => i = j
  <2> SUFFICES ASSUME NEW i \in 1 .. n - 1, NEW j \in 1 .. n - 1, r[i] = r[j] PROVE i = j
    OBVIOUS
  <2>1. l[i + 1] = l[j + 1] /\ i + 1 \in 1 .. n /\ j + 1 \in 1 .. n
    BY <1>3, <1>4
  <2>2. i + 1 = j + 1
    BY <1>1, <2>1
  <2>3. QED BY <2>2
<1>6. r \in Lists
  <2>1. n - 1 \in Nat
    BY <1>1, <1>2
  <2>2. QED BY <1>3, <1>5, <2>1, ListIs
<1>7. ASSUME NEW x PROVE x \in ToSet(r) <=> x \in ToSet(l) \ {l[1]}
  <2>1. x \in ToSet(r) <=> \E i \in 1 .. n - 1 : r[i] = x
    BY <1>3 DEF ToSet
  <2>2. ASSUME NEW i \in 1 .. n - 1, r[i] = x PROVE x \in ToSet(l) /\ x # l[1]
    <3>1. i + 1 \in 1 .. n /\ i + 1 # 1 /\ 1 \in 1 .. n /\ l[i + 1] = x
      BY <1>2, <1>3, <1>4, <1>1, <2>2
    <3>2. QED BY <1>1, <3>1
  <2>3. ASSUME NEW i \in 1 .. n, l[i] = x, x # l[1] PROVE \E j \in 1 .. n - 1 : r[j] = x
    <3>1. i - 1 \in 1 .. n - 1 /\ (i - 1) + 1 = i
      BY <1>1, <2>3
    <3>2. r[i - 1] = x
      BY <1>3, <2>3, <3>1
    <3>3. QED BY <3>1, <3>2
  <2>4. QED BY <1>1, <2>1, <2>2, <2>3
<1>8. Head(l) \in ToSet(l)
  <2>1. 1 \in 1 .. n
    BY <1>1, <1>2
  <2>2. QED BY <1>1, <1>2, <2>1
<1>9. QED BY <1>2, <1>6, <1>7, <1>8 DEF r

LEMMA ListRemove ==
  ASSUME NEW l \in Lists, NEW k \in DOMAIN l
  PROVE  RemoveAt(l, k) \in Lists /\ ToSet(RemoveAt(l, k)) = ToSet(l) \ {l[k]}
<1> DEFINE r == RemoveAt(l, k)
           n == Len(l)
           a == SubSeq(l, 1, k - 1)
           b == SubSeq(l, k + 1, n)
           to(i) == IF i < k THEN i ELSE i + 1
<1>1. /\ l \in Seq(Subscribers) /\ n \in Nat /\ k \in 1 .. n
      /\ \A i, j \in 1 .. n : l[i] = l[j] => i = j
      /\ \A x : x \in ToSet(l) <=> \E i \in 1 .. n : l[i] = x
  BY ListFacts
<1>2. a \in Seq(Subscribers) /\ Len(a) = k - 1 /\ \A i \in 1 .. k - 1 : a[i] = l[i]
  BY <1>1
<1>3. b \in Seq(Subscribers) /\ Len(b) = n - k /\ \A i \in 1 .. n - k : b[i] = l[k + i]
  <2>1. k + 1 \in 1 .. n + 1 /\ n \in (k + 1) - 1 .. n
    BY <1>1
  <2>2. /\ b \in Seq(Subscribers) /\ Len(b) = n - (k + 1) + 1
        /\ \A i \in 1 .. n - (k + 1) + 1 : b[i] = l[(k + 1) + i - 1]
    BY <1>1, <2>1, SubSeqProperties
  <2>3. n - (k + 1) + 1 = n - k /\ \A i \in 1 .. n - k : (k + 1) + i - 1 = k + i
    BY <1>1
  <2> HIDE DEF b
  <2>4. QED BY <2>2, <2>3
<1>4. r = a \o b
  BY DEF RemoveAt
<1> HIDE DEF a, b, r, n
<1>5. r \in Seq(Subscribers) /\ Len(r) = n - 1 /\ DOMAIN r = 1 .. n - 1
  <2>1. r \in Seq(Subscribers) /\ Len(r) = Len(a) + Len(b)
    BY <1>2, <1>3, <1>4, ConcatProperties
  <2>2. Len(r) = n - 1
    BY <1>1, <1>2, <1>3, <2>1
  <2>3. QED BY <2>1, <2>2
<1>6. ASSUME NEW i \in 1 .. n - 1
      PROVE  r[i] = l[to(i)] /\ to(i) \in 1 .. n /\ to(i) # k
  <2>1. CASE i < k
    <3>1. i \in 1 .. Len(a) /\ r[i] = a[i]
      BY <1>1, <1>2, <1>3, <1>4, <2>1
    <3>2. QED BY <1>1, <1>2, <2>1, <3>1
  <2>2. CASE i >= k
    <3>1. i - (k - 1) \in 1 .. n - k /\ k + (i - (k - 1)) = i + 1
      BY <1>1, <2>2
    <3>2. r[i] = b[i - (k - 1)]
      <4>1. \A j \in 1 .. Len(a) + Len(b) :
              r[j] = IF j <= Len(a) THEN a[j] ELSE b[j - Len(a)]
        BY <1>2, <1>3, <1>4, ConcatProperties
      <4>2. i \in 1 .. Len(a) + Len(b) /\ ~(i <= Len(a)) /\ i - Len(a) = i - (k - 1)
        BY <1>1, <1>2, <1>3, <2>2
      <4>3. QED BY <4>1, <4>2
    <3>3. QED BY <1>1, <1>3, <2>2, <3>1, <3>2
  <2>3. QED BY <1>1, <2>1, <2>2
<1>7. \A i, j \in 1 .. n - 1 : r[i] = r[j] => i = j
  <2> SUFFICES ASSUME NEW i \in 1 .. n - 1, NEW j \in 1 .. n - 1, r[i] = r[j] PROVE i = j
    OBVIOUS
  <2>1. to(i) = to(j)
    <3> HIDE DEF to
    <3>1. QED BY <1>1, <1>6
  <2>2. QED BY <1>1, <2>1
<1>8. r \in Lists
  <2>1. n - 1 \in Nat
    BY <1>1
  <2>2. QED BY <1>5, <1>7, <2>1, ListIs
<1>9. ASSUME NEW x PROVE x \in ToSet(r) <=> x \in ToSet(l) \ {l[k]}
  <2>1. x \in ToSet(r) <=> \E i \in 1 .. n - 1 : r[i] = x
    BY <1>5 DEF ToSet
  <2>2. ASSUME NEW i \in 1 .. n - 1, r[i] = x PROVE x \in ToSet(l) /\ x # l[k]
    <3> HIDE DEF to
    <3>1. QED BY <1>1, <1>6, <2>2
  <2>3. ASSUME NEW i \in 1 .. n, l[i] = x, x # l[k] PROVE \E j \in 1 .. n - 1 : r[j] = x
    <3>1. PICK j \in 1 .. n - 1 : to(j) = i
      <4>1. CASE i < k
        <5>1. i \in 1 .. n - 1 /\ to(i) = i
          BY <1>1, <4>1
        <5>2. QED BY <5>1
      <4>2. CASE i > k
        <5>1. i - 1 \in 1 .. n - 1 /\ to(i - 1) = i
          BY <1>1, <4>2
        <5>2. QED BY <5>1
      <4>3. QED BY <1>1, <2>3, <4>1, <4>2
    <3>2. r[j] = l[i]
      BY <1>6, <3>1
    <3>3. QED BY <2>3, <3>2
  <2>4. QED BY <1>1, <2>1, <2>2, <2>3
<1>10. QED BY <1>8, <1>9 DEF r

-----------------------------------------------------------------------------
(* Places *)

LEMMA CarriedBy ==
  /\ Carried(Idle) = {} /\ Idle.kind = "idle"
  /\ \A t, m : Carried(Broadcast(t, m)) = {<<m>>}
  /\ \A s, m : Carried(Notify(s, m)) = {<<s, m>>} /\ Notify(s, m).kind = "notify"
  /\ \A m, l : Carried(Notifying(m, l)) = ToSet(l) \X {m}
  /\ \A m, l : Carried(Rest(m, l)) = ToSet(l) \X {m} /\ Rest(m, l).kind # "broadcast"
<1>1. Carried(Idle) = {} /\ Idle.kind = "idle"
  BY DEF Carried, Idle
<1>2. \A m, l : Carried(Notifying(m, l)) = ToSet(l) \X {m} /\ Notifying(m, l).kind = "notifying"
  BY DEF Carried, Notifying
<1>3. ToSet(<<>>) = {}
  BY ListEmpty
<1>4. \A m, l : Carried(Rest(m, l)) = ToSet(l) \X {m} /\ Rest(m, l).kind # "broadcast"
  BY <1>1, <1>2, <1>3 DEF Rest
<1>5. QED BY <1>1, <1>2, <1>4 DEF Carried, Broadcast, Notify

LEMMA OneIsNotTwo == \A m, s, n, A, B : <<m>> # <<s, n>> /\ <<m>> \notin A \X B
<1>1. ASSUME NEW m, NEW s, NEW n PROVE <<m>> # <<s, n>>
  <2>1. Len(<<m>>) = 1 /\ Len(<<s, n>>) = 2
    OBVIOUS
  <2>2. QED BY <2>1
<1>2. \A A, B, x : x \in A \X B => \E s, n : x = <<s, n>>
  OBVIOUS
<1>3. QED BY <1>1, <1>2

LEMMA JobShapes ==
  ASSUME NEW job \in Jobs
  PROVE  /\ job.kind = "broadcast" => /\ job = Broadcast(job.topic, job.msg)
                                      /\ job.topic \in Topics /\ job.msg \in Messages
         /\ job.kind = "notify" => /\ job = Notify(job.sub, job.msg)
                                   /\ job.sub \in Subscribers /\ job.msg \in Messages
         /\ job.kind = "notifying" => /\ job = Notifying(job.msg, job.left)
                                      /\ job.left \in Lists /\ job.left # <<>>
                                      /\ job.msg \in Messages
         /\ job.kind \in {"broadcast", "notify", "notifying"} \/ job = Idle
         /\ job \in Tasks => job.kind \in {"broadcast", "notify"}
BY DEF Jobs, Tasks, Idle, Broadcast, Notify, Notifying

LEMMA RestIsJob ==
  ASSUME NEW m \in Messages, NEW l \in Lists
  PROVE  Rest(m, l) \in Jobs
BY DEF Rest, Jobs, Notifying

LEMMA TaskIsJob ==
  /\ Idle \in Jobs /\ Tasks \subseteq Jobs
  /\ \A t \in Topics, m \in Messages : Broadcast(t, m) \in Tasks
  /\ \A s \in Subscribers, m \in Messages : Notify(s, m) \in Tasks
BY DEF Jobs, Tasks, Broadcast, Notify

\* A worker passes on some of what its job carries, to its next job and to a
\* task it queues, and takes up nothing that is on its way already.
HandsOver(w, job, k, more, fresh) ==
  /\ work' = [work EXCEPT ![w] = job]
  /\ DOMAIN queue \subseteq DOMAIN queue'
  /\ \A i \in DOMAIN queue : queue'[i] = queue[i]
  /\ \A i \in DOMAIN queue' \ DOMAIN queue : i = k /\ Carried(queue'[i]) = more
  /\ more # {} => k \in DOMAIN queue' \ DOMAIN queue
  /\ Carried(job) \cup more \subseteq Carried(work[w]) \cup fresh
  /\ \A x \in fresh : ~OnTheWay(x)
  /\ Carried(job) \cap more = {}

LEMMA Handover ==
  ASSUME Apart, NEW w \in Workers, NEW job, NEW k, NEW more, NEW fresh,
         work \in [Workers -> Jobs], HandsOver(w, job, k, more, fresh)
  PROVE  /\ Apart'
         /\ \A x : OnTheWay(x)' <=> \/ OnTheWay(x) /\ x \notin Carried(work[w])
                                    \/ x \in Carried(job) \cup more
<1> DEFINE old == DOMAIN queue
           new == DOMAIN queue'
<1>h. /\ work' = [work EXCEPT ![w] = job]
      /\ old \subseteq new
      /\ \A i \in old : queue'[i] = queue[i]
      /\ \A i \in new \ old : i = k /\ Carried(queue'[i]) = more
      /\ more # {} => k \in new \ old
      /\ Carried(job) \cup more \subseteq Carried(work[w]) \cup fresh
      /\ \A x \in fresh : ~OnTheWay(x)
      /\ Carried(job) \cap more = {}
  BY DEF HandsOver
<1>1. work'[w] = job /\ \A v \in Workers : v # w => work'[v] = work[v]
  BY <1>h
<1>2. \A x : \A i \in old : x \in Carried(queue[i]) => OnTheWay(x) /\ x \notin Carried(work[w])
  BY DEF OnTheWay, Apart
<1>3. \A x : \A v \in Workers : v # w /\ x \in Carried(work[v]) => OnTheWay(x) /\ x \notin Carried(work[w])
  BY DEF OnTheWay, Apart
<1>4. \A x : x \in Carried(job) \cup more => x \in Carried(work[w]) \/ ~OnTheWay(x)
  BY <1>h
<1>5. \A i \in new : \/ i \in old /\ Carried(queue'[i]) = Carried(queue[i])
                     \/ i \notin old /\ i = k /\ Carried(queue'[i]) = more
  BY <1>h
<1>6. ASSUME NEW i \in new, NEW x, x \in Carried(queue'[i])
      PROVE  /\ \A l \in new : x \in Carried(queue'[l]) => i = l
             /\ \A v \in Workers : x \notin Carried(work'[v])
  <2>1. CASE i \in old
    <3>1. x \in Carried(queue[i]) /\ OnTheWay(x) /\ x \notin Carried(work[w])
      BY <1>2, <1>5, <1>6, <2>1
    <3>2. x \notin Carried(job) /\ x \notin more
      BY <1>4, <1>h, <3>1
    <3>3. \A l \in old : x \in Carried(queue[l]) => i = l
      BY <2>1, <3>1 DEF Apart
    <3>4. \A v \in Workers : x \notin Carried(work[v])
      BY <2>1, <3>1 DEF Apart
    <3> HIDE DEF old, new
    <3>5. QED BY <1>1, <1>5, <3>2, <3>3, <3>4
  <2>2. CASE i \notin old
    <3>1. i = k /\ x \in more
      BY <1>5, <1>6, <2>2
    <3>2. x \notin Carried(job) /\ (x \in Carried(work[w]) \/ ~OnTheWay(x))
      BY <1>4, <1>h, <3>1
    <3>3. \A l \in old : x \notin Carried(queue[l])
      BY <1>2, <3>2
    <3>4. \A v \in Workers : v # w => x \notin Carried(work[v])
      BY <1>3, <3>2
    <3> HIDE DEF old, new
    <3>5. QED BY <1>1, <1>5, <3>1, <3>2, <3>3, <3>4
  <2>3. QED BY <2>1, <2>2
<1>7. ASSUME NEW u \in Workers, NEW v \in Workers, NEW x,
             x \in Carried(work'[u]), x \in Carried(work'[v])
      PROVE  u = v
  <2>1. ASSUME NEW a \in Workers, NEW b \in Workers, a = w, b # w,
               x \in Carried(work'[a]), x \in Carried(work'[b])
        PROVE  FALSE
    <3>1. x \in Carried(job) /\ x \in Carried(work[b])
      BY <1>1, <2>1
    <3>2. QED BY <1>3, <1>4, <2>1, <3>1
  <2>2. CASE u # w /\ v # w
    <3>1. x \in Carried(work[u]) /\ x \in Carried(work[v])
      BY <1>1, <1>7, <2>2
    <3>2. QED BY <3>1 DEF Apart
  <2>3. QED BY <1>7, <2>1, <2>2
<1>8. Apart'
  BY <1>6, <1>7 DEF Apart
<1>9. ASSUME NEW x
      PROVE  OnTheWay(x)' <=> \/ OnTheWay(x) /\ x \notin Carried(work[w])
                              \/ x \in Carried(job) \cup more
  <2>1. OnTheWay(x)' <=> \/ \E i \in new : x \in Carried(queue'[i])
                         \/ \E v \in Workers : x \in Carried(work'[v])
    BY DEF OnTheWay
  <2>2. (\E i \in new : x \in Carried(queue'[i]))
          <=> (\E i \in old : x \in Carried(queue[i])) \/ x \in more
    <3> HIDE DEF old
    <3>1. old \subseteq new /\ (more # {} => k \in new \ old)
      BY <1>h DEF old
    <3> HIDE DEF new
    <3>2. QED BY <1>5, <3>1
  <2>3. (\E v \in Workers : x \in Carried(work'[v]))
          <=> (\E v \in Workers : v # w /\ x \in Carried(work[v])) \/ x \in Carried(job)
    BY <1>1
  <2>4. OnTheWay(x) /\ x \notin Carried(work[w])
          <=> \/ \E i \in old : x \in Carried(queue[i])
              \/ \E v \in Workers : v # w /\ x \in Carried(work[v])
    BY <1>2, <1>3 DEF OnTheWay
  <2>5. QED BY <2>1, <2>2, <2>3, <2>4
<1>10. QED BY <1>8, <1>9

\* take: the first task goes from the queue to an idle worker.
LEMMA Taken ==
  ASSUME BrokerTypes, Apart, NEW w \in Workers, work[w] = Idle, queue # <<>>,
         work' = [work EXCEPT ![w] = Head(queue)], queue' = Tail(queue)
  PROVE  /\ queue' \in Seq(Tasks) /\ work' \in [Workers -> Jobs]
         /\ Apart'
         /\ \A x : OnTheWay(x)' <=> OnTheWay(x)
         /\ \A i \in DOMAIN queue' : i + 1 \in DOMAIN queue /\ queue'[i] = queue[i + 1]
         /\ 1 \in DOMAIN queue /\ work'[w] = queue[1]
         /\ \A v \in Workers : v # w => work'[v] = work[v]
<1> DEFINE n == Len(queue)
<1>1. /\ queue \in Seq(Tasks) /\ work \in [Workers -> Jobs]
      /\ n \in Nat /\ n >= 1 /\ DOMAIN queue = 1 .. n
  BY DEF BrokerTypes
<1>2. /\ queue' \in Seq(Tasks) /\ DOMAIN queue' = 1 .. n - 1
      /\ \A i \in 1 .. n - 1 : queue'[i] = queue[i + 1]
  BY <1>1
<1>3. Head(queue) = queue[1] /\ queue[1] \in Tasks /\ 1 \in 1 .. n
  BY <1>1
<1> HIDE DEF n
<1>4. work'[w] = queue[1] /\ \A v \in Workers : v # w => work'[v] = work[v]
  BY <1>1, <1>3
<1>5. work' \in [Workers -> Jobs]
  BY <1>1, <1>3, TaskIsJob
<1>6. \A i \in 1 .. n - 1 : i + 1 \in 1 .. n /\ i + 1 # 1
  BY <1>1
<1>7. Carried(work[w]) = {}
  BY CarriedBy
<1>8. Apart'
  <2>1. ASSUME NEW i \in 1 .. n - 1, NEW l \in 1 .. n - 1, NEW x,
               x \in Carried(queue'[i]), x \in Carried(queue'[l])
        PROVE  i = l
    <3>1. /\ x \in Carried(queue[i + 1]) /\ x \in Carried(queue[l + 1])
          /\ i + 1 \in DOMAIN queue /\ l + 1 \in DOMAIN queue
      BY <1>1, <1>2, <1>6, <2>1
    <3>2. i + 1 = l + 1
      BY <3>1 DEF Apart
    <3>3. QED BY <3>2
  <2>2. ASSUME NEW u \in Workers, NEW v \in Workers, NEW x,
               x \in Carried(work'[u]), x \in Carried(work'[v])
        PROVE  u = v
    <3>1. 1 \in DOMAIN queue
      BY <1>1, <1>3
    <3>2. ASSUME NEW a \in Workers, NEW b \in Workers, a = w, b # w,
                 x \in Carried(work'[a]), x \in Carried(work'[b])
          PROVE  FALSE
      <4>1. x \in Carried(queue[1]) /\ x \in Carried(work[b])
        BY <1>4, <3>2
      <4>2. QED BY <3>1, <4>1 DEF Apart
    <3>3. CASE u # w /\ v # w
      <4>1. x \in Carried(work[u]) /\ x \in Carried(work[v])
        BY <1>4, <2>2, <3>3
      <4>2. QED BY <4>1 DEF Apart
    <3>4. QED BY <2>2, <3>2, <3>3
  <2>3. ASSUME NEW i \in 1 .. n - 1, NEW v \in Workers, NEW x,
               x \in Carried(queue'[i]), x \in Carried(work'[v])
        PROVE  FALSE
    <3>1. /\ x \in Carried(queue[i + 1]) /\ i + 1 \in DOMAIN queue /\ i + 1 # 1
          /\ 1 \in DOMAIN queue
      BY <1>1, <1>2, <1>3, <1>6, <2>3
    <3>2. QED BY <1>4, <2>3, <3>1 DEF Apart
  <2>4. /\ \A x : \A i, l \in DOMAIN queue' : x \in Carried(queue'[i]) /\ x \in Carried(queue'[l]) => i = l
        /\ \A x : \A u, v \in Workers : x \in Carried(work'[u]) /\ x \in Carried(work'[v]) => u = v
        /\ \A x : \A i \in DOMAIN queue', v \in Workers :
             ~(x \in Carried(queue'[i]) /\ x \in Carried(work'[v]))
    BY <1>2, <2>1, <2>2, <2>3
  <2>5. QED BY <2>4 DEF Apart
<1>9. ASSUME NEW x PROVE OnTheWay(x)' <=> OnTheWay(x)
  <2>1. OnTheWay(x)' <=> \/ \E i \in 1 .. n - 1 : x \in Carried(queue'[i])
                         \/ \E v \in Workers : x \in Carried(work'[v])
    BY <1>2 DEF OnTheWay, Carried
  <2>2. (\E i \in 1 .. n : x \in Carried(queue[i]))
          <=> (\E i \in 1 .. n - 1 : x \in Carried(queue'[i])) \/ x \in Carried(queue[1])
    <3>1. ASSUME NEW i \in 1 .. n, x \in Carried(queue[i]), i # 1
          PROVE  \E l \in 1 .. n - 1 : x \in Carried(queue'[l])
      <4>1. i - 1 \in 1 .. n - 1 /\ (i - 1) + 1 = i
        BY <1>1, <3>1
      <4>2. queue'[i - 1] = queue[i]
        BY <1>2, <4>1
      <4>3. QED BY <3>1, <4>1, <4>2
    <3>2. QED BY <1>2, <1>3, <1>6, <3>1
  <2>3. (\E v \in Workers : x \in Carried(work'[v]))
          <=> (\E v \in Workers : x \in Carried(work[v])) \/ x \in Carried(queue[1])
    BY <1>4, <1>7
  <2>4. QED BY <1>1, <2>1, <2>2, <2>3 DEF OnTheWay
<1>10. QED BY <1>1, <1>2, <1>3, <1>4, <1>5, <1>6, <1>8, <1>9

\* An append at the end of the queue, as Handover wants it.
LEMMA QueueAppend ==
  ASSUME queue \in Seq(Tasks), NEW task \in Tasks, queue' = Append(queue, task)
  PROVE  /\ queue' \in Seq(Tasks)
         /\ DOMAIN queue \subseteq DOMAIN queue'
         /\ \A i \in DOMAIN queue : queue'[i] = queue[i]
         /\ Len(queue) + 1 \in DOMAIN queue' \ DOMAIN queue
         /\ \A i \in DOMAIN queue' \ DOMAIN queue : i = Len(queue) + 1 /\ queue'[i] = task
<1> DEFINE n == Len(queue)
<1>1. n \in Nat /\ DOMAIN queue = 1 .. n
  OBVIOUS
<1>2. /\ queue' \in Seq(Tasks) /\ DOMAIN queue' = 1 .. n + 1 /\ queue'[n + 1] = task
      /\ \A i \in 1 .. n : queue'[i] = queue[i]
  BY <1>1
<1> HIDE DEF n
<1>3. \A i \in 1 .. n + 1 : i \in 1 .. n \/ i = n + 1
  BY <1>1
<1>4. n + 1 \in 1 .. n + 1 /\ n + 1 \notin 1 .. n /\ 1 .. n \subseteq 1 .. n + 1
  BY <1>1
<1>5. QED BY <1>1, <1>2, <1>3, <1>4 DEF n

\* publish: the message is queued, and was nowhere before.
LEMMA Posted ==
  ASSUME BrokerTypes, Apart, NEW t \in Topics, NEW m \in Messages, ~OnTheWay(<<m>>),
         queue' = Append(queue, Broadcast(t, m)), UNCHANGED work
  PROVE  /\ queue' \in Seq(Tasks) /\ Apart'
         /\ \A x : OnTheWay(x)' <=> OnTheWay(x) \/ x = <<m>>
         /\ \A i \in DOMAIN queue' :
              (i \in DOMAIN queue /\ queue'[i] = queue[i]) \/ queue'[i] = Broadcast(t, m)
<1> DEFINE k == Len(queue) + 1
           old == DOMAIN queue
           new == DOMAIN queue'
<1>1. /\ queue' \in Seq(Tasks) /\ old \subseteq new /\ \A i \in old : queue'[i] = queue[i]
      /\ k \in new \ old
      /\ \A i \in new \ old : i = k /\ queue'[i] = Broadcast(t, m)
  BY TaskIsJob, QueueAppend DEF BrokerTypes
<1> HIDE DEF k
<1>4. Carried(Broadcast(t, m)) = {<<m>>}
  BY CarriedBy
<1>5. /\ \A i \in DOMAIN queue : <<m>> \notin Carried(queue[i])
      /\ \A w \in Workers : <<m>> \notin Carried(work[w])
  BY DEF OnTheWay
<1>6. \A i \in new :
        \/ i \in old /\ queue'[i] = queue[i]
        \/ i = k /\ queue'[i] = Broadcast(t, m)
  <2> HIDE DEF old, new
  <2>1. QED BY <1>1
<1>7. Apart'
  BY <1>4, <1>5, <1>6 DEF Apart
<1>8. ASSUME NEW x PROVE OnTheWay(x)' <=> OnTheWay(x) \/ x = <<m>>
  <2>1. OnTheWay(x)' <=> \/ \E i \in new : x \in Carried(queue'[i])
                         \/ \E w \in Workers : x \in Carried(work[w])
    BY DEF OnTheWay
  <2>2. OnTheWay(x) <=> \/ \E i \in old : x \in Carried(queue[i])
                        \/ \E w \in Workers : x \in Carried(work[w])
    BY DEF OnTheWay
  <2> HIDE DEF old, new
  <2>3. QED BY <1>1, <1>4, <1>6, <2>1, <2>2
<1>9. QED BY <1>1, <1>6, <1>7, <1>8

-----------------------------------------------------------------------------
(* The steps of the broker *)

LEMMA BrokerInitInv == Init => BrokerInv
<1> SUFFICES ASSUME Init PROVE BrokerInv
  OBVIOUS
<1>1. /\ topicMap = <<>> /\ queue = <<>> /\ work = [w \in Workers |-> Idle]
      /\ loyal = <<>> /\ audience = <<>> /\ rejected = {}
      /\ delivered = [c \in Subscribers \X Messages |-> 0]
  BY DEF Init
<1>2. BrokerTypes
  <2>1. DOMAIN topicMap = {} /\ DOMAIN loyal = {} /\ DOMAIN audience = {}
    BY <1>1
  <2>2. queue \in Seq(Tasks) /\ work \in [Workers -> Jobs]
    BY <1>1, TaskIsJob
  <2>3. delivered \in [Subscribers \X Messages -> Nat]
    BY <1>1
  <2>4. QED BY <1>1, <2>1, <2>2, <2>3 DEF BrokerTypes
<1>3. \A w \in Workers : Carried(work[w]) = {} /\ work[w].kind = "idle"
  BY <1>1, CarriedBy
<1>4. DOMAIN queue = {}
  BY <1>1
<1>5. Apart /\ \A x : ~OnTheWay(x)
  BY <1>3, <1>4 DEF Apart, OnTheWay
<1>6. NewsInv
  BY <1>3, <1>4, <1>5 DEF NewsInv, RightTopic
<1>7. DOMAIN loyal = {} /\ DOMAIN audience = {}
  BY <1>1
<1>8. LoyalInv
  BY <1>7 DEF LoyalInv
<1>9. CopyInv
  <2>1. ASSUME NEW s \in Subscribers, NEW m \in Messages PROVE Accounted(s, m)
    <3>1. delivered[<<s, m>>] = 0
      BY <1>1
    <3>2. QED BY <1>1, <1>5, <1>7, <3>1 DEF Accounted, Addressed
  <2>2. QED BY <2>1 DEF CopyInv
<1>10. QED BY <1>2, <1>5, <1>6, <1>8, <1>9 DEF BrokerInv

\* A job that is to be broadcast is that of a published message.
LEMMA NewsIsPublished ==
  ASSUME BrokerTypes, NewsInv, NEW job \in Jobs, job.kind = "broadcast",
         \/ \E i \in DOMAIN queue : queue[i] = job
         \/ \E w \in Workers : work[w] = job
  PROVE  /\ job.msg \in DOMAIN loyal /\ job.msg \notin DOMAIN audience
         /\ job.topic = loyal[job.msg].topic
<1>1. job = Broadcast(job.topic, job.msg) /\ job.msg \in Messages
  BY JobShapes
<1>2. <<job.msg>> \in Carried(job)
  BY <1>1 DEF Carried
<1>3. OnTheWay(<<job.msg>>)
  BY <1>2 DEF OnTheWay
<1>4. RightTopic(job, loyal)
  BY DEF NewsInv
<1>5. QED BY <1>1, <1>3, <1>4 DEF NewsInv, RightTopic

\* Clients that leave queue and pool alone, and what was published to what
\* topic, keep all but the types and the loyal.
LEMMA ClientStep ==
  ASSUME BrokerInv, UNCHANGED <<queue, work, delivered, audience, rejected>>,
         DOMAIN loyal' = DOMAIN loyal,
         \A m \in DOMAIN loyal : loyal'[m].topic = loyal[m].topic
  PROVE  Apart' /\ NewsInv' /\ CopyInv'
<1>1. \A x : OnTheWay(x)' <=> OnTheWay(x)
  BY DEF OnTheWay, Carried
<1>2. Apart'
  BY DEF BrokerInv, Apart
<1>3. CopyInv'
  BY <1>1 DEF BrokerInv, CopyInv, Accounted, Addressed
<1>4. ASSUME NEW job \in Jobs, \/ \E i \in DOMAIN queue : queue[i] = job
                               \/ \E w \in Workers : work[w] = job
      PROVE  RightTopic(job, loyal')
  <2>1. CASE job.kind = "broadcast"
    BY <1>4, <2>1, NewsIsPublished DEF BrokerInv, RightTopic
  <2>2. CASE job.kind # "broadcast"
    BY <2>2 DEF RightTopic
  <2>3. QED BY <2>1, <2>2
<1>5. /\ \A i \in DOMAIN queue : queue[i] \in Jobs
      /\ \A w \in Workers : work[w] \in Jobs
  BY TaskIsJob DEF BrokerInv, BrokerTypes
<1>6. NewsInv'
  <2>1. \A m \in Messages : OnTheWay(<<m>>)' => m \in DOMAIN loyal' \ DOMAIN audience'
    BY <1>1 DEF BrokerInv, NewsInv
  <2>2. /\ \A i \in DOMAIN queue : RightTopic(queue[i], loyal')
        /\ \A w \in Workers : RightTopic(work[w], loyal')
    BY <1>4, <1>5 DEF RightTopic
  <2>3. QED BY <2>1, <2>2 DEF NewsInv
<1>7. QED BY <1>2, <1>3, <1>6

\* A step of a worker that is not a take: it goes on to job and adds to the
\* end of the queue what carries more.
LEMMA WorkerStep ==
  ASSUME BrokerInv, NEW w \in Workers, NEW job \in Jobs, job.kind # "broadcast",
         NEW k, NEW more, NEW fresh, clients' = clients,
         HandsOver(w, job, k, more, fresh), queue' \in Seq(Tasks),
         \A i \in DOMAIN queue' \ DOMAIN queue : queue'[i].kind # "broadcast",
         \A m \in DOMAIN audience' : m \in DOMAIN audience \/ <<m>> \in Carried(work[w]),
         DOMAIN audience \subseteq DOMAIN audience', DOMAIN audience' \subseteq DOMAIN loyal,
         \A m \in DOMAIN audience' : loyal[m].subs \subseteq audience'[m],
         delivered' \in [Subscribers \X Messages -> Nat],
         rejected' \subseteq Subscribers \X Messages
  PROVE  /\ BrokerTypes' /\ Apart' /\ NewsInv' /\ LoyalInv'
         /\ \A x : OnTheWay(x)' <=> \/ OnTheWay(x) /\ x \notin Carried(work[w])
                                    \/ x \in Carried(job) \cup more
<1>0. BrokerTypes /\ Apart /\ NewsInv /\ LoyalInv /\ work \in [Workers -> Jobs]
  BY DEF BrokerInv, BrokerTypes
<1>h. /\ work' = [work EXCEPT ![w] = job]
      /\ DOMAIN queue \subseteq DOMAIN queue'
      /\ \A i \in DOMAIN queue : queue'[i] = queue[i]
      /\ \A i \in DOMAIN queue' \ DOMAIN queue : i = k /\ Carried(queue'[i]) = more
      /\ more # {} => k \in DOMAIN queue' \ DOMAIN queue
  BY DEF HandsOver
<1>c. UNCHANGED <<topicMap, loyal>>
  BY DEF clients
<1>1. /\ Apart'
      /\ \A x : OnTheWay(x)' <=> \/ OnTheWay(x) /\ x \notin Carried(work[w])
                                 \/ x \in Carried(job) \cup more
  BY <1>0, Handover
<1>2. BrokerTypes'
  <2>1. work' \in [Workers -> Jobs]
    BY <1>0, <1>h
  <2>2. QED BY <1>0, <1>c, <2>1 DEF BrokerTypes
<1>3. LoyalInv'
  BY <1>0, <1>c DEF LoyalInv, Subscribed
<1>4. ASSUME NEW m \in Messages, OnTheWay(<<m>>)' PROVE m \in DOMAIN loyal' \ DOMAIN audience'
  <2>1. <<m>> \notin Carried(job) \cup more
    <3>1. <<m>> \notin Carried(job)
      <4>1. CASE job.kind = "notify"
        <5>1. Carried(job) = {<<job.sub, job.msg>>}
          BY <4>1, JobShapes, CarriedBy
        <5>2. QED BY <5>1, OneIsNotTwo
      <4>2. CASE job.kind = "notifying"
        <5>1. Carried(job) = ToSet(job.left) \X {job.msg}
          BY <4>2, JobShapes, CarriedBy
        <5>2. QED BY <5>1, OneIsNotTwo
      <4>3. CASE job = Idle
        BY <4>3, CarriedBy
      <4>4. QED BY <4>1, <4>2, <4>3, JobShapes
    <3>2. ASSUME <<m>> \in more PROVE FALSE
      <4>1. k \in DOMAIN queue' /\ Carried(queue'[k]) = more /\ queue'[k].kind # "broadcast"
            /\ queue'[k] \in Tasks
        BY <1>h, <3>2
      <4>2. queue'[k].kind = "notify" /\ queue'[k] \in Jobs
        BY <4>1, JobShapes, TaskIsJob
      <4>3. Carried(queue'[k]) = {<<queue'[k].sub, queue'[k].msg>>}
        BY <4>2, JobShapes, CarriedBy
      <4>4. QED BY <3>2, <4>1, <4>3, OneIsNotTwo
    <3>3. QED BY <3>1, <3>2
  <2>2. OnTheWay(<<m>>) /\ <<m>> \notin Carried(work[w])
    BY <1>1, <1>4, <2>1
  <2>3. QED BY <1>0, <1>c, <2>2 DEF NewsInv
<1>5. NewsInv'
  <2>1. \A i \in DOMAIN queue' : RightTopic(queue'[i], loyal')
    <3>1. ASSUME NEW i \in DOMAIN queue' PROVE RightTopic(queue'[i], loyal')
      <4>1. CASE i \in DOMAIN queue
        <5>1. queue'[i] = queue[i] /\ RightTopic(queue[i], loyal)
          BY <1>0, <1>h, <4>1 DEF NewsInv
        <5>2. QED BY <5>1, <1>c DEF RightTopic
      <4>2. CASE i \notin DOMAIN queue
        BY <4>2 DEF RightTopic
      <4>3. QED BY <4>1, <4>2
    <3>2. QED BY <3>1
  <2>2. ASSUME NEW v \in Workers PROVE RightTopic(work'[v], loyal')
    <3>1. CASE v = w
      BY <1>0, <1>h, <3>1 DEF RightTopic
    <3>2. CASE v # w
      <4>1. work'[v] = work[v] /\ RightTopic(work[v], loyal)
        BY <1>0, <1>h, <3>2 DEF NewsInv
      <4>2. QED BY <4>1, <1>c DEF RightTopic
    <3>3. QED BY <3>1, <3>2
  <2>3. QED BY <1>4, <2>1, <2>2 DEF NewsInv, RightTopic
<1>6. QED BY <1>1, <1>2, <1>3, <1>5

LEMMA BrokerNextInv == BrokerInv /\ [Next]_vars => BrokerInv'
<1> SUFFICES ASSUME BrokerInv, [Next]_vars PROVE BrokerInv'
  OBVIOUS
<1>0. BrokerTypes /\ Apart /\ NewsInv /\ LoyalInv /\ CopyInv
  BY DEF BrokerInv
<1>a. /\ queue \in Seq(Tasks) /\ work \in [Workers -> Jobs]
      /\ delivered \in [Subscribers \X Messages -> Nat]
      /\ rejected \subseteq Subscribers \X Messages
      /\ DOMAIN audience \subseteq DOMAIN loyal /\ DOMAIN loyal \subseteq Messages
      /\ \A m \in DOMAIN audience : loyal[m].subs \subseteq audience[m]
  BY <1>0 DEF BrokerTypes, LoyalInv
<1>1. CASE UNCHANGED vars
  <2>1. UNCHANGED <<topicMap, queue, work, delivered, loyal, audience, rejected>>
    BY <1>1 DEF vars
  <2>2. Apart' /\ NewsInv' /\ CopyInv'
    BY <2>1, ClientStep
  <2>3. BrokerTypes' /\ LoyalInv'
    BY <1>0, <2>1 DEF BrokerTypes, LoyalInv, Subscribed
  <2>4. QED BY <2>2, <2>3 DEF BrokerInv
<1>2. ASSUME NEW t \in Topics, createTopic(t) PROVE BrokerInv'
  <2>1. /\ topicMap' = [u \in DOMAIN topicMap \cup {t} |->
                          IF u \in DOMAIN topicMap THEN topicMap[u] ELSE <<>>]
        /\ UNCHANGED <<queue, work, delivered, loyal, audience, rejected>>
    BY <1>2 DEF createTopic
  <2>2. Apart' /\ NewsInv' /\ CopyInv'
    BY <2>1, ClientStep
  <2>3. BrokerTypes'
    BY <1>0, <2>1, ListEmpty DEF BrokerTypes
  <2>4. \A u \in DOMAIN topicMap : topicMap'[u] = topicMap[u]
    BY <2>1
  <2>5. LoyalInv'
    BY <1>0, <2>1, <2>4 DEF BrokerTypes, LoyalInv, Subscribed
  <2>6. QED BY <2>2, <2>3, <2>5 DEF BrokerInv
<1>3. ASSUME NEW t \in Topics, NEW s \in Subscribers, addSubscriber(t, s) PROVE BrokerInv'
  <2>1. /\ t \in DOMAIN topicMap /\ s \notin Subscribed(t)
        /\ topicMap' = [topicMap EXCEPT ![t] = Append(@, s)]
        /\ UNCHANGED <<queue, work, delivered, loyal, audience, rejected>>
    BY <1>3 DEF addSubscriber
  <2>2. Apart' /\ NewsInv' /\ CopyInv'
    BY <2>1, ClientStep
  <2>3. topicMap[t] \in Lists /\ s \notin ToSet(topicMap[t])
    BY <1>0, <2>1 DEF BrokerTypes, Subscribed
  <2>4. Append(topicMap[t], s) \in Lists
        /\ ToSet(Append(topicMap[t], s)) = ToSet(topicMap[t]) \cup {s}
    BY <2>3, ListAppend
  <2>5. /\ DOMAIN topicMap' = DOMAIN topicMap /\ topicMap'[t] = Append(topicMap[t], s)
        /\ \A u \in DOMAIN topicMap : u # t => topicMap'[u] = topicMap[u]
    BY <2>1
  <2>6. BrokerTypes'
    BY <1>0, <2>1, <2>4, <2>5 DEF BrokerTypes
  <2>7. \A u \in DOMAIN topicMap : ToSet(topicMap[u]) \subseteq ToSet(topicMap'[u])
    BY <2>4, <2>5
  <2>8. LoyalInv'
    BY <1>0, <2>1, <2>7 DEF BrokerTypes, LoyalInv, Subscribed
  <2>9. QED BY <2>2, <2>6, <2>8 DEF BrokerInv
<1>4. ASSUME NEW t \in Topics, NEW s \in Subscribers, unSubscriber(t, s) PROVE BrokerInv'
  <2>1. /\ t \in DOMAIN topicMap
        /\ \E i \in DOMAIN topicMap[t] :
             topicMap[t][i] = s /\ topicMap' = [topicMap EXCEPT ![t] = RemoveAt(@, i)]
        /\ loyal' = [m \in DOMAIN loyal |->
              IF loyal[m].topic = t THEN [loyal[m] EXCEPT !.subs = @ \ {s}] ELSE loyal[m]]
        /\ UNCHANGED <<queue, work, delivered, audience, rejected>>
    BY <1>4 DEF unSubscriber
  <2>2. PICK i \in DOMAIN topicMap[t] :
          topicMap[t][i] = s /\ topicMap' = [topicMap EXCEPT ![t] = RemoveAt(@, i)]
    BY <2>1
  <2>3. /\ DOMAIN loyal' = DOMAIN loyal
        /\ \A m \in DOMAIN loyal :
             /\ loyal'[m].topic = loyal[m].topic /\ loyal'[m].subs \subseteq loyal[m].subs
             /\ loyal[m].topic = t => loyal'[m].subs \subseteq loyal[m].subs \ {s}
    BY <2>1
  <2>4. Apart' /\ NewsInv' /\ CopyInv'
    BY <2>1, <2>3, ClientStep
  <2>5. topicMap[t] \in Lists
    BY <1>0, <2>1 DEF BrokerTypes
  <2>6. RemoveAt(topicMap[t], i) \in Lists
        /\ ToSet(RemoveAt(topicMap[t], i)) = ToSet(topicMap[t]) \ {s}
    BY <2>2, <2>5, ListRemove
  <2>7. /\ DOMAIN topicMap' = DOMAIN topicMap /\ topicMap'[t] = RemoveAt(topicMap[t], i)
        /\ \A u \in DOMAIN topicMap : u # t => topicMap'[u] = topicMap[u]
    BY <2>1, <2>2
  <2>8. BrokerTypes'
    BY <1>0, <2>1, <2>3, <2>6, <2>7 DEF BrokerTypes
  <2>9. \A m \in DOMAIN loyal : loyal'[m].subs \subseteq ToSet(topicMap'[loyal[m].topic])
    <3> SUFFICES ASSUME NEW m \in DOMAIN loyal
                 PROVE  loyal'[m].subs \subseteq ToSet(topicMap'[loyal[m].topic])
      OBVIOUS
    <3>1. loyal[m].topic \in DOMAIN topicMap /\ loyal[m].subs \subseteq ToSet(topicMap[loyal[m].topic])
      BY <1>0 DEF BrokerTypes, LoyalInv, Subscribed
    <3>2. CASE loyal[m].topic = t
      BY <2>3, <2>6, <2>7, <3>1, <3>2
    <3>3. CASE loyal[m].topic # t
      BY <2>3, <2>7, <3>1, <3>3
    <3>4. QED BY <3>2, <3>3
  <2>10. \A m \in DOMAIN audience : loyal'[m].subs \subseteq audience[m]
    BY <1>a, <2>3
  <2>11. LoyalInv'
    BY <2>1, <2>3, <2>9, <2>10 DEF LoyalInv, Subscribed
  <2>12. QED BY <2>4, <2>8, <2>11 DEF BrokerInv
<1>5. ASSUME NEW t \in Topics, NEW m \in Messages, publish(t, m) PROVE BrokerInv'
  <2>1. /\ t \in DOMAIN topicMap /\ m \notin DOMAIN loyal
        /\ queue' = Append(queue, Broadcast(t, m))
        /\ loyal' = [n \in DOMAIN loyal \cup {m} |->
              IF n = m THEN [topic |-> t, subs |-> Subscribed(t)] ELSE loyal[n]]
        /\ UNCHANGED <<topicMap, work, delivered, audience, rejected>>
    BY <1>5 DEF publish
  <2>2. ~OnTheWay(<<m>>)
    BY <1>0, <2>1 DEF NewsInv
  <2>3. /\ queue' \in Seq(Tasks) /\ Apart'
        /\ \A x : OnTheWay(x)' <=> OnTheWay(x) \/ x = <<m>>
        /\ \A i \in DOMAIN queue' :
             (i \in DOMAIN queue /\ queue'[i] = queue[i]) \/ queue'[i] = Broadcast(t, m)
    BY <1>0, <2>1, <2>2, Posted
  <2>4. /\ DOMAIN loyal' = DOMAIN loyal \cup {m}
        /\ loyal'[m].topic = t /\ loyal'[m].subs = Subscribed(t)
        /\ \A n \in DOMAIN loyal : loyal'[n] = loyal[n]
    BY <2>1
  <2>5. BrokerTypes'
    BY <1>0, <2>1, <2>3, <2>4 DEF BrokerTypes
  <2>6. LoyalInv'
    <3>1. m \notin DOMAIN audience
      BY <1>a, <2>1
    <3>2. \A n \in DOMAIN loyal' : loyal'[n].subs \subseteq ToSet(topicMap[loyal'[n].topic])
      BY <1>0, <2>4 DEF LoyalInv, Subscribed
    <3>3. \A n \in DOMAIN audience : loyal'[n].subs \subseteq audience[n]
      BY <1>a, <2>4
    <3>4. QED BY <2>1, <3>2, <3>3 DEF LoyalInv, Subscribed
  <2>7. CopyInv'
    <3> SUFFICES ASSUME NEW s \in Subscribers, NEW n \in Messages PROVE Accounted(s, n)'
      BY DEF CopyInv
    <3>1. OnTheWay(<<s, n>>)' <=> OnTheWay(<<s, n>>)
      BY <2>3, OneIsNotTwo
    <3>2. Accounted(s, n)
      BY <1>0 DEF CopyInv
    <3>3. QED BY <2>1, <3>1, <3>2 DEF Accounted, Addressed
  <2>8. NewsInv'
    <3>1. ASSUME NEW n \in Messages, OnTheWay(<<n>>)' PROVE n \in DOMAIN loyal' \ DOMAIN audience'
      <4>1. OnTheWay(<<n>>) \/ n = m
        BY <2>3, <3>1
      <4>2. QED BY <1>0, <1>a, <2>1, <2>4, <4>1 DEF NewsInv
    <3>2. ASSUME NEW job \in Jobs, \/ \E i \in DOMAIN queue : queue[i] = job
                                   \/ \E w \in Workers : work[w] = job
          PROVE  RightTopic(job, loyal')
      <4>1. CASE job.kind = "broadcast"
        BY <1>0, <2>4, <3>2, <4>1, NewsIsPublished DEF RightTopic
      <4>2. CASE job.kind # "broadcast"
        BY <4>2 DEF RightTopic
      <4>3. QED BY <4>1, <4>2
    <3>3. \A w \in Workers : RightTopic(work[w], loyal')
      BY <1>a, <3>2
    <3>4. ASSUME NEW i \in DOMAIN queue' PROVE RightTopic(queue'[i], loyal')
      <4>1. CASE i \in DOMAIN queue /\ queue'[i] = queue[i]
        <5>1. queue[i] \in Jobs
          BY <1>a, <4>1, TaskIsJob
        <5>2. QED BY <3>2, <4>1, <5>1
      <4>2. CASE queue'[i] = Broadcast(t, m)
        BY <2>4, <4>2 DEF RightTopic, Broadcast
      <4>3. QED BY <2>3, <4>1, <4>2
    <3>5. QED BY <2>1, <3>1, <3>3, <3>4 DEF NewsInv
  <2>9. QED BY <2>3, <2>5, <2>6, <2>7, <2>8 DEF BrokerInv
<1>6. CASE Await \/ Shutdown \/ Interrupted
  <2>1. UNCHANGED <<topicMap, queue, work, delivered, loyal, audience, rejected>>
    BY <1>6 DEF Await, Shutdown, Interrupted
  <2>2. Apart' /\ NewsInv' /\ CopyInv'
    BY <2>1, ClientStep
  <2>3. BrokerTypes' /\ LoyalInv'
    BY <1>0, <2>1 DEF BrokerTypes, LoyalInv, Subscribed
  <2>4. QED BY <2>2, <2>3 DEF BrokerInv
<1>7. ASSUME NEW w \in Workers, Take(w) PROVE BrokerInv'
  <2>1. /\ work[w] = Idle /\ queue # <<>>
        /\ work' = [work EXCEPT ![w] = Head(queue)] /\ queue' = Tail(queue)
        /\ UNCHANGED <<topicMap, delivered, loyal, audience, rejected>>
    BY <1>7 DEF Take, clients
  <2>2. /\ queue' \in Seq(Tasks) /\ work' \in [Workers -> Jobs]
        /\ Apart'
        /\ \A x : OnTheWay(x)' <=> OnTheWay(x)
        /\ \A i \in DOMAIN queue' : i + 1 \in DOMAIN queue /\ queue'[i] = queue[i + 1]
        /\ 1 \in DOMAIN queue /\ work'[w] = queue[1]
        /\ \A v \in Workers : v # w => work'[v] = work[v]
    BY <1>0, <2>1, Taken
  <2>3. BrokerTypes' /\ LoyalInv'
    BY <1>0, <2>1, <2>2 DEF BrokerTypes, LoyalInv, Subscribed
  <2>4. NewsInv'
    <3>1. \A m \in Messages : OnTheWay(<<m>>)' => m \in DOMAIN loyal' \ DOMAIN audience'
      BY <1>0, <2>1, <2>2 DEF NewsInv
    <3>2. \A i \in DOMAIN queue' : RightTopic(queue'[i], loyal')
      BY <1>0, <2>1, <2>2 DEF NewsInv
    <3>3. \A v \in Workers : RightTopic(work'[v], loyal')
      BY <1>0, <2>1, <2>2 DEF NewsInv
    <3>4. QED BY <3>1, <3>2, <3>3 DEF NewsInv
  <2>5. CopyInv'
    BY <1>0, <2>1, <2>2 DEF CopyInv, Accounted, Addressed
  <2>6. QED BY <2>2, <2>3, <2>4, <2>5 DEF BrokerInv
<1>8. ASSUME NEW w \in Workers, Read(w) PROVE BrokerInv'
  <2> DEFINE m == work[w].msg
             t == work[w].topic
             now == topicMap[t]
             fresh == ToSet(now) \X {m}
  <2>1. /\ work[w].kind = "broadcast"
        /\ audience' = [n \in DOMAIN audience \cup {m} |->
                          IF n = m THEN ToSet(now) ELSE audience[n]]
        /\ work' = [work EXCEPT ![w] = Rest(m, now)]
        /\ UNCHANGED <<queue, delivered, rejected>> /\ clients' = clients
    BY <1>8 DEF Read
  <2>2. work[w] \in Jobs /\ work[w] = Broadcast(t, m) /\ m \in Messages
    BY <1>a, <2>1, JobShapes
  <2>3. m \in DOMAIN loyal /\ m \notin DOMAIN audience /\ t = loyal[m].topic
    BY <1>0, <2>1, <2>2, NewsIsPublished
  <2>4. now \in Lists /\ loyal[m].subs \subseteq ToSet(now)
    BY <1>0, <2>3 DEF BrokerTypes, LoyalInv, Subscribed
  <2>5. \A s \in ToSet(now) : s \in Subscribers
    BY <2>4, ListFacts
  <2>6. Carried(work[w]) = {<<m>>} /\ Carried(Rest(m, now)) = fresh
        /\ Rest(m, now).kind # "broadcast" /\ Rest(m, now) \in Jobs
    BY <2>2, <2>4, CarriedBy, RestIsJob
  <2>7. \A s \in Subscribers : ~OnTheWay(<<s, m>>) /\ delivered[<<s, m>>] = 0 /\ <<s, m>> \notin rejected
    BY <1>0, <2>2, <2>3 DEF CopyInv, Accounted, Addressed
  <2>8. fresh \subseteq Subscribers \X Messages /\ \A x \in fresh : ~OnTheWay(x)
    BY <2>2, <2>5, <2>7
  <2>9. /\ DOMAIN audience' = DOMAIN audience \cup {m} /\ audience'[m] = ToSet(now)
        /\ \A n \in DOMAIN audience : audience'[n] = audience[n]
    BY <2>1, <2>3
  <2> HIDE DEF m, t, now, fresh
  <2>10. HandsOver(w, Rest(m, now), 0, {}, fresh)
    BY <2>1, <2>6, <2>8 DEF HandsOver
  <2>11. /\ \A n \in DOMAIN audience' : n \in DOMAIN audience \/ <<n>> \in Carried(work[w])
         /\ DOMAIN audience \subseteq DOMAIN audience' /\ DOMAIN audience' \subseteq DOMAIN loyal
         /\ \A n \in DOMAIN audience' : loyal[n].subs \subseteq audience'[n]
    BY <1>a, <2>3, <2>4, <2>6, <2>9
  <2>12. /\ BrokerTypes' /\ Apart' /\ NewsInv' /\ LoyalInv'
         /\ \A x : OnTheWay(x)' <=> \/ OnTheWay(x) /\ x \notin Carried(work[w])
                                    \/ x \in Carried(Rest(m, now)) \cup {}
    BY <1>a, <2>1, <2>6, <2>8, <2>10, <2>11, WorkerStep
  <2>13. CopyInv'
    <3> SUFFICES ASSUME NEW s \in Subscribers, NEW n \in Messages PROVE Accounted(s, n)'
      BY DEF CopyInv
    <3>1. OnTheWay(<<s, n>>)' <=> OnTheWay(<<s, n>>) \/ <<s, n>> \in fresh
      BY <2>6, <2>12, OneIsNotTwo
    <3>2. <<s, n>> \in fresh <=> n = m /\ s \in ToSet(now)
      BY DEF fresh
    <3>3. Accounted(s, n)
      BY <1>0 DEF CopyInv
    <3>4. CASE n = m
      BY <2>1, <2>7, <2>9, <3>1, <3>2, <3>4 DEF Accounted, Addressed
    <3>5. CASE n # m
      BY <2>1, <2>9, <3>1, <3>2, <3>3, <3>5 DEF Accounted, Addressed
    <3>6. QED BY <3>4, <3>5
  <2>14. QED BY <2>12, <2>13 DEF BrokerInv
<1>9. ASSUME NEW w \in Workers, Submit(w) PROVE BrokerInv'
  <2> DEFINE m == work[w].msg
             left == work[w].left
             h == Head(left)
             rest == Rest(m, Tail(left))
             k == Len(queue) + 1
  <2>1. /\ work[w].kind = "notifying"
        /\ queue' = Append(queue, Notify(h, m))
        /\ work' = [work EXCEPT ![w] = rest]
        /\ UNCHANGED <<delivered, audience, rejected>> /\ clients' = clients
    BY <1>9 DEF Submit
  <2>2. work[w] \in Jobs /\ work[w] = Notifying(m, left) /\ m \in Messages
        /\ left \in Lists /\ left # <<>>
    BY <1>a, <2>1, JobShapes
  <2>3. /\ h \in Subscribers /\ Tail(left) \in Lists
        /\ h \in ToSet(left) /\ ToSet(Tail(left)) = ToSet(left) \ {h}
    BY <2>2, ListTail
  <2>4. /\ Carried(work[w]) = ToSet(left) \X {m} /\ rest.kind # "broadcast" /\ rest \in Jobs
        /\ Carried(rest) = ToSet(Tail(left)) \X {m}
        /\ Carried(Notify(h, m)) = {<<h, m>>} /\ Notify(h, m).kind = "notify"
    BY <2>2, <2>3, CarriedBy, RestIsJob
  <2>5. Notify(h, m) \in Tasks
    BY <2>2, <2>3, TaskIsJob
  <2>6. /\ queue' \in Seq(Tasks)
        /\ DOMAIN queue \subseteq DOMAIN queue'
        /\ \A i \in DOMAIN queue : queue'[i] = queue[i]
        /\ k \in DOMAIN queue' \ DOMAIN queue
        /\ \A i \in DOMAIN queue' \ DOMAIN queue : i = k /\ queue'[i] = Notify(h, m)
    BY <1>a, <2>1, <2>5, QueueAppend
  <2> HIDE DEF m, left, h, rest, k
  <2>7. Carried(rest) \cup {<<h, m>>} = Carried(work[w]) /\ Carried(rest) \cap {<<h, m>>} = {}
    BY <2>3, <2>4
  <2>8. HandsOver(w, rest, k, {<<h, m>>}, {})
    BY <2>1, <2>4, <2>6, <2>7 DEF HandsOver
  <2>9. /\ \A i \in DOMAIN queue' \ DOMAIN queue : queue'[i].kind # "broadcast"
        /\ {} \subseteq Subscribers \X Messages
        /\ \A n \in DOMAIN audience' : n \in DOMAIN audience \/ <<n>> \in Carried(work[w])
        /\ DOMAIN audience \subseteq DOMAIN audience' /\ DOMAIN audience' \subseteq DOMAIN loyal
        /\ \A n \in DOMAIN audience' : loyal[n].subs \subseteq audience'[n]
        /\ delivered' \in [Subscribers \X Messages -> Nat]
        /\ rejected' \subseteq Subscribers \X Messages
    BY <1>a, <2>1, <2>4, <2>6
  <2>10. /\ BrokerTypes' /\ Apart' /\ NewsInv' /\ LoyalInv'
         /\ \A x : OnTheWay(x)' <=> \/ OnTheWay(x) /\ x \notin Carried(work[w])
                                    \/ x \in Carried(rest) \cup {<<h, m>>}
    BY <2>1, <2>4, <2>6, <2>8, <2>9, WorkerStep
  <2>11. \A x : OnTheWay(x)' <=> OnTheWay(x)
    <3>1. \A x : x \in Carried(work[w]) => OnTheWay(x)
      BY DEF OnTheWay
    <3>2. QED BY <2>7, <2>10, <3>1
  <2>12. CopyInv'
    BY <1>0, <2>1, <2>11 DEF CopyInv, Accounted, Addressed
  <2>13. QED BY <2>10, <2>12 DEF BrokerInv
\* The copies that are rejected, or the one that arrives, leave the worker
\* without a job.
<1>10. ASSUME NEW w \in Workers, Reject(w) \/ onMessage(w) PROVE BrokerInv'
  <2>1. /\ work' = [work EXCEPT ![w] = Idle]
        /\ UNCHANGED <<queue, audience>> /\ clients' = clients
        /\ work[w].kind \in {"notifying", "notify"}
        /\ work[w].kind = "notifying" =>
             /\ rejected' = rejected \cup (ToSet(work[w].left) \X {work[w].msg})
             /\ delivered' = delivered
        /\ work[w].kind = "notify" =>
             /\ delivered' = [delivered EXCEPT ![<<work[w].sub, work[w].msg>>] = @ + 1]
             /\ rejected' = rejected
    BY <1>10 DEF Reject, onMessage
  <2>2. work[w] \in Jobs /\ work[w].kind # "broadcast" /\ work[w] # Idle
    BY <1>a, <2>1, CarriedBy
  <2>3. /\ \A x \in Carried(work[w]) : x \in Subscribers \X Messages
        /\ work[w].kind = "notifying" => rejected' = rejected \cup Carried(work[w])
        /\ work[w].kind = "notify" =>
             /\ delivered' \in [Subscribers \X Messages -> Nat]
             /\ \A x \in Subscribers \X Messages :
                  delivered'[x] = IF x \in Carried(work[w]) THEN delivered[x] + 1 ELSE delivered[x]
    <3>1. CASE work[w].kind = "notifying"
      <4>1. /\ Carried(work[w]) = ToSet(work[w].left) \X {work[w].msg}
            /\ work[w].left \in Lists /\ work[w].msg \in Messages
        BY <2>2, <3>1, JobShapes, CarriedBy
      <4>2. \A s \in ToSet(work[w].left) : s \in Subscribers
        BY <4>1, ListFacts
      <4>3. QED BY <2>1, <3>1, <4>1, <4>2
    <3>2. CASE work[w].kind = "notify"
      <4>1. /\ Carried(work[w]) = {<<work[w].sub, work[w].msg>>}
            /\ work[w].sub \in Subscribers /\ work[w].msg \in Messages
        BY <2>2, <3>2, JobShapes, CarriedBy
      <4> DEFINE copy == <<work[w].sub, work[w].msg>>
      <4>2. copy \in Subscribers \X Messages
        BY <4>1
      <4>3. delivered' = [delivered EXCEPT ![copy] = @ + 1]
        BY <2>1, <3>2
      <4>4. delivered \in [Subscribers \X Messages -> Nat] /\ delivered[copy] + 1 \in Nat
        BY <1>a, <4>2
      <4> HIDE DEF copy
      <4>5. /\ delivered' \in [Subscribers \X Messages -> Nat]
            /\ \A x \in Subscribers \X Messages :
                 delivered'[x] = IF x = copy THEN delivered[x] + 1 ELSE delivered[x]
        BY <4>2, <4>3, <4>4
      <4>6. Carried(work[w]) = {copy}
        BY <4>1 DEF copy
      <4>7. QED BY <3>2, <4>2, <4>5, <4>6
    <3>3. QED BY <2>1, <3>1, <3>2
  <2>4. Carried(Idle) = {} /\ Idle.kind # "broadcast" /\ Idle \in Jobs
    BY CarriedBy, TaskIsJob
  <2>5. HandsOver(w, Idle, 0, {}, {})
    BY <2>1, <2>4 DEF HandsOver
  <2>6. /\ delivered' \in [Subscribers \X Messages -> Nat]
        /\ rejected' \subseteq Subscribers \X Messages
    BY <1>a, <2>1, <2>3
  <2>7. /\ {} \subseteq Subscribers \X Messages /\ queue' \in Seq(Tasks)
        /\ \A i \in DOMAIN queue' \ DOMAIN queue : queue'[i].kind # "broadcast"
        /\ \A n \in DOMAIN audience' : n \in DOMAIN audience \/ <<n>> \in Carried(work[w])
        /\ DOMAIN audience \subseteq DOMAIN audience' /\ DOMAIN audience' \subseteq DOMAIN loyal
        /\ \A n \in DOMAIN audience' : loyal[n].subs \subseteq audience'[n]
    BY <1>a, <2>1
  <2>8. /\ BrokerTypes' /\ Apart' /\ NewsInv' /\ LoyalInv'
        /\ \A x : OnTheWay(x)' <=> \/ OnTheWay(x) /\ x \notin Carried(work[w])
                                   \/ x \in Carried(Idle) \cup {}
    BY <2>1, <2>4, <2>5, <2>6, <2>7, WorkerStep
  <2>9. CopyInv'
    <3> SUFFICES ASSUME NEW s \in Subscribers, NEW n \in Messages PROVE Accounted(s, n)'
      BY DEF CopyInv
    <3> DEFINE x == <<s, n>>
    <3>1. OnTheWay(x)' <=> OnTheWay(x) /\ x \notin Carried(work[w])
      BY <2>4, <2>8
    <3>2. Accounted(s, n) /\ x \in Subscribers \X Messages
      BY <1>0 DEF CopyInv
    <3>3. Addressed(s, n)' <=> Addressed(s, n)
      BY <2>1 DEF Addressed
    <3>4. CASE x \in Carried(work[w])
      <4>1. OnTheWay(x)
        BY <3>4 DEF OnTheWay
      <4>2. Addressed(s, n) /\ delivered[x] = 0 /\ x \notin rejected
        BY <3>2, <4>1 DEF Accounted
      <4>3. CASE work[w].kind = "notifying"
        <5>1. x \in rejected' /\ delivered'[x] = 0
          BY <2>1, <2>3, <3>4, <4>2, <4>3
        <5>2. QED BY <3>1, <3>3, <3>4, <4>2, <5>1 DEF Accounted
      <4>4. CASE work[w].kind = "notify"
        <5>1. x \notin rejected' /\ delivered'[x] = 1
          BY <2>1, <2>3, <3>2, <3>4, <4>2, <4>4
        <5>2. QED BY <3>1, <3>3, <3>4, <4>2, <5>1 DEF Accounted
      <4>5. QED BY <2>1, <4>3, <4>4
    <3>5. CASE x \notin Carried(work[w])
      <4>1. delivered'[x] = delivered[x] /\ (x \in rejected' <=> x \in rejected)
        BY <2>1, <2>3, <3>2, <3>5
      <4>2. QED BY <3>1, <3>2, <3>3, <3>5, <4>1 DEF Accounted
    <3>6. QED BY <3>4, <3>5
  <2>10. QED BY <2>8, <2>9 DEF BrokerInv
<1>11. QED
  BY <1>1, <1>2, <1>3, <1>4, <1>5, <1>6, <1>7, <1>8, <1>9, <1>10 DEF Next, worker

\* A copy that is on its way is so in the one place where Ways finds it.
LEMMA WaysOfACopy ==
  ASSUME BrokerInv, NEW s \in Subscribers, NEW m \in Messages
  PROVE  Cardinality(Ways(s, m)) = IF OnTheWay(<<s, m>>) THEN 1 ELSE 0
<1> DEFINE x == <<s, m>>
           waiting == {j \in DOMAIN queue : queue[j] = Notify(s, m)}
           carriers == {v \in Workers : \/ work[v] = Notify(s, m)
                                      \/ /\ work[v].kind = "notifying" /\ work[v].msg = m
                                         /\ s \in ToSet(work[v].left)}
<1>a. BrokerTypes /\ Apart
  BY DEF BrokerInv
<1>1. Ways(s, m) = {<<"queue", i>> : i \in waiting} \cup {<<"worker", w>> : w \in carriers}
  BY DEF Ways
<1>2. ASSUME NEW job \in Jobs
      PROVE  x \in Carried(job) <=> \/ job = Notify(s, m)
                                    \/ job.kind = "notifying" /\ job.msg = m /\ s \in ToSet(job.left)
  <2>1. CASE job.kind = "broadcast"
    <3>1. Carried(job) = {<<job.msg>>}
      BY <2>1, CarriedBy, JobShapes
    <3>2. QED BY <2>1, <3>1, OneIsNotTwo, CarriedBy
  <2>2. CASE job.kind = "notify"
    <3>1. job = Notify(job.sub, job.msg) /\ Carried(job) = {<<job.sub, job.msg>>}
      BY <2>2, CarriedBy, JobShapes
    <3>2. job = Notify(s, m) => job.sub = s /\ job.msg = m
      BY DEF Notify
    <3>3. QED BY <2>2, <3>1, <3>2
  <2>3. CASE job.kind = "notifying"
    <3>1. Carried(job) = ToSet(job.left) \X {job.msg}
      BY <2>3, CarriedBy, JobShapes
    <3>2. QED BY <2>3, <3>1, CarriedBy
  <2>4. CASE job = Idle
    BY <2>4, CarriedBy
  <2>5. QED BY <2>1, <2>2, <2>3, <2>4, JobShapes
<1>3. \A i \in DOMAIN queue : x \in Carried(queue[i]) <=> i \in waiting
  <2> SUFFICES ASSUME NEW i \in DOMAIN queue
               PROVE  x \in Carried(queue[i]) <=> i \in waiting
    OBVIOUS
  <2>1. queue[i] \in Tasks /\ queue[i] \in Jobs
    BY <1>a, TaskIsJob DEF BrokerTypes
  <2>2. queue[i].kind # "notifying"
    BY <2>1, JobShapes
  <2>3. QED BY <1>2, <2>1, <2>2
<1>4. \A w \in Workers : x \in Carried(work[w]) <=> w \in carriers
  <2>1. \A w \in Workers : work[w] \in Jobs
    BY <1>a DEF BrokerTypes
  <2>2. QED BY <1>2, <2>1
<1>5. waiting \subseteq DOMAIN queue /\ carriers \subseteq Workers
  OBVIOUS
<1>6. /\ \A i, j \in waiting : i = j
      /\ \A v, w \in carriers : v = w
      /\ waiting = {} \/ carriers = {}
      /\ OnTheWay(x) <=> waiting # {} \/ carriers # {}
  <2>1. \A i, j \in DOMAIN queue : x \in Carried(queue[i]) /\ x \in Carried(queue[j]) => i = j
    BY <1>a DEF Apart
  <2>2. \A v, w \in Workers : x \in Carried(work[v]) /\ x \in Carried(work[w]) => v = w
    BY <1>a DEF Apart
  <2>3. \A i \in DOMAIN queue, w \in Workers : ~(x \in Carried(queue[i]) /\ x \in Carried(work[w]))
    BY <1>a DEF Apart
  <2>4. OnTheWay(x) <=> \/ \E i \in DOMAIN queue : x \in Carried(queue[i])
                        \/ \E w \in Workers : x \in Carried(work[w])
    BY DEF OnTheWay
  <2> HIDE DEF x, waiting, carriers
  <2>5. QED BY <1>3, <1>4, <1>5, <2>1, <2>2, <2>3, <2>4
<1> HIDE DEF x, waiting, carriers
<1>7. CASE waiting = {} /\ carriers = {}
  <2>1. Ways(s, m) = {}
    BY <1>1, <1>7
  <2>2. QED BY <1>6, <1>7, <2>1, FS_EmptySet DEF x
<1>8. CASE waiting # {}
  <2>1. PICK i \in waiting : TRUE
    BY <1>8
  <2>2. Ways(s, m) = {<<"queue", i>>}
    BY <1>1, <1>6, <2>1
  <2>3. QED BY <1>6, <1>8, <2>2, FS_Singleton DEF x
<1>9. CASE carriers # {}
  <2>1. PICK w \in carriers : TRUE
    BY <1>9
  <2>2. Ways(s, m) = {<<"worker", w>>}
    BY <1>1, <1>6, <2>1
  <2>3. QED BY <1>6, <1>9, <2>2, FS_Singleton DEF x
<1>10. QED BY <1>7, <1>8, <1>9

LEMMA BrokerInvOnce == BrokerInv => EachCopyOnce
<1> SUFFICES ASSUME BrokerInv PROVE EachCopyOnce
  OBVIOUS
<1>1. \A m \in DOMAIN audience : loyal[m].subs \subseteq audience[m]
  BY DEF BrokerInv, LoyalInv
<1>2. ASSUME NEW s \in Subscribers, NEW m \in Messages
      PROVE  Cardinality(Ways(s, m)) + delivered[<<s, m>>] + (IF <<s, m>> \in rejected THEN 1 ELSE 0)
               = IF m \in DOMAIN audience /\ s \in audience[m] THEN 1 ELSE 0
  <2>1. Accounted(s, m)
    BY DEF BrokerInv, CopyInv
  <2>2. Cardinality(Ways(s, m)) = IF OnTheWay(<<s, m>>) THEN 1 ELSE 0
    BY WaysOfACopy
  <2>3. QED BY <2>1, <2>2 DEF Accounted, Addressed
<1>3. QED BY <1>1, <1>2 DEF EachCopyOnce

\* Between a publish and the last onMessage: a message's copy for a subscriber
\* is in one task of the pool, or was delivered once, or was rejected after the
\* shutdown, and whoever stays subscribed is among those broadcast reads.  It
\* holds for any number of workers, topics, subscribers and messages.
THEOREM EachCopyIsOnce == Spec => []EachCopyOnce
<1>1. QED BY BrokerInitInv, BrokerNextInv, BrokerInvOnce, PTL DEF Spec

=============================================================================
