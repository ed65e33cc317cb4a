------------------------------- MODULE PubSub -------------------------------
(***************************************************************************)
(* lld/PubSubDemo.java: a broker whose publish submits one task to a fixed *)
(* thread pool; that task reads the subscribers of the topic and submits   *)
(* one task for each of them to the same pool.  Closing the broker waits   *)
(* a second and then shuts the pool down: what is queued still runs, what  *)
(* a running task submits from then on is rejected.                        *)
(*                                                                         *)
(* Clients call the broker from any thread.  Each message is published     *)
(* once.  The executor is java.util.concurrent's, modelled from its use.   *)
(***************************************************************************)
EXTENDS Naturals, SequencesExt

CONSTANTS
  Topics, Subscribers, Messages,
  Workers,      \* the threads of the pool (4 in the code)
  MaxChanges    \* bound on the calls that change a subscription

ASSUME MaxChangesAssumption == MaxChanges \in Nat

VARIABLES
  topicMap,   \* the created topics, each with its subscribers in order
  queue,      \* the tasks waiting in the executor
  work,       \* the task each worker runs, or Idle
  shut,       \* shutdown() has been called on the executor
  close,      \* where Dispatcher.shutdown is: "uncalled", "await", "returned"
  delivered,  \* calls of onMessage, by subscriber and message
  loyal,      \* history: by published message, who has been subscribed since
  audience,   \* history: by message, the subscribers broadcast has read
  rejected,   \* history: copies that were to be submitted when shut
  changes     \* history: calls that changed a subscription

vars == <<topicMap, queue, work, shut, close, delivered, loyal, audience, rejected, changes>>
clients == <<topicMap, close, loyal, changes>>

Idle == [kind |-> "idle"]
Broadcast(t, m) == [kind |-> "broadcast", topic |-> t, msg |-> m]
Notify(s, m) == [kind |-> "notify", sub |-> s, msg |-> m]
\* broadcast in its forEach, with the subscribers still to come.
Notifying(m, left) == [kind |-> "notifying", msg |-> m, left |-> left]

Init ==
  /\ topicMap = <<>>
  /\ queue = <<>> /\ work = [w \in Workers |-> Idle]
  /\ shut = FALSE /\ close = "uncalled"
  /\ delivered = [c \in Subscribers \X Messages |-> 0]
  /\ loyal = <<>> /\ audience = <<>> /\ rejected = {} /\ changes = 0

Subscribed(t) == ToSet(topicMap[t])

-----------------------------------------------------------------------------
(* Broker *)

\* putIfAbsent: a topic that is there stays as it is.
createTopic(t) ==
  /\ topicMap' = [u \in DOMAIN topicMap \cup {t} |->
                    IF u \in DOMAIN topicMap THEN topicMap[u] ELSE <<>>]
  /\ UNCHANGED <<queue, work, shut, close, delivered, loyal, audience, rejected, changes>>

addSubscriber(t, s) ==
  /\ t \in DOMAIN topicMap /\ s \notin Subscribed(t) /\ changes < MaxChanges
  /\ topicMap' = [topicMap EXCEPT ![t] = Append(@, s)]
  /\ changes' = changes + 1
  /\ UNCHANGED <<queue, work, shut, close, delivered, loyal, audience, rejected>>

unSubscriber(t, s) ==
  /\ t \in DOMAIN topicMap /\ changes < MaxChanges
  /\ \E i \in DOMAIN topicMap[t] :
       topicMap[t][i] = s /\ topicMap' = [topicMap EXCEPT ![t] = RemoveAt(@, i)]
  /\ loyal' = [m \in DOMAIN loyal |->
                 IF loyal[m].topic = t THEN [loyal[m] EXCEPT !.subs = @ \ {s}] ELSE loyal[m]]
  /\ changes' = changes + 1
  /\ UNCHANGED <<queue, work, shut, close, delivered, audience, rejected>>

\* Publisher.publish and Broker.dispatch; after the shutdown submit throws.
publish(t, m) ==
  /\ t \in DOMAIN topicMap /\ m \notin DOMAIN loyal /\ ~shut
  /\ queue' = Append(queue, Broadcast(t, m))
  /\ loyal' = [n \in DOMAIN loyal \cup {m} |->
                 IF n = m THEN [topic |-> t, subs |-> Subscribed(t)] ELSE loyal[n]]
  /\ UNCHANGED <<topicMap, work, shut, close, delivered, audience, rejected, changes>>

\* close: awaitTermination always waits its second out, nobody having shut the
\* executor down yet.
Await ==
  /\ close = "uncalled"
  /\ close' = "await"
  /\ UNCHANGED <<topicMap, queue, work, shut, delivered, loyal, audience, rejected, changes>>

Shutdown ==
  /\ close = "await"
  /\ close' = "returned" /\ shut' = TRUE
  /\ UNCHANGED <<topicMap, queue, work, delivered, loyal, audience, rejected, changes>>

\* The interrupt is printed, and the executor is left running.
Interrupted ==
  /\ close = "await"
  /\ close' = "returned"
  /\ UNCHANGED <<topicMap, queue, work, shut, delivered, loyal, audience, rejected, changes>>

-----------------------------------------------------------------------------
(* The workers of the pool *)

\* peek in place of poll.
BadTake(w) ==
  /\ work[w] = Idle /\ queue # <<>>
  /\ work' = [work EXCEPT ![w] = Head(queue)]
  /\ UNCHANGED <<queue, shut, delivered, audience, rejected, clients>>

Take(w) ==
  /\ work[w] = Idle /\ queue # <<>>
  /\ work' = [work EXCEPT ![w] = Head(queue)]
  /\ queue' = Tail(queue)
  /\ UNCHANGED <<shut, delivered, audience, rejected, clients>>

Rest(m, left) == IF left = <<>> THEN Idle ELSE Notifying(m, left)

\* Topic.broadcast: forEach runs over the subscribers of this moment.
Read(w) ==
  /\ work[w].kind = "broadcast"
  /\ LET m == work[w].msg
         now == topicMap[work[w].topic]
     IN /\ audience' = [n \in DOMAIN audience \cup {m} |->
                          IF n = m THEN ToSet(now) ELSE audience[n]]
        /\ work' = [work EXCEPT ![w] = Rest(m, now)]
  /\ UNCHANGED <<queue, shut, delivered, rejected, clients>>

\* A bounded queue that makes a worker wait for a worker.
BadSubmit(w) ==
  /\ work[w].kind = "notifying" /\ ~shut /\ queue = <<>>
  /\ LET m == work[w].msg  left == work[w].left IN
       /\ queue' = Append(queue, Notify(Head(left), m))
       /\ work' = [work EXCEPT ![w] = Rest(m, Tail(left))]
  /\ UNCHANGED <<shut, delivered, audience, rejected, clients>>

Submit(w) ==
  /\ work[w].kind = "notifying" /\ ~shut
  /\ LET m == work[w].msg
         left == work[w].left
     IN /\ queue' = Append(queue, Notify(Head(left), m))
        /\ work' = [work EXCEPT ![w] = Rest(m, Tail(left))]
  /\ UNCHANGED <<shut, delivered, audience, rejected, clients>>

\* RejectedExecutionException ends the forEach, and the Future that keeps the
\* exception is looked at by nobody.
Reject(w) ==
  /\ work[w].kind = "notifying" /\ shut
  /\ rejected' = rejected \cup (ToSet(work[w].left) \X {work[w].msg})
  /\ work' = [work EXCEPT ![w] = Idle]
  /\ UNCHANGED <<queue, shut, delivered, audience, clients>>

onMessage(w) ==
  /\ work[w].kind = "notify"
  /\ delivered' = [delivered EXCEPT ![<<work[w].sub, work[w].msg>>] = @ + 1]
  /\ work' = [work EXCEPT ![w] = Idle]
  /\ UNCHANGED <<queue, shut, audience, rejected, clients>>

worker(w) == Take(w) \/ Read(w) \/ Submit(w) \/ Reject(w) \/ onMessage(w)

Next ==
  \/ \E t \in Topics :
       \/ createTopic(t)
       \/ \E s \in Subscribers : addSubscriber(t, s) \/ unSubscriber(t, s)
       \/ \E m \in Messages : publish(t, m)
  \/ Await \/ Shutdown \/ Interrupted
  \/ \E w \in Workers : worker(w)

Spec == Init /\ [][Next]_vars

\* The threads of the pool run on; nobody has to publish or to close.
FairSpec == Spec /\ \A w \in Workers : WF_vars(worker(w))

-----------------------------------------------------------------------------
(* Properties *)

\* The places where the copy of m for s is on its way.
Ways(s, m) ==
  {<<"queue", i>> : i \in {j \in DOMAIN queue : queue[j] = Notify(s, m)}}
  \cup {<<"worker", w>> : w \in {v \in Workers :
          \/ work[v] = Notify(s, m)
          \/ work[v].kind = "notifying" /\ work[v].msg = m /\ s \in ToSet(work[v].left)}}

\* Whoever has been subscribed since a message was published is among those it
\* goes to, however late the pool comes to it; and each of their copies is in
\* one place: on its way, delivered, or rejected by a pool that has been shut
\* down.  None is delivered twice, and none is lost otherwise.
EachCopyOnce ==
  /\ \A m \in DOMAIN audience : loyal[m].subs \subseteq audience[m]
  /\ \A s \in Subscribers, m \in Messages :
       Cardinality(Ways(s, m)) + delivered[<<s, m>>] + (IF <<s, m>> \in rejected THEN 1 ELSE 0)
         = IF m \in DOMAIN audience /\ s \in audience[m] THEN 1 ELSE 0

\* s has been subscribed ever since m was published.
Loyal(s, m) == m \in DOMAIN loyal /\ s \in loyal[m].subs

\* A published message reaches its loyal subscribers, or the pool is shut.
PublishedArrives ==
  \A s \in Subscribers, m \in Messages :
    Loyal(s, m) ~> delivered[<<s, m>>] = 1 \/ shut \/ ~Loyal(s, m)

=============================================================================
