----------------------------- MODULE LogClient ------------------------------
(***************************************************************************)
(* GoogleLogger/GoogleLogger.java: a log of processes.  start puts a       *)
(* process into a map and then into a priority queue; end spawns a thread  *)
(* that spins until the process is in the map, completes its end time and  *)
(* takes it out of the map; poll takes the head of the queue, completed or *)
(* not, and waits up to a second for its end time.                         *)
(*                                                                         *)
(* The README calls the process id unique: a process starts once and ends  *)
(* once.  The two calls may come in either order, which is what the thread *)
(* spins for.  Times matter by their order only, and the second of poll is *)
(* any length of time.                                                     *)
(***************************************************************************)
EXTENDS Naturals

CONSTANTS
  Procs,   \* process ids
  Polls,   \* calls of poll
  MaxTime  \* bound: start times are 1 .. MaxTime

VARIABLES
  startTime,  \* the start time of each process, 0 before start
  processes,  \* the keys of the map
  queue,      \* the processes in the priority queue
  ended,      \* the processes whose endTime is complete
  starter,    \* where the call of start for each process is
  ender,      \* where the call of end, or its thread, is
  poll,       \* where each call of poll is
  held        \* the process a poll has taken

vars == <<startTime, processes, queue, ended, starter, ender, poll, held>>

NoProc == "none"  \* a poll that has taken nothing yet

Init ==
  /\ startTime = [p \in Procs |-> 0]
  /\ processes = {} /\ queue = {} /\ ended = {}
  /\ starter = [p \in Procs |-> "uncalled"]
  /\ ender = [p \in Procs |-> "uncalled"]
  /\ poll = [c \in Polls |-> "take"]
  /\ held = [c \in Polls |-> NoProc]

-----------------------------------------------------------------------------
(* start *)

Put(p, time) ==
  /\ starter[p] = "uncalled"
  /\ starter' = [starter EXCEPT ![p] = "add"]
  /\ startTime' = [startTime EXCEPT ![p] = time]
  /\ processes' = processes \cup {p}
  /\ UNCHANGED <<queue, ended, ender, poll, held>>

Add(p) ==
  /\ starter[p] = "add"
  /\ starter' = [starter EXCEPT ![p] = "done"]
  /\ queue' = queue \cup {p}
  /\ UNCHANGED <<startTime, processes, ended, ender, poll, held>>

(* end and the thread it spawns *)

End(p) ==
  /\ ender[p] = "uncalled"
  /\ ender' = [ender EXCEPT ![p] = "find"]
  /\ UNCHANGED <<startTime, processes, queue, ended, starter, poll, held>>

\* processes.get returns null until start has put the process there.  A thread
\* that asks once and gives up if it is not there:
BadFind(p) ==
  /\ ender[p] = "find"
  /\ ender' = [ender EXCEPT ![p] = IF p \in processes THEN "complete" ELSE "done"]
  /\ UNCHANGED <<startTime, processes, queue, ended, starter, poll, held>>

Find(p) ==
  /\ ender[p] = "find" /\ p \in processes
  /\ ender' = [ender EXCEPT ![p] = "complete"]
  /\ UNCHANGED <<startTime, processes, queue, ended, starter, poll, held>>

Complete(p) ==
  /\ ender[p] = "complete"
  /\ ender' = [ender EXCEPT ![p] = "remove"]
  /\ ended' = ended \cup {p}
  /\ UNCHANGED <<startTime, processes, queue, starter, poll, held>>

Remove(p) ==
  /\ ender[p] = "remove"
  /\ ender' = [ender EXCEPT ![p] = "done"]
  /\ processes' = processes \ {p}
  /\ UNCHANGED <<startTime, queue, ended, starter, poll, held>>

(* poll *)

\* The earliest start in the queue, and any of them among equals.
Head(p) == p \in queue /\ \A q \in queue : startTime[p] <= startTime[q]

\* peek in place of take.
BadTake(c) ==
  /\ poll[c] = "take"
  /\ \E p \in queue : Head(p) /\ held' = [held EXCEPT ![c] = p]
  /\ poll' = [poll EXCEPT ![c] = "wait"]
  /\ UNCHANGED <<startTime, processes, queue, ended, starter, ender>>

\* queue.take() blocks while the queue is empty.
Take(c) ==
  /\ poll[c] = "take"
  /\ \E p \in queue :
       /\ Head(p)
       /\ queue' = queue \ {p}
       /\ held' = [held EXCEPT ![c] = p]
  /\ poll' = [poll EXCEPT ![c] = "wait"]
  /\ UNCHANGED <<startTime, processes, ended, starter, ender>>

Return(c) ==
  /\ poll[c] = "wait" /\ held[c] \in ended
  /\ poll' = [poll EXCEPT ![c] = "returned"]
  /\ UNCHANGED <<startTime, processes, queue, ended, starter, ender, held>>

\* A wait without an end.
BadTimeout(c) == poll[c] = "wait" /\ held[c] \notin ended /\ UNCHANGED vars

\* TimeoutException becomes a RuntimeException; the entry is not put back.
Timeout(c) ==
  /\ poll[c] = "wait" /\ held[c] \notin ended
  /\ poll' = [poll EXCEPT ![c] = "threw"]
  /\ UNCHANGED <<startTime, processes, queue, ended, starter, ender, held>>

-----------------------------------------------------------------------------
enderThread(p) == Find(p) \/ Complete(p) \/ Remove(p)
pollCall(c) == Take(c) \/ Return(c) \/ Timeout(c)

Next ==
  \/ \E p \in Procs, time \in 1 .. MaxTime : Put(p, time)
  \/ \E p \in Procs : Add(p) \/ End(p) \/ enderThread(p)
  \/ \E c \in Polls : pollCall(c)

Spec == Init /\ [][Next]_vars

\* A call of start that has begun, a spawned thread and a call of poll run on;
\* nobody has to call start or end.  Threads blocked in take are served one
\* by one, and each poll is one call: weak fairness is enough.
FairSpec ==
  /\ Spec
  /\ \A p \in Procs : WF_vars(Add(p)) /\ WF_vars(enderThread(p))
  /\ \A c \in Polls : WF_vars(pollCall(c))

-----------------------------------------------------------------------------
(* Properties *)

TypeOK ==
  /\ startTime \in [Procs -> 0 .. MaxTime]
  /\ processes \subseteq Procs /\ queue \subseteq Procs /\ ended \subseteq Procs
  /\ starter \in [Procs -> {"uncalled", "add", "done"}]
  /\ ender \in [Procs -> {"uncalled", "find", "complete", "remove", "done"}]
  /\ poll \in [Polls -> {"take", "wait", "returned", "threw"}]
  /\ held \in [Polls -> Procs \cup {NoProc}]
  /\ \A c \in Polls : held[c] = NoProc <=> poll[c] = "take"

Holders(p) == {c \in Polls : held[c] = p}

\* An entry is in the queue or with one poll, never with two and never in
\* both places, whatever the order of the calls that move it.
EachEntryOnce ==
  \A p \in Procs :
    /\ p \in queue => starter[p] = "done" /\ Holders(p) = {}
    /\ \A c, d \in Holders(p) : c = d
    /\ starter[p] = "done" /\ p \notin queue => Holders(p) # {}

\* Every process that starts and ends gets its end time.
EndCompletes ==
  \A p \in Procs : starter[p] # "uncalled" /\ ender[p] # "uncalled" ~> p \in ended

\* No poll waits for ever beside an entry: it blocks on an empty queue or
\* comes back with a result or an exception.
PollsEnd == <>[](\A c \in Polls : poll[c] # "wait" /\ (poll[c] = "take" => queue = {}))

=============================================================================
