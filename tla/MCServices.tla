---------------------------- MODULE MCServices -----------------------------
(***************************************************************************)
(* The two Java services whose queues are served by threads, for one TLC   *)
(* run: PubSub and LogClient.  They share nothing, so a behaviour chooses  *)
(* one of them and the other rests in its initial state.                   *)
(***************************************************************************)
EXTENDS PubSub

CONSTANTS Procs, Polls, MaxTime

ASSUME MaxTimeAssumption == MaxTime \in Nat \ {0}
ASSUME ProcsAssumption == "none" \notin Procs  \* NoProc of LogClient

VARIABLES
  program,  \* the one that runs
  startTime, processes, entries, ended, starter, ender, poll, held

LC == INSTANCE LogClient WITH queue <- entries

logVars == <<startTime, processes, entries, ended, starter, ender, poll, held>>
allVars == <<program, vars, logVars>>

MCInit == program \in {"broker", "log"} /\ Init /\ LC!Init

RunsBroker == program = "broker" /\ UNCHANGED <<program, logVars>>
RunsLog    == program = "log" /\ UNCHANGED <<program, vars>>

MCNext ==
  \/ RunsBroker /\ Next
  \/ RunsLog /\ LC!Next

\* Threads that have work run on, as in the two FairSpecs.
MCSpec ==
  /\ MCInit /\ [][MCNext]_allVars
  /\ \A w \in Workers : WF_allVars(RunsBroker /\ worker(w))
  /\ \A p \in Procs : /\ WF_allVars(RunsLog /\ LC!Add(p))
                      /\ WF_allVars(RunsLog /\ LC!enderThread(p))
  /\ \A c \in Polls : WF_allVars(RunsLog /\ LC!pollCall(c))

\* An entry of the log is in one place.
EachEntryOnce == LC!EachEntryOnce

\* The liveness properties of the program that runs: messages arrive; end times
\* are completed and polls come back.
MessagesArrive == program = "broker" => PublishedArrives
LogKeepsGoing  == program = "log" => LC!EndCompletes /\ LC!PollsEnd
=============================================================================
