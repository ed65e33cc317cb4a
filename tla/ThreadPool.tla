----------------------------- MODULE ThreadPool -----------------------------
(***************************************************************************)
(* multithreaded-webserver-rust/src/lib.rs: an owner thread creates P      *)
(* worker threads, sends them jobs over one mpsc channel whose receiver    *)
(* they share behind a Mutex, and joins them when it drops the pool.  A    *)
(* job may panic, which ends its worker.  Jobs are numbered in the order   *)
(* of the calls of execute.                                                *)
(***************************************************************************)
EXTENDS Naturals, Sequences, FiniteSets

CONSTANTS
  P,       \* pool_size
  MaxJobs  \* bound on the calls of execute

ASSUME PAssumption == P \in Nat \ {0}  \* assert!(pool_size > 0)
ASSUME MaxJobsAssumption == MaxJobs \in Nat

VARIABLES
  owner,      \* where the thread that owns the pool is
  spawned,    \* workers created so far by ThreadPool::new
  joined,     \* workers joined so far by Drop::drop
  unwinding,  \* the owner runs Drop::drop while panicking
  sender,     \* the channel still has its Sender
  queue,      \* jobs in the channel
  lock,       \* the worker holding the Mutex of the receiver, or 0
  wpc,        \* where worker w is in its loop
  job,        \* the job worker w runs, or 0
  submitted,  \* number of jobs sent
  status      \* what became of job j

vars == <<owner, spawned, joined, unwinding, sender, queue, lock, wpc, job, submitted, status>>
ownerVars  == <<owner, spawned, joined, unwinding, sender, submitted>>
workerVars == <<lock, wpc, job>>

Workers == 1 .. P
Jobs    == 1 .. MaxJobs

OwnerPCs == {"new", "using", "joining", "dropped", "panicked", "aborted"}

\* "locking": about to lock the Mutex; "receiving": in recv() with the lock;
\* "done": broke out of the loop; "dead": its job panicked.
WorkerPCs == {"unborn", "locking", "receiving", "running", "done", "dead"}
Statuses  == {"new", "queued", "running", "finished", "panicked", "lost"}

\* A worker in its loop keeps its clone of the Arc of the receiver.
Alive(w) == wpc[w] \in {"locking", "receiving", "running"}
Running  == owner # "aborted"

Goto(w, from, to) ==
  /\ Running
  /\ wpc[w] = from
  /\ wpc' = [wpc EXCEPT ![w] = to]

-----------------------------------------------------------------------------
Init ==
  /\ owner = "new" /\ spawned = 0 /\ joined = 0 /\ unwinding = FALSE
  /\ sender = TRUE /\ queue = <<>> /\ lock = 0
  /\ wpc = [w \in Workers |-> "unborn"]
  /\ job = [w \in Workers |-> 0]
  /\ submitted = 0
  /\ status = [j \in Jobs |-> "new"]

(* The owner *)

\* ThreadPool::new: Worker::new for the next id; after the last it returns
\* and drops its own Arc of the receiver.
Spawn ==
  /\ owner = "new"
  /\ Goto(spawned + 1, "unborn", "locking")
  /\ spawned' = spawned + 1
  /\ owner' = IF spawned' = P THEN "using" ELSE "new"
  /\ UNCHANGED <<joined, unwinding, sender, queue, lock, job, submitted, status>>

\* execute: send succeeds while some worker keeps the receiver alive.
Execute ==
  /\ owner = "using" /\ submitted < MaxJobs
  /\ \E w \in Workers : Alive(w)
  /\ submitted' = submitted + 1
  /\ queue' = Append(queue, submitted + 1)
  /\ status' = [status EXCEPT ![submitted + 1] = "queued"]
  /\ UNCHANGED <<owner, spawned, joined, unwinding, sender, workerVars>>

\* The joins without dropping the Sender first.
BadStartDrop ==
  /\ owner' = "joining" /\ sender' = sender
  /\ UNCHANGED <<spawned, joined, submitted, queue, status, workerVars>>

\* Drop::drop starts: the Sender goes first, then the joins.
StartDrop ==
  /\ owner' = "joining" /\ sender' = FALSE
  /\ UNCHANGED <<spawned, joined, submitted, queue, status, workerVars>>

\* execute: the receiver is gone, send returns Err and unwrap panics; the
\* unwinding drops the pool.
SendFails ==
  /\ owner = "using" /\ submitted < MaxJobs
  /\ ~\E w \in Workers : Alive(w)
  /\ unwinding' = TRUE
  /\ StartDrop

\* The pool goes out of scope, normally or because its owner panicked.
Leave ==
  /\ owner = "using"
  /\ unwinding' \in BOOLEAN
  /\ StartDrop

\* A join that also accepts a worker whose thread panicked.
BadJoin ==
  /\ owner = "joining"
  /\ ~Alive(joined + 1)
  /\ joined' = joined + 1
  /\ owner' = IF joined' = P THEN "dropped" ELSE "joining"
  /\ UNCHANGED <<spawned, unwinding, sender, submitted, queue, status, workerVars>>

\* thread.join() returns Ok for the next worker in order.
Join ==
  /\ owner = "joining"
  /\ wpc[joined + 1] = "done"
  /\ joined' = joined + 1
  /\ owner' = IF joined' = P THEN "dropped" ELSE "joining"
  /\ UNCHANGED <<spawned, unwinding, sender, submitted, queue, status, workerVars>>

\* join() returns Err for a worker that panicked and unwrap panics: the other
\* workers stay unjoined, or the process aborts if the owner was unwinding.
JoinPanics ==
  /\ owner = "joining"
  /\ wpc[joined + 1] = "dead"
  /\ owner' = IF unwinding THEN "aborted" ELSE "panicked"
  /\ UNCHANGED <<spawned, joined, unwinding, sender, submitted, queue, status, workerVars>>

-----------------------------------------------------------------------------
(* The workers *)

Lock(w) ==
  /\ Goto(w, "locking", "receiving")
  /\ lock = 0 /\ lock' = w
  /\ UNCHANGED <<ownerVars, queue, job, status>>

\* The guard kept for the whole match, as `if let` would.
BadReceive(w) ==
  /\ Goto(w, "receiving", "running")
  /\ queue # <<>>
  /\ job' = [job EXCEPT ![w] = Head(queue)]
  /\ status' = [status EXCEPT ![Head(queue)] = "running"]
  /\ queue' = Tail(queue)
  /\ UNCHANGED <<ownerVars, lock>>

\* A receive that peeks at the job and leaves it in the channel.
BadPeek(w) ==
  /\ Goto(w, "receiving", "running")
  /\ queue # <<>>
  /\ job' = [job EXCEPT ![w] = Head(queue)]
  /\ status' = [status EXCEPT ![Head(queue)] = "running"]
  /\ lock' = 0
  /\ UNCHANGED <<ownerVars, queue>>

\* recv() returns a job; the guard is a temporary and unlocks at the end of
\* the statement, before the job runs.
Receive(w) ==
  /\ Goto(w, "receiving", "running")
  /\ queue # <<>>
  /\ job' = [job EXCEPT ![w] = Head(queue)]
  /\ status' = [status EXCEPT ![Head(queue)] = "running"]
  /\ queue' = Tail(queue)
  /\ lock' = 0
  /\ UNCHANGED ownerVars

\* The Sender's disappearance noticed before the rest of the channel is read.
BadDisconnect(w) ==
  /\ Goto(w, "receiving", "done")
  /\ ~sender
  /\ lock' = 0
  /\ UNCHANGED <<ownerVars, queue, job, status>>

\* recv() returns Err: the channel is empty and has no Sender.
Disconnect(w) ==
  /\ Goto(w, "receiving", "done")
  /\ queue = <<>> /\ ~sender
  /\ lock' = 0
  /\ UNCHANGED <<ownerVars, queue, job, status>>

\* The closure returns; the worker loops.
Finish(w) ==
  /\ Goto(w, "running", "locking")
  /\ status' = [status EXCEPT ![job[w]] = "finished"]
  /\ job' = [job EXCEPT ![w] = 0]
  /\ UNCHANGED <<ownerVars, queue, lock>>

\* The receiver owned by the panicking thread rather than shared.
BadPanic(w) ==
  /\ Goto(w, "running", "dead")
  /\ queue' = <<>>
  /\ status' = [j \in Jobs |-> IF j = job[w] THEN "panicked"
                              ELSE IF status[j] = "queued" THEN "lost" ELSE status[j]]
  /\ job' = [job EXCEPT ![w] = 0]
  /\ UNCHANGED <<ownerVars, lock>>

\* The closure panics: the thread ends and drops its clone of the Arc; the
\* last clone takes the receiver and the jobs still in the channel with it.
Panic(w) ==
  /\ Goto(w, "running", "dead")
  /\ LET last == ~\E v \in Workers \ {w} : Alive(v)
     IN /\ queue' = IF last THEN <<>> ELSE queue
        /\ status' = [j \in Jobs |->
             IF j = job[w] THEN "panicked"
             ELSE IF last /\ status[j] = "queued" THEN "lost" ELSE status[j]]
  /\ job' = [job EXCEPT ![w] = 0]
  /\ UNCHANGED <<ownerVars, lock>>

OwnerStep == Spawn \/ Execute \/ SendFails \/ Leave \/ Join \/ JoinPanics
worker(w) == Lock(w) \/ Receive(w) \/ Disconnect(w) \/ Finish(w) \/ Panic(w)

Next == OwnerStep \/ \E w \in Workers : worker(w)

Spec == Init /\ [][Next]_vars

\* Threads keep running, jobs return or panic, and join() returns once the
\* thread has ended.  The owner may stop calling execute, or never drop.
FairSpec ==
  /\ Spec
  /\ WF_vars(Spawn)
  /\ WF_vars(Join \/ JoinPanics)
  /\ \A w \in Workers : WF_vars(worker(w))

-----------------------------------------------------------------------------
(* Properties *)

TypeOK ==
  /\ owner \in OwnerPCs
  /\ spawned \in 0 .. P /\ joined \in 0 .. P
  /\ unwinding \in BOOLEAN /\ sender \in BOOLEAN
  /\ queue \in Seq(Jobs)
  /\ lock \in {0} \cup Workers
  /\ wpc \in [Workers -> WorkerPCs]
  /\ job \in [Workers -> {0} \cup Jobs]
  /\ submitted \in 0 .. MaxJobs
  /\ status \in [Jobs -> Statuses]

Crashed == {w \in Workers : wpc[w] = "dead"}

\* The Mutex of the receiver is held by a worker waiting in recv() and by no
\* other: never while a job runs, so the jobs run concurrently.
LockOnlyToReceive ==
  \A w \in Workers : lock = w <=> wpc[w] = "receiving"

\* Every job sent is in the channel, run by exactly one worker, or over; the
\* channel holds the youngest ones in the order of the calls of execute.
EachJobOnce ==
  /\ \A k \in DOMAIN queue : queue[k] = submitted - Len(queue) + k
  /\ \A j \in Jobs :
       /\ status[j] = "new" <=> j > submitted
       /\ status[j] = "queued" <=> j \in submitted - Len(queue) + 1 .. submitted
       /\ status[j] = "running" <=> \E w \in Workers : job[w] = j
  /\ \A v, w \in Workers : job[v] = job[w] /\ job[v] # 0 => v = w

\* A pool dropped without a panic has run every job it was given to its end.
DropDrains ==
  owner = "dropped" => \A j \in 1 .. submitted : status[j] = "finished"

\* A job sent is lost only with the last worker, and the process aborts only
\* if a job had killed a worker.
LossNeedsDeadPool ==
  /\ (\E j \in Jobs : status[j] = "lost") => Crashed = Workers
  /\ owner \in {"aborted", "panicked"} => Crashed # {}

\* Drop::drop comes to an end, by joining every worker or by panicking.
DropEnds == owner = "joining" ~> owner # "joining"

\* The pool behaves as a queue of jobs with a slot per worker that is not dead.
JQ == INSTANCE JobQueue WITH
        pending <- queue,
        running <- {j \in Jobs : status[j] = "running"},
        next    <- submitted + 1,
        slots   <- P - Cardinality(Crashed),
        closed  <- owner = "dropped"
ImplementsJobQueue == JQ!Spec
=============================================================================
