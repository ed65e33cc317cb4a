-------------------------- MODULE WebServer_proofs --------------------------
(***************************************************************************)
(* Proofs about multithreaded-webserver-rust for every pool size and every *)
(* number of jobs: first lib.rs by itself, then main.rs on top of it.      *)
(* IInv ties the channel, the workers and the owner of the pool together:  *)
(* what the position of each says of the others.                           *)
(***************************************************************************)
EXTENDS WebServer, FiniteSetTheorems, TLAPS

\* What the position of worker w says of its job, of the owner and of the
\* channel.
WorkerInv(w) ==
  /\ wpc[w] = "running" <=> job[w] # 0
  /\ wpc[w] = "unborn" <=> w > spawned
  /\ w <= joined => wpc[w] = "done"
  /\ wpc[w] = "done" => queue = <<>> /\ ~sender

\* What the position of the owner says of the rest.
OwnerInv ==
  /\ owner = "new" => spawned < P /\ submitted = 0
  /\ owner # "new" => spawned = P
  /\ sender <=> owner \in {"new", "using"}
  /\ owner = "joining" => joined < P
  /\ owner = "dropped" => joined = P

\* What became of a job tells of a dead worker.
CrashInv ==
  /\ \A j \in Jobs : status[j] = "panicked" => \E w \in Workers : wpc[w] = "dead"
  /\ \A j \in Jobs : status[j] = "lost" => \A w \in Workers : wpc[w] = "dead"
  /\ owner \in {"aborted", "panicked"} => \E w \in Workers : wpc[w] = "dead"

IInv ==
  /\ TypeOK
  /\ LockOnlyToReceive
  /\ EachJobOnce
  /\ \A w \in Workers : WorkerInv(w)
  /\ OwnerInv
  /\ CrashInv

\* Before ThreadPool::new has created a worker the inductive invariant holds.
LEMMA InitIInv == Init => IInv
<1> SUFFICES ASSUME Init PROVE IInv
  OBVIOUS
<1> USE PAssumption, MaxJobsAssumption DEF Init, Workers, Jobs
<1>1. TypeOK
  <2>1. queue = <<>> /\ queue \in Seq(Jobs)
    OBVIOUS
  <2>2. wpc \in [Workers -> WorkerPCs] /\ job \in [Workers -> {0} \cup Jobs]
        /\ status \in [Jobs -> Statuses]
    BY DEF WorkerPCs, Statuses
  <2>3. /\ owner \in OwnerPCs /\ lock \in {0} \cup Workers
        /\ spawned \in 0 .. P /\ joined \in 0 .. P /\ submitted \in 0 .. MaxJobs
    BY DEF OwnerPCs
  <2>4. unwinding \in BOOLEAN /\ sender \in BOOLEAN
    OBVIOUS
  <2>5. QED BY <2>1, <2>2, <2>3, <2>4 DEF TypeOK
<1>2. EachJobOnce
  BY DEF EachJobOnce
<1>3. LockOnlyToReceive /\ OwnerInv /\ CrashInv /\ \A w \in Workers : WorkerInv(w)
  BY DEF LockOnlyToReceive, OwnerInv, CrashInv, WorkerInv
<1>4. QED BY <1>1, <1>2, <1>3 DEF IInv

\* EachJobOnce speaks of the channel, the jobs of the workers, their outcomes
\* and the number of jobs sent, and of nothing else.
LEMMA JobsUntouched ==
  ASSUME IInv, UNCHANGED <<queue, job, status, submitted>> PROVE EachJobOnce'
BY DEF IInv, EachJobOnce

\* Every step the owner takes preserves the inductive invariant.
LEMMA OwnerKeeps == IInv /\ OwnerStep => IInv'
<1> SUFFICES ASSUME IInv, OwnerStep PROVE IInv'
  OBVIOUS
<1> USE PAssumption, MaxJobsAssumption DEF Workers, Jobs, OwnerPCs, WorkerPCs, Statuses
<1>0. /\ TypeOK /\ LockOnlyToReceive /\ EachJobOnce /\ OwnerInv /\ CrashInv
      /\ \A w \in Workers : WorkerInv(w)
  BY DEF IInv
<1>1. CASE Spawn
  <2>1. /\ owner = "new" /\ spawned + 1 \in Workers /\ spawned' = spawned + 1
        /\ wpc[spawned + 1] = "unborn" /\ wpc' = [wpc EXCEPT ![spawned + 1] = "locking"]
        /\ owner' = IF spawned + 1 = P THEN "using" ELSE "new"
        /\ UNCHANGED <<joined, unwinding, sender, queue, lock, job, submitted, status>>
    BY <1>1, <1>0 DEF Spawn, Goto, OwnerInv, TypeOK
  <2>2. TypeOK' /\ OwnerInv'
    BY <2>1, <1>0 DEF TypeOK, OwnerInv
  <2>3. LockOnlyToReceive' /\ CrashInv'
    BY <2>1, <1>0 DEF TypeOK, LockOnlyToReceive, CrashInv
  <2>4. \A w \in Workers : WorkerInv(w)'
    BY <2>1, <1>0 DEF TypeOK, WorkerInv
  <2>5. QED BY <2>1, <2>2, <2>3, <2>4, JobsUntouched DEF IInv
<1>2. CASE Execute
  <2>1. /\ owner = "using" /\ submitted + 1 \in Jobs
        /\ submitted' = submitted + 1
        /\ queue' = Append(queue, submitted + 1)
        /\ status' = [status EXCEPT ![submitted + 1] = "queued"]
        /\ UNCHANGED <<owner, spawned, joined, unwinding, sender, lock, wpc, job>>
    BY <1>2, <1>0 DEF Execute, TypeOK, workerVars
  <2>2. TypeOK'
    BY <2>1, <1>0 DEF TypeOK
  <2>3. /\ Len(queue') = Len(queue) + 1 /\ Len(queue) \in Nat
        /\ \A k \in 1 .. Len(queue) : queue'[k] = queue[k]
        /\ queue'[Len(queue) + 1] = submitted + 1
        /\ DOMAIN queue = 1 .. Len(queue) /\ DOMAIN queue' = 1 .. Len(queue) + 1
    BY <2>1, <1>0 DEF TypeOK
  <2>4. EachJobOnce'
    <3>1. \A k \in DOMAIN queue' : queue'[k] = submitted' - Len(queue') + k
      BY <2>1, <2>3, <1>0 DEF EachJobOnce, TypeOK
    <3>2. \A j \in Jobs : /\ status'[j] = "new" <=> j > submitted'
                          /\ status'[j] = "queued" <=> j \in submitted' - Len(queue') + 1 .. submitted'
      BY <2>1, <2>3, <1>0 DEF EachJobOnce, TypeOK
    <3>3. \A j \in Jobs : status'[j] = "running" <=> \E w \in Workers : job'[w] = j
      BY <2>1, <1>0 DEF EachJobOnce, TypeOK
    <3>4. QED BY <3>1, <3>2, <3>3, <2>1, <1>0 DEF EachJobOnce
  <2>5. \A w \in Workers : WorkerInv(w)'
    BY <2>1, <1>0 DEF WorkerInv, OwnerInv
  <2>6. OwnerInv' /\ CrashInv' /\ LockOnlyToReceive'
    BY <2>1, <1>0 DEF OwnerInv, CrashInv, LockOnlyToReceive, TypeOK
  <2>7. QED BY <2>2, <2>4, <2>5, <2>6 DEF IInv
<1>3. CASE SendFails \/ Leave
  <2>1. /\ owner = "using" /\ owner' = "joining" /\ sender' = FALSE /\ unwinding' \in BOOLEAN
        /\ UNCHANGED <<spawned, joined, submitted, queue, status, lock, wpc, job>>
    BY <1>3 DEF SendFails, Leave, StartDrop, workerVars
  <2>2. joined < P
    BY <1>0, <2>1 DEF WorkerInv, OwnerInv, TypeOK
  <2>3. TypeOK' /\ OwnerInv' /\ CrashInv' /\ LockOnlyToReceive'
    BY <2>1, <2>2, <1>0 DEF TypeOK, OwnerInv, CrashInv, LockOnlyToReceive
  <2>4. \A w \in Workers : WorkerInv(w)'
    BY <2>1, <1>0 DEF WorkerInv
  <2>5. QED BY <2>1, <2>3, <2>4, JobsUntouched DEF IInv
<1>4. CASE Join
  <2>1. /\ owner = "joining" /\ joined + 1 \in Workers /\ wpc[joined + 1] = "done"
        /\ joined' = joined + 1 /\ owner' = IF joined + 1 = P THEN "dropped" ELSE "joining"
        /\ UNCHANGED <<spawned, unwinding, sender, submitted, queue, status, lock, wpc, job>>
    BY <1>4, <1>0 DEF Join, workerVars, OwnerInv, TypeOK
  <2>2. TypeOK' /\ OwnerInv' /\ CrashInv' /\ LockOnlyToReceive'
    BY <2>1, <1>0 DEF TypeOK, OwnerInv, CrashInv, LockOnlyToReceive
  <2>3. \A w \in Workers : WorkerInv(w)'
    BY <2>1, <1>0 DEF WorkerInv, TypeOK
  <2>4. QED BY <2>1, <2>2, <2>3, JobsUntouched DEF IInv
<1>5. CASE JoinPanics
  <2>1. /\ owner = "joining" /\ joined + 1 \in Workers /\ wpc[joined + 1] = "dead"
        /\ owner' \in {"aborted", "panicked"}
        /\ UNCHANGED <<spawned, joined, unwinding, sender, submitted, queue, status, lock, wpc, job>>
    BY <1>5, <1>0 DEF JoinPanics, workerVars, OwnerInv, TypeOK
  <2>2. TypeOK' /\ OwnerInv' /\ CrashInv' /\ LockOnlyToReceive'
    BY <2>1, <1>0 DEF TypeOK, OwnerInv, CrashInv, LockOnlyToReceive
  <2>3. \A w \in Workers : WorkerInv(w)'
    BY <2>1, <1>0 DEF WorkerInv
  <2>4. QED BY <2>1, <2>2, <2>3, JobsUntouched DEF IInv
<1>6. QED BY <1>1, <1>2, <1>3, <1>4, <1>5 DEF OwnerStep

\* A worker that starts or ends a job moves its number between the channel,
\* the workers and the outcomes without losing or repeating it.
LEMMA WorkerKeeps == IInv /\ (\E w \in Workers : worker(w)) => IInv'
<1> SUFFICES ASSUME IInv, NEW w \in Workers, worker(w) PROVE IInv'
  OBVIOUS
<1> USE PAssumption, MaxJobsAssumption DEF Workers, Jobs, OwnerPCs, WorkerPCs, Statuses, Goto
<1>0. /\ TypeOK /\ LockOnlyToReceive /\ EachJobOnce /\ OwnerInv /\ CrashInv
      /\ \A v \in Workers : WorkerInv(v)
  BY DEF IInv
<1>1. CASE Lock(w)
  <2>1. /\ wpc[w] = "locking" /\ wpc' = [wpc EXCEPT ![w] = "receiving"]
        /\ lock = 0 /\ lock' = w
        /\ UNCHANGED <<owner, spawned, joined, unwinding, sender, submitted, queue, job, status>>
    BY <1>1 DEF Lock, ownerVars
  <2>2. TypeOK' /\ OwnerInv' /\ CrashInv' /\ LockOnlyToReceive'
    BY <2>1, <1>0 DEF TypeOK, OwnerInv, CrashInv, LockOnlyToReceive
  <2>3. \A v \in Workers : WorkerInv(v)'
    BY <2>1, <1>0 DEF WorkerInv, TypeOK
  <2>4. QED BY <2>1, <2>2, <2>3, JobsUntouched DEF IInv
<1>2. CASE Disconnect(w)
  <2>1. /\ wpc[w] = "receiving" /\ wpc' = [wpc EXCEPT ![w] = "done"]
        /\ queue = <<>> /\ ~sender /\ lock' = 0
        /\ UNCHANGED <<owner, spawned, joined, unwinding, sender, submitted, queue, job, status>>
    BY <1>2 DEF Disconnect, ownerVars
  <2>2. TypeOK' /\ OwnerInv' /\ CrashInv' /\ LockOnlyToReceive'
    BY <2>1, <1>0 DEF TypeOK, OwnerInv, CrashInv, LockOnlyToReceive
  <2>3. \A v \in Workers : WorkerInv(v)'
    BY <2>1, <1>0 DEF WorkerInv, TypeOK
  <2>4. QED BY <2>1, <2>2, <2>3, JobsUntouched DEF IInv
<1>3. CASE Receive(w)
  <2> DEFINE h == Head(queue)
  <2>1. /\ wpc[w] = "receiving" /\ wpc' = [wpc EXCEPT ![w] = "running"]
        /\ queue # <<>> /\ queue' = Tail(queue) /\ lock' = 0
        /\ job' = [job EXCEPT ![w] = h] /\ status' = [status EXCEPT ![h] = "running"]
        /\ UNCHANGED <<owner, spawned, joined, unwinding, sender, submitted>>
    BY <1>3 DEF Receive, ownerVars
  <2>2. /\ Len(queue) \in Nat \ {0} /\ Len(queue') = Len(queue) - 1
        /\ DOMAIN queue = 1 .. Len(queue) /\ DOMAIN queue' = 1 .. Len(queue) - 1
        /\ h = queue[1] /\ h \in Jobs
        /\ \A k \in 1 .. Len(queue) - 1 : queue'[k] = queue[k + 1]
        /\ queue' \in Seq(Jobs)
    BY <2>1, <1>0 DEF TypeOK
  <2>3. h = submitted - Len(queue) + 1 /\ status[h] = "queued"
    <3>1. 1 \in DOMAIN queue /\ submitted \in Nat
      BY <2>2, <1>0 DEF TypeOK
    <3>2. h = submitted - Len(queue) + 1
      BY <2>2, <3>1, <1>0 DEF EachJobOnce
    <3>3. h \in submitted - Len(queue) + 1 .. submitted
      BY <2>2, <3>1, <3>2
    <3>4. QED BY <2>2, <3>2, <3>3, <1>0 DEF EachJobOnce
  <2>4. TypeOK'
    BY <2>1, <2>2, <1>0 DEF TypeOK
  <2>5. job[w] = 0 /\ \A v \in Workers : job[v] # h
    BY <2>1, <2>2, <2>3, <1>0 DEF WorkerInv, EachJobOnce
  <2>6. EachJobOnce'
    <3>1. ASSUME NEW k \in DOMAIN queue' PROVE queue'[k] = submitted' - Len(queue') + k
      <4>0. submitted \in Nat
        BY <1>0 DEF TypeOK
      <4>1. k \in 1 .. Len(queue) - 1 /\ k + 1 \in DOMAIN queue
        BY <2>2
      <4>2. queue[k + 1] = submitted - Len(queue) + (k + 1)
        BY <4>1, <1>0 DEF EachJobOnce
      <4>3. QED BY <4>0, <4>1, <4>2, <2>1, <2>2
    <3>2. \A j \in Jobs : /\ status'[j] = "new" <=> j > submitted'
                          /\ status'[j] = "queued" <=> j \in submitted' - Len(queue') + 1 .. submitted'
      BY <2>1, <2>2, <2>3, <1>0 DEF EachJobOnce, TypeOK
    <3>3. \A j \in Jobs : status'[j] = "running" <=> \E v \in Workers : job'[v] = j
      BY <2>1, <2>2, <2>5, <1>0 DEF EachJobOnce, TypeOK
    <3>4. \A u, v \in Workers : job'[u] = job'[v] /\ job'[u] # 0 => u = v
      BY <2>1, <2>5, <1>0 DEF EachJobOnce, TypeOK
    <3>5. QED BY <3>1, <3>2, <3>3, <3>4 DEF EachJobOnce
  <2>7. \A v \in Workers : WorkerInv(v)'
    BY <2>1, <2>2, <1>0 DEF WorkerInv, TypeOK
  <2>8. OwnerInv' /\ CrashInv' /\ LockOnlyToReceive'
    BY <2>1, <2>2, <1>0 DEF TypeOK, OwnerInv, CrashInv, LockOnlyToReceive
  <2>9. QED BY <2>4, <2>6, <2>7, <2>8 DEF IInv
<1>4. CASE Finish(w)
  <2>1. /\ wpc[w] = "running" /\ wpc' = [wpc EXCEPT ![w] = "locking"]
        /\ status' = [status EXCEPT ![job[w]] = "finished"] /\ job' = [job EXCEPT ![w] = 0]
        /\ UNCHANGED <<owner, spawned, joined, unwinding, sender, submitted, queue, lock>>
    BY <1>4 DEF Finish, ownerVars
  <2>2. job[w] \in Jobs /\ status[job[w]] = "running" /\ \A v \in Workers \ {w} : job[v] # job[w]
    BY <2>1, <1>0 DEF WorkerInv, EachJobOnce, TypeOK
  <2>3. TypeOK' /\ OwnerInv' /\ CrashInv' /\ LockOnlyToReceive'
    BY <2>1, <2>2, <1>0 DEF TypeOK, OwnerInv, CrashInv, LockOnlyToReceive
  <2>4. EachJobOnce'
    BY <2>1, <2>2, <1>0 DEF EachJobOnce, TypeOK
  <2>5. \A v \in Workers : WorkerInv(v)'
    BY <2>1, <1>0 DEF WorkerInv, TypeOK
  <2>6. QED BY <2>3, <2>4, <2>5 DEF IInv
<1>5. CASE Panic(w)
  <2> DEFINE last == ~\E v \in Workers \ {w} : Alive(v)
  <2>1. /\ wpc[w] = "running" /\ wpc' = [wpc EXCEPT ![w] = "dead"]
        /\ queue' = (IF last THEN <<>> ELSE queue)
        /\ status' = [j \in Jobs |-> IF j = job[w] THEN "panicked"
                       ELSE IF last /\ status[j] = "queued" THEN "lost" ELSE status[j]]
        /\ job' = [job EXCEPT ![w] = 0]
        /\ UNCHANGED <<owner, spawned, joined, unwinding, sender, submitted, lock>>
    BY <1>5 DEF Panic, ownerVars
  <2>2. job[w] \in Jobs /\ status[job[w]] = "running" /\ \A v \in Workers \ {w} : job[v] # job[w]
    BY <2>1, <1>0 DEF WorkerInv, EachJobOnce, TypeOK
  <2>3. TypeOK'
    <3>1. queue' \in Seq(Jobs)
      <4>1. CASE last
        BY <2>1, <4>1
      <4>2. CASE ~last
        BY <2>1, <4>2, <1>0 DEF TypeOK
      <4>3. QED BY <4>1, <4>2
    <3>2. status' \in [Jobs -> Statuses]
      BY <2>1, <1>0 DEF TypeOK
    <3>3. wpc' \in [Workers -> WorkerPCs] /\ job' \in [Workers -> {0} \cup Jobs]
      BY <2>1, <1>0 DEF TypeOK
    <3>4. QED BY <2>1, <3>1, <3>2, <3>3, <1>0 DEF TypeOK
  <2>4. EachJobOnce'
    <3>1. \A j \in Jobs : status'[j] = "running" <=> \E v \in Workers : job'[v] = j
      BY <2>1, <2>2, <1>0 DEF EachJobOnce, TypeOK
    <3>2. \A u, v \in Workers : job'[u] = job'[v] /\ job'[u] # 0 => u = v
      BY <2>1, <1>0 DEF EachJobOnce, TypeOK
    <3>3. \A j \in Jobs : status'[j] = "new" <=> j > submitted'
      BY <2>1, <2>2, <1>0 DEF EachJobOnce, TypeOK
    <3>4. CASE last
      <4>1. queue' = <<>> /\ Len(queue') = 0 /\ DOMAIN queue' = {}
        BY <2>1, <3>4
      <4>2. \A j \in Jobs : status'[j] # "queued"
        BY <2>1, <3>4
      <4>3. submitted' - 0 + 1 .. submitted' = {}
        <5>1. submitted' \in Nat
          BY <2>3 DEF TypeOK
        <5>2. \A n \in Nat : \A x : x \notin n - 0 + 1 .. n
          OBVIOUS
        <5>3. QED BY <5>1, <5>2
      <4>4. QED BY <3>1, <3>2, <3>3, <4>1, <4>2, <4>3 DEF EachJobOnce
    <3>5. CASE ~last
      <4>1. queue' = queue /\ \A j \in Jobs : status'[j] = "queued" <=> status[j] = "queued"
        BY <2>1, <2>2, <3>5
      <4>2. QED BY <2>1, <3>1, <3>2, <3>3, <4>1, <1>0 DEF EachJobOnce
    <3>6. QED BY <3>4, <3>5
  <2>5. \A v \in Workers : WorkerInv(v)'
    BY <2>1, <1>0 DEF WorkerInv, TypeOK
  <2>6. OwnerInv' /\ LockOnlyToReceive'
    BY <2>1, <1>0 DEF TypeOK, OwnerInv, LockOnlyToReceive
  <2>7. CrashInv'
    <3>1. wpc'[w] = "dead"
      BY <2>1, <1>0 DEF TypeOK
    <3>2. ASSUME NEW j \in Jobs, status'[j] = "lost" PROVE \A v \in Workers : wpc'[v] = "dead"
      <4>1. status[j] # "lost"
        BY <2>1, <1>0 DEF CrashInv
      <4>2. last /\ status[j] = "queued"
        BY <2>1, <3>2, <4>1
      <4>3. queue # <<>> /\ submitted # 0
        BY <4>2, <1>0 DEF EachJobOnce, TypeOK
      <4>4. \A v \in Workers : wpc[v] # "unborn" /\ wpc[v] # "done"
        BY <4>3, <1>0 DEF WorkerInv, OwnerInv
      <4>5. \A v \in Workers \ {w} : wpc[v] = "dead"
        BY <4>2, <4>4, <1>0 DEF Alive, TypeOK
      <4>6. QED BY <2>1, <3>1, <4>5, <1>0 DEF TypeOK
    <3>3. QED BY <2>1, <3>1, <3>2, <1>0 DEF CrashInv
  <2>8. QED BY <2>3, <2>4, <2>5, <2>6, <2>7 DEF IInv
<1>6. QED BY <1>1, <1>2, <1>3, <1>4, <1>5 DEF worker

\* Every step preserves the inductive invariant.
LEMMA StepKeeps == IInv /\ [Next]_vars => IInv'
<1>1. IInv /\ UNCHANGED vars => IInv'
  BY DEF vars, IInv, TypeOK, LockOnlyToReceive, EachJobOnce, WorkerInv, OwnerInv, CrashInv
<1>2. QED BY <1>1, OwnerKeeps, WorkerKeeps DEF Next

\* IInv holds in every reachable state of the pool.
LEMMA Invariance == Spec => []IInv
BY StepKeeps, InitIInv, PTL DEF Spec

-----------------------------------------------------------------------------
\* For any pool size the Mutex of the receiver is held only to receive.
THEOREM NoLockWhileRunning == Spec => []LockOnlyToReceive
<1>1. IInv => LockOnlyToReceive
  BY DEF IInv
<1>2. QED BY <1>1, Invariance, PTL

\* For any pool size and number of jobs, every job sent is in the channel in
\* order, run by exactly one worker, or over.
THEOREM JobsNeitherLostNorRepeated == Spec => []EachJobOnce
<1>1. IInv => EachJobOnce
  BY DEF IInv
<1>2. QED BY <1>1, Invariance, PTL

\* In a dropped pool every worker is done, so the channel is empty.
LEMMA DrainedWhenDropped == IInv => DropDrains
<1> SUFFICES ASSUME IInv, owner = "dropped", NEW j \in 1 .. submitted
             PROVE  status[j] = "finished"
  BY DEF DropDrains
<1>1. 1 \in Workers /\ \A w \in Workers : wpc[w] = "done" /\ job[w] = 0
  BY PAssumption DEF IInv, WorkerInv, OwnerInv, Workers
<1>2. queue = <<>> /\ Len(queue) = 0
  BY <1>1 DEF IInv, WorkerInv
<1>3. j \in Jobs /\ submitted \in Nat /\ status[j] \in Statuses
  BY MaxJobsAssumption DEF IInv, TypeOK, Jobs
<1>4. status[j] \notin {"new", "queued", "running"}
  BY <1>1, <1>2, <1>3 DEF IInv, EachJobOnce, Jobs
<1>5. status[j] \notin {"panicked", "lost"}
  BY <1>1, <1>3 DEF IInv, CrashInv
<1>6. QED BY <1>3, <1>4, <1>5 DEF Statuses

\* For any pool size and number of jobs, a pool dropped without a panic has
\* run every job it was given.
THEOREM DroppedPoolIsDrained == Spec => []DropDrains
BY DrainedWhenDropped, Invariance, PTL

\* For any pool size, jobs are lost only when every worker has been killed.
THEOREM OnlyADeadPoolLosesJobs == Spec => []LossNeedsDeadPool
<1>1. IInv => LossNeedsDeadPool
  BY DEF IInv, CrashInv, LossNeedsDeadPool, Crashed
<1>2. QED BY <1>1, Invariance, PTL

-----------------------------------------------------------------------------
(* The refinement of JobQueue: slots are counted by the workers alive.     *)

Busy        == {w \in Workers : wpc[w] = "running"}
RunningJobs == {j \in Jobs : status[j] = "running"}

\* There are P workers.
LEMMA WorkersCounted == IsFiniteSet(Workers) /\ Cardinality(Workers) = P
BY FS_Interval, PAssumption DEF Workers

\* The dead workers can be counted, and are P only if they are all.
LEMMA CrashedCounted ==
  /\ IsFiniteSet(Crashed)
  /\ Cardinality(Crashed) \in 0 .. P
  /\ Cardinality(Crashed) = P => Crashed = Workers
<1>1. Crashed \in SUBSET Workers
  BY DEF Crashed
<1>2. IsFiniteSet(Crashed) /\ Cardinality(Crashed) \in Nat /\ Cardinality(Crashed) <= P
  BY <1>1, WorkersCounted, FS_Subset, FS_CardinalityType
<1>3. Cardinality(Crashed) = P => Crashed = Workers
  BY <1>1, WorkersCounted, FS_Subset
<1>4. QED BY <1>2, <1>3, PAssumption

\* No more jobs run than workers are busy.
LEMMA RunningCounted ==
  ASSUME IInv
  PROVE  /\ IsFiniteSet(RunningJobs) /\ IsFiniteSet(Busy)
         /\ Cardinality(RunningJobs) <= Cardinality(Busy)
<1> DEFINE f == [w \in Busy |-> job[w]]
<1>1. IsFiniteSet(Busy)
  <2>1. Busy \in SUBSET Workers
    BY DEF Busy
  <2>2. QED BY <2>1, WorkersCounted, FS_Subset
<1>2. f \in Surjection(Busy, RunningJobs)
  <2>1. \A w \in Busy : job[w] \in RunningJobs
    BY DEF IInv, TypeOK, WorkerInv, EachJobOnce, Busy, RunningJobs, Jobs, Workers
  <2>2. ASSUME NEW j \in RunningJobs PROVE \E w \in Busy : f[w] = j
    <3>1. PICK w \in Workers : job[w] = j
      BY DEF IInv, EachJobOnce, RunningJobs
    <3>2. j # 0
      BY MaxJobsAssumption DEF RunningJobs, Jobs
    <3>3. w \in Busy
      BY <3>1, <3>2 DEF IInv, WorkerInv, Busy
    <3>4. QED BY <3>1, <3>3
  <2>3. f \in [Busy -> RunningJobs]
    BY <2>1
  <2>4. QED BY <2>2, <2>3 DEF Surjection
<1>3. QED BY <1>1, <1>2, FS_Surjection

\* The initial states of the pool are initial states of the queue of jobs.
LEMMA InitRefines == Init => JQ!Init
<1> SUFFICES ASSUME Init PROVE JQ!Init
  OBVIOUS
<1>1. {j \in Jobs : status[j] = "running"} = {}
  BY DEF Init
<1>2. Crashed = {}
  BY DEF Init, Crashed
<1>3. Cardinality(Crashed) = 0
  BY <1>2, FS_EmptySet
<1>4. QED BY <1>1, <1>3, PAssumption DEF Init, JQ!Init

\* A step that leaves the channel, the jobs and the dead workers alone and does
\* not end in a dropped pool stutters.
LEMMA Stutters ==
  ASSUME UNCHANGED <<queue, status, submitted>>, UNCHANGED Crashed,
         owner' = "dropped" <=> owner = "dropped"
  PROVE  UNCHANGED JQ!qvars
BY DEF JQ!qvars

\* What the owner does submits a job, closes the queue, or stutters.
LEMMA OwnerRefines == IInv /\ OwnerStep => [JQ!Next]_(JQ!qvars)
<1> SUFFICES ASSUME IInv, OwnerStep PROVE JQ!Next \/ UNCHANGED JQ!qvars
  OBVIOUS
<1>0. TypeOK /\ EachJobOnce /\ OwnerInv /\ \A w \in Workers : WorkerInv(w)
  BY DEF IInv
<1>1. CASE Spawn
  <2>1. /\ spawned + 1 \in Workers /\ wpc[spawned + 1] = "unborn"
        /\ wpc' = [wpc EXCEPT ![spawned + 1] = "locking"]
        /\ owner = "new" /\ owner' \in {"using", "new"}
        /\ UNCHANGED <<queue, status, submitted>>
    BY <1>1, <1>0, PAssumption DEF Spawn, Goto, OwnerInv, TypeOK, Workers
  <2>2. Crashed' = Crashed
    BY <2>1, <1>0 DEF Crashed, TypeOK
  <2>3. QED BY <2>1, <2>2, Stutters
<1>2. CASE Execute
  <2>1. /\ owner = "using" /\ owner' = "using" /\ wpc' = wpc
        /\ queue' = Append(queue, submitted + 1) /\ submitted' = submitted + 1
        /\ status' = [status EXCEPT ![submitted + 1] = "queued"]
        /\ submitted + 1 \in Jobs /\ \E w \in Workers : Alive(w)
    BY <1>2, <1>0, MaxJobsAssumption DEF Execute, workerVars, TypeOK, Jobs
  <2>2. status[submitted + 1] = "new"
    BY <2>1, <1>0 DEF EachJobOnce, TypeOK
  <2>3. {j \in Jobs : status'[j] = "running"} = {j \in Jobs : status[j] = "running"}
    BY <2>1, <2>2, <1>0 DEF TypeOK
  <2>4. Crashed # Workers /\ Crashed' = Crashed
    BY <2>1 DEF Crashed, Alive
  <2>5. P - Cardinality(Crashed) > 0
    BY <2>4, CrashedCounted, PAssumption
  <2>6. submitted' + 1 = (submitted + 1) + 1
    BY <2>1
  <2>7. JQ!Submit
    BY <2>1, <2>3, <2>4, <2>5, <2>6 DEF JQ!Submit
  <2>8. QED BY <2>7 DEF JQ!Next
<1>3. CASE SendFails \/ Leave
  <2>1. owner = "using" /\ owner' = "joining" /\ UNCHANGED <<queue, status, submitted, wpc>>
    BY <1>3 DEF SendFails, Leave, StartDrop, workerVars
  <2>2. QED BY <2>1, Stutters DEF Crashed
<1>4. CASE Join
  <2>1. /\ owner = "joining" /\ wpc[joined + 1] = "done" /\ joined' = joined + 1
        /\ owner' = IF joined + 1 = P THEN "dropped" ELSE "joining"
        /\ UNCHANGED <<queue, status, submitted, wpc, job>>
    BY <1>4 DEF Join, workerVars
  <2>2. CASE joined + 1 = P
    <3>1. \A w \in Workers : wpc[w] = "done"
      BY <2>1, <2>2, <1>0, PAssumption DEF WorkerInv, TypeOK, Workers
    <3>2. queue = <<>>
      BY <3>1, <1>0, PAssumption DEF WorkerInv, Workers
    <3>3. \A w \in Workers : job[w] = 0
      BY <3>1, <1>0 DEF WorkerInv
    <3>4. {j \in Jobs : status[j] = "running"} = {}
      BY <3>3, <1>0, MaxJobsAssumption DEF EachJobOnce, Jobs
    <3>5. Crashed = {}
      BY <3>1 DEF Crashed
    <3>6. P - Cardinality(Crashed) = P
      BY <3>5, FS_EmptySet, PAssumption
    <3>7. Crashed' = Crashed
      BY <2>1 DEF Crashed
    <3>8. JQ!Close
      BY <2>1, <2>2, <3>2, <3>4, <3>6, <3>7 DEF JQ!Close
    <3>9. QED BY <3>8 DEF JQ!Next
  <2>3. CASE joined + 1 # P
    BY <2>1, <2>3, Stutters DEF Crashed
  <2>4. QED BY <2>2, <2>3
<1>5. CASE JoinPanics
  <2>1. /\ owner = "joining" /\ owner' \in {"aborted", "panicked"}
        /\ UNCHANGED <<queue, status, submitted, wpc>>
    BY <1>5 DEF JoinPanics, workerVars
  <2>2. QED BY <2>1, Stutters DEF Crashed
<1>6. QED BY <1>1, <1>2, <1>3, <1>4, <1>5 DEF OwnerStep

\* JobQueue counts its jobs as this module does.
LEMMA SameCardinality == \A S : JQ!Cardinality(S) = Cardinality(S)
BY DEF JQ!Cardinality, Cardinality

\* What a worker does starts, returns or crashes a job, or stutters.
LEMMA WorkerRefines ==
  ASSUME IInv, NEW w \in Workers, worker(w)
  PROVE  JQ!Next \/ UNCHANGED JQ!qvars
<1>0. /\ TypeOK /\ EachJobOnce /\ OwnerInv /\ LockOnlyToReceive
      /\ \A v \in Workers : WorkerInv(v)
  BY DEF IInv
<1>1. CASE Lock(w) \/ Disconnect(w)
  <2>1. /\ wpc[w] # "dead" /\ \E pc \in {"receiving", "done"} : wpc' = [wpc EXCEPT ![w] = pc]
        /\ UNCHANGED <<owner, queue, status, submitted>>
    BY <1>1 DEF Lock, Disconnect, Goto, ownerVars
  <2>2. Crashed' = Crashed
    BY <2>1, <1>0 DEF Crashed, TypeOK
  <2>3. QED BY <2>1, <2>2, Stutters
<1>2. CASE Receive(w)
  <2> DEFINE h == Head(queue)
  <2>1. /\ wpc[w] = "receiving" /\ wpc' = [wpc EXCEPT ![w] = "running"]
        /\ queue # <<>> /\ queue' = Tail(queue)
        /\ status' = [status EXCEPT ![h] = "running"]
        /\ UNCHANGED <<owner, submitted>>
    BY <1>2 DEF Receive, Goto, ownerVars
  <2>2. h \in Jobs
    BY <2>1, <1>0 DEF TypeOK
  <2>3. {j \in Jobs : status'[j] = "running"} = {j \in Jobs : status[j] = "running"} \cup {h}
    BY <2>1, <2>2, <1>0 DEF TypeOK
  <2>4. Crashed' = Crashed
    BY <2>1, <1>0 DEF Crashed, TypeOK
  <2>5. Cardinality({j \in Jobs : status[j] = "running"}) < P - Cardinality(Crashed)
    <3>1. w \notin Busy /\ Busy \cup {w} \in SUBSET (Workers \ Crashed)
      BY <2>1 DEF Busy, Crashed
    <3>2. /\ IsFiniteSet(Workers \ Crashed)
          /\ Cardinality(Workers \ Crashed) = P - Cardinality(Crashed)
      <4>1. Workers \cap Crashed = Crashed
        BY DEF Crashed
      <4>2. QED BY <4>1, WorkersCounted, FS_Difference
    <3>3. Cardinality(Busy \cup {w}) = Cardinality(Busy) + 1
      BY <3>1, RunningCounted, FS_AddElement
    <3>4. Cardinality(Busy) + 1 <= P - Cardinality(Crashed)
      BY <3>1, <3>2, <3>3, FS_Subset
    <3>5. Cardinality(RunningJobs) <= Cardinality(Busy)
      BY RunningCounted
    <3>6. Cardinality(RunningJobs) \in Nat /\ Cardinality(Busy) \in Nat
      BY RunningCounted, FS_CardinalityType
    <3>7. Cardinality(Crashed) \in Nat
      BY CrashedCounted, FS_CardinalityType
    <3>8. QED BY <3>4, <3>5, <3>6, <3>7, PAssumption DEF RunningJobs
  <2>6. JQ!Start
    BY <2>1, <2>3, <2>4, <2>5, SameCardinality DEF JQ!Start
  <2>7. QED BY <2>6 DEF JQ!Next
<1>3. CASE Finish(w)
  <2>1. /\ wpc[w] = "running" /\ wpc' = [wpc EXCEPT ![w] = "locking"]
        /\ status' = [status EXCEPT ![job[w]] = "finished"]
        /\ UNCHANGED <<owner, queue, submitted>>
    BY <1>3 DEF Finish, Goto, ownerVars
  <2>2. job[w] \in Jobs /\ status[job[w]] = "running"
    BY <2>1, <1>0 DEF WorkerInv, EachJobOnce, TypeOK
  <2>3. {j \in Jobs : status'[j] = "running"} = {j \in Jobs : status[j] = "running"} \ {job[w]}
    BY <2>1, <2>2, <1>0 DEF TypeOK
  <2>4. Crashed' = Crashed
    BY <2>1, <1>0 DEF Crashed, TypeOK
  <2>5. PICK j \in Jobs : j = job[w]
    BY <2>2
  <2>6. JQ!Return(j)
    BY <2>1, <2>2, <2>3, <2>4, <2>5 DEF JQ!Return
  <2>7. QED BY <2>2, <2>5, <2>6 DEF JQ!Next
<1>4. CASE Panic(w)
  <2> DEFINE last == ~\E v \in Workers \ {w} : Alive(v)
  <2>1. /\ wpc[w] = "running" /\ wpc' = [wpc EXCEPT ![w] = "dead"]
        /\ queue' = (IF last THEN <<>> ELSE queue)
        /\ status' = [j \in Jobs |-> IF j = job[w] THEN "panicked"
                       ELSE IF last /\ status[j] = "queued" THEN "lost" ELSE status[j]]
        /\ UNCHANGED <<owner, submitted>>
    BY <1>4 DEF Panic, Goto, ownerVars
  <2>2. job[w] \in Jobs /\ status[job[w]] = "running"
    BY <2>1, <1>0 DEF WorkerInv, EachJobOnce, TypeOK
  <2>3. {j \in Jobs : status'[j] = "running"} = {j \in Jobs : status[j] = "running"} \ {job[w]}
    BY <2>1, <2>2
  <2>4. Crashed' = Crashed \cup {w} /\ w \notin Crashed
    BY <2>1, <1>0 DEF Crashed, TypeOK
  <2>5. Cardinality(Crashed') = Cardinality(Crashed) + 1
    BY <2>4, CrashedCounted, FS_AddElement
  <2>6. P - Cardinality(Crashed') = (P - Cardinality(Crashed)) - 1
    BY <2>5, CrashedCounted, PAssumption
  <2>7. queue' = IF P - Cardinality(Crashed) = 1 THEN <<>> ELSE queue
    <3>1. CASE P - Cardinality(Crashed) = 1
      <4>1. IsFiniteSet(Crashed \cup {w}) /\ Cardinality(Crashed \cup {w}) = P
        BY <3>1, <2>4, <2>5, CrashedCounted, FS_AddElement, PAssumption
      <4>2. Crashed \cup {w} \in SUBSET Workers
        BY DEF Crashed
      <4>3. Crashed \cup {w} = Workers
        BY <4>1, <4>2, WorkersCounted, FS_Subset
      <4>4. last
        BY <4>3 DEF Crashed, Alive
      <4>5. QED BY <2>1, <3>1, <4>4
    <3>2. CASE P - Cardinality(Crashed) # 1 /\ last
      <4>1. PICK v \in Workers \ {w} : v \notin Crashed
        <5>1. SUFFICES ASSUME Workers \ {w} \subseteq Crashed PROVE FALSE
          OBVIOUS
        <5>2. Workers = Crashed \cup {w}
          BY <5>1 DEF Crashed
        <5>3. Cardinality(Workers) = Cardinality(Crashed) + 1
          BY <5>2, <2>4, <2>5
        <5>4. QED BY <5>3, <3>2, WorkersCounted, CrashedCounted, PAssumption
      <4>2. wpc[v] \in {"unborn", "done"}
        BY <4>1, <3>2, <1>0 DEF Crashed, Alive, TypeOK, WorkerPCs
      <4>3. submitted # 0
        BY <2>2, <1>0, MaxJobsAssumption DEF EachJobOnce, Jobs, TypeOK
      <4>4. wpc[v] # "unborn"
        BY <4>1, <4>3, <1>0, PAssumption DEF OwnerInv, WorkerInv, Workers
      <4>5. queue = <<>>
        BY <4>1, <4>2, <4>4, <1>0 DEF WorkerInv
      <4>6. QED BY <2>1, <4>5
    <3>3. CASE P - Cardinality(Crashed) # 1 /\ ~last
      BY <2>1, <3>3
    <3>4. QED BY <3>1, <3>2, <3>3
  <2>8. PICK j \in Jobs : j = job[w]
    BY <2>2
  <2>9. JQ!Crash(j)
    BY <2>1, <2>2, <2>3, <2>6, <2>7, <2>8 DEF JQ!Crash
  <2>10. QED BY <2>2, <2>8, <2>9 DEF JQ!Next
<1>5. QED BY <1>1, <1>2, <1>3, <1>4 DEF worker

\* For any pool size and number of jobs the pool is a queue of jobs with a slot
\* for every worker that is not dead.
THEOREM PoolImplementsJobQueue == Spec => ImplementsJobQueue
<1>1. IInv /\ [Next]_vars => [JQ!Next]_(JQ!qvars)
  <2> SUFFICES ASSUME IInv, [Next]_vars PROVE JQ!Next \/ UNCHANGED JQ!qvars
    OBVIOUS
  <2>1. CASE UNCHANGED vars
    BY <2>1, Stutters DEF vars, Crashed
  <2>2. QED BY <2>1, OwnerRefines, WorkerRefines DEF Next
<1>2. QED BY <1>1, InitRefines, Invariance, PTL DEF Spec, ImplementsJobQueue, JQ!Spec

-----------------------------------------------------------------------------
(* main.rs: connections and their answers.                                 *)

\* The pool's invariant, and an answer for each job that has returned.
SInv ==
  /\ IInv
  /\ resp \in [Jobs -> Seq(Responses)] /\ req \in [Jobs -> Requests]
  /\ \A j \in Jobs :
       IF status[j] = "finished" THEN resp[j] = <<Answer(req[j])>> ELSE resp[j] = <<>>

\* The server starts without answers.
LEMMA SInitInv == SInit => SInv
<1> SUFFICES ASSUME SInit PROVE SInv
  OBVIOUS
<1>1. IInv
  BY InitIInv DEF SInit
<1>2. <<>> \in Seq(Responses) /\ "GET /" \in Requests
  BY DEF Requests
<1>3. resp \in [Jobs -> Seq(Responses)] /\ req \in [Jobs -> Requests]
  BY <1>2 DEF SInit
<1>4. \A j \in Jobs : status[j] = "new" /\ resp[j] = <<>>
  BY DEF SInit, Init
<1>5. QED BY <1>1, <1>3, <1>4 DEF SInv

\* Whatever the server does is a step of its pool, or leaves it alone.
LEMMA ServerUsesPool == [SNext]_allVars => [Next]_vars
<1> SUFFICES ASSUME SNext PROVE Next \/ UNCHANGED vars
  BY DEF allVars
<1>1. CASE AcceptRefused \/ AcceptFails \/ PoolOnly
  BY <1>1 DEF AcceptRefused, AcceptFails, PoolOnly, OwnerStep, Next
<1>2. CASE \E r \in Requests : Accept(r)
  BY <1>2 DEF Accept, OwnerStep, Next
<1>3. ASSUME NEW w \in Workers, serverWorker(w) PROVE Next \/ UNCHANGED vars
  <2>1. worker(w) \/ UNCHANGED vars
    BY <1>3 DEF serverWorker, WorkerLoop, Begin, handle_connection, ReadLine, WakeUp, ReadFile,
                Respond, JobPanics, worker
  <2>2. QED BY <2>1 DEF Next
<1>4. QED BY <1>1, <1>2, <1>3 DEF SNext

\* No step of the server but Respond finishes a job or writes an answer.
LEMMA OnlyRespondAnswers ==
  ASSUME SInv, SNext, ~\E w \in Workers : Respond(w)
  PROVE  /\ resp' = resp
         /\ \A j \in Jobs : status'[j] = "finished" <=> status[j] = "finished"
         /\ \A j \in Jobs : status[j] = "finished" => req'[j] = req[j]
         /\ req' \in [Jobs -> Requests]
<1>0. TypeOK /\ EachJobOnce /\ \A w \in Workers : WorkerInv(w)
  BY DEF SInv, IInv
<1>1. CASE AcceptRefused \/ AcceptFails \/ PoolOnly
  BY <1>1 DEF AcceptRefused, AcceptFails, PoolOnly, SendFails, Leave, StartDrop, Spawn, Join, JoinPanics,
              serverVars, SInv
<1>2. ASSUME NEW r \in Requests, Accept(r)
      PROVE  /\ resp' = resp
             /\ \A j \in Jobs : status'[j] = "finished" <=> status[j] = "finished"
             /\ \A j \in Jobs : status[j] = "finished" => req'[j] = req[j]
             /\ req' \in [Jobs -> Requests]
  <2>1. /\ submitted + 1 \in Jobs /\ status' = [status EXCEPT ![submitted + 1] = "queued"]
        /\ req' = [req EXCEPT ![submitted + 1] = r] /\ resp' = resp
    BY <1>2, <1>0, MaxJobsAssumption DEF Accept, Execute, TypeOK, Jobs
  <2>2. status[submitted + 1] = "new"
    BY <2>1, <1>0 DEF EachJobOnce, TypeOK
  <2>3. QED BY <2>1, <2>2, <1>0 DEF TypeOK, SInv
<1>3. ASSUME NEW w \in Workers, serverWorker(w), ~Respond(w)
      PROVE  /\ resp' = resp /\ req' = req
             /\ \A j \in Jobs : status'[j] = "finished" <=> status[j] = "finished"
  <2>1. CASE WorkerLoop(w) \/ ReadLine(w) \/ WakeUp(w) \/ ReadFile(w)
    BY <2>1 DEF WorkerLoop, Lock, Disconnect, ReadLine, WakeUp, ReadFile, serverVars, vars
  <2>2. CASE Begin(w)
    <3>1. /\ queue # <<>> /\ status' = [status EXCEPT ![Head(queue)] = "running"]
          /\ resp' = resp /\ req' = req
      BY <2>2 DEF Begin, Receive
    <3>2. 1 \in DOMAIN queue /\ Head(queue) = queue[1] /\ Head(queue) \in Jobs /\ submitted \in Nat
          /\ Len(queue) \in Nat \ {0}
      BY <3>1, <1>0 DEF TypeOK
    <3>3. Head(queue) \in submitted - Len(queue) + 1 .. submitted
      <4>1. Head(queue) = submitted - Len(queue) + 1
        BY <3>2, <1>0 DEF EachJobOnce
      <4>2. QED BY <4>1, <3>2
    <3>4. status[Head(queue)] = "queued"
      BY <3>2, <3>3, <1>0 DEF EachJobOnce
    <3>5. QED BY <3>1, <3>2, <3>4, <1>0 DEF TypeOK
  <2>3. CASE JobPanics(w)
    <3>1. /\ Panic(w) /\ resp' = resp /\ req' = req
      BY <2>3 DEF JobPanics
    <3>2. job[w] \in Jobs /\ status[job[w]] = "running"
      BY <3>1, <1>0 DEF Panic, Goto, WorkerInv, EachJobOnce, TypeOK
    <3>3. QED BY <3>1, <3>2 DEF Panic
  <2>4. QED BY <1>3, <2>1, <2>2, <2>3 DEF serverWorker, handle_connection
<1>4. QED BY <1>1, <1>2, <1>3 DEF SNext, SInv

\* Every step of the server keeps the answers right.
LEMMA SNextInv == SInv /\ [SNext]_allVars => SInv'
<1> SUFFICES ASSUME SInv, [SNext]_allVars PROVE SInv'
  OBVIOUS
<1>0. TypeOK /\ EachJobOnce /\ \A w \in Workers : WorkerInv(w)
  BY DEF SInv, IInv
<1>1. IInv'
  BY ServerUsesPool, StepKeeps DEF SInv
<1>2. CASE UNCHANGED allVars
  BY <1>1, <1>2 DEF allVars, serverVars, vars, SInv
<1>3. ASSUME NEW w \in Workers, Respond(w) PROVE SInv'
  <2>1. /\ wpc[w] = "running" /\ status' = [status EXCEPT ![job[w]] = "finished"]
        /\ resp' = [resp EXCEPT ![job[w]] = Append(@, Answer(req[job[w]]))]
        /\ req' = req
    BY <1>3 DEF Respond, Finish, Goto
  <2>2. job[w] \in Jobs /\ status[job[w]] = "running"
    BY <2>1, <1>0 DEF WorkerInv, EachJobOnce, TypeOK
  <2>3. PICK a \in Responses : a = Answer(req[job[w]])
    BY <2>2 DEF SInv, Responses
  <2>4. resp[job[w]] = <<>> /\ Append(resp[job[w]], a) = <<a>> /\ <<a>> \in Seq(Responses)
    <3>1. resp[job[w]] = <<>>
      BY <2>2 DEF SInv
    <3>2. <<a>> \in Seq(Responses) /\ Append(<<>>, a) = <<a>>
      OBVIOUS
    <3>3. QED BY <3>1, <3>2
  <2>5. resp' = [resp EXCEPT ![job[w]] = <<a>>]
    BY <2>1, <2>3, <2>4
  <2>6. resp' \in [Jobs -> Seq(Responses)]
    BY <2>4, <2>5 DEF SInv
  <2>7. ASSUME NEW j \in Jobs
        PROVE  IF status'[j] = "finished" THEN resp'[j] = <<Answer(req[j])>> ELSE resp'[j] = <<>>
    <3>1. CASE j = job[w]
      BY <3>1, <2>1, <2>2, <2>3, <2>5, <1>0 DEF TypeOK, SInv
    <3>2. CASE j # job[w]
      BY <3>2, <2>1, <2>2, <2>5, <1>0 DEF TypeOK, SInv
    <3>3. QED BY <3>1, <3>2
  <2>8. QED BY <1>1, <2>1, <2>6, <2>7 DEF SInv
<1>4. CASE SNext /\ ~\E w \in Workers : Respond(w)
  BY <1>1, <1>4, OnlyRespondAnswers DEF SInv
<1>5. QED BY <1>2, <1>3, <1>4

\* For any pool size and number of connections, a connection is answered once
\* and as asked exactly when its job returned, and all of them are when the
\* pool has been dropped.
THEOREM AnswersAreRight == SSpec => []AnsweredAsAsked
<1>1. SSpec => []SInv
  BY SInitInv, SNextInv, PTL DEF SSpec
<1>2. SInv => AnsweredAsAsked
  <2> SUFFICES ASSUME SInv PROVE AnsweredAsAsked
    OBVIOUS
  <2>1. ASSUME owner = "dropped", NEW j \in 1 .. submitted PROVE resp[j] = <<Answer(req[j])>>
    <3>1. status[j] = "finished"
      BY <2>1, DrainedWhenDropped DEF SInv, DropDrains
    <3>2. j \in Jobs
      BY MaxJobsAssumption DEF SInv, IInv, TypeOK, Jobs
    <3>3. QED BY <3>1, <3>2 DEF SInv
  <2>2. QED BY <2>1 DEF SInv, AnsweredAsAsked
<1>3. QED BY <1>1, <1>2, PTL
=============================================================================
