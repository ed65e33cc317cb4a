----------------------------- MODULE WebServer ------------------------------
(***************************************************************************)
(* multithreaded-webserver-rust/src/main.rs: the accept loop of main hands *)
(* each connection to the thread pool, whose jobs run handle_connection.   *)
(* Connection j is job j of the pool; the pool's actions are ThreadPool's. *)
(***************************************************************************)
EXTENDS ThreadPool

VARIABLES
  req,   \* what the client of connection j sends
  resp,  \* the responses written on connection j
  at     \* where in handle_connection worker w is

serverVars == <<req, resp, at>>
allVars == <<vars, serverVars>>

\* "broken": end of stream before a line, or a line that is not UTF-8;
\* "silent": the client keeps the connection open and sends no line.
Requests == {"GET /", "GET /sleep", "other", "broken", "silent"}
Points   == {"idle", "reading", "sleeping", "opening", "writing"}

\* The match on the request line.
Answer(r) ==
  IF r \in {"GET /", "GET /sleep"}
  THEN [status |-> "200 OK", file |-> "hello.html"]
  ELSE [status |-> "404 NOT FOUND", file |-> "404.html"]

Responses == {Answer(r) : r \in Requests}

SInit ==
  /\ Init
  /\ req = [j \in Jobs |-> "GET /"]  \* meaningful for j <= submitted only
  /\ resp = [j \in Jobs |-> <<>>]
  /\ at = [w \in Workers |-> "idle"]

-----------------------------------------------------------------------------
(* main *)

\* The next stream of listener.incoming() is Ok, and execute takes it.
Accept(r) ==
  /\ Execute
  /\ req' = [req EXCEPT ![submitted'] = r]
  /\ UNCHANGED <<resp, at>>

\* It is Ok, and execute panics.
AcceptRefused == SendFails /\ UNCHANGED serverVars

\* It is Err, and stream.unwrap() panics: incoming() itself never ends.
AcceptFails == Leave /\ unwinding' /\ UNCHANGED serverVars

PoolOnly == (Spawn \/ Join \/ JoinPanics) /\ UNCHANGED serverVars

-----------------------------------------------------------------------------
(* handle_connection, run by worker w *)

Move(w, from, to) ==
  /\ at[w] = from
  /\ at' = [at EXCEPT ![w] = to]

Begin(w) == Receive(w) /\ Move(w, "idle", "reading") /\ UNCHANGED <<req, resp>>

\* lines().next() returns a line; /sleep sleeps before anything else.
ReadLine(w) ==
  /\ Running
  /\ at[w] = "reading" /\ req[job[w]] \notin {"broken", "silent"}
  /\ Move(w, "reading", IF req[job[w]] = "GET /sleep" THEN "sleeping" ELSE "opening")
  /\ UNCHANGED <<vars, req, resp>>

WakeUp(w)   == Running /\ Move(w, "sleeping", "opening") /\ UNCHANGED <<vars, req, resp>>
ReadFile(w) == Running /\ Move(w, "opening", "writing") /\ UNCHANGED <<vars, req, resp>>

\* The unwrap of the request line, of the file or of write_all panics.
JobPanics(w) ==
  /\ \/ at[w] = "reading" /\ req[job[w]] = "broken"
     \/ at[w] \in {"opening", "writing"}
  /\ Move(w, at[w], "idle")
  /\ Panic(w)
  /\ UNCHANGED <<req, resp>>

\* A response composed for the request another connection sent.
BadRespond(w) ==
  /\ Move(w, "writing", "idle")
  /\ Finish(w)
  /\ resp' = [resp EXCEPT ![job[w]] = Append(@, Answer(req[submitted]))]
  /\ UNCHANGED req

\* write_all succeeds and the job returns.
Respond(w) ==
  /\ Move(w, "writing", "idle")
  /\ Finish(w)
  /\ resp' = [resp EXCEPT ![job[w]] = Append(@, Answer(req[job[w]]))]
  /\ UNCHANGED req

WorkerLoop(w) == (Lock(w) \/ Disconnect(w)) /\ UNCHANGED serverVars

handle_connection(w) ==
  ReadLine(w) \/ WakeUp(w) \/ ReadFile(w) \/ Respond(w) \/ JobPanics(w)

serverWorker(w) == WorkerLoop(w) \/ Begin(w) \/ handle_connection(w)

SNext ==
  \/ AcceptRefused \/ AcceptFails \/ PoolOnly
  \/ \E r \in Requests : Accept(r)
  \/ \E w \in Workers : serverWorker(w)

SSpec == SInit /\ [][SNext]_allVars

\* As in the pool, except that a silent client keeps its worker forever.
SFairSpec ==
  /\ SSpec
  /\ WF_allVars(PoolOnly)
  /\ \A w \in Workers : WF_allVars(serverWorker(w))

-----------------------------------------------------------------------------
(* Properties *)

\* A connection is answered once, as its own request line asks, exactly when
\* its job returned, and one whose job panicked gets no answer at all.  When
\* main panics out of the accept loop and the pool is then joined without an
\* abort, every connection accepted before has been answered.
AnsweredAsAsked ==
  /\ \A j \in Jobs :
       IF status[j] = "finished" THEN resp[j] = <<Answer(req[j])>> ELSE resp[j] = <<>>
  /\ owner = "dropped" => \A j \in 1 .. submitted : resp[j] = <<Answer(req[j])>>

\* A worker is out of service when its job panicked or its client is silent.
OutOfService(w) ==
  \/ wpc[w] = "dead"
  \/ at[w] = "reading" /\ req[job[w]] = "silent"

\* An accepted connection is taken up, whatever a slow one is doing on another
\* worker, unless every worker is out of service or the process aborts.
TakenUp ==
  \A j \in Jobs :
    status[j] = "queued" ~>
      (status[j] # "queued" \/ ~Running \/ \A w \in Workers : OutOfService(w))

\* Once panics have used up the workers, the next connection does not end in
\* an error message: it aborts the process.
ExhaustedPoolAborts == (unwinding /\ Crashed = Workers) ~> owner = "aborted"

=============================================================================
