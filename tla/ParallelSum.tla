---------------------------- MODULE ParallelSum -----------------------------
(***************************************************************************)
(* multi_thread_sum/multi_thread_sum.cpp: main cuts start .. end - 1 into  *)
(* one chunk for each thread; a thread sums its chunk by itself, adds the  *)
(* result to sum under mtx, and main joins all and prints sum.  The        *)
(* numbers are unsigned 64-bit integers: Modulus is 2^64 in the code.      *)
(***************************************************************************)
EXTENDS Integers, Sequences, Functions

CONSTANTS
  Ends,       \* the values of end to look at (10^10 in the code)
  Modulus,    \* the numbers are 0 .. Modulus - 1
  MaxThreads  \* bound on the argument of the program

VARIABLES
  end,      \* the range ends before it
  threads,  \* number_of_threads
  cstart,   \* where the next chunk starts
  chunk,    \* the start and end each created thread was given, in order
  step,     \* what each created thread does next
  own,      \* its ret_sum, and after Load the sum it will store
  sum, mtx, \* the shared sum, and whether mtx is locked
  stage     \* main: "create", "join", "printed" or "aborted"

vars == <<end, threads, cstart, chunk, step, own, sum, mtx, stage>>

start == 1

Created == DOMAIN chunk

\* The sum of first .. last - 1, as the program adds it up.
SumOf(first, last) ==
  SumFunctionOnSet([x \in first .. last - 1 |-> x], first .. last - 1) % Modulus

Init ==
  /\ end \in Ends /\ threads \in 0 .. MaxThreads
  /\ cstart = start
  /\ chunk = <<>> /\ step = <<>> /\ own = <<>>
  /\ sum = 0 /\ mtx = FALSE
  /\ stage = "create"

-----------------------------------------------------------------------------
(* main *)

\* The end of chunk i, counting from 0: (end * (i + 1)) / number_of_threads,
\* and the same with the division first.
BadChunkEnd(i) == (i + 1) * (end \div threads)
ChunkEnd(i)    == ((end * (i + 1)) % Modulus) \div threads

Create ==
  /\ stage = "create" /\ Len(chunk) < threads
  /\ LET cend == ChunkEnd(Len(chunk)) IN
       /\ chunk' = Append(chunk, <<cstart, cend>>)
       /\ cstart' = cend
  /\ step' = Append(step, "sum")
  /\ own' = Append(own, 0)
  /\ UNCHANGED <<end, threads, sum, mtx, stage>>

\* std::thread throws when there is no thread to be had, and the program ends.
CreateFails ==
  /\ stage = "create" /\ Len(chunk) < threads
  /\ stage' = "aborted"
  /\ UNCHANGED <<end, threads, cstart, chunk, step, own, sum, mtx>>

StartJoining ==
  /\ stage = "create" /\ Len(chunk) = threads
  /\ stage' = "join"
  /\ UNCHANGED <<end, threads, cstart, chunk, step, own, sum, mtx>>

\* The last join returns, and sum is printed.
Report ==
  /\ stage = "join" /\ \A i \in Created : step[i] = "done"
  /\ stage' = "printed"
  /\ UNCHANGED <<end, threads, cstart, chunk, step, own, sum, mtx>>

(* sum_function, in thread i *)

Move(i, from, to) ==
  /\ stage # "aborted" /\ step[i] = from
  /\ step' = [step EXCEPT ![i] = to]
  /\ UNCHANGED <<end, threads, cstart, chunk, stage>>

SumChunk(i) ==
  /\ Move(i, "sum", "lock")
  /\ own' = [own EXCEPT ![i] = SumOf(chunk[i][1], chunk[i][2])]
  /\ UNCHANGED <<sum, mtx>>

Lock(i) == Move(i, "lock", "load") /\ ~mtx /\ mtx' = TRUE /\ UNCHANGED <<own, sum>>

\* sum += ret_sum is a load and a store.
Load(i) ==
  /\ Move(i, "load", "store")
  /\ own' = [own EXCEPT ![i] = (sum + @) % Modulus]
  /\ UNCHANGED <<sum, mtx>>

Store(i)  == Move(i, "store", "unlock") /\ sum' = own[i] /\ UNCHANGED <<own, mtx>>
Unlock(i) == Move(i, "unlock", "done") /\ mtx' = FALSE /\ UNCHANGED <<own, sum>>

sum_function(i) == SumChunk(i) \/ Lock(i) \/ Load(i) \/ Store(i) \/ Unlock(i)

Next ==
  \/ Create \/ CreateFails \/ StartJoining \/ Report
  \/ \E i \in Created : sum_function(i)

Spec == Init /\ [][Next]_vars

-----------------------------------------------------------------------------
(* Properties *)

\* end * number_of_threads does not wrap around.
Fits == end * threads < Modulus

\* A printed sum is the sum of the whole range, with any number of threads
\* from one on (more threads than numbers too), as long as the products that
\* cut the range into chunks do not wrap around; sums may.
SumIsWhole ==
  stage = "printed" /\ threads > 0 /\ Fits => sum = SumOf(start, end)
=============================================================================
