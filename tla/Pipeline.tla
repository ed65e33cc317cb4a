------------------------------ MODULE Pipeline ------------------------------
(***************************************************************************)
(* simple_shell/testing/pipeline.c: "ls -l | wc -l".  The program forks a  *)
(* child (left) and waits for it; the child makes a pipe, forks a child of *)
(* its own (right) and becomes ls with its output in the pipe, while right *)
(* becomes wc with its input from it.  Every fork and every exec may fail. *)
(* dup2 of two open descriptors does not fail.                             *)
(***************************************************************************)
EXTENDS Integers

CONSTANTS
  Lines,    \* what ls prints
  Capacity  \* of the pipe, in lines

VARIABLES
  does,     \* what each process does next
  fds,      \* its descriptors of the pipe: fd[READ], fd[WRITE], stdin, stdout
  pipe,     \* lines in the pipe
  printed,  \* lines ls has written
  counted,  \* lines wc has read
  shown,    \* what wc has printed
  missing   \* the commands that are not there to execute

vars == <<does, fds, pipe, printed, counted, shown, missing>>

Processes == {"top", "left", "right"}
Nothing   == -1

Command(p) == IF p = "left" THEN "ls" ELSE "wc"
\* The end of the pipe a stage works with, and the one it has no use for.
StdFd(p)  == IF p = "left" THEN "stdout" ELSE "stdin"
Unused(p) == IF p = "left" THEN "read" ELSE "write"

HasReader == \E p \in Processes : fds[p] \cap {"read", "stdin"} # {}
HasWriter == \E p \in Processes : fds[p] \cap {"write", "stdout"} # {}

Init ==
  /\ does = [p \in Processes |-> IF p = "top" THEN "fork" ELSE "unborn"]
  /\ fds = [p \in Processes |-> {}]
  /\ pipe = 0 /\ printed = 0 /\ counted = 0 /\ shown = Nothing
  /\ missing \in SUBSET {"ls", "wc"}

Data == <<pipe, printed, counted, shown, missing>>

Step(p, from, to) ==
  /\ does[p] = from
  /\ does' = [does EXCEPT ![p] = to]

\* A process ends, and the kernel closes what it has open.
Exit(p, from) ==
  /\ Step(p, from, "gone")
  /\ fds' = [fds EXCEPT ![p] = {}]

-----------------------------------------------------------------------------
(* main *)

\* fork: the child goes on with case 0, the parent with the default.
Fork(parent, becomes, child, starts) ==
  /\ does[parent] = "fork"
  /\ does' = [does EXCEPT ![parent] = becomes, ![child] = starts]
  /\ fds' = [fds EXCEPT ![child] = fds[parent]]
  /\ UNCHANGED Data

Start == Fork("top", "wait", "left", "pipe")

\* Without a child main only prints "Pipeline finished", as it does when the
\* child it waits for is gone.
StartFails == Exit("top", "fork") /\ UNCHANGED Data
Finish == does["left"] = "gone" /\ Exit("top", "wait") /\ UNCHANGED Data

(* pipeline *)

MakePipe ==
  /\ Step("left", "pipe", "fork")
  /\ fds' = [fds EXCEPT !["left"] = {"read", "write"}]
  /\ UNCHANGED Data

Divide == Fork("left", "redirect", "right", "redirect")
DivideFails == Exit("left", "fork") /\ UNCHANGED Data

\* close and dup2: the standard descriptor is the pipe from here on.
Redirect(p) ==
  /\ Step(p, "redirect", "close")
  /\ fds' = [fds EXCEPT ![p] = @ \cup {StdFd(p)}]
  /\ UNCHANGED Data

BadClose(p) == Step(p, "close", "exec") /\ UNCHANGED fds /\ UNCHANGED Data
Close(p) ==
  /\ Step(p, "close", "exec")
  /\ fds' = [fds EXCEPT ![p] = @ \ {Unused(p)}]
  /\ UNCHANGED Data

\* execvp: the command takes over, or pipeline returns to main, which falls
\* from case 0 into case -1 and prints "Pipeline finished" on its way out.
Exec(p) ==
  /\ Step(p, "exec", IF Command(p) \in missing THEN "message" ELSE "run")
  /\ UNCHANGED fds /\ UNCHANGED Data

\* The message of left is one line in the pipe; that of right is on the terminal.
MessageLeft ==
  /\ Exit("left", "message")
  /\ pipe' = IF HasReader THEN pipe + 1 ELSE pipe
  /\ UNCHANGED <<printed, counted, shown, missing>>

MessageRight == Exit("right", "message") /\ UNCHANGED Data

(* ls and wc *)

Write ==
  /\ does["left"] = "run" /\ printed < Lines
  /\ HasReader /\ pipe < Capacity
  /\ pipe' = pipe + 1 /\ printed' = printed + 1
  /\ UNCHANGED <<does, fds, counted, shown, missing>>

\* ls has printed everything, or SIGPIPE ends it.
StopWriting ==
  /\ printed = Lines \/ ~HasReader
  /\ Exit("left", "run") /\ UNCHANGED Data

Read ==
  /\ does["right"] = "run" /\ pipe > 0
  /\ pipe' = pipe - 1 /\ counted' = counted + 1
  /\ UNCHANGED <<does, fds, printed, shown, missing>>

\* The end of the file: nothing in the pipe and nobody who could write.
Count ==
  /\ pipe = 0 /\ ~HasWriter
  /\ Exit("right", "run")
  /\ shown' = counted
  /\ UNCHANGED <<pipe, printed, counted, missing>>

top      == Start \/ StartFails \/ Finish
stage(p) == Redirect(p) \/ Close(p) \/ Exec(p)
left     == MakePipe \/ Divide \/ DivideFails \/ stage("left") \/ MessageLeft \/ Write \/ StopWriting
right    == stage("right") \/ MessageRight \/ Read \/ Count

Next == top \/ left \/ right

Spec == Init /\ [][Next]_vars

\* The kernel keeps running all three processes.
FairSpec == Spec /\ WF_vars(top) /\ WF_vars(left) /\ WF_vars(right)

-----------------------------------------------------------------------------
(* Properties *)

AllGone == \A p \in Processes : does[p] \in {"unborn", "gone"}

\* Whatever fails, every process ends: neither wc waits for a writer nor ls
\* for a reader that will not come, however small the pipe.  And where wc ran
\* it has counted what was written: all of ls, or the message of the child
\* that could not become ls.
PipelineDelivers ==
  <>[](/\ AllGone
       /\ does["right"] = "gone" /\ "wc" \notin missing =>
            shown = IF "ls" \in missing THEN 1 ELSE Lines)
=============================================================================
