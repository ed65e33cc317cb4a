# A verification of Learning-Repo

Learning-Repo is a collection of small programs, most of them written to
understand one piece of concurrency: semaphores, a thread pool, a wait-free
counter, a data race, a group ledger used by several threads, a shell and its
processes. They share no code. This directory holds TLA+ models of them, and of
the sequential ones among them whose state is easy to get wrong (a skip list, a
trie with a growing buffer, an interpreter); the TLC runs that check the models
on small instances; and proofs, checked by TLAPS, of what holds for every value
of their constants.

- [Inventory](#inventory): the programs, their state, what makes them hard
- [Plan](#plan): the modules, in order, and what is left
- [The models](#the-models): each module beside its code, its properties, its
  bounds and its fairness
- [The runs](#the-runs)
- [The proofs](#the-proofs)
- [Where the code and its words differ](#where-the-code-and-its-words-differ)
- [What is not modelled](#what-is-not-modelled)

To check a run: `tlc -workers 2 -config <run>.cfg <Module>`. To check a proof:
`tlapm <Module>_proofs.tla`. `PROJECT.json` lists every run, what each
property would catch (`mutants`), which lines each definition stands for
(`map`) and the hazards the properties are for.

## Inventory

Paths are under `src/`. "Shared" is the state more than one thread touches.

| component | shared state | operations | what is hard | what makes it correct |
|---|---|---|---|---|
| `dining_philosophers/solution.c` | `state[]`, `forks[]`, `mutex` | `take_forks`, `put_forks`, `test` | three threads write what `test` reads; a semaphore that starts at 1 | no two neighbours EATING; nobody hungry is left asleep beside free forks; every meal is granted |
| `dining_philosophers/nonsolution.c` | `forks[]` | take and put two forks | circular wait | a fork is in one hand; only the circular wait stops it |
| `multithreaded-webserver-rust/src/lib.rs` | mpsc channel, `Mutex<Receiver>` | `new`, `execute`, `drop`, worker loop | panicking jobs, drop during unwinding, the last `Arc` of the receiver | every job once and in order, drop drains and ends |
| `multithreaded-webserver-rust/src/main.rs` | the pool | accept loop, `handle_connection` | slow and broken clients, an exhausted pool | each connection gets its own answer; one slow client does not stop the others |
| `wait_free_counter/counter.cpp` | one atomic word | `increment_if_not_zero`, `decrement`, `read` | `read` helps a `decrement` that is under way | zero is final, one decrement wins |
| `producer_consumer/semaphore_imple.c` | three semaphores, the (simulated) buffer | two loops | order of the waits | no overrun, no deadlock |
| `producer_consumer/fatal_race.c` | `count`, `producer_f`, `consumer_f` | two loops, sleep and wakeup | nothing is atomic | which race causes which failure |
| `lld/Splitwise.java` | log of expenses, `logPlayedTill`, debt graph | split*, `settleExpense`, `groupSummary`, `playLogs` | the log is replayed lazily by any thread; reads are outside the monitor; a share of 0 throws, a negative one is accepted | the graph is the sum of the log; a read is never stale |
| `lld/PubSubDemo.java` | `topicMap`, the executor's queue | createTopic, (un)subscribe, publish, close | tasks that submit tasks; rejection after shutdown | every copy accounted for once; who stays subscribed is served |
| `GoogleLogger/GoogleLogger.java` | map and priority queue of processes | `start`, `end`, `poll` | `end` may overtake `start`; the timeout of `poll` | an entry is in one place; `end` and `poll` complete |
| `deadlock_simulation/main.c` | two mutexes | lock in opposite orders, join, destroy | circular wait | both end with the mutexes free, or each holds one and wants the other |
| `multi_thread_sum/multi_thread_sum.cpp` | `sum`, `mtx` | cut into chunks, sum, join | chunk arithmetic in 64 bits; one sum for all threads | a printed sum is the sum of the range |
| `shared_Pointer/main.cpp` | a count per object | construct, copy, assign, destroy | assignment does not release | no owner of a deleted object; only assignment leaks |
| `simple_shell/*.c` | (processes) stdin, the directory | read, cd, fork, exec, wait | an exec that fails leaves a second shell; stdin is buffered, a read at a time, and fork copies the buffer | one process at work; how often a line runs |
| `simple_shell/testing/pipeline.c` | (processes) the pipe | pipe, fork, dup2, close, exec | a writing end left open anywhere; forks and execs that fail | every process ends, every line is counted |
| `trie_autocompletion/trie-autocompletion.c` | none | insert, prefix walk, depth-first print | one buffer for all the recursion, moved by realloc | all completions, once, in order |
| `Skiplist/Skiplist.java` | none | search, add, erase, toString | predecessors on every level, equal values | it is a multiset |
| `BrainFuckInterpreter/BrainFuck.java` | none | run | nested, skipped and repeated loops | the stack is the loops around the instruction |
| `rust/key_value_store.rs` | a map behind a `Mutex` | get, set, delete | little: one operation per lock | it is a map |
| `trie`, `haskell`, `Shank_bot`, `java/IOMonad.java`, `rust/reference_cycle.rs` | none: sequential or pure | | recursion | they compute what they say |
| `stock_ticker`, `github_like_contribution_chart`, `bhai_lang`, the other C programs | none worth the name | | | |

The programs interact nowhere; within a program the threads meet in the state
listed above. The web server is the one composition: its jobs run inside the
pool's workers, and `WebServer` EXTENDS `ThreadPool` and conjoins its actions.
Within the shell and the pipeline the actors are processes, and meet in a
terminal, a pipe and what fork copies.

## Plan

In order of importance. All of them are on disk; the last column says what is
proved and what is left to prove.

| | module | stands on | abstract specification | theorems |
|---|---|---|---|---|
| 1 | `DiningSolution` | | `Dining` | proved: types, exclusion, no missed wakeup, tokens, refinement for semaphores at 0 |
| 2 | `ThreadPool` | | `JobQueue` | proved: all its safety and the refinement |
| 3 | `WebServer` | `ThreadPool` | | proved: AnsweredAsAsked |
| 4 | `StickyCounter` | | `RefCount` | proved: all its safety and the refinement |
| 5 | `SemaphoreBuffer` | | `BoundedBuffer` | proved: balance, exclusion, refinement |
| 6 | `DiningNaive` | | `Dining` | proved: forks, circular wait, refinement |
| 7 | `FatalRace` | | | proved: all three |
| 8 | `Splitwise` | | | proved: the books, the settlements, one edge, fresh reads |
| 9 | `PubSub` | | | proved: EachCopyOnce |
| 10 | `LogClient` | | | proved: EachEntryOnce |
| 11 | `SharedPtr` | | | proved: the count |
| 12 | `LockOrder`, `Pipeline` | | | what is said of them is liveness |
| 13 | `Shell` | | | proved: OneAtWork, LinesDouble |
| 14 | `ParallelSum` | | | proved: SumIsWhole |
| 15 | `Skiplist` | | `Multiset` | left: the refinement |
| 16 | `Autocompletion` | | | proved: PrintsCompletions |
| 17 | `BrainFuck` | | | proved: LoopsNest |

Programs that ask for the same kind of look share a run. The module of such a
run (`MCDeadlocks`, `MCRefCounts`, `MCThreads`, `MCServices`, `MCSequential`)
EXTENDS one of them or instantiates them side by side; a
variable `program` is chosen in the initial state, one program takes its steps
and the others rest in an initial state. A step of program X is `RunsX /\ action`,
where `RunsX` leaves everything else alone, and the fairness of its threads is
`WF_allVars(RunsX /\ action)`, so that a program that rests owes no step. A
property of one program is an invariant of such a run as it stands, because a
program that rests satisfies it; liveness is stated under `program = "x" =>`.

## The models

Every model keeps one convention: `pc[t]` is the next thing thread t does, one
action is one access to shared state (or a critical section's single access),
and the code between two accesses belongs to the action before or after it.
Definitions named `Bad...` are plausible bugs; no specification uses them, and
each is there because a property must notice it.

### DiningSolution and Dining

`solution.c`. `state`, `forks`, `mutex` are the arrays and semaphores of the
code; `pc` walks each thread through `take_forks` (LockToTake, BecomeHungry,
TestSelf, UnlockTaken, WaitForks) and `put_forks` (LockToPut, PutDown,
TestLeft, TestRight, UnlockPut). `Create` is main's loop, which starts a
thread while others already run. `ForkInit` is the third argument of
`sem_init(&forks[i], 0, 1)`: the code has 1, the textbook 0, and the
difference is the finding below.

`Dining` is the table seen from outside: a set of eaters in which no two are
neighbours.

- *StateExclusion*: the array never says that two neighbours eat.
- *NoMissedTest*: with the mutex free, no hungry philosopher passes its test:
  the tests `put_forks` makes are all the tests that are needed.
- *TokenBalance*: what a philosopher's semaphore holds beyond its grants is at
  most what `sem_init` gave it; a meal nobody granted costs that token. This
  bounds the damage of the finding: one stray meal per token in hand.
- *SomebodyEats* (liveness) is the progress the threads' fairness supports.
  Nobody is promised a meal in person: two neighbours may take turns forever.
- *EatExclusion* is what the program is for, and fails (run `solution_eat`).

Bounds: N = 5 as in the code, for the passing run. Three philosophers are
enough for the violation.
Fairness: weak, per thread. The sleeps are bounded and a thread that can move
is scheduled. Nothing is assumed of `sem_wait` (no strong fairness), because
POSIX semaphores promise none.

### DiningNaive, LockOrder and MCDeadlocks

`nonsolution.c`: fork i first, then `(i + 1) % N`. *StuckIsCircularWait*
characterises the deadlock the program demonstrates, *ImplementsDining* says
that the program is safe, if not live; a fork is in one hand through every
partial step (`ForkConservation`, proved).

`deadlock_simulation/main.c` does the same with two mutexes and two threads,
and with a main that creates, joins and destroys. *CircularWaitOrProgress* is the
liveness the two programs have: somebody eats again and again, both takers of
the locks end and main with them, every mutex free when it is destroyed, or
everybody waits for a neighbour.

Bounds: N = 5. Fairness: weak, per thread; nothing strong is assumed of the
mutexes. Deadlock is not checked: both programs have one.

### ThreadPool, JobQueue and WebServer

`lib.rs`. The owner's `owner` goes through `new`, `using` (calls of
`execute`), `joining` (`Drop::drop`) and one of three ends: dropped,
panicked (the `unwrap` of a `join`), aborted (that panic during unwinding).
A worker locks the Mutex, receives with the lock held, and releases it *before*
it runs the job, because `receiver.lock().unwrap().recv()` makes the guard a
temporary of a `let` statement. A job that panics ends its worker (nothing
catches it); `Panic` of the last worker drops the receiver and the jobs still
in the channel with it. `execute` sends until then and panics from then on.
The channel, Mutex and Arc are the standard library's. Modelled from their use:
`recv` prefers queued jobs to the disconnection, `send` fails only without a
receiver.

`JobQueue` is what the owner is promised: jobs start in order, once, at most
one per slot; a panic costs a slot.

- *EachJobOnce*, *DropDrains*, *LossNeedsDeadPool*: a job in exactly one
  place; a normal drop has run everything; a loss or an abort takes dead workers.
- *ImplementsJobQueue*: jobs start in order, on a slot that is free.
- *DropEnds*: drop returns or panics, and never hangs. It fails if the Sender is
  not dropped first.

`WebServer` adds `req`, `resp` and the worker's position in
`handle_connection`. A client sends one of five things, "broken" (closes, or
sends bytes that are not UTF-8) and "silent" (keeps the connection and says
nothing) among them. `AcceptFails` is the `unwrap` of the stream.
*AnsweredAsAsked* is about responses, one by one and, once the pool is dropped,
all of them; *TakenUp* says precisely when a connection may starve (it fails
if the lock is held while a job runs), and *ExhaustedPoolAborts* says how the
server dies once panics have used up the pool: `execute` panics, the unwinding
drops the pool, `join().unwrap()` panics again, abort.

Bounds: P = 3, `MaxJobs` = 4 for the pool: more jobs than workers, so that jobs
wait, and enough panics to kill the pool with one job still in it. The server
has P = 2 and three connections of every kind. `MaxJobs` only stops `execute`.
Fairness: threads run; jobs return or panic; `join` returns when the thread
has ended. The owner need not call anything. A silent client's worker has no
step to be fair to.

### StickyCounter, RefCount, SharedPtr and MCRefCounts

`counter.cpp`. One action per atomic instruction (`fetch_add`, `fetch_sub`,
both `compare_exchange`, `exchange`, `load`); `std::atomic` defaults to
sequential consistency. `refs`, `wins` and `zeroRead` are history. Threads
follow the protocol of a reference count: `decrement` gives up a reference
somebody holds. `Helped` replaces 2^62 and `IsZero` is twice that, so that the
bit tests are comparisons. *Bound* `Room`: no increment that would carry
into a flag, which in the code takes 2^62 of them.

The subtle point: between `fetch_sub` returning 1 and the exchange, the count
may rise and fall again, so that several decrements believe they are last; and
a `read` may set the zero flag in their stead, with the helped bit as the prize
one of them must find. *OneWinner* and *ReadZeroIsFinal* say that none of this
shows outside, *ImplementsRefCount* says what does, and *CounterIsClaimed*
(liveness) that a counter left at zero gets its winner. Four threads: two
decrements at the compare-exchange, a reader that helps and an incrementer.
Fairness: a thread inside a call goes on. Nobody has to call.

`shared_Pointer/main.cpp` is the same idea for one thread, and its model the
calls of the five members in any order, on variables that are born and die. A
pointer and its count are always set together, so one address stands for both,
and it may be handed out again once the count has been deleted. `lost` is
history: the references `operator=` has overwritten without giving them up.
*CountsOwnersAndLost* makes both halves of the promise one equation: no owner
of a deleted address, and no leak but by assignment, self-assignment included.
Bounds: four variables, two addresses, `MaxCount` = 4; an address is reused, and
everything may be leaked (`AllLeaked`, so that deadlock can be checked).

### SemaphoreBuffer, BoundedBuffer and Pipeline

`semaphore_imple.c`, where the function named `consumer` inserts and the one
named `producer` removes. *ImplementsBoundedBuffer* is the promise, which needs
that every slot is counted once through all the steps between two posts
(`SlotsBalance`, proved), and *SidesKeepGoing* the absence of deadlock and
starvation. `Slots` = 12 in place of 100: a full and an empty buffer, and everything
between, occur; the proof covers the rest. It shares the run `race` with the two
programs of the next section.

`pipeline.c` is a bounded buffer between two processes, and the kernel's. `fds`
holds the ends of the pipe each process has open: a reader sees the end of the
input only when *no* process has a writing end, its own included, and a writer is
told of a missing reader in the same way. Each fork may fail, and `missing`
says which of the two commands cannot be executed. `ls`, `wc`, the pipe and the
signal are the system's, modelled from their use. *PipelineDelivers* (liveness):
whatever fails, every process ends, and a `wc` that ran has counted all that was
written, be it the message of the child that could not become `ls`.
Bounds: 4 lines through a pipe of 2, so that `ls` blocks. Deadlock is not
checked, as the pipeline ends.
Fairness: threads and processes run.

### FatalRace, ParallelSum and MCThreads

`fatal_race.c`, the version the README beside it says goes wrong. The Makefile
compiles without `-O`: every access is one load or one store, and `count++` is
both. The stores of the other thread may fall anywhere; store buffers are not
modelled (sequential consistency), and what they would add is more races of
the kinds already there. `races` is history and names what has happened:
"update" (a store of `count` over the other thread's), "wasted" (a wakeup sent
between a thread's comparison and its flag), "stale" (a wakeup decided on a
`count` that has moved).

The program fails in three ways and needs a race for each, and not just any:
*CountNeedsRace*: the counter is wrong only after "update"; *OverrunNeedsRace*:
the buffer leaves 0..N only after "update" or "stale"; *StuckNeedsRace*: both
sleep for good only after "update" or "wasted". The README beside the program
blames the flags alone; the runs and the proofs show that a guard on the flags
would leave the first failure.
Bounds: N = 3, `Slack` = 2 items beyond either end.

`multi_thread_sum.cpp` is the program with the lock. Its arithmetic is modulo
2^64 (`Modulus`), and its chunks are cut by `(end * (i + 1)) / n`. *SumIsWhole*
says that the chunks cover the range and that no thread's addition is lost, for
any number of threads that keeps the products below the modulus; sums may wrap
around. Bounds: ranges up to 3 and 6, zero to four threads (more threads than
numbers, and numbers of threads that do not divide the range), and modulus 13,
so that 6 times 3 wraps around and `Fits` excludes something.

### Splitwise

`Splitwise.java`: one group. `log` is the concurrent list of expenses, `played`
is `logPlayedTill`, `debt` the debt graph and `rows` the users who have a map
of their own in it. A call plays the log in the monitor (Enter, TakeExpense,
one EnterDebt per debtor, Leave) and then reads a debt *outside* the monitor.
`settleExpense` does that twice and appends a settlement. `PlayFails` is the
`NullPointerException` of `graph.get(to).remove(from)` when a share of 0 meets
a user without a map: `assert amount > 0` is not enabled in a normal JVM.

`Accepted` is what the constructors accept: they test that the amount is
positive and the sum of the shares right (211, 270-277, 324-331). So a share or
a percentage may be negative and a map name some of the users only, and a list
for `splitEqual` may be empty. Take alice's 2 for bob, and then alice's 2 split
into -2 for bob and 2 each for alice and charlie: `addDept(bob, alice, -2)`
finds 0 the other way, which is more than -2, and makes it 2, so bob owes
alice 2 and alice owes bob 2, with an edge each way. The difference of the two
edges is right all the same.

- *BooksBalance*: the graph is the sum of the log as far as it has been
  played, entry by entry, until a `playLogs` throws. After that it is not:
  the expense is played again from its start by the next call, and its first
  debtors are charged twice.
- *OneDirection*: two users owe each other, with an edge each way, only where a
  negative share of one of them has come into the graph (`Negative`); otherwise
  one of the two edges is absent.
- *ReadsAreFresh*: a debt that is read includes every expense that was in the
  log when the call began, whichever thread played it.
- *SettlementsClear*: a settlement nobody added to the log under clears the debt.
- *SettledOnce* (run `splitwise_settle`) fails: see the findings.

Left out: users, membership (the code never looks at it), printing, and the
rounding of doubles: amounts are whole and shares exact. A name that a list for
`splitEqual` has twice is left out too, and so is a sum of percentages that
wraps around.
Bounds: `MaxLog`, no expense or settlement begins on a longer log;
`MaxFailures`, no call begins after that many exceptions. Two threads, three
users, expenses of every kind, exact shares from {-2, 0, 1, 2} and percentages
from {-100, 0, 50, 100}: two log entries already interleave every step of two
calls, shares of 0 occur, and a negative share after a positive one leaves an
edge each way. Threads and users are symmetric.

### PubSub, LogClient and MCServices

`PubSubDemo.java`. `queue` and `work` are the executor's. `Read` is the moment
`broadcast` takes the snapshot of the `CopyOnWriteArraySet`; each `Submit`
after it is one `dispatch` from inside a worker, and `Reject` is the
`RejectedExecutionException` that ends the `forEach` and disappears into a
Future. `close` awaits termination before anybody has asked for it, and only
then shuts down. `loyal` and `audience` are history. *EachCopyOnce* accounts
for every copy of a message, and says whom it goes to although the subscribers
are read late; *MessagesArrive* that it gets there unless the pool is shut,
which also shows that the pool cannot deadlock on itself: no worker waits for a
worker.
Bounds: one topic (topics share only the pool), two messages, two subscribers,
two workers, `MaxChanges` = 3 changes of subscription: enough for somebody to
subscribe, leave and return around a broadcast.
Fairness: the workers run.

`GoogleLogger.java`: `start` is two steps, the map and then the queue; `end`
spawns a thread that spins on the map (`Find` is its last turn); `poll` takes the
head, completed or not, and waits up to a second. The second may be any
length, so `Timeout` is always possible until the process has ended. Process
ids are unique, as the README says. *EachEntryOnce*: an entry is in the queue or
with one poll. *LogKeepsGoing*: whoever starts and ends gets an end time, and no
poll waits beside an entry.
Bounds: two processes, two polls, start times 1..`MaxTime` = 2 so that ties
occur. Deadlock is not checked: polls may be blocked, or over, when every
process has ended. Fairness: threads and calls that have begun go on.

### Shell

`simple_shell`: `process(p)` is main's loop, in whichever process it runs. `cd`
runs in the shell itself; for anything else it forks and waits. The child either
becomes the command or, when `execvp` returns, falls out of `run_command` and is
a second shell, whose parent waits for it. The terminal or pipe is shared by
all of them, and `taken` is how much of it has been read. A `getline` that finds
nothing in the buffer of its process makes one read, which brings what is there:
`ends` are the lines at which the reads end, and any set of them may be (each
line, as at a terminal; all at once, as for a short script already in the pipe;
or several, as for a slow writer or a script longer than the buffer). `fork`
copies what is left of the read in the buffer, and `hand` and `ends` say what that is
(`InBuffer`). Forks may fail, in which case the shell exits.
*OneAtWork*: however deep the nesting, one process is at work. *LinesDouble*: a
line runs twice as often for every name that the same read has brought before it and
that cannot be executed, and once if it was read alone; no line is left out and
each runs in the directory the `cd`s before it say, until a shell has ended early.
Assumed: a read ends with a whole line; the commands leave stdin alone; stdin is
no file, where processes share an offset that `exit` sets back.
Bounds: every input of up to four lines of six kinds, with every division into
reads. Two typos before a command give four shells; four lines have room for that.

### Autocompletion

`trie-autocompletion.c`: `insert` and the walk along the prefix are one step
each (the prefix fits into the buffer), `dfs_and_print` is one step per call,
with a stack of its frames: the node, the child it is at, and the buffer its
parameter `word` points to. `Call` is the
top of the function: `realloc` when the buffer is full, which moves it or does
not, and the print. A caller that comes back to a buffer that has moved under it
is `Dangle`, the undefined behaviour after which nothing is said.
*PrintsCompletions*: the words with the prefix, each once, in the order of a
dictionary, without overrunning the buffer; and the dangling pointer appears only
when some completion leaves no byte of the first buffer free.
Bounds: every list of up to three words of up to three letters out of two, every
prefix, no argument and "help"; 4 bytes in place of 1024, so that the longest
words fill the buffer.

### Skiplist and Multiset

`Skiplist.java`: nodes on a heap, with links per level; the walk, the search for
the predecessors and `erase` are translated with their own starting points. The
coin is any level. At a node without a link on the level a walk of the model
stays, where the code would throw; no walk of a call comes to one, except those
that are the actions `Throw` and the last case of `eraseMisses`. `Multiset` is
what a caller is told: counts, and the calls' answers, including where head and
tail show through (see below); `List` is any ascending sequence with these counts.
*ImplementsMultiset* is the refinement; the map counts the nodes by value.
Bounds: three levels, three elements, values 0..3 of which the ends are head and
tail: three equal values with every combination of heights occur, and it takes
two equal values of different heights to make a wrong `erase` go wrong.

### BrainFuck

`BrainFuck.java`: one action per command, over every program of up to five
commands, `?` standing for any that is not one. *LoopsNest*: the stack holds the
loops around the instruction, through every skip, repeat and exit; so that a
program with matching brackets throws on nothing but an unknown command or a
data pointer out of range.
Bounds: two cells of three values: enough for a nested loop that is skipped, entered
and repeated. `MaxCell` stops a program that would go further.

## The runs

| run | module | shows |
|---|---|---|
| `solution` | DiningSolution | five philosophers: safety of `state[]`, the tokens, progress |
| `solution_eat` | DiningSolution | **violation**: neighbours eat together |
| `naive_dining` | MCDeadlocks | safe, and one way to stop: a circular wait, of forks or of locks |
| `pool` | ThreadPool | no job lost, repeated or reordered short of a dead pool; refinement; liveness |
| `server` | WebServer | answers, starvation and the abort |
| `counter` | MCRefCounts | the wait-free count dies once, with one winner; refinement; the shared pointer's count is its owners and what assignment lost |
| `pipeline` | Pipeline | the pipeline ends and counts all, whatever fails |
| `race` | MCThreads | each failure traced to its races; with semaphores, refinement and liveness of the buffer; with the lock, the sum is whole |
| `splitwise` | MCSplitwise | the books, the reads, the settlements |
| `splitwise_settle` | MCSplitwise | **violation**: a debt settled twice |
| `services` | MCServices | every copy of a message accounted for, delivery; log entries, ends and polls |
| `sequential` | MCSequential | shell, completions, loops, and the skip list as a multiset |

The passing runs fire every action of every module. Each property has a mutant
in `PROJECT.json`: the module with one operator changed the way a bug in the
code would change it, under which TLC finds the property violated.

## The proofs

Everything below is proved for every value of the constants that the named
assumptions allow: `N >= 2` philosophers or items, one slot or more, any pool
size, any set of threads, any helped bit above 2, any finite set of users, any
set of ends of a range, any modulus, any alphabet, scripts, words and programs of
any length. The TLC bounds among the constants (`MaxJobs`, `Slack`, `MaxLog`,
`MaxChanges`, `MaxLines`, ...) are arbitrary too. Each proof has the same shape:
an inductive invariant, a lemma that Init implies it, one that every step
preserves it (a case per action), and short theorems that draw the properties
from it. Every invariant of the passing runs is a theorem.

**SumTheorems.** Facts the others stand on: a set of natural numbers has a least
member, a nonempty set of subsets of a finite set a minimal one; and what
`SumFunctionOnSet` is, for a sum is a recursive function over a finite set. A sum
changes by what one summand changes (`SumChange`), zeros add up to zero, natural
numbers to a natural number. The induction behind them is by a least
counterexample: of the subsets where the equation fails, take a minimal one.

**Dining_proofs, solution.** The types rest on counting: the mutex is 0 exactly
when one thread is in a critical section, so *critical sections exclude each
other* is in `IInv`; so are what `state[i]` must be at each program point and
the token balance of each semaphore. NoMissedTest is proved on top of it from
*PendingTests*: a philosopher that could eat is one whose test is still to
come, which is what holds between PutDown and the two tests. With `ForkInit =
0` the token balance leaves no ungranted meal, whence EatExclusion and the
refinement of `Dining`.

**Dining_proofs, naive.** ForkConservation is inductive with the types.
If all are blocked and one is thinking without its first fork, its left
neighbour has that fork as its second, so it eats or puts down, and is not
blocked: StuckIsCircularWait.

**WebServer_proofs.** First the pool by itself. EachJobOnce is inductive given
what each program point of a worker implies (a job exactly when running, the lock
exactly when receiving), what the owner has spawned and joined, and what a
panicked or lost job tells of the workers. DropDrains then follows: joined
workers are done, and a worker is done only on an empty channel without Sender.
The refinement of `JobQueue` is a matter of counting: no more jobs run than
workers are busy (`RunningCounted`, by the surjection from busy workers to
running jobs), a receiving worker is neither busy nor dead, so a slot is free;
and the last panic takes the last slot exactly when the others are dead or the
channel is empty anyway. The server on top needs only that its steps are steps
of the pool (`ServerUsesPool`) and that no step but `Respond` finishes a job
or writes an answer.

**RefCounts_proofs, StickyCounter.** `IInv` is the properties with
*SomebodyNotices*: while the word is 0, a thread is at its compare-exchange,
and while the helped bit is set, one is there or at its exchange. Without it a
helped counter might have lost its winner. It also needs that the count never
reaches the flags (`Room`) and that nobody is at the exchange before the zero
flag is set.

**RefCounts_proofs, SharedPtr.** `PtrInv` is the types, the count equation and
that finitely many variables are alive, without which the owners of an address
would have no number; the set of names may be infinite. One lemma says how the
owners of an address change with one variable, and each action is a case of it.
Nothing is assumed of the constants.

**Threads_proofs, FatalRace.** CountNeedsRace is inductive. The other two need what
a thread has *seen*. *HasRoom*: without lost updates or stale wakeups a thread
past its comparison still has room, as the other can only make more.
*WillBeWoken*: without lost updates or wasted wakeups a thread going to sleep
is at its limit, or the other is on its way to wake it; two sleepers would put
`count` at N and at 0 at once.

**Threads_proofs, SemaphoreBuffer.** SlotsBalance is inductive with the types and
the same balance for the mutex, from which the exclusion and the refinement follow.

**Threads_proofs, ParallelSum.** `SumInv` follows the shared sum through the lock:
it is the total of the chunks whose threads have stored (*StoredInv*), a thread
between load and store has that total plus its own (*OwnInv*), and only one is
there (*LockInv*). *CutInv* is about the loop that cuts: the chunks made so far
cover what lies before the next start, wherever `(end * (i + 1)) / n` cuts, as
long as the products fit (`Fits`); and a sum over a range is the sum over its two
parts. All of it is modulo `Modulus`, so that sums that wrap around are right too.
Assumed: ends are natural numbers, the modulus is positive.

**Splitwise_proofs.** Two lemmas about data come first: what the constructors
accept is an expense whose debtors owe whole numbers, negative ones too, and never to themselves,
and `addDept` leaves natural numbers on the edges and, when the amount is not negative,
one edge between two users who had one (`AddDept`). OneDirection follows from this
and from `NegativeStays`: a negative share that has come into the graph stays in
the part of the log that is played, while log and `played` only grow
(`EnteredStays`, `DebtStays`). `IInv` adds that the expense in
hand is the next one of the log and belongs to the thread in the monitor, and
that a call knows a length the log has had. ReadsAreFresh then rests on the
loop test of `playLogs`: the monitor is left with the log played to its end.
BooksBalance is inductive with it (`BooksInv`): one entry more in the log is one
summand more in the balance of each two users (`BalanceStep`), and a debtor entered is
the part of it that was open. SettlementsClear needs *AloneInv* besides: what a
call nobody has added to the log under has read is still the debt, so the payment it
records is what is owed. Assumed: finitely many users, positive amounts,
whole shares and percentages of either sign.

**Services_proofs, LogClient.** EachEntryOnce is inductive with the types and
one more fact, that an entry a poll holds has been added: `add` puts in an entry
that nobody can have taken before. Assumed: "none" is not a process.

**Services_proofs, PubSub.** `BrokerInv` says where a copy can be: no copy is in two
jobs (*Apart*), and one addressed to a subscriber is on the way, delivered or
rejected, and in only one of these (*CopyInv*); nobody is addressed before the
broadcast has read the subscribers. That the loyal are among the addressed is
*LoyalInv*: they are subscribed when the snapshot is taken.

**Sequential_proofs, Shell.** `ShellInv` is the stack the processes form: exactly one
does not wait; each that waits has a line of its own in hand, read after the line of
its parent, which waits too; and the one that does not wait is on the top. So one is
at work (OneAtWork), and since the line in hand grows along the stack, a shell that
forks still finds an unused name for its child. LinesDouble counts on top of it (`LineRunInv`): the runs a
line has had and the runs that the processes still owe it (`Pending`: what is in the
buffer of each) are together its due (`Due`), nothing before it is read and then `2 ^ n`
for n names before it in the same read that cannot be executed; a failed exec makes a
second debtor, and a read makes one of every line it brings (*CountInv*). Powers
of two are counted as subsets (`PowerOfTwo`), what is owed in all processes is a sum,
of which each step changes two summands at most. *InputInv* says that whole reads
have been taken; *ChildInv* that a child has its parent's line in hand; *LastInv* that
whoever is at work has the rest of the last read before it, so that nothing is left
over when the first shell ends (*EndInv*); and *CwdInv* where each process is.

**Sequential_proofs, BrainFuck.** `Deep(c, i, j)` is the number of open less that of
closed brackets in a part of the program, and the loops around an instruction are
the brackets since which it has not come down to 0. Each step is a lemma about
that: a plain command keeps the loops, `[` adds itself, `]` takes the innermost
away or returns to it, and the search for the matching `]` returns with the
loops it began with (`Rises`, `Falls`: the depth moves by ones, so it meets every
value between). An exception in a program with matching brackets then has another
command to blame.

**Sequential_proofs, Autocompletion.** The nodes are the prefixes of the words loaded
(*NodesInv*), the calls of `dfs_and_print` a path from the prefix to the word in
the buffer (*PathInv*). *PrintedInv* relates what is printed to where the search
stands: if the top call is at node s and its last child was d, the words
printed are those that begin with s followed by d or come before it in the
dictionary, in order. Calling a child adds
at most that child's word, because no word lies between two neighbouring children
(`PassedChild`, `PassedNode`), and returning changes nothing, because the words below a
node without further children are behind the search (`PassedReturn`). When the first
call returns, the words with the prefix are all behind it. *BufferInv* keeps a byte for the next letter, and
says that a second buffer has needed a long word; a stale pointer is a
smaller number than the buffer's.

Some theorems state what no run lists, because a deeper property of the run
rests on it and would fail with it: `TypeOK` and `ForkConservation` of the
philosophers, `CountsReferences`, `SlotsBalance`, `BufferExclusion`,
`LockOnlyToReceive`. They are the inductive parts of the arguments above.

The theorems are about a program's own specification (`SH!Spec`, `PS!Spec`, ...);
in the runs that share a module the same program takes the same steps while the
others rest.

Only model-checked:

- every liveness property, and so all that is said of `LockOrder` and `Pipeline`:
  SomebodyEats, CircularWaitOrProgress, DropEnds, TakenUp, ExhaustedPoolAborts,
  CounterIsClaimed, PipelineDelivers, SidesKeepGoing, MessagesArrive, LogKeepsGoing.
  Fairness is `ENABLED` of an action, which the prover does not reason about.
- ImplementsMultiset of `Skiplist`. The walks are functions defined by recursion along
  the links, so before anything can be said of one it has to be shown that such a
  function exists on the nodes of every state, from an order of the nodes; the invariant
  this needs, that every level is a sorted chain through a subset of the nodes below it,
  is not proved yet.

## Where the code and its words differ

Two differences have a run that shows them:

- `solution_eat`: `sem_init(&forks[i], 0, 1)` (solution.c:49) gives every
  philosopher a token. Its first `sem_wait` succeeds whatever `test` said, and
  it eats beside an eating neighbour. With 0 the program is right, which is
  proved (`EatExclusionIfForksStartAtZero`).
- `splitwise_settle`: two calls of `settleExpense` for the same users both read
  the open debt before either records its payment, and the debt is paid twice
  (Splitwise.java:448-456, against "ensure data consistency" on line 22).

Others were met while modelling. The models have these behaviours, and no run
singles them out:

- counter.cpp:18 says `decrement` returns true "if the counter is zero"; of
  several decrements that see zero, one returns true. That is the
  point of the helped bit, and OneWinner states it.
- Splitwise.java:74: a share of 0 throws half way through `playLogs`
  (PlayFails), and every later call plays the expense again.
- Splitwise.java:68 asserts that an amount is positive, with assertions off;
  the constructors accept negative shares, which leave an edge each way between two
  users (OneDirection says when).
- GoogleLogger.java:90 promises "the first log entry of a completed process".
  `poll` takes the first entry, completed or not, and on a timeout the entry is
  gone.
- PubSubDemo.java: `createTopic` returns true when the topic was already there;
  `close` waits a second for a termination nobody has requested; a subscriber may
  be notified after it has unsubscribed.
- pipeline.c: `main` prints "Pipeline finished" when the child it forked is gone,
  and that child is `ls`: `wc` may still be counting. It prints it as well when
  the fork failed, and in a child whose exec failed, because `case 0` falls
  through into `case -1`.
- main.c of the shell: after a name that cannot be executed every later line that
  the same read has brought runs twice, which LinesDouble states; at a terminal the
  end of the input ends only the innermost of the shells. A line without words
  passes NULL to `strcmp` and crashes the shell.
- shared_Pointer/main.cpp: `operator=` releases nothing, so every assignment
  keeps what its left
  side held from ever being freed.
- BrainFuck.java: `,` does not move on to the next command; it reads for ever.
- trie-autocompletion.c: `realloc` updates one frame's pointer; the callers and
  the `free` of `main` keep the old one.
- Skiplist.java: `search` of the least integer is always true, `erase` of it
  throws when it is not in the list, and the greatest integer always throws.
- multi_thread_sum.cpp: the product `end * (i + 1)` wraps around for about
  1.8 * 10^9 threads and more, and 0 threads print 0.

## What is not modelled

In the programs that are modelled:

- `Splitwise` is modelled in part: rounding of doubles (line 330), which leaves
  small remainders in the graph, would need real numbers or their bits.
- Arguments a caller has to keep from: negative numbers of threads, lines of
  40 words and more in the shell, prefixes of 1024 bytes and letters outside
  ASCII in the autocompletion, a raw pointer given to two shared pointers.
- Library behaviour the programs only lean on by luck: `getline` with the freed
  `line` (the allocator hands out anew because the size is 0), a root that is
  not initialised and comes from a first `malloc` that is zero, a `stdin` that
  is a file, whose offset processes share.
- Failures of calls that the code does not test or that end it at once: `pipe` and
  `realloc` without a result, `thread::spawn` that panics, an interrupt during
  `poll`. A `write_all` that fails after a part of the answer counts as no answer.
- What is printed, beyond what a property is about: the table of
  `Skiplist.toString`, prompts, pages, summaries.

And the programs that are not:

- `key_value_store.rs` and `reference_cycle.rs` are a map and two counts of
  the library; `trie.rs` is the trie of the autocompletion without its search;
- `IOMonad.java`, the Haskell exercises and `Shank_bot` are pure functions a few
  lines long, for which a model would be a second copy;
- the web pages, logs, scripts in bhai-lang and one-page C demonstrations
  (segfault, buffer overflow, cat, environment, varargs) change no state a model
  could say anything about.

The word list, 7,789 lines that are one array of strings, is data: the model has
any small list in its place. It is nearly nine tenths of the repository's C, and the
reason why the share of mapped lines is small although hardly a function of
the programs above is left out.
