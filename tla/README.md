# Formal models of the CSE-344 systems programs

The repository holds seven C programs for Linux, written for a systems programming course: two
process-based exercises (`hw1`, `hw2`), a threaded parking lot (`hw3`), a parallel directory copier
in two versions (`hw4`, `hw5`), a file server with its client (`midterm`) and a restaurant server
with its client (`final`). This directory keeps TLA+ models of all seven, the TLC configurations that
check them on small instances, and TLAPS proofs of their safety properties.

Paths below are relative to the repository's root, which the models call `src/`.

## 1. Inventory

| Component | Source | State | Operations | Model |
|---|---|---|---|---|
| MWCp buffer | `hw5/src/*_buffer.c` | ring `buffer`, `in`, `out`, `count`, `done`, mutex, `not_full`, `not_empty`, barrier | `buffer_init`, `buffer_add`, `buffer_remove`, `buffer_set_done`, `buffer_destroy` | `CopyBuffer`, `FileQueue`, `MWCp` |
| MWCp threads | `hw5/src/*_main.c`, `_manager.c`, `_worker.c` | `done`, `interrupted`, statistics, open descriptors, destination files | manager's walk, `copy_file`, worker loop, barrier, joins, `handle_signal` | `MWCp` |
| MWCp without barrier | `hw4/src/` | the same | the same, without the barrier | `MWCp`, `HasBarrier = FALSE` |
| Parking lot | `hw3/main.c` | free spots, two semaphores and a mutex for each kind, `all_spots_full` | `carOwner`, `carAttendant`, `carExit`, `check_all_spots_full`, cancel and join, `signal_handler` | `ParkingLot` |
| Pide shop | `final/server.c` | `orders`, five counters, oven and apparatus, bags, four mutexes, three condition variables | `main`'s batch loop, `handle_client`, `cook_function`, `delivery_function`, `handle_completion_updates` | `PideShop` |
| Pide shop client | `final/client.c` | – | send a batch, ask for completion | `PideShop` |
| File server | `midterm/server/server.c` | `pid_array`, the server's FIFO, a forked copy of the table per child | accept, assign, queue, serve, `killServer`, `signal_handler` | `FileServer` |
| File server's client | `midterm/client/client.c` | two System V semaphores, one FIFO | connect, type, post, wait, read, quit | `FileServer` |
| Two children, two FIFOs | `hw2/main.c` | two FIFOs, `child_count`, results, sleeps | parent, child 1 (sum), child 2 (product), `signal_handler`, `proceeding` | `TwoChildren` |
| Student management shell | `hw1/gtuStudentManagemetSystem.c` | a grade file and a log file | create, add, search, show, list, sort, log, quit | `GradeBook`, `GradeListings`, `GradeFile` |

How they interact:

* **MWCp.** The manager opens each regular file and hands the descriptor pair *by value* to the ring;
  a worker takes it, copies and closes it. `done` of the buffer says that no more pairs come; the
  global `done` says that SIGINT arrived, and is read without the mutex. The SIGINT handler runs on
  whatever thread the kernel picks and itself calls `buffer_set_done`.
* **Parking lot.** Every visit to a kind's counters is `sem_wait(new...)`, mutex, change, unlock,
  `sem_post`. Owners call a valet by posting `inChargefor...`. Main polls with both mutexes held,
  without the semaphores, and finally cancels all threads.
* **Pide shop.** Handler threads and cooks share `order_mutex`; couriers read and write the same
  array and `active_orders` under `delivery_mutex`; `completed_orders` is written under `order_mutex`
  and waited for under `completion_mutex`; `main` resets the counters under none.
* **File server.** A client writes its PID to the server's FIFO and sleeps on one semaphore; the
  server enters it in `pid_array` and forks a child, which posts that semaphore. From then on client
  and child use one FIFO that both read and write, with one second semaphore on which each posts and
  then waits. That keeps them from using the FIFO at once, and no more: whoever has posted may take
  its own post back.
* **Two children.** The parent writes an array to child 1 through one FIFO and to child 2 through
  another, on which child 1 sends its sum as well. Only sleeps of ten seconds order the two writers.
  Exit statuses reach the parent through its SIGCHLD handler, which cuts its sleeps short.
* **Student shell.** Every command, and every line of the log, is the work of a forked child that
  the shell waits for. What connects them is the grade file, which survives the shell, and the log.

What is hard, and what makes each component correct:

| Component | Hard behaviour | Correctness |
|---|---|---|
| MWCp | lost wakeups, early returns, SIGINT between any two instructions, failing system calls | every pair has one owner and is closed; everything opened is copied and counted once; the ring is a FIFO queue; the program ends |
| Parking lot | deferred cancellation inside `printf` with a mutex held; two locks in a row; one valet for two kinds | spots are conserved; parked vehicles are not forgotten; cancelling never leaves a thread that cannot be joined |
| Pide shop | shared state under different mutexes; one condition variable for several purposes; resets while threads work | oven accounting; an order is in one place; counters agree with orders; batches are served |
| File server | several requests in one read; symmetric semaphore; clients and children that die; a stale copy of the table | client and child never have the turn at once; slots have one owner; a command is executed at most once; the queue moves |
| Two children | an order of events that only sleeps enforce; signals that coalesce, come early or cut a sleep short; exit statuses of one byte | child 2 computes with the right sum and numbers; each child is counted once; the parent ends |
| Student shell | the file is emptied before it is written again; failures and Ctrl-C in between; names that begin other names; paging and sorting at their limits | a grade is entered at once or not at all, and changes no other; what is lost is lost by a failed rewriting; the log accounts for the file; listings hold what was asked for |

## 2. Modules

| Module | What it is |
|---|---|
| `FileQueue` | The abstract promise of MWCp's buffer: a bounded FIFO queue through which each file passes at most once. |
| `CopyBuffer` | The ring itself: slots, indices, count, and what adding and removing do to them. Extended by `MWCp`. |
| `MWCp` | Threads, mutex, condition variables, barrier, signal handler, the walk and the copying. |
| `ParkingLot`, `PideShop`, `FileServer`, `TwoChildren` | One module per program. |
| `GradeBook` | The abstract promise of hw1's grade file: a map from students to grades, of which an addition changes its own student's. |
| `GradeListings` | Pure functions: pages, the two sorts and their comparisons. Extended by `GradeFile`. |
| `GradeFile` | The shell: file, log, the children of every command, failures, Ctrl-C and restart. |
| `MC...` | Definitions of constants for TLC: source trees, capacities, batches, PIDs, names and pages, arrays. |
| `..._proofs` | Theorems and their proofs; `MWCpEnds_proofs` are those about how a run of MWCp ends, and the refinement. |
| `FoldTheorems` | Lemmas about folds over sequences, for the sums of hw2 and the sorts of hw1. |

Conventions. Program counters are values of `pc` named after where the thread is; a thread asleep on
a condition variable or a semaphore has a `pc` of its own for that, so the set of sleepers needs no
variable. Operators keep the names of the C functions where one action is one function
(`copy_file`, `carExit`, `buffer_destroy`, `signal_handler`, `wait_for_all_deliveries`). Definitions
whose comment begins with "Mutant" are alternatives with a plausible bug, used by no specification:
putting one in the place of the definition after it must break the property it is listed with.

### MWCp

*State.* `fds`, `in`, `out`, `count`, `bdone` are the fields of `buffer_str`; a descriptor pair is
the file's name, since the two descriptors of a pair are opened, handed over and closed together.
`unread` and `cur` are the state of the recursive `process_directory`: which names `readdir` has not
returned and which directory the innermost call reads (the stack is the path from the root).
`sig[t]` is where the SIGINT handler that interrupted `t` is. `dst` counts the reads whose data is in
each destination file.

*Grain.* Taking the mutex is one step and the body of the critical section another, because the
signal handler can come between them. `pthread_cond_wait` releases the mutex and sleeps in one step;
a woken thread queues for the mutex again and re-tests. Spurious wakeups happen at any time.

*Failures.* `Faults` is the set of system calls that may fail: `malloc`, `lstat`, `opendir`,
`mkdir`, `open`, `mkfifo`, `read`, `write`. Each takes the path its error branch takes: a failed
`write` closes the pair and ends the worker, a failed `mkdir` ends the process, a failed `opendir`
marks the buffer done at any depth.

*Abstracted.* Path building, modes, `chmod`, elapsed time; both `open`s of a file are one step.

### ParkingLot

`mFree`, `permanent`, `new`, `inCharge`, `mutex` are the variables and semaphores of the C program,
indexed by kind. Cancellation is deferred: a thread with a pending cancellation ends in `sem_wait`,
`sleep`, `usleep` or `printf` (which POSIX allows to be a cancellation point) and never in
`pthread_mutex_lock`; one that ends inside `printf` keeps mutex and semaphore. `MaxArrivals` bounds
the vehicles that arrive in a behaviour.

### PideShop

A critical section that ends in an unlock or a condition wait is one step, unless it reads or writes
what others change without that mutex; each such access is then a step of its own. So it is with the
courier, which reads `orders` and `active_orders` under `delivery_mutex` while others write them
under `order_mutex`: every turn of its loop is a step, and `active_orders++` and `active_orders--`
are a read and a write, which may overlap. So it is with `total_orders++`, which main's resets may
cut, and with the comparisons of `completed_orders` and `total_orders`, by main and by the completion
thread, under mutexes that protect neither. `read` holds what a thread has read and not yet used.

A handler thread may fail to read its order and leave (`RefuseOrder`). Clients send whole batches
(`Plans` are the sequences of batches they may bring) and may come while another one's batch is
served: main takes batches in order, and the completion thread answers whichever client has asked, by
counters that may belong to another one's batch.

`torn` remembers that a reset hit orders under way, `raced` that two changes of `active_orders` have
overlapped. The properties about orders say "as long as no reset has" torn any, and what depends on
`active_orders` also "as long as no count is lost": the code prevents neither (section 4).
`ResetAfterService` says when main may decide to reset; it cannot see orders that no handler thread
has entered yet, and those are the ones that a reset then tears.

### FileServer

A client is its PID `p`; its semaphores have the keys `p` and `p + 1`, as in the code, so that two
clients with adjacent PIDs share one. `Post` hands a semaphore to a sleeper, if there is one, in the
same step, as `semop` does. A forked child has a copy of `pid_array` (`snapshot`), which is what
`killServer` goes by. The server's loop runs to `number_of_clients`, an argument that nobody compares
with the three elements of `pid_array`, so that the table is `Cells`: the array and the `Behind`
integers of unused memory that the linker leaves between it and `server_fifo` (three, as the makefile
builds). A loop that gets as far as `server_fifo` is not followed. With zero or less the server has
no slot and refuses everybody. `killServer` has a fixed three. `kill(pid_array[i], 0)` succeeds for
PID 0, so an empty slot is found by its zero. Commands are of five kinds: those that get a response,
those without output (`list` of an empty directory, `readF` of a missing file), `archServer` without
a name, `killServer` and `quit`. A response read back by the child is taken to be no command: what
`list` or `readF` print could begin like one. The server is taken to run on a terminal, where
`printf` leaves nothing in a buffer that a forked grandchild could print again, and `semget`,
`mkfifo` and `open` in a child to succeed.

### GradeFile, GradeListings, GradeBook

*State.* `file` is the sequence of the grade file's records and `exists` whether there is one; `log`
counts the lines "New student grade added" and "updated", the only ones a property speaks of; `say`
holds the messages that are still to be logged, in order. `entry` and `temp` belong to the child of
`add_student_grade`: the record it adds and the lines it has read. `harm` records that something has
failed or been killed. The shell waits for each child, so one `pc` stands for all processes.

*Grain.* In `add_student_grade`, reading, the truncating `open`, and the writing are steps of their
own, as is each logged message: they are what a failure or a Ctrl-C can come between. Commands that
only read the file are one step, and a step for each message.

*Failures.* Each `open` for writing, each `write` of the file, each logging child and the shell's own
`fork` may fail; a short `write` leaves a prefix of the lines. `Kill` is Ctrl-C at any step, to the
whole process group, and `main` starts the shell again on the files that are left.

*Abstracted.* Names are model values with the three relations the code can see: `Begins` (`strncmp`
with the length of the given name), `Holds` (`strstr`) and `Rank` (`strcmp`); the instance has Ali,
Ali Can and Can, so that a name begins another one's line, another is contained in it, and the order
of `strcmp` is not that of the names. A short write is cut at the end of a line. Opening for reading
fails only when there is no file. The buffers are taken to be large enough (`MAX_SIZE`), and one
shell runs on a file at a time. A child's message that is not logged because its `fork` fails is lost
like any other. `GradeListings` has the paging arithmetic and the bubble sort as the code has them;
`qsort` is any rearrangement in which no neighbours are out of order, as C promises no more.

*Abstract.* `GradeBook` is what the comments of `add_student_grade` promise: "the student's record"
is updated and "other records" are copied "as is" (`:126`, `:134`). It has a book from students to
grades and five steps: start an addition, open the book for rewriting, commit, abandon an addition
while the book is closed, lose grades while it is open. An addition changes its own student's grade
only. The code does not keep that promise to a student whose line begins with another student's name,
so the refinement is stated for the others, `Apart`; additions of any student's grade, in `Apart` or
not, are steps of it. The mapping reads the book from `file`, and from `temp` while the file is empty
between truncation and writing, when the book is open: the grades are then in the child's memory
only, and die with it.

### TwoChildren

*State.* `fifo1` and `fifo2` hold what has been written and not read, in units of four bytes except
for the command's last byte; `got` is what child 2 has read; `zombies`, `sigchld` and `handling` are
the exited children not yet waited for, the pending signal, and whether the handler runs.

*Time.* `timer` holds the seconds each process still sleeps, and `Tick` lets one pass. If no process
can run, it passes freely; if one could (`Ready`), that second is a delay of the scheduler, counted
in `delay` and bounded by `MaxDelay`. Properties can then say how much delay the sleeps of ten
seconds absorb.

*Signals.* SIGCHLD is one pending bit. Its delivery ends the parent's `sleep`, and does not end its
`open` or `write`; one that comes before `sleep` is called does not shorten it. The handler's loop is
a step for each child it finds.

*Abstracted.* `fork`, `mkfifo`, `open` and `write` succeed; products stay far below 2^31.

## 3. Runs

| Run | Instance | Shows |
|---|---|---|
| `mwcp_copy` | hw5, two workers, ring of 2; a tree of two directories, a FIFO and three files, or no source at all; `open`, `mkfifo`, `write` may fail; SIGINT on the manager or a worker | `AllCopied`, `TotalsAtBarrier`, refinement `ImplementsQueue`, `Terminates` |
| `mwcp_safety` | hw4, two workers, ring of 1, two files and a subdirectory, or a file or nothing as the source; all failures; SIGINT on any thread | `Custody`, `LeakAtMostOne`, `MutexOwner`, `NoMissedWakeup` |
| `lot` | one owner, valet and exit; one spot of each sort; four arrivals; SIGINT | `SpotsBalance`, `OneVisitor`, `NoForgottenVehicle`, `NoOrphanedWait`, `Closes` |
| `pide_orders` | two cooks, two couriers, one apparatus, two orders in one batch or in two; cooks are alike and so are couriers (symmetry) | `OvenAccounting`, `OrderCustody`, `CooksApart`, `CountersAgree`, `ResetAfterService` |
| `pide_served` | one cook, one apparatus, two couriers, two orders in one batch | `AllServed`, `NotBothAsleep` |
| `fs_turns` | two clients, a server started for none, one or two of them, all commands, deaths at any time, SIGINT | `TurnTaking`, `SlotOwner`, `CommandAccounting`, `QueueMoves`, `Answered` |
| `grades` | three students, valid and invalid grades, four additions, pages of one and two lines; all failures, Ctrl-C and restart | `OneGradeEach`, `LogAccounts`, `PageAsAsked`, `SortedListings` (by name), refinement `ImplementsBook` for students apart |
| `children` | two arrays, PIDs of either parity, eleven seconds of delay | `FinalResult`, `Reaped`, `ResultsByParity`, `Goodbye` |
| `mwcp_opendir_lost`, `mwcp_sigint_hang`, `pide_kitchen`, `fs_coalesced` | see section 4 | a statement of the code that does not hold |

*Why the bounds are enough.* Two workers and a ring of one slot already produce every competition: a
full ring with the manager asleep, an empty one with both workers asleep, a signal that reaches one
of two sleepers; the ring of two slots wraps both indices with three files. Two cooks compete for one
apparatus, two couriers for one order; with one cook and two couriers a courier sleeps with a bag
that is not full, and main and a courier sleep on one condition variable. One spot of each sort makes
"full" reachable with four arrivals, with main, owner, valet and exit at the same two locks. Two
clients for one slot give a queue, for two slots two children; a token taken by the wrong side needs
one client only. Four additions of three names reach a file of three lines, two of which the last
addition replaces by one student's; pages of one and two lines end inside, at and behind such a file.
A delay of ten seconds is the one at which `FinalResult` stops holding (its bound is sharp: with
`delay < Nap + 1` TLC finds a counterexample), and the instance allows eleven; one array has a
product of more than a byte. `pide_orders` has a second batch entered in slots and counters that were
reset. The table of `fs_turns` ends with the array (`Behind = 0`): the memory behind it behaves like
more slots, but for `killServer`, and the theorems have it. Histories are bounded by the tree,
`MaxArrivals`, the batches, `MaxCommands`, `MaxAdds` and `MaxDelay`.

*Deadlock.* Checked where the program should never stop (`lot`, whose end is a stuttering step of
the model, the pide shop, and the student shell, which is started again). MWCp, the file server and
hw2 end, or may block in a way that the run's properties speak of, so their runs say
`CHECK_DEADLOCK FALSE`; so does `pide_kitchen`, where the shop stops.

*A smaller specification.* `pide_kitchen` looks for its counterexample among the behaviours that
`AllServed` is about, without unreadable orders and spurious wakeups (`UndisturbedSpec` of
`MCPideShop`). Each is a behaviour of `FairSpec`, with the same fairness, so that what is found there
is found of the program.

*Fairness.* MWCp: strong fairness for each thread's steps, including its taking of mutexes: the
scheduler runs every thread and a mutex that is released again and again is eventually obtained; none
for failures, SIGINT and spurious wakeups. Parking lot: weak fairness for visitors' steps and strong
for mutexes; arrivals are not fair, so nothing depends on vehicles coming. Pide shop: strong fairness
for every thread, as mutexes are what they wait for; clients send or not, as they like, and spurious
wakeups need not happen. File server: weak fairness for the server,
children and clients once they have a command; users type, leave, die and press Ctrl-C as they like.
Two children: weak fairness for each process and for time. The student shell has no liveness property:
what happens next is the user's choice.

*Conditions in properties, and why.* `Terminates` excepts a handler that waits for the mutex of its
own thread, and the stranded: somebody has returned early, and all who are left are at the barrier
that counts on it, or the manager is alone before a full ring. `AllServed` and `NotBothAsleep` except
behaviours in which main slips through its wait or two changes of `active_orders` overlap;
`CountersAgree` speaks of `active_orders` only until then. `TurnTaking` and `CommandAccounting` are
about PIDs that do not follow one another. `Answered` is about commands that have output, and excepts
a client or child that takes back the turn it has given, a client that leaves and a child that is
killed; `QueueMoves` excepts a request lost in a shared read. `FinalResult` holds for less than ten
seconds of delay in all, `ResultsByParity` for children whose PIDs differ in parity, `LogAccounts`
while nothing has failed or been killed, `ImplementsBook` for students whose lines begin with no
other student's name. Section 4 describes what the code does in each of these cases, other than death
and failure themselves.

What some properties do not say. `SpotsBalance` bounds the sum of free spots, not each sort.
`NoForgottenVehicle` counts valets on their way, though one may be blocked at the other kind's
semaphore. `NotBothAsleep` does not say that the client is told. `PageAsAsked` has the boundary as the
code computes it, and `SortedListings` speaks of names only: what the grade sorts ought to print, code and
comments do not agree on.

## 4. Where the code does not do what it says

Each of these has a run whose counterexample shows it.

1. **Files queued after a failed `opendir` are lost** (`mwcp_opendir_lost`). `process_directory`
   marks the buffer done at whatever depth `opendir` fails; the walk goes on, workers that find the
   ring empty leave, and main still prints "Files are copy operation completed successfully".
2. **Ctrl-C can hang MWCp** (`mwcp_sigint_hang`). The handler takes the buffer's mutex; if it
   interrupted the thread that holds it, nobody ever gets it again.
3. **The kitchen can stop** (`pide_kitchen`). The one signal sent when an apparatus is free may wake
   an idle cook, and the cook who waits for the apparatus sleeps on.
4. **A queued client can be forgotten** (`fs_coalesced`). Two requests that are in the server's FIFO
   at the same time are read together; the second is overwritten, and its client waits for ever.

Met while modelling, described here and left without a run:

* hw5: a worker whose `write` fails, or whose `malloc` fails, never reaches the barrier, which counts
  on it; nor does the manager when the source cannot be read (`_manager.c:144`, `:171`). The others
  wait for ever, where hw4 ends. This is the second exception of `Terminates`, and TLC finds that
  property violated without it.
* Parking lot: a vehicle that `carExit` has removed is "moved" by the valet who was called for it:
  `mFree_automobile` then exceeds the 8 temporary spots (`hw3/main.c:92`, against the test at `:151`),
  while the total of free spots stays within the total of spots (`SpotsBalance`).
* Pide shop: "Wait until all orders are completed" (`server.c:600`) is passed while no handler thread
  has counted an order (0 < 0 is false); main then resets the counters under the orders that come.
* Pide shop: nobody signals `delivery_cond` when `active_orders` reaches 0 (`server.c:793`). With two
  couriers this is harmless (`AllServed`): whoever takes the last order does not sleep, and its signal
  sends the other off. With three, TLC finds a behaviour in which a courier with an empty bag absorbs
  that signal and the one who has an order sleeps on.
* Pide shop: the client may never be told. Main and the completion thread wait on one
  `completion_cond`, and a courier sends one signal for each bag (`server.c:849`, under the comment
  that all orders are done, `:847`). If main takes the last one, the completion thread sleeps on, and
  the client waits in `receive_completion_status` (`client.c:93`) until a later batch's couriers
  signal again, if one comes.
* Pide shop: main and couriers sleep on `delivery_cond` (`:181`, `:793`). The last courier's signal
  may wake the other courier instead of main, which then sleeps on with all orders delivered.
* Pide shop: an `active_orders++` lost to a concurrent `active_orders--` (`:692`, `:785`) leaves
  cooks asleep beside a placed order, and a lost `--` leaves couriers asleep with bags that are not full.
* Pide shop: the completion thread answers "All orders completed" before an order has been entered
  (`:895`).
* Pide shop: after an early reset a cook's `order_index` denotes another batch's order, which then
  reaches state 3 without having been prepared (`:749`).
* File server: `killServer` with a full table never signals the server (only PID 0 of an empty slot
  reaches it); a command without output blocks its child (`:276`); `archServer` without a name ends
  it (`:307`, before the test at `:314`); "Task completed successfully." is sent whatever `sed` or
  `cp` returned (`:238`).
* File server: a semaphore that both sides post and wait on does not say whose turn it is. A client
  that posts and then waits (`client.c:158`, `:159`) may take its own post before the child does; it
  then reads back its own command and displays it as the response (`:161`), and the command is not
  executed. A child that posts after writing its response (`server.c:280`) may take that post itself
  at `:156`, reads its own response as a command that prints nothing, and blocks at `:276`; its
  client waits at `:159` for ever. Of two clients with adjacent PIDs, the later one's `semid` is the
  earlier one's `semid2` (`client.c:50`), and its start resets it.
* File server: a server started for more than three clients (`server.c:45`) enters the fourth behind
  `pid_array` (`:77`); in the makefile's build three more fit there, of which `killServer` knows
  nothing, and the next would be entered over the name of the server's FIFO.
* hw1: adding a grade for Ali replaces the line of Ali Can, and the grade of Ali Can is gone, without
  any failure, against "Checks if the current line is the student's record" and "Copies other records
  as is" (`:126` compares the length of the given name only; `:134`). A failing write or a Ctrl-C
  after the truncating `open` (`:148`) takes grades that were not being changed, and one before a
  message's child is through leaves an addition out of the log. "Displayed all contents successfully"
  is logged whatever the child found (`:341`, and so in `list_grades` and `list_some`); the first
  record of a file is added without a line in the log; "Sort by Grade Ascending" (`:483`) prints from
  AA down to NA, against the comments "from lowest to highest" (`:883`) and at `:961`, and
  "Descending" from NA up; a page just behind a full last one is neither printed nor reported as
  beyond the file; at the end of its input the shell repeats its last command for ever (`:540`
  ignores what `scanf` returns).
* hw2: the handler files results by the parity of PIDs ("might need a better method", `main.c:33`), so
  that the names are exchanged for an odd child 1, and one result is overwritten for PIDs of the same
  parity, as they are when another process was created between the two forks.

## 5. Proofs

Every invariant that a passing run checks, the action property and both refinements are theorems: they
hold for every value of the constants that satisfies the `ASSUME`s of the module, where the runs
check one instance. What the assumptions ask for:

* `MWCp`: a ring of at least one slot, a finite tree with its root, a finite and non-empty set of
  workers (`hw5/src/*_main.c:56` refuses `num_workers <= 0`).
* `ParkingLot`: finite sets of owners, valets and exits, since their numbers are compared with spots;
  every kind has a spot of each sort.
* `PideShop`: finitely many orders and cooks; no order is in two batches of a plan; oven, apparatus and
  bags hold something.
* `FileServer`: finitely many clients, with positive PIDs. Nothing is assumed of the number the
  server is started with, nor of how much unused memory lies behind `pid_array`. `TurnsTaken` and
  `CommandsAccounted` are about clients none of whose PIDs follows another's (`KeysApart`);
  `SlotsOwned` is not.
* `GradeFile`: a name begins the lines of its own student; the places in the order of `strcmp` and the
  pages asked for are integers. Nothing is assumed of which names begin or contain which; `Implements`
  makes its promise to the students of `Apart`.
* `TwoChildren`: the arrays hold digits, as `main` draws them. Any parities of the PIDs, equal ones too.

| Module | Theorem | Argument |
|---|---|---|
| `MWCp_proofs` | `TypeCorrect` | `TypeOK` is inductive. That `count` stays within the ring rests on the tests `IsFull` and `IsEmpty` under the mutex. |
| | `MutexOwned` | `MutexOwner` needs `HandlerOutside`: a handler that holds the mutex is not inside a critical section of its own thread. |
| | `NoWakeupMissed` | `NoMissedWakeup` is inductive given `TypeOK`: a thread goes to sleep in the step that tests. |
| | `PairsInCustody` | `CustodyInv`: the indices and the count agree (`RingShape`), names not yet read were never opened (`Fresh`), and the four conjuncts of `Custody`. Lemmas say what storing and taking out do to the live slots. `ExitedForGood` covers the states after `buffer_destroy`. |
| `MWCpEnds_proofs` | `AtMostOneLeak` | `JoinInv`: main gets past a join only when the thread has returned. `StrayInv`: a pair that is open and nowhere was refused by a `buffer_add` that found the buffer done, after which the manager opens nothing. |
| | `BufferIsQueue` | The refinement of `FileQueue`: one lemma for each way a step can move pairs, with the queue read off the ring from `out` on. |
| | `BarrierTotals` | `TotalsInv`: while no worker has returned, the global byte count is the sum of the counts of the workers that have added theirs. Needs lemmas about the sum over a finite set. |
| | `EndsCopied` | For hw5 and runs in which neither `read` nor `opendir` fails (`NoReadFails`). `CopiedInv`: a worker leaves its loop only when the manager is through and the ring is empty, and one whose `write` failed never reaches the barrier, so that nobody passes it. With a failing `opendir` the property is false (section 4). |
| `ParkingLot_proofs` | `TypeCorrect`, `SpotsBalanced` | Inductive; the valet moves one free spot from `permanent` to `mFree`. |
| | `OneVisitorOnly`, `NobodyOrphaned` | `SemaphoreInv`: the semaphore behaves as a lock, and the mutex behind it is held by the thread that passed it or by main. A cancelled thread that kept the mutex kept the semaphore too. |
| | `NobodyForgotten` | `Covered`: taken temporary spots are matched by tokens, owners about to call and valets on their way. One step moves one thread, so that each of the two sets of threads gains or loses at most that one (`GoingMoved`, `CallingMoved`). |
| `PideShop_proofs` | `OvenAccounted` | `OvenInv`: one lemma for the steps that neither begin nor end baking, and a cardinality argument for the two that do. |
| | `TypeCorrect` | `ShopInv`: batches are the beginning of a plan (`PlanInv`), so that an order has one handler thread and the array a slot for each (`RoomInv`); one handler thread at a time is between entering and counting its order (`EnterInv`); couriers on their way carry something (`BagInv`); `pending_deliveries` counts them (`RoadInv`). |
| | `OrdersKept`, `JobsApart` | `CustodyInv`, as long as no reset has torn orders: slots, bags and deliveries of one order exclude each other, though couriers move it under another mutex than the cooks do, and the cook's `order_index` still denotes the order it took (`Kitchen`). An order entered and not yet counted is in the slot just behind the counted ones (`Behind`). |
| | `CountersRight` | `CountInv`: each counter is the size of a set of orders, plus or minus the threads between a change of the array and the count of it. For `active_orders` only while no two changes of it have overlapped: until then a thread that is about to write finds the value it read (`BeginsAlone`). |
| | `ResetWhenServed` | An action property. `ReadInv`: what main has read of `completed_orders` is not more than the present value, so that a comparison made in two steps adds up only when nothing entered is under way (`DecidesWhenEqual`). |
| `FileServer_proofs` | `TypeCorrect` | `TypeInv` adds that the server has a request in hand while it probes. Nothing bounds `number_of_clients`: the loop's index stays in the modelled memory and nobody is entered behind `number_of_clients`. |
| | `TurnsTaken` | `TurnInv`: a client at its prompt finds no turn and an empty FIFO, one about to post has its command in the FIFO and no turn. `PostTurn` and `WaitTurn` say what a post and a wait do to the turns of each client, and use that PIDs are not adjacent. |
| | `CommandsAccounted` | `Accounted` on top of `TurnInv`: a FIFO holds at most one message, so that a command that is read is the only one there. |
| | `SlotsOwned` | `OwnerInv`: a client asks once (`OneRequest`); without a child it is in no slot; with one it is in exactly the slot of its child's copy of the table, and only a dead client's slot is freed. |
| `GradeFile_proofs` | `TypeCorrect`, `OneGrade` | `BookInv`: besides the type, the child's buffer is the file until the file is emptied, the file is empty from then until it is written, and the lines of file and buffer are uniform (all lines of a student agree). `WithEntryUniform`: rewriting keeps lines uniform, because a line that begins with the name is replaced by a line of that very name, and no line of the name is left over. |
| | `LogTells` | `LogInv`: at most the first pending message is a report, and counting it with the logged ones, the accounts balance at every step, not only at the prompt. |
| | `Implements` | The refinement. `WithEntryBook`: the book of the rewritten lines is the abstract `Entered`, since no other student's name hits the lines of a student of `Apart`; `PrefixBook`: the book of a prefix of them is `Entered` restricted to some students. Uniformity makes the book independent of which line of a student is looked at. The truncating `open` is the abstract `Open`; steps other than that and the child's ends map to stutters (`Quiet`). |
| | `PagesRight` | `ShownInv`: what was printed is what the functions give for the present file, until an addition begins. `PageRight`: place `i` is on the page just when it lies between the two computed lines, by division with remainder, for pages of any number, negative ones included. |
| | `SortsRight` | `SweepRight`: after `k` comparisons the greatest of the first `k + 1` lines is behind them and the rest is where it was. `BubbleSorts`: after `k` sweeps the last `k` lines are in order and none before them is greater. `AsOften`: a rearrangement has every record as often, since an injection of a finite set into itself is onto. |
| `TwoChildren_proofs` | `TypeCorrect`, `AllReaped` | `ReapInv`: only exited children are waited for, and the count and the zombies make up the exited. Most steps are `Quiet` for this; the exit of a child and a round of the handler have a lemma each. |
| | `ResultsArrive` | `ResultInv` adds the parity and the property itself: an exited child's result does not change any more. |
| | `SumArrivesFirst` | The timing argument. `SumFirst`: until child 1 has written the sum it could run, so that every second of the parent's sleep is a delay, and ten of them are needed. `StreamInv`: from then on what child 2 has read, followed by what is in the FIFO, is the beginning of one stream: sum, numbers, command. |
| `FoldTheorems` | | Lemmas: a fold from the left over a sequence has a solution, and its values are those of a chain of steps, one for each place. |

Two remarks on how. A sum, a sweep or a sort is a fold, and what a fold computes calls for induction
over the sequence; the library's induction theorems take the predicate as an operator parameter,
which the installed provers cannot instantiate. `FoldTheorems` and the sums of `MWCpEnds_proofs`
therefore take the step of a fold as a function and a smallest counterexample from a well-founded
relation. And `Tick` of `TwoChildren` used to ask `ENABLED Step`, which no prover handles: it now
states what enables each process (`Ready`), and TLC confirms over all reachable states of the
instance that the two are the same.

Only model-checked: everything under fairness (`Terminates`, `Closes`, `AllServed`, `NotBothAsleep`,
`QueueMoves`, `Answered`, `Goodbye`), which the prover does not handle.

## 6. What is not modelled, and why

* hw1: truncation by the fixed buffers (`MAX_SIZE`), writes that stop inside a line, two shells on one
  file. hw2: failing `fork`, `mkfifo` and `open`.
* Pide shop: the pseudo-inverse that sets cooking times (numeric, affects only sleeping), the client
  queues (nothing is ever enqueued), growing the array (`realloc`), work statistics, log file, status
  socket, and the SIGINT handler's clean-up. `completed_orders++` of a courier is one step, against main's
  unlocked reset as well, and so are the several reads of `total_orders` by which a handler thread finds
  its slot (`server.c:683`–`:691`).
* MWCp: the contents of files beyond how many reads were written, and destination paths.
* File server: contents of files, `tar`, `sed` and `cp`; responses that read as commands; a server whose
  loop gets as far as the name of its FIFO, behind `pid_array` and the memory after it.
* hw2: the product is an unbounded integer, the code's an `int` that overflows for long arrays
  (`main.c:174`).
* Waiting on `delivery_cond` with two different mutexes (`server.c:181`, `:793`) is undefined in
  POSIX; the models take it to do what Linux does, which is to wait.

## 7. Plan

1. Pide shop: an abstract `OrderBook` (each order is placed, cooked, delivered once) that `PideShop`
   implements while no reset has torn orders, and the proof of it from `CustodyInv`; then the SIGINT
   clean-up, connections of two clients that mix, the moving array.
2. File server: an abstract dialogue (one command, one response, alternating) implemented by client
   and child, and its proof from `TurnInv`.
