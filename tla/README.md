# A TLA+ model of the AESD socket server and character driver

This directory holds TLA+ specifications of the two main programs of this
repository, the kernel driver behind `/dev/aesdchar` (`aesd-char-driver/`) and
the socket server `aesdsocket` (`server/`), and of its small ones: the
`systemcalls` and `threading` examples and the finder application. TLC checks them on small
instances, TLAPS proves the central facts for every value of the constants.
`PROJECT.json` lists the components, runs, mutants, findings, hazards and
theorems, and for every definition the source lines it stands for.

## 1. Inventory

### The parts and how they interact

| Part | State | Operations | Correct when |
| --- | --- | --- | --- |
| Circular buffer (`aesd-circular-buffer.[ch]`) | array of entries, `in_offs`, `out_offs`, `full` | `init`, `add_entry`, `find_entry_offset_for_fpos` | it holds the newest entries in order, returns what it drops, and finds every byte of the concatenation |
| Driver (`aesd-char-driver/main.c`) | circular buffer, staging entry, device mutex, heap blocks, file positions | module init and cleanup, open, release, read, write | no dangling or lost block, writes are atomic, readers see lines end to end, every call returns |
| Server main loop (`server/src/main.c`, `utilities.c`) | SLIST of worker nodes, `application_result`, `errno`, `is_terminated` | accept with deadline, start a worker, join finished workers, join all, clean up | nodes live as long as their threads, shutdown finds nothing in use, threads are not left behind |
| Data transfer worker (`main.c`, `socket_client.c`) | `thread_status`, the connection, `result_file_mutex` | receive and append, send the file back | a client's data stays together, the reply is the file at one moment, no path keeps the mutex |
| Logger and signals (`main.c`, `config.c`) | timestamp semaphore, `is_terminated` | `log_timestamp_worker`, `sigusr1_handler`, `sigint_handler` | timestamps do not split messages, termination reaches everybody |
| Deadline (`socket_client.c`, `utilities.c`) | start, end and current time | `timespec_add`, `timespec_is_elapsed`, the accept loop | never early, noticed at the first reading of the clock behind it |
| Startup (`main.c`, `socket_server.c`, `utilities.c`) | descriptors, handlers, semaphore, timer, logger, mutex of parent and child | `socket_server_create`, `daemonize`, `setup_signal_handlers`, thread and mutex creation | only a process that is fully set up serves, an early signal still ends it |
| `examples/systemcalls` | the process table: program, children, exit statuses | `do_system`, `do_exec`, `do_exec_redirect` | true means that this command ran and exited with 0, children are reaped, the program is not duplicated |
| `examples/threading` | `thread_data` blocks, a mutex | `start_thread_obtaining_mutex`, `threadfunc` | a block lives as long as starter, thread or joiner uses it, every thread returns |
| Finder application (`finder-app/`) | files of a directory, exit codes | `writer`, `finder.sh`, `finder-test.sh` | success is reported exactly when nothing failed, and every file was written then |

The driver calls the circular buffer under its mutex and owns the memory the
entries point to. The server's workers and logger write to the result file,
which `config.h` makes `/dev/aesdchar` or a regular file, under
`result_file_mutex`; workers report to the main thread through `thread_status`
in a heap node that the main thread frees after joining; signal handlers run on
the main thread and reach the logger through a flag and a semaphore. The small
programs share nothing with these or with each other; `finder-test.sh` runs
`writer` and `finder.sh` and communicates with them through files and exit
codes.

### What is hard

* Processes that sleep inside the driver (`copy_to_user`, `copy_from_user`)
  while others complete and evict lines; a staging entry shared by all writers.
* `krealloc` that moves or fails, copies that stop half-way, five return paths
  that must unlock.
* Index wrap-around and unsigned arithmetic on empty slots.
* TCP segments of any size, silent clients, clients that close or reset.
* Workers, logger and main thread around one mutex; nodes freed by one thread
  and used by another; shutdown by signal, by error, at any moment.
* `errno` read after a successful call, signals that interrupt a nap, a post
  that is wiped out by `sem_init`, a logger that is older than its mutex.
* A file position that counts from the oldest line, which moves when a line is
  evicted; a reply that is sent after the mutex was given up once.
* Children of a failed `do_exec_redirect` that run on as a copy of the program;
  wait statuses of children that were killed; `exit(-1)` that arrives as 255.

The hazards, each at its line and with the properties meant to catch it, are in
`PROJECT.json`.

## 2. Modules

| Module | Role |
| --- | --- |
| `CircularBuffer` | the C functions as operators on the struct; no state |
| `RecentLog` | abstract: remembers the newest entries, hands back what it forgets |
| `CircularBufferSpec`, `MCCircularBuffer` | a buffer under any sequence of additions, and its TLC instance |
| `CircularBufferLemmas`, `CircularBufferProofs` | facts about the operators for any set of entries; the theorems |
| `LineStore` | abstract: what the device promises to writers and readers |
| `CharDevice`, `MCCharDevice` | the driver, its callers and the kernel heap, and the instance's payloads |
| `CharReaders` | the driver with history variables: what each reader has received, and the newest line it has seen |
| `MCCharReaders`, `MCCharLines` | its TLC instances; the second one assumes `BuffersSuffice`, as the theorems do |
| `CharDeviceProofs` | the theorems about the driver and its readers |
| `AesdSocket`, `MCAesdSocket` | the running server and its clients |
| `AesdSocketProofs` | the theorems about the server |
| `ConnectionTimeout`, `MCConnectionTimeout`, `ConnectionTimeoutProofs` | the accept deadline |
| `Startup`, `StartupProofs` | from `main` to `application()` and from there to the end of the process |
| `SystemCalls`, `SystemCallsProofs` | the three functions over a process table |
| `Threading` | starters, threads and joiner around one mutex |
| `FinderApp` | `finder-test.sh`, `writer` and `finder.sh` |
| `Examples`, `MCExamples` | the last three side by side, each behaviour one of a single program, chosen in the initial state; their instance |
| `ExamplesProofs` | the theorems about `Threading` and `FinderApp` |

`CharDevice` extends `CircularBuffer`, so the driver runs on the very operators
the theorems are about. `CircularBufferSpec` instantiates `RecentLog` with the
sequence of entries read from `out_offs` on; `CharDevice` instantiates
`LineStore` with the bytes the heap holds for those entries.

### Circular buffer

`add_entry` and `find_entry_offset_for_fpos` are operators that take the
struct, a record with the C field names. `find` computes the offset at which
each slot starts as a recursive function and returns the first slot whose last
offset reaches the position, or `NULL`; all arithmetic is modulo `SizeMod`, so
the wrap of `size - 1` on an empty slot is there. The C `peek` returns NULL on
an empty buffer; `find` tests `is_empty` once instead of at every step.

### Driver

A call is three steps: the system call arrives (`read`, `write`); the mutex is
taken and the handler runs to the copy (`aesd_read_find`, `aesd_read_eof`,
`aesd_write_alloc`, `aesd_write_enomem`); the copy and everything after it
(`aesd_read_copy`, `aesd_write_copy`). Between the second and the third step
the process sleeps with the mutex held, which is where the hazards are; a
handler step that takes and gives back the mutex in one go needs it to be free.
The heap maps each block to its bytes; `kmalloc` leaves bytes uninitialised,
`krealloc` keeps the block or moves it, `copy_from_user` clears what it could
not copy, and each may fail when it is in `Faults`. They are marked external
and follow the kernel's contract as the driver uses it. `kmalloc(0)` returns
`ZERO_SIZE_PTR`. The branch for a negative result of `copy_from_user` is never
taken, because that function returns an unsigned count. A call's return value
is not kept: it follows from the step that ends the call.

`CharReaders` adds variables that no step of the driver reads: whether a process
has had the device to itself since it opened it (`steady`), what it has received
since then (`received`), and how many of the lines kept are no newer than the
last one it was given (`seen`, one less after an eviction). `MaxLine` is the
longest line the model can gather: a write starts with at most `MaxPartial`
bytes gathered, and each process has at most one write under way.

### Server

`AesdSocket` has one action per step of the main thread, of each worker and of
the logger between two points where another thread could matter. A client
connects once, so its name names its connection, its worker and its node. A
message is a number of units of which the last carries the newline; a unit is
one recv-able piece, `BUFFER_SIZE` of them fit the receive buffer. A regular
file is one growing sequence, the device a sequence of lines: `HasEOL` and
`Push` restate what `CharDevice` is shown to implement.

`socket_client_create_connection` is `connection_timeout`, `accept` and
`nanosleep`: whether the second has passed is left open here and is the subject
of `ConnectionTimeout`. `accept` keeps `errno` on success and the code decides
by `errno`; `Interrupted` is the EINTR of a nap that a signal cut short.
The state of the main thread is one record (`main`), that of each worker
another (`thread`), that of each client a third (`client`). Handlers run on the
main thread, which stands still between the two statements
of `sigint_handler`. `thread_status` and `is_terminated` are plain variables
shared without a lock: the accessors and the calls around them keep the
compiler from caching them, so every read sees some value written before, and
the model's steps interleave all of them.

Left out of `AesdSocket`: the text of the timestamp and the failures of
`localtime_r` and `strftime` (the loop tests the flag again and retries),
logging, descriptors of the result file, `malloc` failing in `application`
(the code does not test it). The result file is smaller than the 32768-byte
read buffer and a reply fits the socket's send buffer, so one read returns all
of a regular file and a successful send does not block. What a client gets
beyond the file when a read fails and its -1 is passed to `send` as a length is
not kept in `reply`.

### Startup

Two processes, of which the second exists after the fork; the state of each is
one record. `parse_arguments` chooses foreground, daemon or the usage message.
Each later stage of `main` is an action that succeeds or, if one of its calls
is in `Faults`, ends the process (`Stage`). The clean-up calls of the error
paths release what ends with the process anyway and are not separate steps.
SIGINT and SIGTERM kill the process until their handlers are there and run the
two halves of the handler afterwards. A timer tick is assumed not to come
before `application()` is reached: the timer is armed for ten seconds, and
what is left of `main` then is one thread and one mutex. Descriptors are given
out lowest first; the descriptor `syslog` uses for itself is left out.

### Small programs

`SystemCalls` models a program that makes up to `MaxCalls` calls of the three
functions, one after the other. `fork` copies the process record, so a child is
a copy of the program until `execv` makes it a command. `do_system` is the C
library's `system`, whose child is a shell and ends with 127 if it cannot be
started; its result is compared with 0 as a whole. When `creat` or `dup2`
fails, the child is back in the program's code (`Returns`) and may make calls
of its own. Any process may be killed; processes whose parent is gone are
reaped by init. A `waitpid` that fails leaves its child behind, which
`abandoned` records.

`Threading` separates the four accesses to a `thread_data` block: allocation,
`pthread_create`, the starter's write of `thread_complete_success` after it,
and the joiner's read and free. The joiner is the caller, which knows the thread only
after the start function has returned. Sleeping times are left out: any order of
threads is possible. `malloc` is taken to succeed (the code does not test it).

`FinderApp` gives files as sequences of characters, because the missing
`O_TRUNC` and short writes matter: `Overwrite` keeps the tail of an old file.
`Matches` is `grep` with a string that it takes literally: one line, and no
character that is special in a pattern. `set -e` ends the script at the first
command that fails, up to and including the redirection and the `rm` after the
counting (finder-test.sh:61, 63), which may fail although every file was
written; a failing `rm` leaves any part of the directory. The `grep`s of
`finder.sh` may pass over a file without anyone noticing but the counts. The
counts are compared as text, where nothing follows the second number in the
pattern (`BeginsWith`: 1 would match 10). `failed` is a history variable that
records whether anything went wrong.

## 3. Runs

| Run | Instance | What it shows |
| --- | --- | --- |
| `ring` | 3 slots, 2 pointers, sizes 0..3, 4-bit `size_t` | several full turns of the ring: types, `RingInv`, lookups at every position, refinement of `RecentLog` |
| `device_memory` | 2 processes, 4 blocks, 2 lines kept, payloads `""`, `"a"`, `"\na"`, all faults but krealloc's, lines gathered over two writes | `MutexInv`, `MemorySafe`, `NoLeak` |
| `device_lines` | the same with payloads `"a"` and `"b\n"`, gathered over up to three writes, buffers longer than `MaxLine` | `SizeIsStored`, `ReadsSeeLines`, `ReadsNeverRepeat`, refinement of `LineStore` |
| `device_live` | 2 processes, 1 line kept, `kmalloc` and `krealloc` fail | every call returns, and a failing `krealloc` leaves no dangling pointer |
| `server_file` | 2 clients (1 and 3 units, buffer of 2), one quits, 1 tick | exclusion of workers, replies, messages, with a logger that writes |
| `server_device` | 2 clients (3 and 2 units), resets, every failure, 1 line kept | the device and all error paths: ownership of nodes, quiet shutdown, messages; a client's own message misses from its reply only if it was evicted; a connection is lost only by an error that stops the server |
| `server_live` | 2 clients, resets | shutdown ends, connections are finished and their threads joined, a failed worker stops the server |
| `startup` | both modes, every call may fail | `ServingIsSetUp`, `LoggerLocksInitialised`, `EarlySignalEnds` |
| `deadline` | a second of 4 ns, clock of 5 s, three timeouts | `DeadlineKept` |
| `examples` | 4 process numbers, 2 calls per program instance, every call may fail; 3 threads; 2 files that may exist, every command of the script may fail, short writes, unreadable files | `TrueMeansDone`, `OneProgram`, `ChildrenReaped`, `WaitsEnd`; `DataOwned`, `ThreadsReturn`; `SuccessIsEarned` |

Runs that TLC must refute, each a disagreement between code and a comment
(`findings` in `PROJECT.json` quotes both):

| Run | Shows |
| --- | --- |
| `device_offset` | a read with a short buffer restarts at the beginning of the line |
| `server_errno` | a connection accepted with a stale `errno` is lost and stops the server |

The model shows further disagreements for which no run is kept; each needs only
a change of constants, or a property of one line, or none at all:

* A message whose length is a multiple of `BUFFER_SIZE` is never answered: the
  loop of `socket_client_receive_and_write_data` (socket_client.c:78) calls
  `recv` once more, with the mutex held, while the client waits for its reply.
  Set `MsgLen` to `BUFFER_SIZE` in `server_live`: TLC refutes
  `ConnectionsFinish`. `server_live` uses other lengths.
* `do_exec_redirect` returns in the child when `creat` or `dup2` fails
  (systemcalls.c:136, 142), where its comment promises false "if an error
  occurred": the parent's call returns true if that copy of the program later
  exits with 0. `OneProgram` and `TrueMeansDone` name this one exception;
  without it TLC refutes both.
* `thread_complete_success` is set when the thread has been created
  (threading.c:36), not, as threading.h says, when it "completed with success".
* `slist_join_threads` and `slist_join_completed_threads` return true on an
  error, their comments say "true if successful" (utilities.h:66, 73);
  `setup_signal_handlers` returns -1 where its comment says 1 (main.c:69). The
  callers agree with the code.
* `"krealloc"` in the `Faults` of `device_lines`: TLC refutes `SizeIsStored`. A
  failing `krealloc` (main.c:122) leaves a null pointer with a size, where the
  header says "Number of bytes stored in buffptr", and loses the old block.
* `"copy_from_user"` there: the bytes that were not copied stay part of the
  line (main.c:148), and the caller writes them again.
* A client with no message (`MsgLen` 0) and a `server_live` specification: TLC
  refutes `GracefulShutdown`. Its worker stays in `recv` with the mutex held,
  and `slist_join_threads` waits for it (main.c:336, and the TODO at main.c:2).
* A message in two segments is answered after the first (socket_client.c:78):
  a worker reaches SUCCEEDED with data of a connected client outstanding.
* `send` without `MSG_NOSIGNAL` (socket_client.c:108): `main.pc = "killed"` is
  reachable when a client has reset its connection.
* `daemonize` opens `/dev/null` while descriptors 0 to 2 are open
  (utilities.c:60): the daemon serves with its parent's terminal.

### Bounds

`MaxOps` is 10 in the source. Two or three slots reach every case of the ring
(not full, becoming full, full, wrapped); the theorems cover the rest. `Blocks`
is one more than lines kept plus staging, so `krealloc` always has a place to
move to, and a write for which no block is free simply waits in the model, as
does a call beyond `MaxPos` or `MaxPartial`, which bound file positions and the
partial line. Two processes are enough for a sleeping reader and a writer, or
two writers of one line. Two clients, one of them with a message longer than
the buffer, are the smallest instance in which a message can be split, a node
removed from the middle of other work and a mutex contended. `MaxTicks` bounds
timestamps before termination (afterwards ticks go on, uncounted), `MaxSem` the
pending posts. In `examples`, two calls per instance of the program let a call
meet the abandoned child of the call before, and four process numbers let a
copy of the program fork while its parent waits. Symmetry is used for blocks and processes in the safety runs of
the driver only. In `client_sends` a client waits until its earlier piece was
received: pieces that arrive earlier are received together, which is the same
as arriving as one piece.

`CHECK_DEADLOCK FALSE` is set where the program ends or a client may stay away
for ever (server, startup), and for the deadline, whose clock stops.

### Fairness

* Driver: strong fairness for each process's handler steps. A holder of the
  mutex is never waiting for another one, and a kernel mutex hands itself over
  to waiters, so a process is not passed over for ever. Nothing is assumed
  about new calls.
* Server: strong fairness for workers and logger (a mutex that becomes free
  again and again is granted), weak fairness for the main thread, and strong
  fairness for `connection_timeout`, since a second passes in every wait. The
  timer keeps ticking and a handler that has begun returns. Clients send what
  they have; nothing obliges them to connect.
* Startup: weak fairness for threads, handlers and the timer.
* Examples: weak fairness for processes (commands and programs come to an end,
  which `do_exec` relies on; failing and killing are never obliged to happen),
  strong fairness for taking the mutex. The finder run has safety properties only.

`server_live` takes no ticks before termination, so timestamps are written only
in `server_file`; the logger's wait for the mutex is the workers' wait.

## 4. Proofs

TLAPS checks every theorem and lemma for every value of the constants that
satisfies the assumptions named in the modules that declare them. They say what
the code relies on: the capacity is 1 to 255, which the `uint8_t` indices
demand (`MaxOpsAssumption`); addresses, process names and the marks of the heap
are told apart (`DeviceAssumption`, `PayloadsAssumption`); messages have a
length, the receive buffer is not empty, the logger is no client
(`SocketAssumption`); and so on. `Faults` is any set of calls: a theorem without
further hypothesis holds whatever fails.

### Circular buffer

* `TypeCorrect`: the indices stay in the array. `TypeOK` is inductive by itself
  once `NextIdxInRange` is known.
* `RingCorrect`: `RingInv`, relative to `TypeOK`. It is inductive because it
  says both that `out_offs` rests at 0 until the buffer is full and that the
  filled slots are exactly the ones with a size.
* `BufferImplementsLog`: every behaviour of the buffer, seen through `Contents`,
  is a behaviour of `RecentLog`. The step is `AddEntryPushes`: adding appends,
  or drops the head and appends, and the pointer returned is the head's. Its
  two cases compare the sequences element by element; `WrapOnce` replaces the
  `%` of `peek` by one conditional subtraction.
* `SearchCorrect`: `FindMatchesConcatenation`, if all bytes together can be
  counted by a `size_t` (`SizesFit`). The search and its reference are both
  recursive functions. What they compute is found by induction on the slots,
  which the prover does not offer directly: the lemmas take the least slot at
  which the claim fails (`LeastNatural`, from the least-element theorem of the
  library, which is about a set and not about an operator). The search is
  characterised for any bound on the sizes, for the driver's use too: the
  offsets the loop goes through are sums (`StartsAreSums`) and increase
  (`StartsIncrease`), the entry returned is the one around the position and
  `NULL` is returned behind the last byte (`FindsByPosition`), and an addition
  moves no entry, or moves each to the front (`StartsAfterAdd`).

### Driver

`DeviceInv` is the inductive invariant: the types; the mutex is held by exactly
the process that is copying; nobody has the device open while the module is not
inserted; each slot in use has an allocated block of its own with the recorded
size, other than the staging entry's; the staging entry has a block only if it
has bytes; a writer that is copying has made the staging entry as long as the
bytes gathered before and its own; a reader that is copying does so from a slot
in use. The last two are what makes a process that sleeps in a copy safe.

* `TypeCorrect`, `MutualExclusion`, `MemoryIsSafe` follow from `DeviceInv`
  whatever fails, a failing `krealloc` included.
* `NothingLeaks` adds `HeapOwned` (every allocated block belongs to a slot in
  use or to the staging entry) and `StagingKept`. It has the hypothesis that
  `krealloc` does not fail: when it does, the driver overwrites the only pointer
  to the old block (main.c:122), and `NoLeak` is false.
* `DriverImplementsStore`: the step simulation of `LineStore`. Every step but
  `aesd_write_copy` leaves `Lines` and `Partial` alone, moves of the block by
  `krealloc` included (`AllocIsQuiet`); `aesd_write_copy` appends the data to
  `Partial`, and completes a line exactly if the data has a newline
  (`WriteHappens`, with `LinePushed` for the eviction). Hypotheses: neither
  `krealloc` nor `copy_from_user` fails. Section 3 says what happens otherwise.
* `StagingIsWritten`: `SizeIsStored`, under the same two hypotheses, from
  `GatheredBytes`.
* `LinesNeverRepeat` and `LinesAreSeen`: `ReadsNeverRepeat` and `ReadsSeeLines`,
  for any number of processes. Their hypothesis is `BuffersSuffice`: readers
  pass buffers of at least `MaxLine` bytes, `copy_to_user` does not fault, and
  a full device has fewer bytes than a `size_t` counts. The first two are
  needed: a read that copies less than the line advances the position into the
  line, and the next one starts the line again (`device_offset`). Allocations
  and writes may fail. `ReadersInv` is the inductive invariant, relative to
  `DeviceInv`:
  - `SizeInv`: no line exceeds `MaxLine`. It is inductive because it counts the
    writers that have started and not yet added their bytes.
  - `FoundInv`: the line a sleeping reader copies is the one its position falls
    in; the reader holds the mutex, so no line is added meanwhile.
  - `SeenInv`: the position is not in front of the end of the last line given.
    An eviction leaves the position alone and lowers the place at which each
    line kept ends (`StartsAfterAdd`); only `release` moves the position back.
  - `SteadyInv`: an undisturbed reader stands exactly behind the lines it has
    received, which are the oldest ones (`Joined`).

  `ProcessSteps` and `LineSteps` say what a step of anybody is for one process
  and for the lines, so that the invariants are not taken through each action.
  That `FlattenSeq` of the lines is what the reader collects is by induction
  on the number of lines (`FlattenIsJoined`, `JoinedPrefix`).

### Server

Four invariants, each relative to `TypeInv` and `OwnInv`:

* `TypeInv`: `TypeOK`, with `StreamInv` (what a client has not sent and what
  waits for `recv` is part of its message) and `FdInv` (the main thread has a
  connection only between `accept` and the start of its worker).
* `OwnInv`: `ConnectionInv` ties `list`, `node`, `backlog`, `client_fd` and the
  workers together, `JoinInv` says what a walk over the list has still to visit.
  `MutualExclusion`, `NodesSafe` and `ShutdownIsQuiet` follow; `NoSilentLoss` is
  inductive relative to it.
* `EchoInv`: what a worker has received is in the file from then on, or was
  evicted; what it has sent is what the file was. `EchoStep` and `FileGrows` say
  what one step of one thread means for the answer of another, so that each
  action is looked at once (`EchoKept`). `EchoSnapshot` and `EchoOnDevice`
  follow.
* `WholeInv`: a worker that has not begun to receive has nothing in the file,
  and one that is receiving finds its last unit at the very end of the file,
  unless its message is complete (`PlaceInv`). With this, `MessageIntact` is
  preserved by every write (`IntactKept`): the data continues the message, or
  begins it, or is a timestamp. `MessagesIntact` follows.

### Deadline, startup and the small programs

* `TimeoutCorrect`: `DeadlineKept`. `AddIsSum` and `ElapsedIsAfter` say that
  `timespec_add` and `timespec_is_elapsed` are addition and order on
  nanoseconds; `DeadlineInv` adds what is needed for induction: the deadline
  is start plus timeout, and the last reading tested was not behind it.
  `TypeCorrect` follows from it too.
* `TypeCorrect`, `ServerIsComplete`, `MutexBeforeUse`: `StartupInv` says for
  every stage what the stages before it have left behind (descriptors, handlers,
  timer, logger, mutex), that parent and child never both go on (`ForkInv`), and
  that until the mutex is initialised only a handler that has set the flag can
  have woken the logger (`WakeInv`).
* `TypeCorrect`, `OnlyRedirectReturns`, `NoChildLeft` and the action property
  `TrueIsTrue`: `CallsInv` says that whoever waits does so for a child of its
  own that was forked in the function that waits (`WaitInv`), that every other
  child was abandoned (`ParentInv`), and what a process that exited with 0 can
  have been (`ZombieInv`).
* `BlocksOwned`: `ThreadsInv` lists how far starter, thread and joiner of a
  block can be at the same time.
* `ScriptIsRight`: `ScriptInv` says what each file holds while `writer` is
  called for one after the other, and that afterwards both counts are `NUMFILES`
  exactly when nothing has failed; `FinderCounts` relates the counts of
  `finder.sh` to the files it could read, `TextComparison` shows that comparing
  text is comparing numbers when no count exceeds `NUMFILES`.
  `FinderAssumption`: there is a file to write, and the string is not empty and
  has no newline. That `grep` takes it literally is part of `Matches`.

### Only model-checked

* Liveness: `CallsReturn`, `GracefulShutdown`, `ConnectionsFinish`,
  `FailureStopsServer`, `EarlySignalEnds`, `WaitsEnd`, `ThreadsReturn`. They
  need fairness and `ENABLED`, which are out of the prover's reach.

Every invariant and every action property of a passing run is also a theorem.

## 5. Not modelled

* `read_line_from_stream` is not called by anything. The `SLIST` macros of the
  vendored `queue.h` are part of the actions that use them; the other list kinds
  are unused.
* The build, QEMU, load and unload scripts and the init script are fixed
  sequences of commands. `autotest-validate` consists of constant functions.
* `malloc` failing in the server and in `threading` (the code does not test it
  and would dereference a null pointer); descriptors of the result file and what
  `append_to_file` and `socket_client_send_file` leak on their error paths;
  `syslog` called from a signal handler; the `timer_delete` of a timer that was
  never created (main.c:129). These hazards are listed without a property, and so
  are those whose outcome in the code is one of the defects of section 3.
* Strings that `grep` would take for a pattern, and standard output that cannot
  be written to, in `finder-test.sh`.
* The usage messages of `writer` and `finder.sh`: their only caller in the
  repository passes two arguments.

## 6. Plan

Done: all parts with state of their own, in the order circular buffer, driver,
server, deadline, startup, small programs; every safety property of a passing
run as a theorem. What is left is the liveness of section 4, for another prover.
