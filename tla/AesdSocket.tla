----------------------------- MODULE AesdSocket -----------------------------
(***************************************************************************)
(* The running aesdsocket server (server/src): the main thread that        *)
(* accepts connections and joins finished workers, one worker thread per   *)
(* connection, the timestamp logger, the two signal handlers, and the      *)
(* clients at the other end. Workers and logger share the result file      *)
(* under result_file_mutex; everybody shares is_terminated and the         *)
(* timestamp semaphore.                                                    *)
(*                                                                         *)
(* The model starts where application() is called: sockets, handlers,      *)
(* timer, logger thread and mutex are set up. A client connects once, so   *)
(* its name also names its connection, its worker and its list node. A     *)
(* unit of data is a pair of its sender and its place in the message.      *)
(***************************************************************************)
EXTENDS Integers, Sequences

CONSTANTS
  Clients,
  MsgLen,                \* units each client has to send; the last is '\n'
  Quitters,              \* clients that close without waiting for a reply
  Resetters,             \* clients whose connection may be reset
  LOGGER,                \* the timestamp logger
  NULL,
  BUFFER_SIZE,           \* units one recv can return
  USE_AESD_CHAR_DEVICE,  \* the result file is /dev/aesdchar
  MaxOps,                \* lines the device keeps
  Faults,                \* what may fail
  MaxTicks,              \* bound: timer ticks before termination
  MaxSem                 \* bound: pending posts of the semaphore

ASSUME SocketAssumption ==
  /\ MsgLen \in [Clients -> Nat]
  /\ Quitters \subseteq Clients /\ Resetters \subseteq Clients
  /\ LOGGER \notin Clients /\ NULL \notin Clients /\ NULL # LOGGER
  /\ BUFFER_SIZE \in Nat \ {0}
  /\ USE_AESD_CHAR_DEVICE \in BOOLEAN
  /\ MaxOps \in Nat \ {0}
  /\ Faults \subseteq {"accept", "pthread_create", "write", "read",
                       "sigpipe"}
  /\ MaxTicks \in Nat /\ MaxSem \in Nat \ {0}

VARIABLES
  main,           \* the main thread, a MainThread
  is_terminated,
  sem,            \* timestamp_semaphore
  mutex,          \* holder of result_file_mutex, or NULL
  file,           \* the result file
  list,           \* the SLIST, head first
  thread,         \* the worker of each connection, a Thread
  logger,         \* where the logger is
  sigint,         \* where the SIGINT/SIGTERM handler is
  ticks,          \* timer ticks so far
  backlog,        \* connections waiting for accept
  open_fds,       \* connected sockets the server has open
  client          \* the other end of each connection, a Client

signal_vars == <<sigint, ticks>>
vars == <<main, is_terminated, sem, mutex, file, list, thread, logger,
          signal_vars, backlog, open_fds, client>>

Units == (Clients \cup {LOGGER}) \X Nat

MainThread ==
  [pc        : {"connection", "nap", "spawn", "join_completed",
                "join_threads", "join_logger", "done", "killed"},
   errno     : {"EAGAIN", "other"},
   client_fd : Clients \cup {NULL},  \* what accept has just returned, or NULL
   todo      : Seq(Clients),         \* nodes SLIST_FOREACH_SAFE has yet to visit
   is_error  : BOOLEAN,
   result    : {0, -1}]              \* application_result

Running == {"start", "lock_receive", "receive", "lock_send", "send",
            "succeeded", "failed"}

Thread ==
  [pc     : Running \cup {"none", "exiting", "exited"},
   status : {"UNITITIALIZED", "RUNNING", "SUCCEEDED", "FAILED"},
   node   : {"none", "allocated", "freed"}]  \* its struct node

Client ==
  [conn   : {"away", "up", "shut", "reset"},
   unsent : Nat,              \* units it has not sent yet
   inbox  : Nat,              \* units that arrived and wait for recv
   reply  : Seq(Seq(Units))]  \* what it was sent, one element per send

-----------------------------------------------------------------------------
(* The result file. The device gathers writes into lines and keeps the     *)
(* newest MaxOps of them; a regular file is one growing piece.             *)

HasEOL(data) ==
  \E i \in DOMAIN data : data[i][1] = LOGGER \/ data[i][2] = MsgLen[data[i][1]]

Push(lines, line) ==
  IF Len(lines) < MaxOps THEN Append(lines, line)
                         ELSE Append(Tail(lines), line)

(* Mutated form of Appended: the file is opened with O_TRUNC. *)
Appended_overwrites(f, data) == [f EXCEPT !.partial = data]

(* The file after write(fd, data, Len(data)). *)
Appended(f, data) ==
  IF USE_AESD_CHAR_DEVICE /\ HasEOL(data)
    THEN [lines |-> Push(f.lines, f.partial \o data), partial |-> <<>>]
    ELSE [f EXCEPT !.partial = @ \o data]

(* Mutated form of Reads: the loop ends before the last piece. *)
Reads_ends_early(f) ==
  IF USE_AESD_CHAR_DEVICE THEN SubSeq(f.lines, 1, Len(f.lines) - 1)
  ELSE <<>>

(* What successive read calls return up to end of file: the device hands   *)
(* out one line per call, a regular file (smaller than the read buffer)    *)
(* everything at once.                                                     *)
Reads(f) ==
  IF USE_AESD_CHAR_DEVICE THEN f.lines
  ELSE IF f.partial = <<>> THEN <<>> ELSE <<f.partial>>

EmptyFile == [lines |-> <<>>, partial |-> <<>>]

-----------------------------------------------------------------------------
Init ==
  /\ main = [pc |-> "connection", errno |-> "other", client_fd |-> NULL,
             todo |-> <<>>, is_error |-> FALSE, result |-> 0]
  /\ is_terminated = FALSE /\ sem = 0 /\ mutex = NULL
  /\ file = EmptyFile /\ list = <<>>
  /\ thread = [c \in Clients |->
                 [pc |-> "none", status |-> "UNITITIALIZED", node |-> "none"]]
  /\ logger = "wait" /\ sigint = "none" /\ ticks = 0
  /\ backlog = <<>> /\ open_fds = {}
  /\ client = [c \in Clients |-> [conn |-> "away", unsent |-> MsgLen[c],
                                  inbox |-> 0, reply |-> <<>>]]

-----------------------------------------------------------------------------
(* Mutated forms, each a slip a maintainer of the server could make. *)

(* A node is taken off the list and freed without waiting for its thread. *)
Joinable_running(c) == TRUE

(* A worker that fails returns with the mutex locked. *)
UnlockOnFailure_missing(c) == mutex' = c

(* The result file is used without waiting for the mutex. *)
MutexFree_ignored == TRUE

(* The length of the buffer is used instead of the length received. *)
Received_whole_buffer(c) == BUFFER_SIZE

(* The logger writes without asking for the mutex. *)
LoggerMayWrite_unlocked == TRUE

(* main returns without joining the logger. *)
LoggerJoined_not_awaited == TRUE

(* The flag is not set when a worker reported an error. *)
StopAfterError_forgotten == is_terminated' = is_terminated

(* An error of accept is reported, and the loop goes on. *)
Abort_goes_on(errno) ==
  /\ main' = [main EXCEPT !.result = -1, !.pc = "connection",
                          !.client_fd = NULL, !.errno = errno]
  /\ UNCHANGED is_terminated

-----------------------------------------------------------------------------
(* Main thread: application() and the end of main(). The signal handlers   *)
(* run on this thread, which stands still while one of them does.          *)

MainAt(stage) == main.pc = stage /\ sigint # "post"

(* What the main thread leaves alone. *)
main_frame == <<sem, mutex, logger, signal_vars, client>>

(* application_result = -1 and config_set_is_terminated, then back to the  *)
(* loop condition.                                                         *)
Abort(errno) ==
  /\ main' = [main EXCEPT !.result = -1, !.pc = "connection",
                          !.client_fd = NULL, !.errno = errno]
  /\ is_terminated' = TRUE

(* The loop condition, which socket_client_create_connection tests again   *)
(* (returning 1) before every accept: on to slist_join_threads.            *)
application_ends ==
  /\ MainAt("connection") /\ is_terminated
  /\ main' = [main EXCEPT !.pc = "join_threads", !.todo = list]
  /\ UNCHANGED <<main_frame, is_terminated, file, list, thread, backlog, open_fds>>

(* The timeout has elapsed: it returns 2, and the list is walked. *)
connection_timeout ==
  /\ MainAt("connection") /\ ~is_terminated
  /\ main' = [main EXCEPT !.pc = "join_completed", !.todo = list]
  /\ UNCHANGED <<main_frame, is_terminated, file, list, thread, backlog, open_fds>>

(***************************************************************************)
(* accept takes a connection and leaves errno alone, or finds none and     *)
(* sets EAGAIN, or fails. The code then looks at errno, not at the         *)
(* descriptor: only EAGAIN leads to the nap, after which a descriptor      *)
(* found is returned. With any other errno the call returns -1, and the    *)
(* connection it may have taken stays open.                                *)
(***************************************************************************)
accept ==
  /\ MainAt("connection") /\ ~is_terminated
  /\ \E fd \in Clients \cup {NULL}, errno \in {"EAGAIN", "other"} :
       /\ \/ backlog # <<>> /\ fd = Head(backlog) /\ errno = main.errno
          \/ backlog = <<>> /\ fd = NULL /\ errno = "EAGAIN"
          \/ "accept" \in Faults /\ fd = NULL /\ errno = "other"
       /\ backlog' = IF fd = NULL THEN backlog ELSE Tail(backlog)
       /\ open_fds' = open_fds \cup ({fd} \ {NULL})
       /\ IF errno = "EAGAIN"
            THEN /\ main' = [main EXCEPT !.errno = errno, !.pc = "nap",
                                         !.client_fd = fd]
                 /\ UNCHANGED is_terminated
            ELSE Abort(errno)
  /\ UNCHANGED <<main_frame, file, list, thread>>

(* The 10 ms nanosleep is over. *)
nanosleep ==
  /\ MainAt("nap")
  /\ main' = [main EXCEPT !.pc = IF main.client_fd = NULL THEN "connection"
                                                          ELSE "spawn"]
  /\ UNCHANGED <<main_frame, is_terminated, file, list, thread, backlog, open_fds>>

(* malloc of the node, pthread_create, SLIST_INSERT_HEAD. *)
start_worker ==
  /\ MainAt("spawn")
  /\ thread' = [thread EXCEPT ![main.client_fd] =
       [pc |-> "start", status |-> "UNITITIALIZED", node |-> "allocated"]]
  /\ list' = <<main.client_fd>> \o list
  /\ main' = [main EXCEPT !.pc = "connection", !.client_fd = NULL]
  /\ UNCHANGED <<main_frame, is_terminated, file, backlog, open_fds>>

(* pthread_create fails: the node is freed and the connection closed. *)
start_worker_fails ==
  /\ MainAt("spawn") /\ "pthread_create" \in Faults
  /\ open_fds' = open_fds \ {main.client_fd}
  /\ Abort(main.errno)
  /\ UNCHANGED <<main_frame, file, list, thread, backlog>>

(* pthread_join can return: the thread has exited. *)
Joinable(c) == thread[c].pc = "exited"

(* The list without its i-th node. *)
Unlinked(s, i) == SubSeq(s, 1, i - 1) \o SubSeq(s, i + 1, Len(s))

(* SLIST_REMOVE, which looks for the node the walk is at, and free of it.  *)
RemoveAndFree(c) ==
  /\ \E i \in DOMAIN list : list[i] = c /\ list' = Unlinked(list, i)
  /\ thread' = [thread EXCEPT ![c].node = "freed"]

Completed(s) == s \in {"SUCCEEDED", "FAILED"}

(* One iteration of slist_join_completed_threads. *)
slist_join_completed_threads ==
  LET c == Head(main.todo)
      s == thread[c].status
  IN  /\ MainAt("join_completed") /\ main.todo # <<>>
      /\ IF Completed(s) THEN Joinable(c) /\ RemoveAndFree(c)
                         ELSE UNCHANGED <<list, thread>>
      /\ main' = [main EXCEPT !.todo = Tail(@), !.is_error = @ \/ s = "FAILED"]
      /\ UNCHANGED <<main_frame, is_terminated, file, backlog, open_fds>>

StopAfterError == is_terminated' = TRUE

(* Its end: true, an error, stops the application. *)
joined_completed ==
  /\ MainAt("join_completed") /\ main.todo = <<>>
  /\ main' = [main EXCEPT !.pc = "connection", !.is_error = FALSE,
                          !.result = IF main.is_error THEN -1 ELSE @]
  /\ IF main.is_error THEN StopAfterError ELSE UNCHANGED is_terminated
  /\ UNCHANGED <<main_frame, file, list, thread, backlog, open_fds>>

(* One iteration of slist_join_threads: every thread is waited for. *)
slist_join_threads ==
  LET c == Head(main.todo)
  IN  /\ MainAt("join_threads") /\ main.todo # <<>>
      /\ Joinable(c)
      /\ RemoveAndFree(c)
      /\ main' = [main EXCEPT !.todo = Tail(@)]
      /\ UNCHANGED <<main_frame, is_terminated, file, backlog, open_fds>>

(* slist_free of what is left, and the end of application(). *)
slist_free ==
  /\ MainAt("join_threads") /\ main.todo = <<>>
  /\ main' = [main EXCEPT !.pc = "join_logger"]
  /\ thread' = [c \in Clients |->
       IF \E i \in DOMAIN list : list[i] = c
         THEN [thread[c] EXCEPT !.node = "freed"] ELSE thread[c]]
  /\ list' = <<>>
  /\ UNCHANGED <<main_frame, is_terminated, file, backlog, open_fds>>

LoggerJoined == logger = "exited"

(* main() joins the logger, removes a regular result file, destroys the    *)
(* mutex, deletes the timer and closes the socket.                         *)
cleanup ==
  /\ MainAt("join_logger") /\ LoggerJoined
  /\ main' = [main EXCEPT !.pc = "done"]
  /\ file' = IF USE_AESD_CHAR_DEVICE THEN file ELSE EmptyFile
  /\ UNCHANGED <<main_frame, is_terminated, list, thread, backlog, open_fds>>

-----------------------------------------------------------------------------
(* Worker threads: data_transfer_worker. *)

(* What a worker leaves alone. *)
worker_frame == <<main, is_terminated, sem, list, logger, signal_vars, backlog>>

(* The worker of c takes a step of the program, and sets its status. *)
GoStatus(c, from, to, status) ==
  /\ main.pc # "killed" /\ thread[c].pc = from
  /\ thread' = [thread EXCEPT ![c].pc = to, ![c].status = status]

Go(c, from, to) == GoStatus(c, from, to, thread[c].status)

worker_start(c) ==
  /\ GoStatus(c, "start", "lock_receive", "RUNNING")
  /\ UNCHANGED <<worker_frame, mutex, file, client, open_fds>>

(* pthread_mutex_lock on result_file_mutex may return. *)
MutexFree == mutex = NULL

(* The mutex is locked before receiving, and again before sending. *)
worker_lock(c) ==
  /\ Go(c, "lock_receive", "receive") \/ Go(c, "lock_send", "send")
  /\ MutexFree
  /\ mutex' = c
  /\ UNCHANGED <<worker_frame, file, client, open_fds>>

(* How many units recv takes from the socket of c. *)
Received(c) ==
  IF client[c].inbox < BUFFER_SIZE THEN client[c].inbox ELSE BUFFER_SIZE

(* How many units of c have been received so far. *)
Taken(c) == MsgLen[c] - client[c].unsent - client[c].inbox

(* The first n units of c that wait in its socket. *)
Waiting(c, n) == [i \in 1 .. n |-> <<c, Taken(c) + i>>]

(***************************************************************************)
(* recv returns what is there, at most a buffer full, and append_to_file   *)
(* writes it. After a full buffer the loop asks for more; after less, or   *)
(* after 0 at the end of the stream, receiving is over. recv blocks, with  *)
(* the mutex held, as long as nothing is there and the stream is open.     *)
(***************************************************************************)
receive(c) ==
  LET n == Received(c)
  IN  /\ client[c].conn # "reset" /\ (n > 0 \/ client[c].conn = "shut")
      /\ client' = [client EXCEPT ![c].inbox = @ - n]
      /\ file' = Appended(file, Waiting(c, n))
      /\ IF n = BUFFER_SIZE
           THEN Go(c, "receive", "receive") /\ UNCHANGED mutex
           ELSE Go(c, "receive", "lock_send") /\ mutex' = NULL
      /\ UNCHANGED <<worker_frame, open_fds>>

(* pthread_mutex_unlock on the two error paths. *)
UnlockOnFailure(c) == mutex' = NULL

(* recv returns -1, or append_to_file does: nothing or part of the data    *)
(* was written, or all of it and close failed.                             *)
receive_fails(c) ==
  /\ Go(c, "receive", "failed")
  /\ \/ client[c].conn = "reset" /\ UNCHANGED <<file, client>>
     \/ /\ "write" \in Faults /\ client[c].inbox > 0 /\ client[c].conn # "reset"
        /\ \E k \in 0 .. Received(c) : file' = Appended(file, Waiting(c, k))
        /\ client' = [client EXCEPT ![c].inbox = @ - Received(c)]
  /\ UnlockOnFailure(c)
  /\ UNCHANGED <<worker_frame, open_fds>>

(* send has a client that can receive, or nothing to send. *)
SendWorks(c) == client[c].conn # "reset" \/ Reads(file) = <<>>

(* socket_client_send_file: what the reads return is sent piece by piece. *)
send_file(c) ==
  /\ Go(c, "send", "succeeded") /\ SendWorks(c)
  /\ client' = [client EXCEPT ![c].reply = Reads(file)]
  /\ mutex' = NULL
  /\ UNCHANGED <<worker_frame, file, open_fds>>

(* A send returns -1 after some pieces went out, or the read does and its  *)
(* -1 is passed to send as a length.                                       *)
send_file_fails(c) ==
  /\ Go(c, "send", "failed")
  /\ ~SendWorks(c) \/ "read" \in Faults
  /\ \E k \in 0 .. Len(Reads(file)) :
       client' = [client EXCEPT ![c].reply = SubSeq(Reads(file), 1, k)]
  /\ UnlockOnFailure(c)
  /\ UNCHANGED <<worker_frame, file, open_fds>>

(* send on a connection the peer has reset raises SIGPIPE, which nothing   *)
(* handles or blocks: the process ends.                                    *)
send_raises_sigpipe(c) ==
  /\ main.pc # "killed" /\ thread[c].pc = "send"
  /\ "sigpipe" \in Faults /\ ~SendWorks(c)
  /\ main' = [main EXCEPT !.pc = "killed"]
  /\ open_fds' = {}
  /\ UNCHANGED <<main_frame, is_terminated, file, list, thread, backlog>>

(* close of the connection, then the final status. *)
worker_finish(c) ==
  /\ \/ GoStatus(c, "succeeded", "exiting", "SUCCEEDED")
     \/ GoStatus(c, "failed", "exiting", "FAILED")
  /\ open_fds' = open_fds \ {c}
  /\ UNCHANGED <<worker_frame, mutex, file, client>>

pthread_exit(c) ==
  /\ Go(c, "exiting", "exited")
  /\ UNCHANGED <<worker_frame, mutex, file, client, open_fds>>

-----------------------------------------------------------------------------
(* log_timestamp_worker. localtime_r and strftime are taken to succeed: a  *)
(* failure only makes the loop test is_terminated again.                   *)

(* What the logger leaves alone. *)
logger_frame == <<main, is_terminated, mutex, list, thread, signal_vars,
                  backlog, open_fds, client>>

LoggerAt(stage) == main.pc # "killed" /\ logger = stage

logger_sem_wait ==
  /\ LoggerAt("wait") /\ sem > 0
  /\ sem' = sem - 1
  /\ logger' = "check"
  /\ UNCHANGED <<logger_frame, file>>

(* With the character device no timestamp is written. *)
logger_check ==
  /\ LoggerAt("check")
  /\ logger' = CASE is_terminated                          -> "exited"
                 [] ~is_terminated /\ USE_AESD_CHAR_DEVICE  -> "wait"
                 [] ~is_terminated /\ ~USE_AESD_CHAR_DEVICE -> "append"
  /\ UNCHANGED <<logger_frame, sem, file>>

LoggerMayWrite == mutex = NULL

(* The mutex is locked, the timestamp appended, the mutex unlocked; a      *)
(* failing append is only logged.                                          *)
logger_append ==
  /\ LoggerAt("append") /\ LoggerMayWrite
  /\ \/ file' = Appended(file, <<<<LOGGER, ticks>>>>)
     \/ "write" \in Faults /\ UNCHANGED file
  /\ logger' = "wait"
  /\ UNCHANGED <<logger_frame, sem>>

-----------------------------------------------------------------------------
(* Signals, which the kernel delivers to the main thread. They interrupt   *)
(* its nanosleep.                                                          *)

SignalAllowed == main.pc \notin {"killed", "done"}

Interrupted ==
  main' = [main EXCEPT !.errno = IF main.pc = "nap" THEN "other" ELSE @]

(* What the signal handlers leave alone. *)
handler_frame == <<mutex, file, list, thread, logger, backlog, open_fds, client>>

(* sigusr1_handler, every TIMESTAMP_LOG_INTERVAL_S seconds. *)
sigusr1_handler ==
  /\ SignalAllowed /\ sem < MaxSem /\ (ticks < MaxTicks \/ is_terminated)
  /\ sem' = sem + 1
  /\ ticks' = IF is_terminated THEN ticks ELSE ticks + 1
  /\ Interrupted
  /\ UNCHANGED <<handler_frame, is_terminated, sigint>>

(* sigint_handler: first the flag, then the post. *)
sigint_handler ==
  /\ SignalAllowed /\ sigint = "none"
  /\ is_terminated' = TRUE
  /\ sigint' = "post"
  /\ UNCHANGED <<handler_frame, main, sem, ticks>>

sigint_handler_post ==
  /\ SignalAllowed /\ sigint = "post"
  /\ sem' = IF sem < MaxSem THEN sem + 1 ELSE sem
  /\ sigint' = "returned"
  /\ Interrupted
  /\ UNCHANGED <<handler_frame, is_terminated, ticks>>

-----------------------------------------------------------------------------
(* Clients. *)

(* What a client that is connected leaves alone. *)
client_frame == <<main, is_terminated, sem, mutex, file, list, thread, logger,
                  signal_vars, open_fds>>

(* The server's end of the connection is open, or will be: what a client   *)
(* does after that no longer matters.                                      *)
Connected(c) ==
  SignalAllowed /\ (c \in open_fds \/ \E i \in DOMAIN backlog : backlog[i] = c)

client_connects(c) ==
  /\ SignalAllowed /\ client[c].conn = "away"
  /\ client' = [client EXCEPT ![c].conn = "up"]
  /\ backlog' = Append(backlog, c)
  /\ UNCHANGED client_frame

(* Any number of units arrives. What arrives before an earlier piece was   *)
(* received might as well have arrived with it.                            *)
client_sends(c) ==
  /\ Connected(c) /\ client[c].conn = "up" /\ client[c].inbox = 0
  /\ \E n \in 1 .. client[c].unsent :
       client' = [client EXCEPT ![c].unsent = @ - n, ![c].inbox = n]
  /\ UNCHANGED <<client_frame, backlog>>

(* The client has nothing more to send: what it sent is still received.    *)
client_shuts(c) ==
  /\ Connected(c) /\ client[c].conn = "up" /\ c \in Quitters
  /\ client' = [client EXCEPT ![c].conn = "shut"]
  /\ UNCHANGED <<client_frame, backlog>>

client_resets(c) ==
  /\ Connected(c) /\ client[c].conn \in {"up", "shut"} /\ c \in Resetters
  /\ client' = [client EXCEPT ![c].conn = "reset"]
  /\ UNCHANGED <<client_frame, backlog>>

-----------------------------------------------------------------------------
MainStep ==
  \/ application_ends \/ connection_timeout
  \/ accept \/ nanosleep \/ start_worker \/ start_worker_fails
  \/ slist_join_completed_threads \/ joined_completed
  \/ slist_join_threads \/ slist_free \/ cleanup

WorkerStep(c) ==
  \/ worker_start(c) \/ worker_lock(c) \/ receive(c) \/ receive_fails(c)
  \/ send_file(c) \/ send_file_fails(c) \/ send_raises_sigpipe(c)
  \/ worker_finish(c) \/ pthread_exit(c)

LoggerStep == logger_sem_wait \/ logger_check \/ logger_append

ClientStep(c) ==
  client_connects(c) \/ client_sends(c) \/ client_shuts(c) \/ client_resets(c)

Next ==
  \/ MainStep \/ LoggerStep
  \/ sigusr1_handler \/ sigint_handler \/ sigint_handler_post
  \/ \E c \in Clients : WorkerStep(c) \/ ClientStep(c)

Spec == Init /\ [][Next]_vars

(***************************************************************************)
(* Threads are scheduled and a mutex that is free again and again is       *)
(* granted in the end (strong fairness), one second of waiting elapses     *)
(* again and again, the timer keeps ticking, a signal handler returns.     *)
(***************************************************************************)
ServerFairness ==
  /\ WF_vars(MainStep) /\ SF_vars(connection_timeout)
  /\ SF_vars(LoggerStep)
  /\ \A c \in Clients : SF_vars(WorkerStep(c))
  /\ WF_vars(sigusr1_handler) /\ WF_vars(sigint_handler_post)

(* Clients send what they have, and those that quit do so in the end.      *)
ClientFairness ==
  \A c \in Clients : WF_vars(client_sends(c) \/ client_shuts(c))

FairSpec == Spec /\ ServerFairness /\ ClientFairness

-----------------------------------------------------------------------------
(* Every variable has its type. *)
TypeOK ==
  /\ main \in MainThread
  /\ list \in Seq(Clients) /\ backlog \in Seq(Clients)
  /\ is_terminated \in BOOLEAN
  /\ sem \in 0 .. MaxSem /\ ticks \in 0 .. MaxTicks
  /\ mutex \in Clients \cup {NULL}
  /\ file \in [lines : Seq(Seq(Units)), partial : Seq(Units)]
  /\ thread \in [Clients -> Thread] /\ client \in [Clients -> Client]
  /\ logger \in {"wait", "check", "append", "exited"}
  /\ sigint \in {"none", "post", "returned"}
  /\ open_fds \subseteq Clients

(* A worker's thread_data lives as long as the worker uses it: the node of *)
(* a running worker is allocated and on the list exactly once, so that it  *)
(* will be joined, and a node is freed only after its thread has exited.   *)
NodesOwned ==
  /\ \A i, j \in DOMAIN list : list[i] = list[j] => i = j
  /\ \A c \in Clients :
       /\ thread[c].node = "allocated" <=> \E i \in DOMAIN list : list[i] = c
       /\ thread[c].pc \in Running => thread[c].node = "allocated"
       /\ thread[c].node = "freed" => thread[c].pc = "exited"

(* Receiving and sending exclude each other between workers: one worker at *)
(* a time is between locking and unlocking result_file_mutex.              *)
MutexInv ==
  \A c \in Clients : thread[c].pc \in {"receive", "send"} <=> mutex = c

(* When main destroys the mutex and returns nobody is left to use it: all  *)
(* workers and the logger have exited, the list is empty, every node is    *)
(* freed.                                                                  *)
QuietShutdown ==
  /\ main.pc \in {"join_logger", "done"} =>
       /\ list = <<>>
       /\ \A c \in Clients : /\ thread[c].pc \in {"none", "exited"}
                             /\ thread[c].node # "allocated"
  /\ main.pc = "done" => logger = "exited" /\ mutex = NULL

(* With a regular result file, a worker that succeeded has sent its client *)
(* the file as it was at one moment, with everything the worker received   *)
(* in it: the pieces sent are an initial part of the file until main       *)
(* removes it.                                                             *)
EchoIsSnapshot ==
  \A c \in Clients :
    ~USE_AESD_CHAR_DEVICE /\ main.pc # "done" /\ thread[c].status = "SUCCEEDED" =>
      LET reply == client[c].reply
          sent  == IF reply = <<>> THEN <<>> ELSE reply[1]
      IN  client[c].conn = "reset" \/
          /\ Len(sent) <= Len(file.partial)
          /\ sent = SubSeq(file.partial, 1, Len(sent))
          /\ \A k \in 1 .. Taken(c) : \E i \in DOMAIN sent : sent[i] = <<c, k>>

(* The pieces of the result file: the lines of the device, and what was    *)
(* gathered since, which is all of a regular file.                         *)
Pieces == Append(file.lines, file.partial)

(* The data of a client stays together and in order in the result file: it *)
(* is in one piece, with no timestamp and no other client's data between   *)
(* two buffers that one worker received.                                   *)
MessageIntact ==
  \A a, b \in DOMAIN Pieces :
    \A i \in DOMAIN Pieces[a], j \in DOMAIN Pieces[b] :
      Pieces[a][i][1] = Pieces[b][j][1] /\ Pieces[a][i][1] # LOGGER =>
        a = b /\ Pieces[b][j][2] - Pieces[a][i][2] = j - i

(* A line of the given lines holds the end of the message of c. *)
HoldsEnd(lines, c) ==
  \E i \in DOMAIN lines :
    \E j \in DOMAIN lines[i] : lines[i][j] = <<c, MsgLen[c]>>

(* With the device, another worker may write between a worker's receiving  *)
(* and its sending, and evict the line the worker wrote. Nothing else may  *)
(* keep it from its client: a message received to its end is in the reply  *)
(* of the worker that succeeded, or is no longer in the device.            *)
EchoOrEvicted ==
  \A c \in Clients :
    /\ thread[c].status = "SUCCEEDED" /\ client[c].conn # "reset"
    /\ Taken(c) = MsgLen[c]
    => HoldsEnd(client[c].reply, c) \/ ~HoldsEnd(file.lines, c)

(* A connection that accept returned is in the hands of the main thread or *)
(* of a worker that will close it. Only an error of the main thread leaves *)
(* one open, and that error stops the server and is reported.              *)
LostOnlyOnAbort ==
  \A c \in open_fds :
    \/ c = main.client_fd \/ thread[c].pc \in Running
    \/ is_terminated /\ main.result = -1

(* SIGINT or SIGTERM, or an error, ends the program.                       *)
GracefulShutdown == is_terminated ~> main.pc = "done"

(* A connection handed to a worker is brought to an end: the worker gets   *)
(* the mutex, receives what the client sends (a message that does not fill *)
(* the last buffer), answers, and its thread is joined and its node freed. *)
ConnectionsFinish ==
  \A c \in Clients : thread[c].pc = "start" ~> thread[c].node = "freed"

(* One worker that fails stops the whole server.                           *)
FailureStopsServer ==
  (\E c \in Clients : thread[c].status = "FAILED") ~> main.pc = "done"

-----------------------------------------------------------------------------
(* What a comment of the source says and the code does not do.             *)

(* socket_client_create_connection returns "0 if successful" and -1        *)
(* otherwise: a connection that was accepted is handed to a worker, and    *)
(* never left open with nobody to serve it.                                *)
AcceptedIsServed ==
  \A c \in open_fds : c = main.client_fd \/ thread[c].pc \in Running

=============================================================================
