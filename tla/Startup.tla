------------------------------ MODULE Startup ------------------------------
(***************************************************************************)
(* How aesdsocket comes up (main, setup_socket_server, daemonize and       *)
(* setup_signal_handlers in server/src) and goes down again: the socket,   *)
(* the fork into a daemon, the signal handlers, the timestamp semaphore    *)
(* and timer, the logger thread and the mutex it uses, each of which may   *)
(* fail, with SIGINT or SIGTERM arriving at any moment. What application() *)
(* does in between is the subject of AesdSocket; here it runs until the    *)
(* process is told to terminate.                                           *)
(***************************************************************************)
EXTENDS Integers, FiniteSets

CONSTANTS
  PARENT, CHILD,         \* the process started, and the one it may fork
  USE_AESD_CHAR_DEVICE,  \* the logger writes no timestamps
  Faults,                \* calls that may fail
  MaxSem,                \* bound: pending posts of the semaphore
  MaxFd                  \* bound: highest descriptor

ASSUME StartupAssumption ==
  /\ PARENT # CHILD /\ USE_AESD_CHAR_DEVICE \in BOOLEAN
  /\ Faults \subseteq {"socket", "setsockopt", "getaddrinfo", "bind", "listen",
                       "fork", "setsid", "chdir", "signal", "sem_init",
                       "timer_create", "timer_settime", "pthread_create",
                       "pthread_mutex_init"}
  /\ MaxSem \in Nat \ {0} /\ MaxFd \in Nat /\ MaxFd >= 6

Procs == {PARENT, CHILD}

VARIABLES
  execute_as_daemon,
  proc               \* the state of each process

vars == <<execute_as_daemon, proc>>

Signals == {"SIGINT", "SIGTERM", "SIGUSR1"}

Stages == {"none", "main", "socket_server_create", "fork", "parent", "setsid",
           "signal", "sem_init", "timer_create", "timer_settime",
           "pthread_create", "pthread_mutex_init", "application",
           "join_logger", "exited", "killed"}

Process ==
  [pc            : Stages,               \* the call the main thread is at
   fd            : [0 .. MaxFd -> {"closed", "tty", "socket", "null"}],
   server_socket : 0 .. MaxFd,           \* 0 until socket_server_create is done
   handlers      : SUBSET Signals,       \* signals that have a handler
   sem           : 0 .. MaxSem,          \* value of timestamp_semaphore
   timer         : {"none", "created", "armed"},
   logger        : {"none", "wait", "check", "lock", "exited"},
   mutex_ready   : BOOLEAN,              \* result_file_mutex is initialised
   is_terminated : BOOLEAN,
   sigint        : {"none", "post", "returned"}]  \* the SIGINT/SIGTERM handler

Alive(p) == proc[p].pc \notin {"none", "exited", "killed"}

-----------------------------------------------------------------------------
(* Descriptors: the kernel gives out the lowest one that is free. *)

AllClosed == [i \in 0 .. MaxFd |-> "closed"]

LowestFree(table) ==
  CHOOSE i \in 0 .. MaxFd :
    table[i] = "closed" /\ \A j \in 0 .. i - 1 : table[j] # "closed"

Open(table, what) == [table EXCEPT ![LowestFree(table)] = what]

dup(table, i) == Open(table, table[i])

-----------------------------------------------------------------------------
(* Mutated forms, each a slip a maintainer could make. *)

(* The handler only posts. *)
SetTerminated_forgotten(s) == s

(* The interval is not set. *)
ArmTimer_forgotten(s) == s

(* daemonize closes the socket with the other files. *)
Daemonized_closes_all(table) == dup(dup(Open(AllClosed, "null"), 0), 0)

(* The -1 of a failing socket call is stored unchecked. *)
SocketFd_unchecked(table) == -1

-----------------------------------------------------------------------------
NotStarted ==
  [pc |-> "none", fd |-> AllClosed, server_socket |-> 0, handlers |-> {},
   sem |-> 0, timer |-> "none", logger |-> "none", mutex_ready |-> FALSE,
   is_terminated |-> FALSE, sigint |-> "none"]

Init ==
  /\ execute_as_daemon = FALSE
  /\ proc = [p \in Procs |->
               IF p = CHILD THEN NotStarted
               ELSE [NotStarted EXCEPT !.pc = "main",
                       !.fd = [i \in 0 .. MaxFd |->
                                 IF i <= 2 THEN "tty" ELSE "closed"]]]

Becomes(p, new) == proc' = [proc EXCEPT ![p] = new] /\ UNCHANGED execute_as_daemon

(* A process ends, and with it its threads, timer and descriptors. *)
Ended(s, how) == [s EXCEPT !.pc = how, !.fd = AllClosed, !.logger = "none",
                           !.timer = "none"]

(* The main thread is at a stage and no handler runs on it. *)
At(p, stage) == proc[p].pc = stage /\ proc[p].sigint # "post"

(* The calls of a stage succeed, which makes the process the new one, or   *)
(* one of them fails: main cleans up and returns -1.                       *)
Stage(p, stage, calls, next, new) ==
  /\ At(p, stage)
  /\ \/ Becomes(p, [new EXCEPT !.pc = next])
     \/ Faults \cap calls # {} /\ Becomes(p, Ended(proc[p], "exited"))

-----------------------------------------------------------------------------
(* main: no argument, -d, or anything else, which prints the usage. *)
parse_arguments ==
  /\ At(PARENT, "main")
  /\ \/ /\ execute_as_daemon' \in BOOLEAN
        /\ proc' = [proc EXCEPT ![PARENT].pc = "socket_server_create"]
     \/ Becomes(PARENT, Ended(proc[PARENT], "exited"))

SocketFd(table) == LowestFree(table)

(* socket, setsockopt, getaddrinfo, bind and listen. *)
socket_server_create(p) ==
  Stage(p, "socket_server_create",
        {"socket", "setsockopt", "getaddrinfo", "bind", "listen"},
        IF execute_as_daemon THEN "fork" ELSE "signal",
        [proc[p] EXCEPT !.fd = Open(@, "socket"),
                        !.server_socket = SocketFd(proc[p].fd)])

(* The child starts as a copy of its parent, without timers and threads.   *)
fork ==
  /\ At(PARENT, "fork")
  /\ \/ /\ proc' = [proc EXCEPT ![PARENT].pc = "parent",
                      ![CHILD] = [proc[PARENT] EXCEPT !.pc = "setsid",
                                    !.timer = "none", !.logger = "none"]]
        /\ UNCHANGED execute_as_daemon
     \/ "fork" \in Faults /\ Becomes(PARENT, Ended(proc[PARENT], "exited"))

(* daemonize returned 1: exit(EXIT_SUCCESS). *)
parent_exit ==
  At(PARENT, "parent") /\ Becomes(PARENT, Ended(proc[PARENT], "exited"))

(* open("/dev/null"), dup(0), dup(0), with no descriptor closed before. *)
Daemonized(table) == dup(dup(Open(table, "null"), 0), 0)

daemonize(p) ==
  Stage(p, "setsid", {"setsid", "chdir"}, "signal",
        [proc[p] EXCEPT !.fd = Daemonized(@)])

-----------------------------------------------------------------------------
(* setup_signal_handlers *)

(* SIGINT, SIGTERM and SIGUSR1 get their handlers in this order. *)
signal(p) ==
  LET done == proc[p].handlers
      s    == IF done = {} THEN "SIGINT"
              ELSE IF done = {"SIGINT"} THEN "SIGTERM" ELSE "SIGUSR1"
  IN  Stage(p, "signal", {"signal"},
            IF s = "SIGUSR1" THEN "sem_init" ELSE "signal",
            [proc[p] EXCEPT !.handlers = done \cup {s}])

(* A post that came before is lost. *)
sem_init(p) ==
  Stage(p, "sem_init", {"sem_init"}, "timer_create", [proc[p] EXCEPT !.sem = 0])

timer_create(p) ==
  Stage(p, "timer_create", {"timer_create"}, "timer_settime",
        [proc[p] EXCEPT !.timer = "created"])

ArmTimer(s) == [s EXCEPT !.timer = "armed"]

timer_settime(p) ==
  Stage(p, "timer_settime", {"timer_settime"}, "pthread_create", ArmTimer(proc[p]))

-----------------------------------------------------------------------------
(* The rest of main: the logger is started before its mutex is initialised. *)

start_logger(p) ==
  Stage(p, "pthread_create", {"pthread_create"}, "pthread_mutex_init",
        [proc[p] EXCEPT !.logger = "wait"])

pthread_mutex_init(p) ==
  Stage(p, "pthread_mutex_init", {"pthread_mutex_init"}, "application",
        [proc[p] EXCEPT !.mutex_ready = TRUE])

(* application() returns once the process is terminated. *)
application(p) ==
  /\ At(p, "application") /\ proc[p].is_terminated
  /\ Becomes(p, [proc[p] EXCEPT !.pc = "join_logger"])

join_logger(p) ==
  /\ At(p, "join_logger") /\ proc[p].logger = "exited"
  /\ Becomes(p, Ended(proc[p], "exited"))

-----------------------------------------------------------------------------
(* The logger thread: wait, test the flag, and with a regular file lock    *)
(* the mutex for the timestamp.                                            *)
log_timestamp_worker(p) ==
  LET s == proc[p] IN
  /\ Alive(p)
  /\ \/ /\ s.logger = "wait" /\ s.sem > 0
        /\ Becomes(p, [s EXCEPT !.logger = "check", !.sem = @ - 1])
     \/ /\ s.logger = "check"
        /\ Becomes(p, [s EXCEPT !.logger =
                         IF s.is_terminated THEN "exited"
                         ELSE IF USE_AESD_CHAR_DEVICE THEN "wait" ELSE "lock"])
     \/ s.logger = "lock" /\ Becomes(p, [s EXCEPT !.logger = "wait"])

-----------------------------------------------------------------------------
(* Signals *)

SetTerminated(s) == [s EXCEPT !.is_terminated = TRUE]

(* SIGINT or SIGTERM arrives: the handler, if there is one yet, sets the   *)
(* flag; otherwise the process is killed.                                  *)
sigint_handler(p) ==
  /\ Alive(p) /\ proc[p].sigint = "none"
  /\ \E s \in {"SIGINT", "SIGTERM"} :
       \/ /\ s \in proc[p].handlers
          /\ Becomes(p, [SetTerminated(proc[p]) EXCEPT !.sigint = "post"])
       \/ s \notin proc[p].handlers /\ Becomes(p, Ended(proc[p], "killed"))

Post(s) == [s EXCEPT !.sem = IF @ < MaxSem THEN @ + 1 ELSE @]

sigint_handler_post(p) ==
  /\ Alive(p) /\ proc[p].sigint = "post"
  /\ Becomes(p, [Post(proc[p]) EXCEPT !.sigint = "returned"])

(* The timer expires, TIMESTAMP_LOG_INTERVAL_S seconds after it was armed  *)
(* and again: main is taken to reach application() before the first time.  *)
sigusr1_handler(p) ==
  /\ Alive(p) /\ proc[p].timer = "armed"
  /\ proc[p].pc \in {"application", "join_logger"}
  /\ proc[p].sem < MaxSem
  /\ Becomes(p, Post(proc[p]))

-----------------------------------------------------------------------------
MainStep(p) ==
  \/ socket_server_create(p) \/ daemonize(p) \/ signal(p) \/ sem_init(p)
  \/ timer_create(p) \/ timer_settime(p) \/ start_logger(p)
  \/ pthread_mutex_init(p) \/ application(p) \/ join_logger(p)

Next ==
  \/ parse_arguments \/ fork \/ parent_exit
  \/ \E p \in Procs :
       \/ MainStep(p) \/ log_timestamp_worker(p)
       \/ sigint_handler(p) \/ sigint_handler_post(p) \/ sigusr1_handler(p)

Spec == Init /\ [][Next]_vars

(* Both threads are scheduled, a handler that has begun returns, and the   *)
(* timer keeps expiring.                                                   *)
FairSpec ==
  /\ Spec
  /\ WF_vars(parse_arguments \/ fork \/ parent_exit)
  /\ \A p \in Procs :
       /\ WF_vars(MainStep(p)) /\ WF_vars(log_timestamp_worker(p))
       /\ WF_vars(sigint_handler_post(p)) /\ WF_vars(sigusr1_handler(p))

-----------------------------------------------------------------------------
(* Every variable has its type. *)
TypeOK == execute_as_daemon \in BOOLEAN /\ proc \in [Procs -> Process]

Serving(p) == proc[p].pc \in {"application", "join_logger"}

(* One process serves, and it is the one that was set up: its descriptor   *)
(* is the listening socket, and handlers, timer, logger and mutex are its  *)
(* own (a fork does not hand on a timer or a thread).                      *)
ServingIsSetUp ==
  /\ Cardinality({p \in Procs : Serving(p)}) <= 1
  /\ \A p \in Procs : Serving(p) =>
       LET s == proc[p]
       IN  /\ s.fd[s.server_socket] = "socket" /\ s.handlers = Signals
           /\ s.timer = "armed" /\ s.logger # "none" /\ s.mutex_ready

(* The logger, started first, never locks result_file_mutex before main    *)
(* has initialised it, although SIGINT or SIGTERM may wake it up that      *)
(* early.                                                                  *)
LoggerLocksInitialised ==
  \A p \in Procs : proc[p].logger = "lock" => proc[p].mutex_ready

(* A termination signal that a handler has taken ends the process, also    *)
(* when it came so early that sem_init wiped out the post meant for the    *)
(* logger.                                                                 *)
EarlySignalEnds ==
  \A p \in Procs : proc[p].is_terminated ~> proc[p].pc \in {"exited", "killed"}

=============================================================================
