---------------------------- MODULE StartupProofs ----------------------------
(***************************************************************************)
(* How aesdsocket comes up, for every combination of failing calls, every  *)
(* moment of SIGINT and SIGTERM, with or without -d: one process serves,   *)
(* it is completely set up, and the logger thread never gets ahead of the  *)
(* initialisation of its mutex.                                            *)
(***************************************************************************)
EXTENDS Startup, FiniteSetTheorems, TLAPS

(* The descriptors a process is started with, and with the socket.         *)
Inherited == [i \in 0 .. MaxFd |-> IF i <= 2 THEN "tty" ELSE "closed"]
Listening == [Inherited EXCEPT ![3] = "socket"]

(* The stages before the signal handlers, with the handlers and behind     *)
(* them.                                                                   *)
Early == {"main", "socket_server_create", "fork", "parent", "setsid"}
Waiting == {"timer_create", "timer_settime", "pthread_create", "pthread_mutex_init"}
Late == {"sem_init"} \cup Waiting \cup {"application", "join_logger"}

(* What the stages up to the present one have left behind. *)
FdInv(s) ==
  /\ s.pc \in {"main", "socket_server_create"} => s.fd = Inherited
  /\ s.pc \in {"fork", "parent", "setsid"} => s.fd = Listening /\ s.server_socket = 3
  /\ s.pc \in {"signal"} \cup Late => s.fd[3] = "socket" /\ s.server_socket = 3

HandlersInv(s) ==
  /\ s.pc \in {"none"} \cup Early => s.handlers = {}
  /\ s.pc = "signal" => s.handlers \in {{}, {"SIGINT"}, {"SIGINT", "SIGTERM"}}
  /\ s.pc \in Late => s.handlers = Signals

TimerInv(s) ==
  s.pc \in {"pthread_create", "pthread_mutex_init", "application", "join_logger"} =>
    s.timer = "armed"

LoggerInv(s) ==
  /\ s.logger # "none" <=> s.pc \in {"pthread_mutex_init", "application", "join_logger"}
  /\ s.pc \in {"application", "join_logger"} => s.mutex_ready

(* Until the mutex is initialised only the handler of SIGINT and SIGTERM   *)
(* can wake the logger up, and it has set the flag before.                 *)
WakeInv(s) ==
  /\ s.sigint # "none" => s.is_terminated
  /\ s.pc \in Waiting /\ (s.sem > 0 \/ s.logger = "check") => s.is_terminated
  /\ s.logger = "lock" => s.mutex_ready

SetUp(s) == FdInv(s) /\ HandlersInv(s) /\ TimerInv(s) /\ LoggerInv(s) /\ WakeInv(s)

(* There is a child only once the parent has nothing left to do but exit.  *)
ForkInv ==
  /\ proc[CHILD].pc \notin {"main", "socket_server_create", "fork", "parent"}
  /\ proc[PARENT].pc \notin {"none", "setsid"}
  /\ proc[CHILD].pc # "none" => proc[PARENT].pc \in {"parent", "exited", "killed"}

StartupInv ==
  /\ TypeOK /\ ForkInv
  /\ \A p \in Procs : SetUp(proc[p])

-----------------------------------------------------------------------------
(* The descriptor the kernel gives out. *)
LEMMA LowestFreeIs ==
  ASSUME NEW table, NEW k \in 0 .. MaxFd, table[k] = "closed",
         \A j \in 0 .. k - 1 : table[j] # "closed"
  PROVE  LowestFree(table) = k
<1>1. MaxFd \in Nat
  BY StartupAssumption
<1>2. PICK i \in 0 .. MaxFd :
        /\ i = LowestFree(table)
        /\ table[i] = "closed" /\ \A j \in 0 .. i - 1 : table[j] # "closed"
  <2>1. \E i \in 0 .. MaxFd : table[i] = "closed" /\ \A j \in 0 .. i - 1 : table[j] # "closed"
    OBVIOUS
  <2> QED BY <2>1 DEF LowestFree
<1>3. ~(i < k)
  BY <1>1, <1>2
<1>4. ~(k < i)
  BY <1>1, <1>2
<1> QED BY <1>1, <1>2, <1>3, <1>4

(* socket gets the first descriptor behind the standard ones. *)
LEMMA SocketIsThree ==
  /\ LowestFree(Inherited) = 3
  /\ Open(Inherited, "socket") = Listening
  /\ Listening \in [0 .. MaxFd -> {"closed", "tty", "socket", "null"}]
<1>1. MaxFd \in Nat /\ MaxFd >= 6
  BY StartupAssumption
<1>2. \A i \in 0 .. MaxFd : Inherited[i] = IF i <= 2 THEN "tty" ELSE "closed"
  BY DEF Inherited
<1>3. 3 \in 0 .. MaxFd /\ Inherited[3] = "closed"
      /\ \A j \in 0 .. 3 - 1 : Inherited[j] # "closed"
  BY <1>1, <1>2
<1>4. LowestFree(Inherited) = 3
  BY <1>3, LowestFreeIs
<1>5. Listening \in [0 .. MaxFd -> {"closed", "tty", "socket", "null"}]
  BY <1>3 DEF Listening, Inherited
<1> QED BY <1>4, <1>5 DEF Open, Listening

(* daemonize opens three more behind it and leaves the socket alone. *)
LEMMA DaemonKeepsSocket ==
  /\ Daemonized(Listening) \in [0 .. MaxFd -> {"closed", "tty", "socket", "null"}]
  /\ Daemonized(Listening)[3] = "socket"
<1> DEFINE T == [0 .. MaxFd -> {"closed", "tty", "socket", "null"}]
<1>1. MaxFd \in Nat /\ MaxFd >= 6
  BY StartupAssumption
<1>2. Listening \in T /\ \A i \in 0 .. MaxFd :
        Listening[i] = IF i = 3 THEN "socket" ELSE IF i <= 2 THEN "tty" ELSE "closed"
  BY <1>1, SocketIsThree DEF Listening, Inherited
<1>3. PICK f4 \in T : /\ f4 = Open(Listening, "null")
                      /\ f4 = [Listening EXCEPT ![4] = "null"]
  <2>1. 4 \in 0 .. MaxFd /\ Listening[4] = "closed"
        /\ \A j \in 0 .. 4 - 1 : Listening[j] # "closed"
    BY <1>1, <1>2
  <2>2. LowestFree(Listening) = 4
    BY <2>1, LowestFreeIs
  <2> QED BY <1>2, <2>1, <2>2 DEF Open
<1>4. \A i \in 0 .. MaxFd : f4[i] = IF i = 4 THEN "null" ELSE Listening[i]
  BY <1>2, <1>3
<1>5. PICK f5 \in T : f5 = dup(f4, 0) /\ f5 = [f4 EXCEPT ![5] = "tty"]
  <2>1. 5 \in 0 .. MaxFd /\ f4[5] = "closed" /\ f4[0] = "tty"
        /\ \A j \in 0 .. 5 - 1 : f4[j] # "closed"
    BY <1>1, <1>2, <1>4
  <2>2. LowestFree(f4) = 5
    BY <2>1, LowestFreeIs
  <2> QED BY <1>3, <2>1, <2>2 DEF Open, dup
<1>6. \A i \in 0 .. MaxFd : f5[i] = IF i = 5 THEN "tty" ELSE f4[i]
  BY <1>3, <1>5
<1>7. PICK f6 \in T : f6 = dup(f5, 0) /\ f6 = [f5 EXCEPT ![6] = "tty"]
  <2>1. 6 \in 0 .. MaxFd /\ f5[6] = "closed" /\ f5[0] = "tty"
        /\ \A j \in 0 .. 6 - 1 : f5[j] # "closed"
    BY <1>1, <1>2, <1>4, <1>6
  <2>2. LowestFree(f5) = 6
    BY <2>1, LowestFreeIs
  <2> QED BY <1>5, <2>1, <2>2 DEF Open, dup
<1>8. f6 = Daemonized(Listening)
  BY <1>3, <1>5, <1>7 DEF Daemonized
<1>9. f6[3] = "socket"
  <2>1. 3 \in 0 .. MaxFd
    BY <1>1
  <2>2. f4[3] = "socket"
    BY <1>2, <1>4, <2>1
  <2>3. f5[3] = "socket"
    BY <1>6, <2>1, <2>2
  <2>4. \A i \in 0 .. MaxFd : f6[i] = IF i = 6 THEN "tty" ELSE f5[i]
    BY <1>5, <1>7
  <2> QED BY <2>1, <2>3, <2>4
<1> QED BY <1>8, <1>9


-----------------------------------------------------------------------------
(* What the steps do to the process that takes them. *)

(* A process may end at any stage. *)
LEMMA EndedKeeps ==
  ASSUME NEW s \in Process, SetUp(s), NEW how \in {"exited", "killed"}
  PROVE  /\ Ended(s, how) \in Process /\ SetUp(Ended(s, how))
         /\ Ended(s, how).pc = how
<1> DEFINE t == Ended(s, how)
<1>1. /\ t \in Process /\ t.pc = how /\ t.logger = "none"
      /\ t.sigint = s.sigint /\ t.is_terminated = s.is_terminated
  BY DEF Ended, Process, Stages, AllClosed
<1>2. FdInv(t) /\ HandlersInv(t) /\ TimerInv(t) /\ LoggerInv(t)
  BY <1>1 DEF FdInv, HandlersInv, TimerInv, LoggerInv, Early, Waiting, Late
<1>3. WakeInv(t)
  BY <1>1 DEF SetUp, WakeInv, Waiting
<1> QED BY <1>1, <1>2, <1>3 DEF SetUp

(* The socket, for the parent. *)
LEMMA SocketKeeps ==
  ASSUME NEW s \in Process, SetUp(s), s.pc = "socket_server_create",
         NEW next \in {"fork", "signal"}, NEW t,
         t = [[s EXCEPT !.fd = Open(@, "socket"),
                        !.server_socket = SocketFd(s.fd)] EXCEPT !.pc = next]
  PROVE  t \in Process /\ SetUp(t) /\ t.pc = next
<1>1. s.fd = Inherited /\ s.handlers = {} /\ s.logger = "none"
  BY DEF SetUp, FdInv, HandlersInv, LoggerInv, Early
<1>2. /\ Open(s.fd, "socket") = Listening /\ SocketFd(s.fd) = 3
      /\ Listening \in [0 .. MaxFd -> {"closed", "tty", "socket", "null"}]
      /\ 3 \in 0 .. MaxFd /\ Listening[3] = "socket"
  BY <1>1, SocketIsThree, StartupAssumption DEF SocketFd, Listening, Inherited
<1>3. /\ t \in Process /\ t.pc = next /\ t.fd = Listening /\ t.server_socket = 3
      /\ t.handlers = s.handlers /\ t.logger = s.logger
      /\ t.sigint = s.sigint /\ t.is_terminated = s.is_terminated
  BY <1>2 DEF Process, Stages
<1>4. FdInv(t) /\ HandlersInv(t) /\ TimerInv(t) /\ LoggerInv(t)
  BY <1>1, <1>2, <1>3 DEF FdInv, HandlersInv, TimerInv, LoggerInv, Early, Waiting, Late
<1>5. WakeInv(t)
  BY <1>1, <1>3 DEF SetUp, WakeInv, Waiting
<1> QED BY <1>3, <1>4, <1>5 DEF SetUp

(* daemonize, for the child. *)
LEMMA DaemonizeKeeps ==
  ASSUME NEW s \in Process, SetUp(s), s.pc = "setsid"
  PROVE  LET t == [[s EXCEPT !.fd = Daemonized(@)] EXCEPT !.pc = "signal"]
         IN  t \in Process /\ SetUp(t) /\ t.pc = "signal"
<1> DEFINE t == [[s EXCEPT !.fd = Daemonized(@)] EXCEPT !.pc = "signal"]
<1>1. /\ s.fd = Listening /\ s.server_socket = 3 /\ s.handlers = {}
      /\ s.logger = "none"
  BY DEF SetUp, FdInv, HandlersInv, LoggerInv, Early
<1>2. PICK f \in [0 .. MaxFd -> {"closed", "tty", "socket", "null"}] :
        f = Daemonized(s.fd) /\ f[3] = "socket"
  BY <1>1, DaemonKeepsSocket
<1>3. /\ t \in Process /\ t.pc = "signal" /\ t.fd = f
      /\ t.server_socket = s.server_socket
      /\ t.handlers = s.handlers /\ t.logger = s.logger
      /\ t.sigint = s.sigint /\ t.is_terminated = s.is_terminated
  BY <1>2 DEF Process, Stages
<1> HIDE DEF t
<1>4. FdInv(t) /\ HandlersInv(t) /\ TimerInv(t) /\ LoggerInv(t)
  BY <1>1, <1>2, <1>3 DEF FdInv, HandlersInv, TimerInv, LoggerInv, Early, Waiting, Late
<1>5. WakeInv(t)
  BY <1>1, <1>3 DEF SetUp, WakeInv, Waiting
<1> QED BY <1>3, <1>4, <1>5 DEF SetUp, t

(* The signal handlers, one after the other. *)
LEMMA SignalKeeps ==
  ASSUME NEW s \in Process, SetUp(s), s.pc = "signal",
         NEW h \in SUBSET Signals, NEW next \in {"signal", "sem_init"},
         next = "signal" => h \in {{"SIGINT"}, {"SIGINT", "SIGTERM"}},
         next = "sem_init" => h = Signals,
         NEW t, t = [[s EXCEPT !.handlers = h] EXCEPT !.pc = next]
  PROVE  t \in Process /\ SetUp(t) /\ t.pc = next
<1>1. s.fd[3] = "socket" /\ s.server_socket = 3 /\ s.logger = "none"
  BY DEF SetUp, FdInv, LoggerInv
<1>2. /\ t \in Process /\ t.pc = next /\ t.fd = s.fd
      /\ t.server_socket = s.server_socket
      /\ t.handlers = h /\ t.logger = s.logger
      /\ t.sigint = s.sigint /\ t.is_terminated = s.is_terminated
  BY DEF Process, Stages
<1>3. HandlersInv(t)
  BY <1>2 DEF HandlersInv, Early, Late, Waiting
<1>4. FdInv(t) /\ TimerInv(t) /\ LoggerInv(t)
  BY <1>1, <1>2 DEF FdInv, TimerInv, LoggerInv, Early, Waiting, Late
<1>5. WakeInv(t)
  BY <1>1, <1>2 DEF SetUp, WakeInv, Waiting
<1> QED BY <1>2, <1>3, <1>4, <1>5 DEF SetUp

(* sem_init, timer_create and timer_settime. *)
LEMMA TimerKeeps ==
  ASSUME NEW s \in Process, SetUp(s), NEW t,
         \/ /\ s.pc = "sem_init"
            /\ t = [[s EXCEPT !.sem = 0] EXCEPT !.pc = "timer_create"]
         \/ /\ s.pc = "timer_create"
            /\ t = [[s EXCEPT !.timer = "created"] EXCEPT !.pc = "timer_settime"]
         \/ /\ s.pc = "timer_settime"
            /\ t = [ArmTimer(s) EXCEPT !.pc = "pthread_create"]
  PROVE  t \in Process /\ SetUp(t) /\ t.pc \in Waiting
<1>1. /\ s.fd[3] = "socket" /\ s.server_socket = 3
      /\ s.handlers = Signals /\ s.logger = "none"
  BY DEF SetUp, FdInv, HandlersInv, LoggerInv, Late, Waiting
<1>2. /\ t \in Process /\ t.pc \in {"timer_create", "timer_settime", "pthread_create"}
      /\ t.pc = "pthread_create" => t.timer = "armed"
      /\ t.fd = s.fd /\ t.server_socket = s.server_socket
      /\ t.handlers = s.handlers /\ t.logger = s.logger
      /\ t.sigint = s.sigint /\ t.is_terminated = s.is_terminated
      /\ t.sem = 0 \/ (s.pc \in Waiting /\ t.sem = s.sem)
  <2>1. CASE /\ s.pc = "sem_init"
             /\ t = [[s EXCEPT !.sem = 0] EXCEPT !.pc = "timer_create"]
    <3>1. 0 \in 0 .. MaxSem
      BY StartupAssumption
    <3> QED BY <2>1, <3>1 DEF Process, Stages
  <2>2. CASE /\ s.pc = "timer_create"
             /\ t = [[s EXCEPT !.timer = "created"] EXCEPT !.pc = "timer_settime"]
    BY <2>2 DEF Process, Stages, Waiting
  <2>3. CASE /\ s.pc = "timer_settime"
             /\ t = [ArmTimer(s) EXCEPT !.pc = "pthread_create"]
    BY <2>3 DEF Process, Stages, ArmTimer, Waiting
  <2> QED BY <2>1, <2>2, <2>3
<1>3. FdInv(t) /\ HandlersInv(t) /\ TimerInv(t) /\ LoggerInv(t)
  BY <1>1, <1>2 DEF FdInv, HandlersInv, TimerInv, LoggerInv, Early, Waiting, Late
<1>4. WakeInv(t)
  BY <1>1, <1>2 DEF SetUp, WakeInv
<1> QED BY <1>2, <1>3, <1>4 DEF SetUp, Waiting

(* The logger is started, its mutex initialised, and application entered   *)
(* and left.                                                               *)
LEMMA ServeKeeps ==
  ASSUME NEW s \in Process, SetUp(s), NEW t,
         \/ /\ s.pc = "pthread_create"
            /\ t = [[s EXCEPT !.logger = "wait"] EXCEPT !.pc = "pthread_mutex_init"]
         \/ /\ s.pc = "pthread_mutex_init"
            /\ t = [[s EXCEPT !.mutex_ready = TRUE] EXCEPT !.pc = "application"]
         \/ /\ s.pc = "application"
            /\ t = [s EXCEPT !.pc = "join_logger"]
  PROVE  t \in Process /\ SetUp(t)
         /\ t.pc \in {"pthread_mutex_init", "application", "join_logger"}
<1>1. /\ s.fd[3] = "socket" /\ s.server_socket = 3
      /\ s.handlers = Signals /\ s.timer = "armed"
      /\ s.pc # "pthread_create" => s.logger # "none"
  BY DEF SetUp, FdInv, HandlersInv, TimerInv, LoggerInv, Late, Waiting
<1>2. /\ t \in Process /\ t.pc \in {"pthread_mutex_init", "application", "join_logger"}
      /\ t.fd = s.fd /\ t.server_socket = s.server_socket
      /\ t.handlers = s.handlers /\ t.timer = s.timer
      /\ t.sigint = s.sigint /\ t.is_terminated = s.is_terminated /\ t.sem = s.sem
      /\ \/ s.pc = "pthread_create" /\ t.pc = "pthread_mutex_init" /\ t.logger = "wait"
         \/ /\ s.pc = "pthread_mutex_init" /\ t.pc = "application"
            /\ t.logger = s.logger /\ t.mutex_ready
         \/ /\ s.pc = "application" /\ t.pc = "join_logger"
            /\ t.logger = s.logger /\ t.mutex_ready = s.mutex_ready
  BY ZenonT(60) DEF Process, Stages
<1>3. FdInv(t) /\ HandlersInv(t) /\ TimerInv(t)
  BY <1>1, <1>2 DEF FdInv, HandlersInv, TimerInv, Early, Waiting, Late
<1>4. LoggerInv(t)
  BY <1>1, <1>2 DEF SetUp, LoggerInv
<1>5. WakeInv(t)
  BY <1>1, <1>2 DEF SetUp, WakeInv, LoggerInv, Waiting
<1> QED BY <1>2, <1>3, <1>4, <1>5 DEF SetUp


(* main reads its arguments; fork returns in the parent. *)
LEMMA ForkKeeps ==
  ASSUME NEW s \in Process, SetUp(s), NEW next,
         \/ s.pc = "main" /\ next = "socket_server_create"
         \/ s.pc = "fork" /\ next = "parent"
  PROVE  LET t == [s EXCEPT !.pc = next]
         IN  t \in Process /\ SetUp(t) /\ t.pc = next
<1> DEFINE t == [s EXCEPT !.pc = next]
<1>1. /\ t \in Process /\ t.pc = next /\ t.fd = s.fd
      /\ t.server_socket = s.server_socket
      /\ t.handlers = s.handlers /\ t.logger = s.logger
      /\ t.sigint = s.sigint /\ t.is_terminated = s.is_terminated
  BY DEF Process, Stages
<1> HIDE DEF t
<1>2. FdInv(t) /\ HandlersInv(t)
  BY <1>1 DEF SetUp, FdInv, HandlersInv, Early, Late, Waiting
<1>3. TimerInv(t) /\ LoggerInv(t) /\ WakeInv(t)
  BY <1>1 DEF SetUp, TimerInv, LoggerInv, WakeInv, Waiting
<1> QED BY <1>1, <1>2, <1>3 DEF SetUp, t

(* fork returns in the child, which has neither a timer nor a logger. *)
LEMMA ChildKeeps ==
  ASSUME NEW s \in Process, SetUp(s), s.pc = "fork"
  PROVE  LET t == [s EXCEPT !.pc = "setsid", !.timer = "none", !.logger = "none"]
         IN  t \in Process /\ SetUp(t) /\ t.pc = "setsid"
<1> DEFINE t == [s EXCEPT !.pc = "setsid", !.timer = "none", !.logger = "none"]
<1>1. /\ t \in Process /\ t.pc = "setsid" /\ t.fd = s.fd
      /\ t.server_socket = s.server_socket
      /\ t.handlers = s.handlers /\ t.logger = "none"
      /\ t.sigint = s.sigint /\ t.is_terminated = s.is_terminated
  BY DEF Process, Stages
<1> HIDE DEF t
<1>2. FdInv(t) /\ HandlersInv(t)
  BY <1>1 DEF SetUp, FdInv, HandlersInv, Early, Late, Waiting
<1>3. TimerInv(t) /\ LoggerInv(t) /\ WakeInv(t)
  BY <1>1 DEF SetUp, TimerInv, LoggerInv, WakeInv, Waiting
<1> QED BY <1>1, <1>2, <1>3 DEF SetUp, t

(* The logger thread. *)
LEMMA LoggerKeeps ==
  ASSUME NEW s \in Process, SetUp(s), NEW t,
         \/ /\ s.logger = "wait" /\ s.sem > 0
            /\ t = [s EXCEPT !.logger = "check", !.sem = @ - 1]
         \/ /\ s.logger = "check"
            /\ t = [s EXCEPT !.logger =
                      IF s.is_terminated THEN "exited"
                      ELSE IF USE_AESD_CHAR_DEVICE THEN "wait" ELSE "lock"]
         \/ s.logger = "lock" /\ t = [s EXCEPT !.logger = "wait"]
  PROVE  t \in Process /\ SetUp(t) /\ t.pc = s.pc
<1>1. s.pc \in {"pthread_mutex_init", "application", "join_logger"}
  BY DEF SetUp, LoggerInv
<1>2. /\ t \in Process /\ t.pc = s.pc /\ t.fd = s.fd /\ t.timer = s.timer
      /\ t.server_socket = s.server_socket /\ t.handlers = s.handlers
      /\ t.sigint = s.sigint /\ t.is_terminated = s.is_terminated
      /\ t.mutex_ready = s.mutex_ready /\ t.logger # "none"
      /\ \/ s.logger = "wait" /\ s.sem > 0 /\ t.logger = "check"
         \/ /\ s.logger = "check" /\ t.sem = s.sem
            /\ t.logger \in {"exited", "wait", "lock"}
            /\ s.is_terminated => t.logger = "exited"
         \/ s.logger = "lock" /\ t.sem = s.sem /\ t.logger = "wait"
  <2>1. CASE /\ s.logger = "wait" /\ s.sem > 0
             /\ t = [s EXCEPT !.logger = "check", !.sem = @ - 1]
    <3>1. s.sem \in 0 .. MaxSem /\ s.sem - 1 \in 0 .. MaxSem
      BY <2>1, StartupAssumption DEF Process
    <3> QED BY <2>1, <3>1 DEF Process
  <2>2. CASE /\ s.logger = "check"
             /\ t = [s EXCEPT !.logger =
                       IF s.is_terminated THEN "exited"
                       ELSE IF USE_AESD_CHAR_DEVICE THEN "wait" ELSE "lock"]
    BY <2>2 DEF Process
  <2>3. CASE s.logger = "lock" /\ t = [s EXCEPT !.logger = "wait"]
    BY <2>3 DEF Process
  <2> QED BY <2>1, <2>2, <2>3
<1>3. FdInv(t) /\ HandlersInv(t) /\ TimerInv(t) /\ LoggerInv(t)
  BY <1>1, <1>2 DEF SetUp, FdInv, HandlersInv, TimerInv, LoggerInv, Early, Waiting, Late
<1>4. WakeInv(t)
  <2>1. t.logger = "lock" => t.mutex_ready
    BY <1>1, <1>2 DEF SetUp, WakeInv, LoggerInv, Waiting
  <2> QED BY <1>1, <1>2, <2>1 DEF SetUp, WakeInv
<1> QED BY <1>2, <1>3, <1>4 DEF SetUp

(* The signal handlers: the flag is set before the semaphore is posted.    *)
LEMMA HandlerKeeps ==
  ASSUME NEW s \in Process, SetUp(s), NEW t,
         \/ t = [SetTerminated(s) EXCEPT !.sigint = "post"]
         \/ s.sigint = "post" /\ t = [Post(s) EXCEPT !.sigint = "returned"]
         \/ s.pc \in {"application", "join_logger"} /\ t = Post(s)
  PROVE  t \in Process /\ SetUp(t) /\ t.pc = s.pc
<1>1. Post(s) = [s EXCEPT !.sem = IF s.sem < MaxSem THEN s.sem + 1 ELSE s.sem]
  BY DEF Post
<1>2. PICK n \in 0 .. MaxSem : n = IF s.sem < MaxSem THEN s.sem + 1 ELSE s.sem
  <2>1. s.sem \in 0 .. MaxSem /\ MaxSem \in Nat
    BY StartupAssumption DEF Process
  <2>2. CASE s.sem < MaxSem
    BY <2>1, <2>2
  <2>3. CASE ~(s.sem < MaxSem)
    BY <2>1, <2>3
  <2> QED BY <2>2, <2>3
<1>3. /\ t \in Process /\ t.pc = s.pc /\ t.fd = s.fd /\ t.timer = s.timer
      /\ t.server_socket = s.server_socket /\ t.handlers = s.handlers
      /\ t.mutex_ready = s.mutex_ready /\ t.logger = s.logger
      /\ \/ t.is_terminated
         \/ /\ s.pc \in {"application", "join_logger"}
            /\ t.sigint = s.sigint /\ t.is_terminated = s.is_terminated
  <2>1. CASE t = [SetTerminated(s) EXCEPT !.sigint = "post"]
    BY <2>1 DEF Process, SetTerminated
  <2>2. CASE s.sigint = "post" /\ t = [Post(s) EXCEPT !.sigint = "returned"]
    <3>1. s.is_terminated
      BY <2>2 DEF SetUp, WakeInv
    <3>2. t = [[s EXCEPT !.sem = n] EXCEPT !.sigint = "returned"]
      BY <1>1, <1>2, <2>2
    <3> QED BY <3>1, <3>2 DEF Process
  <2>3. CASE s.pc \in {"application", "join_logger"} /\ t = Post(s)
    <3>1. t = [s EXCEPT !.sem = n]
      BY <1>1, <1>2, <2>3
    <3> QED BY <2>3, <3>1 DEF Process
  <2> QED BY <2>1, <2>2, <2>3
<1>4. FdInv(t) /\ HandlersInv(t) /\ TimerInv(t) /\ LoggerInv(t)
  BY <1>3 DEF SetUp, FdInv, HandlersInv, TimerInv, LoggerInv
<1>5. WakeInv(t)
  BY <1>3 DEF SetUp, WakeInv, Waiting
<1> QED BY <1>3, <1>4, <1>5 DEF SetUp

-----------------------------------------------------------------------------
(* A step of one process keeps StartupInv when the new process is set up   *)
(* for its stage, and moves on in the order of main.                       *)
LEMMA BecomesKeeps ==
  ASSUME StartupInv, NEW p \in Procs, NEW t \in Process, SetUp(t),
         proc[p].pc # "none",
         proc' = [proc EXCEPT ![p] = t], execute_as_daemon' \in BOOLEAN,
         \/ t.pc = proc[p].pc
         \/ t.pc \in {"exited", "killed"}
         \/ /\ proc[p].pc \in {"socket_server_create", "setsid", "signal"} \cup Late
            /\ t.pc \in {"signal"} \cup Late
         \/ /\ p = PARENT
            /\ proc[p].pc \in {"main", "socket_server_create"}
            /\ t.pc \in {"socket_server_create", "fork"}
  PROVE  StartupInv'
<1>1. /\ proc \in [Procs -> Process] /\ PARENT # CHILD
      /\ PARENT \in Procs /\ CHILD \in Procs
  BY StartupAssumption DEF StartupInv, TypeOK, Procs
<1>2. proc' \in [Procs -> Process] /\ proc'[p] = t
      /\ \A q \in Procs : q # p => proc'[q] = proc[q]
  BY <1>1
<1>3. TypeOK'
  BY <1>2 DEF TypeOK
<1>4. ForkInv'
  <2>1. CASE p = PARENT
    <3>1. proc'[CHILD] = proc[CHILD] /\ proc'[PARENT] = t
      BY <1>1, <1>2, <2>1
    <3> QED BY <2>1, <3>1 DEF StartupInv, ForkInv, Late, Waiting
  <2>2. CASE p = CHILD
    <3>1. proc'[PARENT] = proc[PARENT] /\ proc'[CHILD] = t
      BY <1>1, <1>2, <2>2
    <3> QED BY <1>1, <2>2, <3>1 DEF StartupInv, ForkInv, Late, Waiting
  <2> QED BY <2>1, <2>2 DEF Procs
<1>5. \A q \in Procs : SetUp(proc'[q])
  BY <1>2 DEF StartupInv
<1> QED BY <1>3, <1>4, <1>5 DEF StartupInv

(* A stage of main: it is passed, or it fails and the process ends.        *)
LEMMA StageKeeps ==
  ASSUME StartupInv, NEW p \in Procs, NEW stage, NEW calls, NEW next, NEW new,
         Stage(p, stage, calls, next, new),
         stage # "none",
         proc[p].pc = stage =>
           /\ [new EXCEPT !.pc = next] \in Process
           /\ SetUp([new EXCEPT !.pc = next])
           /\ \/ /\ stage \in {"socket_server_create", "setsid", "signal"} \cup Late
                 /\ [new EXCEPT !.pc = next].pc \in {"signal"} \cup Late
              \/ /\ stage = "socket_server_create" /\ p = PARENT
                 /\ [new EXCEPT !.pc = next].pc = "fork"
  PROVE  StartupInv'
<1>1. proc[p].pc = stage /\ proc[p] \in Process /\ SetUp(proc[p])
      /\ execute_as_daemon \in BOOLEAN
  BY DEF Stage, At, StartupInv, TypeOK
<1>2. PICK t : t = [new EXCEPT !.pc = next]
  OBVIOUS
<1>3. CASE Becomes(p, t)
  BY <1>1, <1>2, <1>3, BecomesKeeps DEF Becomes
<1>4. CASE Becomes(p, Ended(proc[p], "exited"))
  <2>1. PICK u \in Process : /\ u = Ended(proc[p], "exited")
                             /\ SetUp(u) /\ u.pc = "exited"
    BY <1>1, EndedKeeps
  <2> QED BY <1>1, <1>4, <2>1, BecomesKeeps DEF Becomes
<1> QED BY <1>2, <1>3, <1>4 DEF Stage


(* A step of the main thread. *)
LEMMA MainStepKeeps ==
  ASSUME StartupInv, NEW p \in Procs, MainStep(p)
  PROVE  StartupInv'
<1>1. /\ proc[p] \in Process /\ SetUp(proc[p]) /\ execute_as_daemon \in BOOLEAN
      /\ PARENT # CHILD /\ p \in {PARENT, CHILD}
  BY StartupAssumption DEF StartupInv, TypeOK, Procs
<1>2. CASE socket_server_create(p)
  <2> DEFINE next == IF execute_as_daemon THEN "fork" ELSE "signal"
             new == [proc[p] EXCEPT !.fd = Open(@, "socket"),
                                    !.server_socket = SocketFd(proc[p].fd)]
  <2>1. proc[p].pc = "socket_server_create" =>
          /\ [new EXCEPT !.pc = next] \in Process
          /\ SetUp([new EXCEPT !.pc = next])
          /\ [new EXCEPT !.pc = next].pc = next
    <3>1. PICK s \in Process : s = proc[p]
      BY <1>1
    <3>2. PICK t : t = [new EXCEPT !.pc = next]
      OBVIOUS
    <3>3. t = [[s EXCEPT !.fd = Open(@, "socket"),
                         !.server_socket = SocketFd(s.fd)] EXCEPT !.pc = next]
      BY <3>1, <3>2
    <3>4. next \in {"fork", "signal"}
      OBVIOUS
    <3> HIDE DEF next, new
    <3> QED BY <1>1, <3>1, <3>2, <3>3, <3>4, SocketKeeps, ZenonT(60)
  <2>2. proc[p].pc = "socket_server_create" => p = PARENT
    BY <1>1 DEF StartupInv, ForkInv
  <2>3. Stage(p, "socket_server_create",
              {"socket", "setsockopt", "getaddrinfo", "bind", "listen"}, next, new)
    BY <1>2 DEF socket_server_create
  <2> HIDE DEF new
  <2>4. next \in {"fork", "signal"}
    OBVIOUS
  <2> HIDE DEF next
  <2> QED BY <2>1, <2>2, <2>3, <2>4, StageKeeps
<1>3. CASE daemonize(p)
  <2> DEFINE new == [proc[p] EXCEPT !.fd = Daemonized(@)]
  <2>1. proc[p].pc = "setsid" =>
          /\ [new EXCEPT !.pc = "signal"] \in Process
          /\ SetUp([new EXCEPT !.pc = "signal"])
          /\ [new EXCEPT !.pc = "signal"].pc = "signal"
    BY <1>1, DaemonizeKeeps
  <2>2. Stage(p, "setsid", {"setsid", "chdir"}, "signal", new)
    BY <1>3 DEF daemonize
  <2> HIDE DEF new
  <2> QED BY <2>1, <2>2, StageKeeps
<1>4. CASE signal(p)
  <2> DEFINE done == proc[p].handlers
             sig == IF done = {} THEN "SIGINT"
                    ELSE IF done = {"SIGINT"} THEN "SIGTERM" ELSE "SIGUSR1"
  <2>1. PICK h, next : /\ h = done \cup {sig}
                       /\ next = IF sig = "SIGUSR1" THEN "sem_init" ELSE "signal"
    OBVIOUS
  <2>2. PICK new : new = [proc[p] EXCEPT !.handlers = h]
    OBVIOUS
  <2>3. Stage(p, "signal", {"signal"}, next, new)
    BY <1>4, <2>1, <2>2 DEF signal
  <2>4. ASSUME proc[p].pc = "signal"
        PROVE  /\ [new EXCEPT !.pc = next] \in Process
               /\ SetUp([new EXCEPT !.pc = next])
               /\ [new EXCEPT !.pc = next].pc \in {"signal"} \cup Late
    <3>1. done \in {{}, {"SIGINT"}, {"SIGINT", "SIGTERM"}}
      BY <1>1, <2>4 DEF SetUp, HandlersInv
    <3>2. /\ h \in SUBSET Signals /\ next \in {"signal", "sem_init"}
          /\ next = "signal" => h \in {{"SIGINT"}, {"SIGINT", "SIGTERM"}}
          /\ next = "sem_init" => h = Signals
      <4>1. CASE done = {}
        BY <2>1, <4>1 DEF Signals
      <4>2. CASE done = {"SIGINT"}
        BY <2>1, <4>2 DEF Signals
      <4>3. CASE done = {"SIGINT", "SIGTERM"}
        BY <2>1, <4>3 DEF Signals
      <4> QED BY <3>1, <4>1, <4>2, <4>3
    <3>3. PICK s \in Process : s = proc[p]
      BY <1>1
    <3>4. PICK t : t = [new EXCEPT !.pc = next]
      OBVIOUS
    <3>5. t = [[s EXCEPT !.handlers = h] EXCEPT !.pc = next]
      BY <2>2, <3>3, <3>4
    <3>6. t \in Process /\ SetUp(t) /\ t.pc = next
      <4>1. SetUp(s) /\ s.pc = "signal"
        BY <1>1, <2>4, <3>3
      <4>2. PICK g \in SUBSET Signals, m \in {"signal", "sem_init"} : g = h /\ m = next
        BY <3>2
      <4> QED BY <3>2, <3>5, <4>1, <4>2, SignalKeeps
    <3> QED BY <3>2, <3>4, <3>6 DEF Late
  <2> QED BY <2>3, <2>4, StageKeeps
<1>5. ASSUME NEW stage \in {"sem_init", "timer_create", "timer_settime"},
             NEW calls, NEW next, NEW new, Stage(p, stage, calls, next, new),
             \/ /\ stage = "sem_init" /\ next = "timer_create"
                /\ new = [proc[p] EXCEPT !.sem = 0]
             \/ /\ stage = "timer_create" /\ next = "timer_settime"
                /\ new = [proc[p] EXCEPT !.timer = "created"]
             \/ /\ stage = "timer_settime" /\ next = "pthread_create"
                /\ new = ArmTimer(proc[p])
      PROVE  StartupInv'
  <2>1. PICK t : t = [new EXCEPT !.pc = next]
    OBVIOUS
  <2>2. proc[p].pc = stage => t \in Process /\ SetUp(t) /\ t.pc \in Waiting
    BY <1>1, <1>5, <2>1, TimerKeeps
  <2>3. stage \in Late /\ Waiting \subseteq Late
    BY DEF Late, Waiting
  <2> QED BY <1>5, <2>1, <2>2, <2>3, StageKeeps
<1>6. CASE sem_init(p) \/ timer_create(p) \/ timer_settime(p)
  BY <1>5, <1>6 DEF sem_init, timer_create, timer_settime
<1>7. ASSUME NEW stage \in {"pthread_create", "pthread_mutex_init"},
             NEW calls, NEW next, NEW new, Stage(p, stage, calls, next, new),
             \/ /\ stage = "pthread_create" /\ next = "pthread_mutex_init"
                /\ new = [proc[p] EXCEPT !.logger = "wait"]
             \/ /\ stage = "pthread_mutex_init" /\ next = "application"
                /\ new = [proc[p] EXCEPT !.mutex_ready = TRUE]
      PROVE  StartupInv'
  <2>1. PICK t : t = [new EXCEPT !.pc = next]
    OBVIOUS
  <2>2. proc[p].pc = stage => t \in Process /\ SetUp(t) /\ t.pc \in Late
    BY <1>1, <1>7, <2>1, ServeKeeps DEF Late, Waiting
  <2>3. stage \in Late
    BY DEF Late, Waiting
  <2> QED BY <1>7, <2>1, <2>2, <2>3, StageKeeps
<1>8. CASE start_logger(p) \/ pthread_mutex_init(p)
  BY <1>7, <1>8 DEF start_logger, pthread_mutex_init
<1>9. CASE application(p)
  <2>1. PICK t : t = [proc[p] EXCEPT !.pc = "join_logger"]
    OBVIOUS
  <2>2. /\ proc[p].pc = "application" /\ proc' = [proc EXCEPT ![p] = t]
        /\ UNCHANGED execute_as_daemon
    BY <1>9, <2>1 DEF application, At, Becomes
  <2>3. t \in Process /\ SetUp(t)
        /\ t.pc \in {"pthread_mutex_init", "application", "join_logger"}
    BY <1>1, <2>1, <2>2, ServeKeeps
  <2> QED BY <1>1, <2>2, <2>3, BecomesKeeps DEF Late, Waiting
<1>10. CASE join_logger(p)
  <2>1. PICK t \in Process : t = Ended(proc[p], "exited") /\ SetUp(t) /\ t.pc = "exited"
    BY <1>1, EndedKeeps
  <2>2. /\ proc[p].pc = "join_logger" /\ proc' = [proc EXCEPT ![p] = t]
        /\ UNCHANGED execute_as_daemon
    BY <1>10, <2>1 DEF join_logger, At, Becomes
  <2> QED BY <1>1, <2>1, <2>2, BecomesKeeps
<1> QED BY <1>2, <1>3, <1>4, <1>6, <1>8, <1>9, <1>10 DEF MainStep

(* The logger thread, and the signals. *)
LEMMA AsynchronousKeeps ==
  ASSUME StartupInv, NEW p \in Procs,
         \/ log_timestamp_worker(p)
         \/ sigint_handler(p) \/ sigint_handler_post(p) \/ sigusr1_handler(p)
  PROVE  StartupInv'
<1>1. /\ proc[p] \in Process /\ SetUp(proc[p]) /\ execute_as_daemon \in BOOLEAN
      /\ proc[p].pc # "none"
  BY DEF StartupInv, TypeOK, log_timestamp_worker, sigint_handler,
         sigint_handler_post, sigusr1_handler, Alive
<1>2. ASSUME NEW t, proc' = [proc EXCEPT ![p] = t], UNCHANGED execute_as_daemon,
             t \in Process /\ SetUp(t) /\ t.pc = proc[p].pc
      PROVE  StartupInv'
  BY <1>1, <1>2, BecomesKeeps
<1>3. CASE log_timestamp_worker(p)
  <2>1. PICK t :
          /\ proc' = [proc EXCEPT ![p] = t] /\ UNCHANGED execute_as_daemon
          /\ \/ /\ proc[p].logger = "wait" /\ proc[p].sem > 0
                /\ t = [proc[p] EXCEPT !.logger = "check", !.sem = @ - 1]
             \/ /\ proc[p].logger = "check"
                /\ t = [proc[p] EXCEPT !.logger =
                          IF proc[p].is_terminated THEN "exited"
                          ELSE IF USE_AESD_CHAR_DEVICE THEN "wait" ELSE "lock"]
             \/ proc[p].logger = "lock" /\ t = [proc[p] EXCEPT !.logger = "wait"]
    BY <1>3 DEF log_timestamp_worker, Becomes
  <2>2. t \in Process /\ SetUp(t) /\ t.pc = proc[p].pc
    BY <1>1, <2>1, LoggerKeeps
  <2> QED BY <1>2, <2>1, <2>2
<1>4. CASE sigint_handler(p)
  <2>1. CASE Becomes(p, Ended(proc[p], "killed"))
    <3>1. PICK t \in Process : t = Ended(proc[p], "killed") /\ SetUp(t) /\ t.pc = "killed"
      BY <1>1, EndedKeeps
    <3> QED BY <1>1, <2>1, <3>1, BecomesKeeps DEF Becomes
  <2>2. CASE Becomes(p, [SetTerminated(proc[p]) EXCEPT !.sigint = "post"])
    <3>1. PICK t : t = [SetTerminated(proc[p]) EXCEPT !.sigint = "post"]
      OBVIOUS
    <3>2. t \in Process /\ SetUp(t) /\ t.pc = proc[p].pc
      BY <1>1, <3>1, HandlerKeeps
    <3> QED BY <1>2, <2>2, <3>1, <3>2 DEF Becomes
  <2> QED BY <1>4, <2>1, <2>2 DEF sigint_handler
<1>5. CASE sigint_handler_post(p)
  <2>1. PICK t : t = [Post(proc[p]) EXCEPT !.sigint = "returned"]
    OBVIOUS
  <2>2. proc[p].sigint = "post" /\ Becomes(p, t)
    BY <1>5, <2>1 DEF sigint_handler_post
  <2>3. t \in Process /\ SetUp(t) /\ t.pc = proc[p].pc
    BY <1>1, <2>1, <2>2, HandlerKeeps
  <2> QED BY <1>2, <2>2, <2>3 DEF Becomes
<1>6. CASE sigusr1_handler(p)
  <2>1. PICK t : t = Post(proc[p])
    OBVIOUS
  <2>2. proc[p].pc \in {"application", "join_logger"} /\ Becomes(p, t)
    BY <1>6, <2>1 DEF sigusr1_handler
  <2>3. t \in Process /\ SetUp(t) /\ t.pc = proc[p].pc
    BY <1>1, <2>1, <2>2, HandlerKeeps
  <2> QED BY <1>2, <2>2, <2>3 DEF Becomes
<1> QED BY <1>3, <1>4, <1>5, <1>6

(* What only the process that was started does. *)
LEMMA ParentKeeps ==
  ASSUME StartupInv, parse_arguments \/ fork \/ parent_exit
  PROVE  StartupInv'
<1>1. /\ proc \in [Procs -> Process] /\ PARENT # CHILD
      /\ PARENT \in Procs /\ CHILD \in Procs
      /\ proc[PARENT] \in Process /\ SetUp(proc[PARENT])
      /\ execute_as_daemon \in BOOLEAN
  BY StartupAssumption DEF StartupInv, TypeOK, Procs
<1>2. PICK e \in Process : e = Ended(proc[PARENT], "exited") /\ SetUp(e) /\ e.pc = "exited"
  BY <1>1, EndedKeeps
<1>3. ASSUME Becomes(PARENT, Ended(proc[PARENT], "exited")), proc[PARENT].pc # "none"
      PROVE  StartupInv'
  BY <1>1, <1>2, <1>3, BecomesKeeps DEF Becomes
<1>4. CASE parse_arguments
  <2>1. proc[PARENT].pc = "main"
    BY <1>4 DEF parse_arguments, At
  <2>2. CASE /\ execute_as_daemon' \in BOOLEAN
             /\ proc' = [proc EXCEPT ![PARENT].pc = "socket_server_create"]
    <3>1. PICK t : t = [proc[PARENT] EXCEPT !.pc = "socket_server_create"]
      OBVIOUS
    <3>2. t \in Process /\ SetUp(t) /\ t.pc = "socket_server_create"
      BY <1>1, <2>1, <3>1, ForkKeeps
    <3>3. proc' = [proc EXCEPT ![PARENT] = t]
      BY <2>2, <3>1
    <3> QED BY <1>1, <2>1, <2>2, <3>2, <3>3, BecomesKeeps
  <2> QED BY <1>3, <1>4, <2>1, <2>2 DEF parse_arguments
<1>5. CASE fork
  <2>1. proc[PARENT].pc = "fork"
    BY <1>5 DEF fork, At
  <2>2. CASE /\ proc' = [proc EXCEPT ![PARENT].pc = "parent",
                           ![CHILD] = [proc[PARENT] EXCEPT !.pc = "setsid",
                                         !.timer = "none", !.logger = "none"]]
             /\ UNCHANGED execute_as_daemon
    <3>1. PICK t, u : t = [proc[PARENT] EXCEPT !.pc = "parent"]
                      /\ u = [proc[PARENT] EXCEPT !.pc = "setsid",
                                !.timer = "none", !.logger = "none"]
      OBVIOUS
    <3>2. /\ t \in Process /\ SetUp(t) /\ t.pc = "parent"
          /\ u \in Process /\ SetUp(u) /\ u.pc = "setsid"
      BY <1>1, <2>1, <3>1, ForkKeeps, ChildKeeps
    <3>3. proc' = [proc EXCEPT ![PARENT] = t, ![CHILD] = u]
      BY <2>2, <3>1
    <3>4. /\ proc' \in [Procs -> Process] /\ proc'[PARENT] = t /\ proc'[CHILD] = u
      BY <1>1, <3>2, <3>3
    <3>5. TypeOK' /\ ForkInv'
      BY <1>1, <2>2, <3>2, <3>4 DEF TypeOK, ForkInv
    <3>6. \A q \in Procs : SetUp(proc'[q])
      BY <3>2, <3>4 DEF Procs
    <3> QED BY <3>5, <3>6 DEF StartupInv
  <2> QED BY <1>3, <1>5, <2>1, <2>2 DEF fork
<1>6. CASE parent_exit
  BY <1>3, <1>6 DEF parent_exit, At
<1> QED BY <1>4, <1>5, <1>6

(* StartupInv holds before main begins. *)
LEMMA StartupInit == Init => StartupInv
<1> SUFFICES ASSUME Init PROVE StartupInv
  OBVIOUS
<1>1. PARENT # CHILD /\ MaxFd \in Nat /\ MaxFd >= 6 /\ MaxSem \in Nat
  BY StartupAssumption
<1>2. AllClosed \in [0 .. MaxFd -> {"closed", "tty", "socket", "null"}]
      /\ Inherited \in [0 .. MaxFd -> {"closed", "tty", "socket", "null"}]
      /\ 0 \in 0 .. MaxFd /\ 0 \in 0 .. MaxSem
  BY <1>1 DEF AllClosed, Inherited
<1>3. NotStarted \in Process /\ NotStarted.pc = "none" /\ SetUp(NotStarted)
  <2>1. NotStarted \in Process
    BY <1>2 DEF NotStarted, Process, Stages
  <2>2. SetUp(NotStarted)
    BY <1>1 DEF NotStarted, SetUp, FdInv, HandlersInv, TimerInv, LoggerInv, WakeInv,
                Early, Late, Waiting
  <2> QED BY <2>1, <2>2 DEF NotStarted
<1>4. PICK m : m = [NotStarted EXCEPT !.pc = "main", !.fd = Inherited]
  OBVIOUS
<1>5. m \in Process /\ m.pc = "main" /\ SetUp(m)
  <2>1. m \in Process /\ m.pc = "main"
    BY <1>2, <1>3, <1>4 DEF Process, Stages
  <2>2. SetUp(m)
    BY <1>1, <1>4 DEF NotStarted, SetUp, FdInv, HandlersInv, TimerInv, LoggerInv,
                      WakeInv, Early, Late, Waiting
  <2> QED BY <2>1, <2>2
<1>6. proc = [p \in Procs |-> IF p = CHILD THEN NotStarted ELSE m]
  BY <1>4 DEF Init, Inherited
<1>7. proc[PARENT] = m /\ proc[CHILD] = NotStarted /\ TypeOK
  BY <1>1, <1>3, <1>5, <1>6 DEF Procs, TypeOK, Init
<1> QED BY <1>3, <1>5, <1>7 DEF StartupInv, ForkInv, Procs

(* StartupInv holds in every state. *)
LEMMA StartupInductive == Spec => []StartupInv
<1>1. StartupInv /\ [Next]_vars => StartupInv'
  <2> SUFFICES ASSUME StartupInv, [Next]_vars PROVE StartupInv'
    OBVIOUS
  <2>1. CASE UNCHANGED vars
    BY <2>1 DEF vars, StartupInv, TypeOK, ForkInv
  <2> QED BY <2>1, ParentKeeps, MainStepKeeps, AsynchronousKeeps DEF Next
<1> QED BY <1>1, StartupInit, PTL DEF Spec

-----------------------------------------------------------------------------
(* Every field of a process keeps its type: in particular the descriptor   *)
(* kept as server_socket is one the kernel gave out, never the -1 of a     *)
(* failing call.                                                           *)
THEOREM TypeCorrect == Spec => []TypeOK
<1>1. StartupInv => TypeOK
  BY DEF StartupInv
<1> QED BY <1>1, StartupInductive, PTL

(* Whatever fails and whenever a signal comes: at most one process serves, *)
(* and it has the listening socket, its three handlers, an armed timer of  *)
(* its own, a logger thread and an initialised mutex.                      *)
THEOREM ServerIsComplete == Spec => []ServingIsSetUp
<1>1. StartupInv => ServingIsSetUp
  <2> SUFFICES ASSUME StartupInv PROVE ServingIsSetUp
    OBVIOUS
  <2>1. ASSUME NEW p \in Procs, Serving(p)
        PROVE  /\ proc[p].fd[proc[p].server_socket] = "socket"
               /\ proc[p].handlers = Signals /\ proc[p].timer = "armed"
               /\ proc[p].logger # "none" /\ proc[p].mutex_ready
    BY <2>1 DEF Serving, StartupInv, SetUp, FdInv, HandlersInv, TimerInv, LoggerInv,
                Late, Waiting
  <2>2. PICK S : S = {p \in Procs : Serving(p)}
    OBVIOUS
  <2>3. S = {} \/ S = {PARENT} \/ S = {CHILD}
    <3>1. ~(Serving(PARENT) /\ Serving(CHILD))
      BY DEF Serving, StartupInv, ForkInv
    <3> QED BY <2>2, <3>1 DEF Procs
  <2>4. Cardinality(S) <= 1
    <3>1. CASE S = {}
      BY <3>1, FS_EmptySet
    <3>2. ASSUME NEW x, S = {x} PROVE Cardinality(S) <= 1
      <4>1. Cardinality({x}) = 1
        BY FS_Singleton
      <4> QED BY <3>2, <4>1
    <3> QED BY <2>3, <3>1, <3>2
  <2> QED BY <2>1, <2>2, <2>4 DEF ServingIsSetUp
<1> QED BY <1>1, StartupInductive, PTL

(* The logger is started before pthread_mutex_init and never locks the     *)
(* mutex before: only SIGINT or SIGTERM can wake it up that early, and     *)
(* their handler sets the flag that makes it exit before it posts.         *)
THEOREM MutexBeforeUse == Spec => []LoggerLocksInitialised
<1>1. StartupInv => LoggerLocksInitialised
  BY DEF StartupInv, SetUp, WakeInv, LoggerLocksInitialised
<1> QED BY <1>1, StartupInductive, PTL
=============================================================================
