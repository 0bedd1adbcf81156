-------------------------- MODULE AesdSocketProofs --------------------------
(***************************************************************************)
(* The safety properties of the running server, for any number of clients, *)
(* any messages, any buffer and any of the faults.                         *)
(***************************************************************************)
EXTENDS AesdSocket, SequenceTheorems, TLAPS

(* What c still has to send, and what waits for recv, is part of its       *)
(* message.                                                                *)
StreamInv ==
  \A c \in Clients : client[c].unsent + client[c].inbox <= MsgLen[c]

FileType == [lines : Seq(Seq(Units)), partial : Seq(Units)]

(* A worker's recv takes no more than waits, and what it takes are units   *)
(* of its client's message.                                                *)
LEMMA ReceivedUnits ==
  ASSUME TypeOK, StreamInv, NEW c \in Clients
  PROVE  /\ Received(c) \in 0 .. client[c].inbox
         /\ Received(c) <= BUFFER_SIZE
         /\ Taken(c) \in Nat
         /\ \A n \in 0 .. Received(c) : Waiting(c, n) \in Seq(Units)
<1>1. /\ client[c].inbox \in Nat /\ client[c].unsent \in Nat
      /\ MsgLen[c] \in Nat /\ BUFFER_SIZE \in Nat
      /\ client[c].unsent + client[c].inbox <= MsgLen[c]
  BY SocketAssumption DEF TypeOK, Client, StreamInv
<1>2. Received(c) \in 0 .. client[c].inbox /\ Received(c) <= BUFFER_SIZE
  BY <1>1 DEF Received
<1>3. Taken(c) \in Nat
  BY <1>1 DEF Taken
<1>4. ASSUME NEW n \in 0 .. Received(c) PROVE Waiting(c, n) \in Seq(Units)
  <2>1. \A i \in 1 .. n : <<c, Taken(c) + i>> \in Units
    BY <1>2, <1>3 DEF Units
  <2>2. n \in Nat
    BY <1>1, <1>2
  <2> QED BY <2>1, <2>2, IsASeq DEF Waiting
<1> QED BY <1>2, <1>3, <1>4

(* Appending units to a result file leaves a result file. *)
LEMMA AppendedType ==
  ASSUME NEW f \in FileType, NEW d \in Seq(Units)
  PROVE  Appended(f, d) \in FileType
<1>1. /\ f.lines \in Seq(Seq(Units)) /\ f.partial \in Seq(Units)
      /\ f = [lines |-> f.lines, partial |-> f.partial]
  BY DEF FileType
<1>2. f.partial \o d \in Seq(Units)
  BY <1>1, ConcatProperties
<1>3. Push(f.lines, f.partial \o d) \in Seq(Seq(Units))
  <2>1. CASE Len(f.lines) < MaxOps
    BY <2>1, <1>1, <1>2 DEF Push
  <2>2. CASE ~(Len(f.lines) < MaxOps)
    <3>1. Len(f.lines) # 0
      BY <2>2, <1>1, SocketAssumption
    <3>2. Tail(f.lines) \in Seq(Seq(Units))
      BY <3>1, <1>1
    <3> QED BY <2>2, <3>2, <1>2 DEF Push
  <2> QED BY <2>1, <2>2
<1>4. <<>> \in Seq(Units)
  OBVIOUS
<1> QED BY <1>1, <1>2, <1>3, <1>4 DEF Appended, FileType

(* What a reader of the file gets is a sequence of pieces. *)
LEMMA ReadsType ==
  ASSUME NEW f \in FileType
  PROVE  Reads(f) \in Seq(Seq(Units))
<1>1. f.lines \in Seq(Seq(Units)) /\ f.partial \in Seq(Units)
  BY DEF FileType
<1> QED BY <1>1 DEF Reads

(* Unlinking a node leaves a list of the others, in their order.           *)
LEMMA UnlinkedProperties ==
  ASSUME NEW S, NEW s \in Seq(S), NEW k \in DOMAIN s
  PROVE  /\ Unlinked(s, k) \in Seq(S)
         /\ Len(Unlinked(s, k)) = Len(s) - 1
         /\ \A j \in 1 .. Len(s) - 1 :
              Unlinked(s, k)[j] = IF j < k THEN s[j] ELSE s[j + 1]
<1> DEFINE l == SubSeq(s, 1, k - 1)
           r == SubSeq(s, k + 1, Len(s))
<1>1. k \in 1 .. Len(s) /\ Len(s) \in Nat
  OBVIOUS
<1>2. /\ l \in Seq(S) /\ Len(l) = k - 1
      /\ \A j \in 1 .. k - 1 : l[j] = s[j]
  BY <1>1, SubSeqProperties
<1>3. /\ r \in Seq(S) /\ Len(r) = Len(s) - k
      /\ \A j \in 1 .. Len(s) - k : r[j] = s[k + j]
  BY <1>1, SubSeqProperties
<1>4. /\ l \o r \in Seq(S) /\ Len(l \o r) = Len(s) - 1
      /\ \A j \in 1 .. Len(s) - 1 :
           (l \o r)[j] = IF j <= k - 1 THEN l[j] ELSE r[j - (k - 1)]
  <2> HIDE DEF l, r
  <2>1. /\ l \o r \in Seq(S) /\ Len(l \o r) = Len(l) + Len(r)
        /\ \A j \in 1 .. Len(l) + Len(r) :
             (l \o r)[j] = IF j <= Len(l) THEN l[j] ELSE r[j - Len(l)]
    BY <1>2, <1>3, ConcatProperties
  <2>2. Len(l) + Len(r) = Len(s) - 1
    BY <1>1, <1>2, <1>3
  <2> QED BY <1>2, <2>1, <2>2
<1>5. ASSUME NEW j \in 1 .. Len(s) - 1
      PROVE  (l \o r)[j] = IF j < k THEN s[j] ELSE s[j + 1]
  <2> HIDE DEF l, r
  <2>1. CASE j < k
    BY <2>1, <1>1, <1>2, <1>4
  <2>2. CASE ~(j < k)
    <3>1. j - (k - 1) \in 1 .. Len(s) - k /\ k + (j - (k - 1)) = j + 1
      BY <2>2, <1>1
    <3>2. r[j - (k - 1)] = s[j + 1]
      BY <3>1, <1>3
    <3>3. ~(j <= k - 1)
      BY <2>2, <1>1
    <3> QED BY <2>2, <3>2, <3>3, <1>4
  <2> QED BY <2>1, <2>2
<1> QED BY <1>4, <1>5 DEF Unlinked

-----------------------------------------------------------------------------
(* Type correctness. *)

(* The main thread has a connection only between accept and the start of   *)
(* its worker.                                                             *)
FdInv ==
  /\ main.pc = "spawn" => main.client_fd # NULL
  /\ main.client_fd # NULL => main.pc \in {"nap", "spawn", "killed"}

TypeInv == TypeOK /\ StreamInv /\ FdInv

(* A step of the main thread keeps the types. *)
LEMMA MainTypes == TypeInv /\ MainStep => TypeInv'
<1> SUFFICES ASSUME TypeInv, MainStep PROVE TypeInv'
  OBVIOUS
<1> USE DEF TypeInv, TypeOK, StreamInv, FdInv, MainAt, main_frame, signal_vars
<1>1. CASE application_ends
  BY <1>1 DEF application_ends, MainThread
<1>2. CASE connection_timeout
  BY <1>2 DEF connection_timeout, MainThread
<1>3. CASE accept
  <2>1. PICK fd \in Clients \cup {NULL}, errno \in {"EAGAIN", "other"} :
          /\ fd = NULL \/ backlog # <<>>
          /\ backlog' = IF fd = NULL THEN backlog ELSE Tail(backlog)
          /\ open_fds' = open_fds \cup ({fd} \ {NULL})
          /\ \/ /\ main' = [main EXCEPT !.errno = errno, !.pc = "nap",
                                         !.client_fd = fd]
                /\ UNCHANGED is_terminated
             \/ Abort(errno)
    BY <1>3 DEF accept
  <2>2. backlog' \in Seq(Clients)
    BY <2>1
  <2>3. main' \in MainThread /\ is_terminated' \in BOOLEAN /\ FdInv'
    BY <2>1, ZenonT(60) DEF Abort, MainThread
  <2> QED BY <1>3, <2>1, <2>2, <2>3 DEF accept
<1>4. CASE nanosleep
  BY <1>4 DEF nanosleep, MainThread
<1>5. CASE start_worker
  <2>1. main.client_fd \in Clients
    BY <1>5 DEF start_worker, MainThread
  <2>2. list' \in Seq(Clients)
    BY <1>5, <2>1 DEF start_worker
  <2>3. thread' \in [Clients -> Thread] /\ main' \in MainThread /\ FdInv'
    BY <1>5, <2>1 DEF start_worker, Thread, Running, MainThread
  <2> QED BY <1>5, <2>2, <2>3 DEF start_worker
<1>6. CASE start_worker_fails
  BY <1>6 DEF start_worker_fails, Abort, MainThread
<1>7. ASSUME NEW c \in Clients, RemoveAndFree(c)
      PROVE  list' \in Seq(Clients) /\ thread' \in [Clients -> Thread]
  <2>1. PICK i \in DOMAIN list : list' = Unlinked(list, i)
    BY <1>7 DEF RemoveAndFree
  <2>2. list' \in Seq(Clients)
    BY <2>1, UnlinkedProperties
  <2>3. thread' = [thread EXCEPT ![c].node = "freed"]
    BY <1>7 DEF RemoveAndFree
  <2> QED BY <2>2, <2>3, ZenonT(60) DEF Thread
<1>8. CASE slist_join_completed_threads
  <2>1. main.todo \in Seq(Clients) /\ main.todo # <<>>
    BY <1>8 DEF slist_join_completed_threads, MainThread
  <2>2. Head(main.todo) \in Clients /\ Tail(main.todo) \in Seq(Clients)
    BY <2>1
  <2>3. main' \in MainThread /\ FdInv'
    BY <1>8, <2>2 DEF slist_join_completed_threads, MainThread
  <2>4. list' \in Seq(Clients) /\ thread' \in [Clients -> Thread]
    BY <1>7, <1>8, <2>2 DEF slist_join_completed_threads
  <2> QED BY <1>8, <2>3, <2>4 DEF slist_join_completed_threads
<1>9. CASE joined_completed
  BY <1>9 DEF joined_completed, StopAfterError, MainThread
<1>10. CASE slist_join_threads
  <2>1. main.todo \in Seq(Clients) /\ main.todo # <<>>
    BY <1>10 DEF slist_join_threads, MainThread
  <2>2. Head(main.todo) \in Clients /\ Tail(main.todo) \in Seq(Clients)
    BY <2>1
  <2>3. main' \in MainThread /\ FdInv'
    BY <1>10, <2>2 DEF slist_join_threads, MainThread
  <2>4. list' \in Seq(Clients) /\ thread' \in [Clients -> Thread]
    BY <1>7, <1>10, <2>2 DEF slist_join_threads
  <2> QED BY <1>10, <2>3, <2>4 DEF slist_join_threads
<1>11. CASE slist_free
  BY <1>11, ZenonT(60) DEF slist_free, MainThread, Thread
<1>12. CASE cleanup
  <2>1. EmptyFile \in [lines : Seq(Seq(Units)), partial : Seq(Units)]
    BY EmptySeq DEF EmptyFile
  <2>2. main' \in MainThread /\ FdInv'
    BY <1>12 DEF cleanup, MainThread
  <2> QED BY <1>12, <2>1, <2>2 DEF cleanup
<1> QED
  BY <1>1, <1>2, <1>3, <1>4, <1>5, <1>6, <1>8, <1>9, <1>10, <1>11, <1>12
  DEF MainStep

(* Receiving leaves the stream of a client an initial part of it shorter.  *)
LEMMA ReceivedStream ==
  ASSUME TypeInv, NEW c \in Clients,
         \/ UNCHANGED client
         \/ client' = [client EXCEPT ![c].inbox = @ - Received(c)]
  PROVE  client' \in [Clients -> Client] /\ StreamInv'
<1>1. CASE UNCHANGED client
  BY <1>1 DEF TypeInv, TypeOK, StreamInv
<1>2. CASE client' = [client EXCEPT ![c].inbox = @ - Received(c)]
  <2> DEFINE m == client[c].inbox - Received(c)
  <2>1. /\ client \in [Clients -> Client] /\ client[c] \in Client
        /\ client[c].inbox \in Nat /\ client[c].unsent \in Nat
        /\ MsgLen[c] \in Nat
        /\ client[c].unsent + client[c].inbox <= MsgLen[c]
    BY SocketAssumption DEF TypeInv, TypeOK, StreamInv, Client
  <2>2. m \in Nat /\ m <= client[c].inbox
    <3>1. Received(c) \in 0 .. client[c].inbox
      BY ReceivedUnits DEF TypeInv
    <3> QED BY <2>1, <3>1
  <2>3. [client[c] EXCEPT !.inbox = m] \in Client
    BY <2>1, <2>2 DEF Client
  <2>4. client' = [client EXCEPT ![c] = [client[c] EXCEPT !.inbox = m]]
    BY <1>2
  <2> HIDE DEF m
  <2>5. client' \in [Clients -> Client]
    BY <2>1, <2>3, <2>4
  <2>6. \A d \in Clients \ {c} : client'[d] = client[d]
    BY <2>1, <2>4
  <2>7. client'[c].unsent = client[c].unsent /\ client'[c].inbox = m
    BY <2>1, <2>4 DEF Client
  <2>8. client'[c].unsent + client'[c].inbox <= MsgLen[c]
    BY <2>1, <2>2, <2>7
  <2> QED BY <2>5, <2>6, <2>8 DEF TypeInv, StreamInv
<1> QED BY <1>1, <1>2

(* A step of a worker keeps the types. *)
LEMMA WorkerTypes ==
  ASSUME TypeInv, NEW c \in Clients, WorkerStep(c)
  PROVE  TypeInv'
<1> USE DEF TypeInv, TypeOK, StreamInv, FdInv, worker_frame, signal_vars
<1>1. ASSUME NEW from, NEW to \in Running \cup {"exiting", "exited"},
             NEW status \in {"RUNNING", "SUCCEEDED", "FAILED"},
             GoStatus(c, from, to, status) \/ Go(c, from, to)
      PROVE  thread' \in [Clients -> Thread]
  <2>1. PICK s \in {"RUNNING", "SUCCEEDED", "FAILED", "UNITITIALIZED"} :
          thread' = [thread EXCEPT ![c].pc = to, ![c].status = s]
    <3>1. CASE GoStatus(c, from, to, status)
      BY <3>1 DEF GoStatus
    <3>2. CASE Go(c, from, to)
      BY <3>2 DEF Go, GoStatus, Thread
    <3> QED BY <1>1, <3>1, <3>2
  <2>2. thread \in [Clients -> Thread] /\ thread[c] \in Thread
    OBVIOUS
  <2>3. PICK t \in Thread : t = [thread[c] EXCEPT !.pc = to, !.status = s]
    BY <2>2 DEF Thread
  <2>4. thread' = [thread EXCEPT ![c] = t]
    BY <2>1, <2>2, <2>3
  <2> QED BY <2>2, <2>4
<1>2. CASE worker_start(c)
  BY <1>1, <1>2 DEF worker_start, Running
<1>3. CASE worker_lock(c)
  BY <1>1, <1>3 DEF worker_lock, Running
<1>4. CASE receive(c)
  <2>1. /\ Received(c) \in 0 .. client[c].inbox
        /\ Waiting(c, Received(c)) \in Seq(Units)
    BY ReceivedUnits
  <2>2. file' \in FileType
    BY <1>4, <2>1, AppendedType DEF receive, FileType
  <2>3. client' \in [Clients -> Client] /\ StreamInv'
    BY <1>4, ReceivedStream DEF receive
  <2>4. thread' \in [Clients -> Thread] /\ mutex' \in Clients \cup {NULL}
    BY <1>1, <1>4 DEF receive, Running
  <2> QED BY <1>4, <2>2, <2>3, <2>4 DEF receive, FileType
<1>5. CASE receive_fails(c)
  <2>1. /\ Received(c) \in 0 .. client[c].inbox
        /\ \A k \in 0 .. Received(c) : Waiting(c, k) \in Seq(Units)
    BY ReceivedUnits
  <2>2. file' \in FileType
    BY <1>5, <2>1, AppendedType DEF receive_fails, FileType
  <2>3. client' \in [Clients -> Client] /\ StreamInv'
    BY <1>5, ReceivedStream DEF receive_fails
  <2>4. thread' \in [Clients -> Thread] /\ mutex' \in Clients \cup {NULL}
    BY <1>1, <1>5 DEF receive_fails, UnlockOnFailure, Running
  <2> QED BY <1>5, <2>2, <2>3, <2>4 DEF receive_fails, FileType
<1>6. CASE send_file(c)
  <2>1. Reads(file) \in Seq(Seq(Units))
    BY ReadsType DEF FileType
  <2>2. client' \in [Clients -> Client] /\ StreamInv'
    BY <1>6, <2>1 DEF send_file, Client
  <2>3. thread' \in [Clients -> Thread]
    BY <1>1, <1>6 DEF send_file, Running
  <2> QED BY <1>6, <2>2, <2>3 DEF send_file
<1>7. CASE send_file_fails(c)
  <2>1. Reads(file) \in Seq(Seq(Units))
    BY ReadsType DEF FileType
  <2>2. PICK k \in 0 .. Len(Reads(file)) :
          client' = [client EXCEPT ![c].reply = SubSeq(Reads(file), 1, k)]
    BY <1>7 DEF send_file_fails
  <2>3. SubSeq(Reads(file), 1, k) \in Seq(Seq(Units))
    BY <2>1, SubSeqProperties
  <2>4. client' \in [Clients -> Client] /\ StreamInv'
    BY <2>2, <2>3 DEF Client
  <2>5. thread' \in [Clients -> Thread]
    BY <1>1, <1>7 DEF send_file_fails, Running
  <2> QED BY <1>7, <2>4, <2>5 DEF send_file_fails, UnlockOnFailure
<1>8. CASE send_raises_sigpipe(c)
  BY <1>8 DEF send_raises_sigpipe, main_frame, MainThread
<1>9. CASE worker_finish(c)
  BY <1>1, <1>9 DEF worker_finish
<1>10. CASE pthread_exit(c)
  BY <1>1, <1>10 DEF pthread_exit
<1> QED
  BY <1>2, <1>3, <1>4, <1>5, <1>6, <1>7, <1>8, <1>9, <1>10 DEF WorkerStep

(* A step of the logger keeps the types. *)
LEMMA LoggerTypes == TypeInv /\ LoggerStep => TypeInv'
<1> SUFFICES ASSUME TypeInv, LoggerStep PROVE TypeInv'
  OBVIOUS
<1> USE DEF TypeInv, TypeOK, StreamInv, FdInv, logger_frame, signal_vars
<1>1. CASE logger_sem_wait
  BY <1>1, SocketAssumption DEF logger_sem_wait
<1>2. CASE logger_check
  BY <1>2 DEF logger_check
<1>3. CASE logger_append
  <2> DEFINE d == <<<<LOGGER, ticks>>>>
  <2>1. d \in Seq(Units)
    BY SocketAssumption DEF Units
  <2>2. file \in FileType /\ (file' = Appended(file, d) \/ UNCHANGED file)
    BY <1>3 DEF logger_append, FileType
  <2> HIDE DEF d
  <2>3. file' \in FileType
    BY <2>1, <2>2, AppendedType
  <2> QED BY <1>3, <2>3 DEF logger_append, FileType
<1> QED BY <1>1, <1>2, <1>3 DEF LoggerStep

SignalStep == sigusr1_handler \/ sigint_handler \/ sigint_handler_post

(* A signal keeps the types, and changes nothing of the main thread but    *)
(* errno.                                                                  *)
LEMMA SignalTypes == TypeInv /\ SignalStep => TypeInv'
<1> SUFFICES ASSUME TypeInv, SignalStep PROVE TypeInv'
  OBVIOUS
<1> USE SocketAssumption DEF TypeInv, TypeOK, StreamInv, FdInv, handler_frame
<1>1. ASSUME Interrupted PROVE main' \in MainThread /\ FdInv'
  BY <1>1 DEF Interrupted, MainThread
<1>2. CASE sigusr1_handler
  <2>1. sem' \in 0 .. MaxSem /\ ticks' \in 0 .. MaxTicks
    BY <1>2 DEF sigusr1_handler
  <2> QED BY <1>1, <1>2, <2>1 DEF sigusr1_handler
<1>3. CASE sigint_handler
  BY <1>3 DEF sigint_handler
<1>4. CASE sigint_handler_post
  <2>1. sem' \in 0 .. MaxSem
    BY <1>4 DEF sigint_handler_post
  <2> QED BY <1>1, <1>4, <2>1 DEF sigint_handler_post
<1> QED BY <1>2, <1>3, <1>4 DEF SignalStep

(* A step of a client keeps the types. *)
LEMMA ClientTypes ==
  ASSUME TypeInv, NEW c \in Clients, ClientStep(c)
  PROVE  TypeInv'
<1> USE DEF TypeInv, TypeOK, FdInv, client_frame, signal_vars
<1>1. ASSUME NEW s \in {"up", "shut", "reset"},
             client' = [client EXCEPT ![c].conn = s]
      PROVE  client' \in [Clients -> Client] /\ StreamInv'
  BY <1>1 DEF Client, StreamInv
<1>2. CASE client_connects(c)
  <2>1. backlog' \in Seq(Clients)
    BY <1>2 DEF client_connects
  <2> QED BY <1>1, <1>2, <2>1 DEF client_connects
<1>3. CASE client_sends(c)
  <2>1. PICK n \in 1 .. client[c].unsent :
          client' = [client EXCEPT ![c].unsent = @ - n, ![c].inbox = n]
    BY <1>3 DEF client_sends
  <2>2. /\ client \in [Clients -> Client] /\ client[c] \in Client
        /\ client[c].unsent \in Nat /\ client[c].inbox = 0
        /\ MsgLen[c] \in Nat /\ client[c].unsent <= MsgLen[c]
    <3>1. client[c].inbox = 0 /\ client[c].unsent \in Nat
      BY <1>3 DEF client_sends, Client
    <3>2. client[c].unsent + client[c].inbox <= MsgLen[c]
      BY DEF StreamInv
    <3> QED BY <3>1, <3>2, SocketAssumption
  <2> DEFINE m == client[c].unsent - n
             r == [client[c] EXCEPT !.unsent = m, !.inbox = n]
  <2>3. m \in Nat /\ n \in Nat /\ m + n <= MsgLen[c]
    BY <2>2
  <2>4. client' = [client EXCEPT ![c] = r]
    BY <2>1, <2>2
  <2> HIDE DEF m
  <2>5. r \in Client /\ r.unsent = m /\ r.inbox = n
    BY <2>2, <2>3 DEF Client
  <2> HIDE DEF r
  <2>6. client' \in [Clients -> Client]
    BY <2>2, <2>4, <2>5
  <2>7. \A d \in Clients : client'[d] = IF d = c THEN r ELSE client[d]
    BY <2>2, <2>4
  <2>8. StreamInv'
    BY <2>3, <2>5, <2>7 DEF StreamInv
  <2> QED BY <1>3, <2>6, <2>8 DEF client_sends
<1>4. CASE client_shuts(c)
  BY <1>1, <1>4 DEF client_shuts
<1>5. CASE client_resets(c)
  BY <1>1, <1>5 DEF client_resets
<1> QED BY <1>2, <1>3, <1>4, <1>5 DEF ClientStep

(* Together: TypeInv is an invariant of the server. *)
LEMMA TypeInductive == Spec => []TypeInv
<1>1. Init => TypeInv
  <2> SUFFICES ASSUME Init PROVE TypeInv
    OBVIOUS
  <2>1. main \in MainThread /\ FdInv
    BY DEF Init, MainThread, FdInv
  <2>2. thread \in [Clients -> Thread]
    BY DEF Init, Thread
  <2>3. client \in [Clients -> Client] /\ StreamInv
    BY SocketAssumption DEF Init, Client, StreamInv
  <2>4. file \in [lines : Seq(Seq(Units)), partial : Seq(Units)]
    BY EmptySeq DEF Init, EmptyFile
  <2>5. /\ list \in Seq(Clients) /\ backlog \in Seq(Clients)
        /\ sem \in 0 .. MaxSem /\ ticks \in 0 .. MaxTicks
    BY SocketAssumption, EmptySeq DEF Init
  <2> QED BY <2>1, <2>2, <2>3, <2>4, <2>5 DEF Init, TypeInv, TypeOK
<1>2. TypeInv /\ [Next]_vars => TypeInv'
  <2> SUFFICES ASSUME TypeInv, [Next]_vars PROVE TypeInv'
    OBVIOUS
  <2>1. CASE UNCHANGED vars
    BY <2>1 DEF vars, signal_vars, TypeInv, TypeOK, StreamInv, FdInv
  <2>2. CASE Next
    BY <2>2, MainTypes, LoggerTypes, SignalTypes, WorkerTypes, ClientTypes
    DEF Next, SignalStep
  <2> QED BY <2>1, <2>2
<1> QED BY <1>1, <1>2, PTL DEF Spec

(* Every variable of the server keeps its type: recv never takes more than *)
(* waits, the list and the walk over it hold connections only, and the     *)
(* bounds of semaphore and ticks are kept.                                 *)
THEOREM TypeCorrect == Spec => []TypeOK
<1>1. TypeInv => TypeOK
  BY DEF TypeInv
<1> QED BY <1>1, TypeInductive, PTL

-----------------------------------------------------------------------------
(* Membership of a node in the list, and of a connection in the backlog. *)

In(c, s) == \E i \in DOMAIN s : s[i] = c

Distinct(s) == \A i, j \in DOMAIN s : s[i] = s[j] => i = j

(* Unlinking the k-th of distinct nodes removes that node and no other.    *)
LEMMA UnlinkedIn ==
  ASSUME NEW S, NEW s \in Seq(S), NEW k \in DOMAIN s, Distinct(s)
  PROVE  /\ Distinct(Unlinked(s, k))
         /\ \A c : In(c, Unlinked(s, k)) <=> In(c, s) /\ c # s[k]
<1> DEFINE t == Unlinked(s, k)
<1>1. /\ t \in Seq(S) /\ Len(t) = Len(s) - 1
      /\ \A j \in 1 .. Len(s) - 1 : t[j] = IF j < k THEN s[j] ELSE s[j + 1]
  BY UnlinkedProperties
<1>2. /\ Len(s) \in Nat /\ DOMAIN s = 1 .. Len(s) /\ k \in 1 .. Len(s)
      /\ DOMAIN t = 1 .. Len(s) - 1
  BY <1>1
<1> HIDE DEF t
<1>3. \A i \in DOMAIN t :
        LET j == IF i < k THEN i ELSE i + 1
        IN  j \in DOMAIN s /\ j # k /\ t[i] = s[j]
  BY <1>1, <1>2
<1>4. \A j \in DOMAIN s : j # k =>
        LET i == IF j < k THEN j ELSE j - 1
        IN  i \in DOMAIN t /\ t[i] = s[j]
  BY <1>1, <1>2
<1>5. Distinct(t)
  BY <1>2, <1>3 DEF Distinct
<1>6. ASSUME NEW c PROVE In(c, t) <=> In(c, s) /\ c # s[k]
  <2>1. ASSUME In(c, t) PROVE In(c, s) /\ c # s[k]
    BY <2>1, <1>2, <1>3 DEF In, Distinct
  <2>2. ASSUME In(c, s), c # s[k] PROVE In(c, t)
    BY <2>2, <1>4 DEF In
  <2> QED BY <2>1, <2>2
<1> QED BY <1>5, <1>6 DEF t

(* Taking the first element off a sequence. *)
LEMMA TailIn ==
  ASSUME NEW S, NEW s \in Seq(S), s # <<>>
  PROVE  /\ Tail(s) \in Seq(S) /\ Head(s) \in S
         /\ \A c : In(c, s) <=> c = Head(s) \/ In(c, Tail(s))
         /\ Distinct(s) => Distinct(Tail(s)) /\ ~In(Head(s), Tail(s))
<1>1. /\ Len(s) \in Nat \ {0} /\ DOMAIN s = 1 .. Len(s)
      /\ Tail(s) \in Seq(S) /\ Head(s) \in S /\ Head(s) = s[1]
      /\ DOMAIN Tail(s) = 1 .. Len(s) - 1
      /\ \A i \in 1 .. Len(s) - 1 : Tail(s)[i] = s[i + 1]
  OBVIOUS
<1>2. ASSUME NEW c PROVE In(c, s) <=> c = Head(s) \/ In(c, Tail(s))
  <2>1. ASSUME NEW i \in DOMAIN s, s[i] = c, i # 1 PROVE In(c, Tail(s))
    <3>1. i - 1 \in 1 .. Len(s) - 1 /\ (i - 1) + 1 = i
      BY <2>1, <1>1
    <3> QED BY <2>1, <3>1, <1>1 DEF In
  <2>2. ASSUME NEW i \in DOMAIN Tail(s), Tail(s)[i] = c PROVE In(c, s)
    <3>1. i + 1 \in DOMAIN s
      BY <1>1
    <3> QED BY <2>2, <3>1, <1>1 DEF In
  <2> QED BY <2>1, <2>2, <1>1 DEF In
<1>3. ASSUME Distinct(s) PROVE Distinct(Tail(s)) /\ ~In(Head(s), Tail(s))
  <2>1. \A i \in 1 .. Len(s) - 1 : i + 1 \in DOMAIN s /\ i + 1 # 1
    BY <1>1
  <2> QED BY <1>1, <1>3, <2>1 DEF Distinct, In
<1> QED BY <1>1, <1>2, <1>3

(* SLIST_INSERT_HEAD of a node that is not on the list. *)
LEMMA ConsIn ==
  ASSUME NEW S, NEW s \in Seq(S), NEW e \in S
  PROVE  /\ \A c : In(c, <<e>> \o s) <=> c = e \/ In(c, s)
         /\ Distinct(s) /\ ~In(e, s) => Distinct(<<e>> \o s)
<1> DEFINE t == <<e>> \o s
<1>1. /\ Len(s) \in Nat /\ DOMAIN s = 1 .. Len(s)
      /\ DOMAIN t = 1 .. Len(s) + 1
      /\ \A i \in 1 .. Len(s) + 1 : t[i] = IF i = 1 THEN e ELSE s[i - 1]
  OBVIOUS
<1>2. \A i \in DOMAIN t : i # 1 => i - 1 \in DOMAIN s /\ t[i] = s[i - 1]
  BY <1>1
<1>3. \A i \in DOMAIN s : i + 1 \in DOMAIN t /\ t[i + 1] = s[i]
  BY <1>1
<1>4. 1 \in DOMAIN t /\ t[1] = e
  BY <1>1
<1> HIDE DEF t
<1>5. \A c : In(c, t) <=> c = e \/ In(c, s)
  BY <1>2, <1>3, <1>4 DEF In
<1>6. ASSUME Distinct(s), ~In(e, s) PROVE Distinct(t)
  BY <1>1, <1>2, <1>4, <1>6 DEF Distinct, In
<1> QED BY <1>5, <1>6 DEF t

(* A connection joins the end of the backlog. *)
LEMMA AppendIn ==
  ASSUME NEW S, NEW s \in Seq(S), NEW e \in S
  PROVE  /\ \A c : In(c, Append(s, e)) <=> c = e \/ In(c, s)
         /\ Distinct(s) /\ ~In(e, s) => Distinct(Append(s, e))
<1> DEFINE t == Append(s, e)
<1>1. /\ Len(s) \in Nat /\ DOMAIN s = 1 .. Len(s)
      /\ DOMAIN t = 1 .. Len(s) + 1
      /\ \A i \in 1 .. Len(s) : t[i] = s[i]
      /\ t[Len(s) + 1] = e
  OBVIOUS
<1> HIDE DEF t
<1>2. \A c : In(c, t) <=> c = e \/ In(c, s)
  BY <1>1 DEF In
<1>3. ASSUME Distinct(s), ~In(e, s) PROVE Distinct(t)
  BY <1>1, <1>3 DEF Distinct, In
<1> QED BY <1>2, <1>3 DEF t

-----------------------------------------------------------------------------
(* Who owns a connection and its node. *)

Critical == {"receive", "send"}

(* The way of a connection is one way: away, in the backlog, in the hands  *)
(* of the main thread, with a worker whose node is on the list until the   *)
(* thread has exited.                                                      *)
ConnectionInv ==
  /\ Distinct(backlog) /\ Distinct(list)
  /\ \A c \in Clients :
       /\ client[c].conn = "away" \/ In(c, backlog) \/ c = main.client_fd
            => thread[c].pc = "none"
       /\ In(c, backlog) \/ c = main.client_fd => client[c].conn # "away"
       /\ ~(In(c, backlog) /\ c = main.client_fd)
       /\ thread[c].pc = "none" <=> thread[c].node = "none"
       /\ thread[c].node = "allocated" <=> In(c, list)
       /\ thread[c].node = "freed" => thread[c].pc = "exited"

(* slist_join_threads has still to visit every node on the list; after it  *)
(* the list is empty.                                                      *)
JoinInv ==
  /\ main.pc = "join_threads" =>
       \A c \in Clients : In(c, list) => In(c, main.todo)
  /\ main.pc \in {"join_logger", "done"} => list = <<>>
  /\ main.pc = "done" => logger = "exited"

OwnInv == ConnectionInv /\ MutexInv /\ JoinInv

(* What one step of a worker does to threads and mutex. *)
Moves(c, from, to) ==
  /\ thread[c].pc = from /\ thread'[c].pc = to
  /\ thread'[c].node = thread[c].node
  /\ \A d \in Clients \ {c} : thread'[d] = thread[d]

(* Go and GoStatus move one worker, and never touch its node. *)
LEMMA GoMoves ==
  ASSUME TypeInv, NEW c \in Clients, NEW from, NEW to,
         Go(c, from, to) \/ \E s : GoStatus(c, from, to, s)
  PROVE  Moves(c, from, to)
<1>1. PICK s : /\ thread[c].pc = from
              /\ thread' = [thread EXCEPT ![c].pc = to, ![c].status = s]
  BY DEF Go, GoStatus
<1>2. thread \in [Clients -> Thread] /\ thread[c] \in Thread
  BY DEF TypeInv, TypeOK
<1> QED BY <1>1, <1>2 DEF Moves, Thread

(* A worker locks the mutex when it is free, keeps it while it uses the    *)
(* file, and unlocks it on every way out; it never touches list, backlog   *)
(* or node, and closes its connection as it leaves Running.                *)
LEMMA WorkerEffect ==
  ASSUME TypeInv, NEW c \in Clients, WorkerStep(c), ~send_raises_sigpipe(c)
  PROVE  /\ UNCHANGED <<main, is_terminated, list, logger, backlog>>
         /\ \A d \in Clients : client'[d].conn = client[d].conn
         /\ \E from \in Running \cup {"exiting"},
               to \in Running \cup {"exiting", "exited"} :
              /\ Moves(c, from, to)
              /\ \/ from \notin Critical /\ to \notin Critical /\ mutex' = mutex
                 \/ from \in Critical /\ to \in Critical /\ mutex' = mutex
                 \/ from \in Critical /\ to \notin Critical /\ mutex' = NULL
                 \/ /\ from \notin Critical /\ to \in Critical
                    /\ mutex = NULL /\ mutex' = c
              /\ open_fds' \subseteq open_fds
              /\ to \in Running \/ from = "exiting" \/ c \notin open_fds'
<1> USE DEF worker_frame, Running, Critical
<1>0. client \in [Clients -> Client]
  BY DEF TypeInv, TypeOK
<1>1. CASE worker_start(c)
  BY <1>1, GoMoves DEF worker_start
<1>2. CASE worker_lock(c)
  BY <1>2, GoMoves DEF worker_lock, MutexFree
<1>3. CASE receive(c)
  <2>1. \A d \in Clients : client'[d].conn = client[d].conn
    BY <1>0, <1>3 DEF receive, Client
  <2>2. \/ Moves(c, "receive", "receive") /\ UNCHANGED mutex
        \/ Moves(c, "receive", "lock_send") /\ mutex' = NULL
    BY <1>3, GoMoves DEF receive
  <2> QED BY <1>3, <2>1, <2>2 DEF receive
<1>4. CASE receive_fails(c)
  <2>1. \A d \in Clients : client'[d].conn = client[d].conn
    BY <1>0, <1>4 DEF receive_fails, Client
  <2>2. Moves(c, "receive", "failed") /\ mutex' = NULL
    BY <1>4, GoMoves DEF receive_fails, UnlockOnFailure
  <2> QED BY <1>4, <2>1, <2>2 DEF receive_fails
<1>5. CASE send_file(c)
  <2>1. \A d \in Clients : client'[d].conn = client[d].conn
    BY <1>0, <1>5 DEF send_file, Client
  <2>2. Moves(c, "send", "succeeded") /\ mutex' = NULL
    BY <1>5, GoMoves DEF send_file
  <2> QED BY <1>5, <2>1, <2>2 DEF send_file
<1>6. CASE send_file_fails(c)
  <2>1. \A d \in Clients : client'[d].conn = client[d].conn
    BY <1>0, <1>6 DEF send_file_fails, Client
  <2>2. Moves(c, "send", "failed") /\ mutex' = NULL
    BY <1>6, GoMoves DEF send_file_fails, UnlockOnFailure
  <2> QED BY <1>6, <2>1, <2>2 DEF send_file_fails
<1>7. CASE worker_finish(c)
  <2>1. \/ Moves(c, "succeeded", "exiting")
        \/ Moves(c, "failed", "exiting")
    BY <1>7, GoMoves DEF worker_finish
  <2> QED BY <1>7, <2>1 DEF worker_finish
<1>8. CASE pthread_exit(c)
  <2>1. Moves(c, "exiting", "exited")
    BY <1>8, GoMoves DEF pthread_exit
  <2> QED BY <1>8, <2>1 DEF pthread_exit
<1> QED
  BY <1>1, <1>2, <1>3, <1>4, <1>5, <1>6, <1>7, <1>8 DEF WorkerStep

(* A step of a worker leaves every connection and node with its owner, and *)
(* the mutex with the one worker that uses the file.                       *)
LEMMA WorkerOwns ==
  ASSUME TypeInv, OwnInv, NEW c \in Clients, WorkerStep(c)
  PROVE  OwnInv'
<1>1. CASE send_raises_sigpipe(c)
  <2>1. main' = [main EXCEPT !.pc = "killed"] /\ main \in MainThread
    BY <1>1 DEF send_raises_sigpipe, TypeInv, TypeOK
  <2>2. main'.client_fd = main.client_fd /\ main'.pc = "killed"
    BY <2>1 DEF MainThread
  <2>3. UNCHANGED <<thread, list, backlog, client, mutex, logger>>
    BY <1>1 DEF send_raises_sigpipe, main_frame
  <2> QED BY <2>2, <2>3 DEF OwnInv, ConnectionInv, MutexInv, JoinInv
<1>2. CASE ~send_raises_sigpipe(c)
  <2>1. /\ UNCHANGED <<main, list, logger, backlog>>
        /\ \A d \in Clients : client'[d].conn = client[d].conn
    BY <1>2, WorkerEffect
  <2>2. PICK from \in Running \cup {"exiting"},
             to \in Running \cup {"exiting", "exited"} :
          /\ Moves(c, from, to)
          /\ \/ from \notin Critical /\ to \notin Critical /\ mutex' = mutex
             \/ from \in Critical /\ to \in Critical /\ mutex' = mutex
             \/ from \in Critical /\ to \notin Critical /\ mutex' = NULL
             \/ /\ from \notin Critical /\ to \in Critical
                /\ mutex = NULL /\ mutex' = c
    BY <1>2, WorkerEffect
  <2>3. from # "none" /\ from # "exited" /\ to # "none"
    BY DEF Running
  <2>4. ConnectionInv'
    BY <2>1, <2>2, <2>3 DEF OwnInv, ConnectionInv, Moves
  <2>5. MutexInv'
    <3>1. \A d \in Clients : thread[d].pc \in Critical <=> mutex = d
      BY DEF OwnInv, MutexInv, Critical
    <3>2. \A d \in Clients : thread'[d].pc \in Critical <=> mutex' = d
      BY <2>2, <3>1, SocketAssumption DEF Moves
    <3> QED BY <3>2 DEF MutexInv, Critical
  <2>6. JoinInv'
    BY <2>1 DEF OwnInv, JoinInv
  <2> QED BY <2>4, <2>5, <2>6 DEF OwnInv
<1> QED BY <1>1, <1>2

(* A node is taken off the list and freed only after its thread has exited,*)
(* so that a step of either walk leaves the rest with its owners.          *)
LEMMA RemoveOwns ==
  ASSUME TypeInv, OwnInv, NEW c \in Clients, Joinable(c), RemoveAndFree(c),
         main'.client_fd = main.client_fd,
         UNCHANGED <<mutex, backlog, client>>
  PROVE  /\ ConnectionInv' /\ MutexInv'
         /\ \A d \in Clients : In(d, list') <=> In(d, list) /\ d # c
<1>1. PICK i \in DOMAIN list : list[i] = c /\ list' = Unlinked(list, i)
  BY DEF RemoveAndFree
<1>2. /\ Distinct(list')
      /\ \A d \in Clients : In(d, list') <=> In(d, list) /\ d # c
  BY <1>1, UnlinkedIn DEF TypeInv, TypeOK, OwnInv, ConnectionInv
<1>3. /\ thread[c].pc = "exited" /\ thread'[c].pc = "exited"
      /\ thread'[c].node = "freed"
      /\ \A d \in Clients \ {c} : thread'[d] = thread[d]
  BY DEF TypeInv, TypeOK, Thread, Joinable, RemoveAndFree
<1>4. ConnectionInv'
  BY <1>2, <1>3 DEF OwnInv, ConnectionInv
<1>5. MutexInv'
  BY <1>3 DEF OwnInv, MutexInv
<1> QED BY <1>2, <1>4, <1>5

(* A step of the main thread leaves every connection and node with its     *)
(* owner.                                                                  *)
LEMMA MainOwns == TypeInv /\ OwnInv /\ MainStep => OwnInv'
<1> SUFFICES ASSUME TypeInv, OwnInv, MainStep PROVE OwnInv'
  OBVIOUS
<1> USE DEF MainAt, main_frame
<1>0. main \in MainThread /\ thread \in [Clients -> Thread]
  BY DEF TypeInv, TypeOK
<1>1. CASE application_ends
  <2>1. /\ main'.client_fd = main.client_fd /\ main'.pc = "join_threads"
        /\ main'.todo = list
    BY <1>0, <1>1 DEF application_ends, MainThread
  <2> QED BY <1>1, <2>1
          DEF application_ends, OwnInv, ConnectionInv, MutexInv, JoinInv
<1>2. CASE connection_timeout
  <2>1. main'.client_fd = main.client_fd /\ main'.pc = "join_completed"
    BY <1>0, <1>2 DEF connection_timeout, MainThread
  <2> QED BY <1>2, <2>1
          DEF connection_timeout, OwnInv, ConnectionInv, MutexInv, JoinInv
<1>3. CASE accept
  <2>1. PICK fd \in Clients \cup {NULL}, errno \in {"EAGAIN", "other"} :
          /\ fd = NULL \/ (backlog # <<>> /\ fd = Head(backlog))
          /\ backlog' = IF fd = NULL THEN backlog ELSE Tail(backlog)
          /\ \/ main' = [main EXCEPT !.errno = errno, !.pc = "nap",
                                      !.client_fd = fd]
             \/ Abort(errno)
    BY <1>3 DEF accept
  <2>2. /\ main'.client_fd \in {fd, NULL}
        /\ main'.pc \in {"nap", "connection"}
    BY <1>0, <2>1 DEF Abort, MainThread
  <2>3. UNCHANGED <<list, thread, mutex, logger, client>>
    BY <1>3 DEF accept
  <2>4. /\ Distinct(backlog')
        /\ \A c \in Clients : In(c, backlog') => In(c, backlog) /\ c # fd
        /\ fd = NULL \/ In(fd, backlog)
    <3>1. CASE fd = NULL
      BY <2>1, <3>1, SocketAssumption DEF OwnInv, ConnectionInv
    <3>2. CASE fd # NULL
      <4>1. backlog \in Seq(Clients) /\ backlog # <<>> /\ fd = Head(backlog)
        BY <2>1, <3>2 DEF TypeInv, TypeOK
      <4> QED BY <2>1, <3>2, <4>1, TailIn DEF OwnInv, ConnectionInv
    <3> QED BY <3>1, <3>2
  <2>5. NULL \notin Clients
    BY SocketAssumption
  <2>6. ConnectionInv'
    BY <2>2, <2>3, <2>4, <2>5 DEF OwnInv, ConnectionInv
  <2> QED BY <2>2, <2>3, <2>6 DEF OwnInv, MutexInv, JoinInv
<1>4. CASE nanosleep
  <2>1. /\ main'.client_fd = main.client_fd
        /\ main'.pc \in {"connection", "spawn"}
    BY <1>0, <1>4 DEF nanosleep, MainThread
  <2> QED BY <1>4, <2>1
          DEF nanosleep, OwnInv, ConnectionInv, MutexInv, JoinInv
<1>5. CASE start_worker
  <2> DEFINE fd == main.client_fd
  <2>1. fd \in Clients
    BY <1>0, <1>5 DEF start_worker, TypeInv, FdInv, MainThread
  <2>2. /\ thread[fd].pc = "none" /\ thread[fd].node = "none"
        /\ client[fd].conn # "away" /\ ~In(fd, backlog) /\ ~In(fd, list)
    BY <2>1 DEF OwnInv, ConnectionInv
  <2>3. /\ thread'[fd].pc = "start" /\ thread'[fd].node = "allocated"
        /\ \A d \in Clients \ {fd} : thread'[d] = thread[d]
    BY <1>0, <1>5, <2>1 DEF start_worker
  <2>4. main'.client_fd = NULL /\ main'.pc = "connection"
    BY <1>0, <1>5 DEF start_worker, MainThread
  <2>5. UNCHANGED <<backlog, client, mutex, logger>>
    BY <1>5 DEF start_worker
  <2>6. /\ Distinct(list')
        /\ \A d \in Clients : In(d, list') <=> d = fd \/ In(d, list)
    <3>1. list \in Seq(Clients) /\ list' = <<fd>> \o list /\ Distinct(list)
      BY <1>5 DEF start_worker, TypeInv, TypeOK, OwnInv, ConnectionInv
    <3> QED BY <2>1, <2>2, <3>1, ConsIn
  <2>7. NULL \notin Clients
    BY SocketAssumption
  <2> HIDE DEF fd
  <2>8. ConnectionInv'
    BY <2>1, <2>2, <2>3, <2>4, <2>5, <2>6, <2>7 DEF OwnInv, ConnectionInv
  <2>9. MutexInv'
    BY <2>1, <2>2, <2>3, <2>5 DEF OwnInv, MutexInv
  <2> QED BY <2>4, <2>8, <2>9 DEF OwnInv, JoinInv
<1>6. CASE start_worker_fails
  <2>1. main'.client_fd = NULL /\ main'.pc = "connection"
    BY <1>0, <1>6 DEF start_worker_fails, Abort, MainThread
  <2> QED BY <1>6, <2>1, SocketAssumption
          DEF start_worker_fails, OwnInv, ConnectionInv, MutexInv, JoinInv
<1>7. CASE slist_join_completed_threads
  <2>1. main.todo # <<>> /\ main.todo \in Seq(Clients)
    BY <1>0, <1>7 DEF slist_join_completed_threads, MainThread
  <2>2. Head(main.todo) \in Clients
    BY <2>1
  <2>3. main'.client_fd = main.client_fd /\ main'.pc = "join_completed"
    BY <1>0, <1>7 DEF slist_join_completed_threads, MainThread
  <2>4. UNCHANGED <<mutex, backlog, client>>
    BY <1>7 DEF slist_join_completed_threads
  <2>5. CASE UNCHANGED <<list, thread>>
    BY <2>3, <2>4, <2>5 DEF OwnInv, ConnectionInv, MutexInv, JoinInv
  <2>6. CASE Joinable(Head(main.todo)) /\ RemoveAndFree(Head(main.todo))
    BY <2>2, <2>3, <2>4, <2>6, RemoveOwns DEF OwnInv, JoinInv
  <2> QED BY <1>7, <2>5, <2>6 DEF slist_join_completed_threads
<1>8. CASE joined_completed
  <2>1. main'.client_fd = main.client_fd /\ main'.pc = "connection"
    BY <1>0, <1>8 DEF joined_completed, MainThread
  <2> QED BY <1>8, <2>1
          DEF joined_completed, OwnInv, ConnectionInv, MutexInv, JoinInv
<1>9. CASE slist_join_threads
  <2> DEFINE c == Head(main.todo)
  <2>1. main.todo # <<>> /\ main.todo \in Seq(Clients)
    BY <1>0, <1>9 DEF slist_join_threads, MainThread
  <2>2. c \in Clients
    BY <2>1
  <2>3. /\ main'.client_fd = main.client_fd
        /\ main.pc = "join_threads" /\ main'.pc = "join_threads"
        /\ main'.todo = Tail(main.todo)
    BY <1>0, <1>9 DEF slist_join_threads, MainThread
  <2>4. /\ UNCHANGED <<mutex, backlog, client>>
        /\ Joinable(c) /\ RemoveAndFree(c)
    BY <1>9 DEF slist_join_threads
  <2>5. /\ ConnectionInv' /\ MutexInv'
        /\ \A d \in Clients : In(d, list') <=> In(d, list) /\ d # c
    BY <2>2, <2>3, <2>4, RemoveOwns
  <2>6. \A d : In(d, main.todo) <=> d = c \/ In(d, Tail(main.todo))
    BY <2>1, TailIn
  <2>7. \A d \in Clients : In(d, list') => In(d, main'.todo)
    BY <2>3, <2>5, <2>6 DEF OwnInv, JoinInv
  <2> QED BY <2>3, <2>5, <2>7 DEF OwnInv, JoinInv
<1>10. CASE slist_free
  <2>1. main.pc = "join_threads" /\ main.todo = <<>>
    BY <1>10 DEF slist_free
  <2>2. \A c \in Clients : ~In(c, list)
    <3>1. \A c : ~In(c, <<>>)
      BY DEF In
    <3> QED BY <2>1, <3>1 DEF OwnInv, JoinInv
  <2>3. thread' = thread
    <3>1. thread' = [c \in Clients |->
             IF In(c, list) THEN [thread[c] EXCEPT !.node = "freed"]
                            ELSE thread[c]]
      BY <1>10 DEF slist_free, In
    <3> QED BY <1>0, <2>2, <3>1
  <2>4. list' = <<>> /\ UNCHANGED <<mutex, backlog, client, logger>>
    BY <1>10 DEF slist_free
  <2>5. Distinct(list') /\ \A c \in Clients : ~In(c, list')
    BY <2>4 DEF Distinct, In
  <2>6. main'.client_fd = main.client_fd /\ main'.pc = "join_logger"
    BY <1>0, <1>10 DEF slist_free, MainThread
  <2> QED BY <2>2, <2>3, <2>4, <2>5, <2>6
          DEF OwnInv, ConnectionInv, MutexInv, JoinInv
<1>11. CASE cleanup
  <2>1. main'.client_fd = main.client_fd /\ main'.pc = "done"
    BY <1>0, <1>11 DEF cleanup, MainThread
  <2> QED BY <1>11, <2>1
          DEF cleanup, LoggerJoined, OwnInv, ConnectionInv, MutexInv, JoinInv
<1> QED
  BY <1>1, <1>2, <1>3, <1>4, <1>5, <1>6, <1>7, <1>8, <1>9, <1>10, <1>11
  DEF MainStep

(* Neither the logger nor a signal has anything to do with connections. *)
LEMMA OthersOwn ==
  TypeInv /\ OwnInv /\ (LoggerStep \/ SignalStep) => OwnInv'
<1> SUFFICES ASSUME TypeInv, OwnInv, LoggerStep \/ SignalStep PROVE OwnInv'
  OBVIOUS
<1>1. main \in MainThread
  BY DEF TypeInv, TypeOK
<1>2. /\ main'.pc = main.pc /\ main'.client_fd = main.client_fd
      /\ main'.todo = main.todo
  BY <1>1 DEF LoggerStep, logger_sem_wait, logger_check, logger_append,
      logger_frame, SignalStep, sigusr1_handler, sigint_handler,
      sigint_handler_post, Interrupted, MainThread
<1>3. /\ UNCHANGED <<mutex, list, thread, backlog, client>>
      /\ logger = "exited" => logger' = "exited"
  BY DEF LoggerStep, logger_sem_wait, logger_check, logger_append, LoggerAt,
      logger_frame, SignalStep, sigusr1_handler, sigint_handler,
      sigint_handler_post, handler_frame
<1> QED BY <1>2, <1>3 DEF OwnInv, ConnectionInv, MutexInv, JoinInv

(* A client that connects joins the backlog once. *)
LEMMA ClientOwns ==
  ASSUME TypeInv, OwnInv, NEW c \in Clients, ClientStep(c)
  PROVE  OwnInv'
<1>1. client \in [Clients -> Client] /\ backlog \in Seq(Clients)
  BY DEF TypeInv, TypeOK
<1>2. UNCHANGED <<main, mutex, list, thread, logger>>
  BY DEF ClientStep, client_connects, client_sends, client_shuts,
      client_resets, client_frame
<1>3. CASE client_connects(c)
  <2>1. client[c].conn = "away" /\ client'[c].conn = "up"
        /\ \A d \in Clients \ {c} : client'[d] = client[d]
    BY <1>1, <1>3 DEF client_connects, Client
  <2>2. thread[c].pc = "none" /\ ~In(c, backlog) /\ c # main.client_fd
    BY <2>1 DEF OwnInv, ConnectionInv
  <2>3. /\ Distinct(backlog')
        /\ \A d \in Clients : In(d, backlog') <=> d = c \/ In(d, backlog)
    BY <1>1, <1>3, <2>2, AppendIn
    DEF client_connects, OwnInv, ConnectionInv
  <2>4. ConnectionInv'
    BY <1>2, <2>1, <2>2, <2>3 DEF OwnInv, ConnectionInv
  <2> QED BY <1>2, <2>4 DEF OwnInv, MutexInv, JoinInv
<1>4. CASE ~client_connects(c)
  <2>1. UNCHANGED backlog
    BY <1>4 DEF ClientStep, client_sends, client_shuts, client_resets
  <2>2. \A d \in Clients : client'[d].conn = "away" <=> client[d].conn = "away"
    BY <1>1, <1>4, ZenonT(60)
    DEF ClientStep, client_sends, client_shuts, client_resets,
        Client
  <2> QED BY <1>2, <2>1, <2>2
          DEF OwnInv, ConnectionInv, MutexInv, JoinInv
<1> QED BY <1>3, <1>4

(* Together: OwnInv is an invariant of the server. *)
LEMMA OwnInductive == Spec => []OwnInv
<1>1. Init => OwnInv
  <2> SUFFICES ASSUME Init PROVE OwnInv
    OBVIOUS
  <2>1. \A c : ~In(c, <<>>)
    BY DEF In
  <2>2. Distinct(<<>>)
    BY DEF Distinct
  <2> QED BY <2>1, <2>2, SocketAssumption
          DEF Init, OwnInv, ConnectionInv, MutexInv, JoinInv
<1>2. TypeInv /\ OwnInv /\ [Next]_vars => OwnInv'
  <2> SUFFICES ASSUME TypeInv, OwnInv, [Next]_vars PROVE OwnInv'
    OBVIOUS
  <2>1. CASE UNCHANGED vars
    BY <2>1 DEF vars, OwnInv, ConnectionInv, MutexInv, JoinInv
  <2>2. CASE Next
    BY <2>2, MainOwns, OthersOwn, WorkerOwns, ClientOwns DEF Next, SignalStep
  <2> QED BY <2>1, <2>2
<1> QED BY <1>1, <1>2, TypeInductive, PTL DEF Spec

(* One worker at a time is between locking and unlocking the mutex of the  *)
(* result file, whatever fails.                                            *)
THEOREM MutualExclusion == Spec => []MutexInv
<1>1. OwnInv => MutexInv
  BY DEF OwnInv
<1> QED BY <1>1, OwnInductive, PTL

(* A worker's thread_data lives as long as the worker uses it: its node is *)
(* on the list exactly once until the thread has exited.                   *)
THEOREM NodesSafe == Spec => []NodesOwned
<1>1. TypeInv /\ OwnInv => NodesOwned
  <2> SUFFICES ASSUME TypeInv, OwnInv PROVE NodesOwned
    OBVIOUS
  <2>1. \A c \in Clients : thread[c].node \in {"none", "allocated", "freed"}
    BY DEF TypeInv, TypeOK, Thread
  <2>2. ConnectionInv
    BY DEF OwnInv
  <2>3. \A c \in Clients : thread[c].pc \in Running => thread[c].node = "allocated"
    BY <2>1, <2>2 DEF ConnectionInv, Running
  <2> QED BY <2>2, <2>3 DEF ConnectionInv, NodesOwned, Distinct, In
<1> QED BY <1>1, TypeInductive, OwnInductive, PTL

(* When the list is empty every thread has exited. *)
LEMMA OwnIsQuiet == TypeInv /\ OwnInv => QuietShutdown
<1> SUFFICES ASSUME TypeInv, OwnInv PROVE QuietShutdown
  OBVIOUS
<1>1. ASSUME main.pc \in {"join_logger", "done"}, NEW c \in Clients
      PROVE  /\ thread[c].pc \in {"none", "exited"}
             /\ thread[c].node # "allocated" /\ mutex # c
  <2>1. ~In(c, list)
    BY <1>1 DEF OwnInv, JoinInv, In
  <2>2. thread[c].node \in {"none", "freed"}
    BY <2>1 DEF OwnInv, ConnectionInv, TypeInv, TypeOK, Thread
  <2> QED BY <2>2 DEF OwnInv, ConnectionInv, MutexInv
<1>2. mutex \in Clients \cup {NULL}
  BY DEF TypeInv, TypeOK
<1> QED BY <1>1, <1>2 DEF OwnInv, JoinInv, QuietShutdown

(* When main destroys the mutex and returns, no worker and no logger is    *)
(* left to use it, and every node is freed.                                *)
THEOREM ShutdownIsQuiet == Spec => []QuietShutdown
  BY OwnIsQuiet, TypeInductive, OwnInductive, PTL

-----------------------------------------------------------------------------
(* Connections without an owner. *)

(* Only start_worker makes the main thread change what a thread does; the  *)
(* walks touch nodes alone.                                                *)
LEMMA MainThreads ==
  ASSUME TypeInv, MainStep, ~start_worker, NEW c \in Clients
  PROVE  thread'[c].pc = thread[c].pc /\ thread'[c].status = thread[c].status
<1>0. main \in MainThread /\ thread \in [Clients -> Thread]
  BY DEF TypeInv, TypeOK
<1>1. ASSUME NEW d \in Clients, RemoveAndFree(d)
      PROVE  thread'[c].pc = thread[c].pc /\ thread'[c].status = thread[c].status
  BY <1>0, <1>1 DEF RemoveAndFree, Thread
<1>2. ASSUME main.todo # <<>> PROVE Head(main.todo) \in Clients
  BY <1>0, <1>2 DEF MainThread
<1>3. CASE slist_join_completed_threads
  BY <1>1, <1>2, <1>3 DEF slist_join_completed_threads
<1>4. CASE slist_join_threads
  BY <1>1, <1>2, <1>4 DEF slist_join_threads
<1>5. CASE slist_free
  BY <1>0, <1>5 DEF slist_free, Thread
<1>6. CASE UNCHANGED thread
  BY <1>6
<1> QED BY <1>3, <1>4, <1>5, <1>6 DEF MainStep, application_ends, accept,
        connection_timeout, nanosleep, joined_completed, cleanup,
        start_worker_fails

(* The main thread hands a connection on or reports the error.             *)
LEMMA MainKeeps == TypeInv /\ LostOnlyOnAbort /\ MainStep => LostOnlyOnAbort'
<1> SUFFICES ASSUME TypeInv, LostOnlyOnAbort, MainStep PROVE LostOnlyOnAbort'
  OBVIOUS
<1>0. /\ main \in MainThread /\ thread \in [Clients -> Thread]
      /\ open_fds \subseteq Clients /\ NULL \notin Clients
  BY SocketAssumption DEF TypeInv, TypeOK
<1>1. CASE accept
  <2>1. PICK fd \in Clients \cup {NULL}, errno \in {"EAGAIN", "other"} :
          /\ open_fds' = open_fds \cup ({fd} \ {NULL})
          /\ \/ /\ main' = [main EXCEPT !.errno = errno, !.pc = "nap",
                                         !.client_fd = fd]
                /\ UNCHANGED is_terminated
             \/ Abort(errno)
    BY <1>1 DEF accept
  <2>2. UNCHANGED thread /\ main.client_fd = NULL
    BY <1>0, <1>1 DEF accept, MainAt, TypeInv, FdInv, MainThread
  <2>3. CASE Abort(errno)
    BY <1>0, <2>3 DEF Abort, MainThread, LostOnlyOnAbort
  <2>4. CASE /\ main' = [main EXCEPT !.errno = errno, !.pc = "nap",
                                     !.client_fd = fd]
             /\ UNCHANGED is_terminated
    <3>1. main'.client_fd = fd /\ main'.result = main.result
      BY <1>0, <2>4 DEF MainThread
    <3> QED BY <1>0, <2>1, <2>2, <2>4, <3>1 DEF LostOnlyOnAbort
  <2> QED BY <2>1, <2>3, <2>4
<1>2. CASE start_worker
  <2>1. main.client_fd \in Clients
    BY <1>0, <1>2 DEF start_worker, MainAt, TypeInv, FdInv, MainThread
  <2>2. /\ thread'[main.client_fd].pc \in Running
        /\ \A d \in Clients \ {main.client_fd} : thread'[d] = thread[d]
    BY <1>0, <1>2, <2>1 DEF start_worker, Running
  <2>3. main'.result = main.result /\ UNCHANGED <<is_terminated, open_fds>>
    BY <1>0, <1>2 DEF start_worker, MainThread
  <2> QED BY <1>0, <2>2, <2>3 DEF LostOnlyOnAbort
<1>3. CASE start_worker_fails
  BY <1>0, <1>3 DEF start_worker_fails, Abort, MainThread, LostOnlyOnAbort
<1>4. CASE ~(accept \/ start_worker \/ start_worker_fails)
  <2>1. /\ UNCHANGED open_fds /\ main'.client_fd = main.client_fd
        /\ main.result = -1 => main'.result = -1
        /\ is_terminated => is_terminated'
    <3>1. CASE joined_completed
      <4>1. /\ main'.client_fd = main.client_fd
            /\ main'.result = IF main.is_error THEN -1 ELSE main.result
        BY <1>0, <3>1 DEF joined_completed, MainThread
      <4> QED BY <3>1, <4>1 DEF joined_completed, StopAfterError
    <3>2. CASE slist_join_completed_threads
      BY <1>0, <3>2 DEF slist_join_completed_threads, MainThread
    <3>3. CASE application_ends \/ connection_timeout
      <4>1. UNCHANGED <<open_fds, is_terminated>>
        BY <3>3 DEF application_ends, connection_timeout
      <4>2. main'.client_fd = main.client_fd /\ main'.result = main.result
        BY <1>0, <3>3 DEF application_ends, connection_timeout, MainThread
      <4> QED BY <4>1, <4>2
    <3>4. CASE nanosleep
      BY <1>0, <3>4 DEF nanosleep, MainThread
    <3>5. CASE slist_join_threads \/ slist_free \/ cleanup
      BY <1>0, <3>5 DEF slist_join_threads, slist_free, cleanup, MainThread
    <3> QED BY <1>4, <3>1, <3>2, <3>3, <3>4, <3>5 DEF MainStep
  <2>2. \A c \in Clients : thread'[c].pc = thread[c].pc
    BY <1>4, MainThreads
  <2> QED BY <1>0, <2>1, <2>2 DEF LostOnlyOnAbort
<1> QED BY <1>1, <1>2, <1>3, <1>4

(* A worker closes its connection before it leaves Running.                *)
LEMMA WorkerKeeps ==
  ASSUME TypeInv, LostOnlyOnAbort, NEW c \in Clients, WorkerStep(c)
  PROVE  LostOnlyOnAbort'
<1>1. CASE send_raises_sigpipe(c)
  BY <1>1 DEF send_raises_sigpipe, LostOnlyOnAbort
<1>2. CASE ~send_raises_sigpipe(c)
  <2>1. UNCHANGED <<main, is_terminated>>
    BY <1>2, WorkerEffect
  <2>2. PICK from \in Running \cup {"exiting"},
             to \in Running \cup {"exiting", "exited"} :
          /\ Moves(c, from, to)
          /\ open_fds' \subseteq open_fds
          /\ to \in Running \/ from = "exiting" \/ c \notin open_fds'
    BY <1>2, WorkerEffect
  <2>3. "exiting" \notin Running
    BY DEF Running
  <2>4. open_fds \subseteq Clients
    BY DEF TypeInv, TypeOK
  <2> QED BY <2>1, <2>2, <2>3, <2>4 DEF Moves, LostOnlyOnAbort
<1> QED BY <1>1, <1>2

(* Every connection the server has open is being served, or the server is  *)
(* about to stop with an error.                                            *)
THEOREM NoSilentLoss == Spec => []LostOnlyOnAbort
<1>1. Init => LostOnlyOnAbort
  BY DEF Init, LostOnlyOnAbort
<1>2. TypeInv /\ LostOnlyOnAbort /\ [Next]_vars => LostOnlyOnAbort'
  <2> SUFFICES ASSUME TypeInv, LostOnlyOnAbort, [Next]_vars
               PROVE  LostOnlyOnAbort'
    OBVIOUS
  <2>0. main \in MainThread
    BY DEF TypeInv, TypeOK
  <2>1. CASE UNCHANGED vars
    BY <2>1 DEF vars, LostOnlyOnAbort
  <2>2. CASE LoggerStep
    BY <2>2 DEF LoggerStep, logger_sem_wait, logger_check, logger_append,
        logger_frame, LostOnlyOnAbort
  <2>3. CASE SignalStep
    <3>1. /\ main'.client_fd = main.client_fd /\ main'.result = main.result
          /\ UNCHANGED <<thread, open_fds>>
          /\ is_terminated => is_terminated'
      BY <2>0, <2>3 DEF SignalStep, sigusr1_handler, sigint_handler,
          sigint_handler_post, Interrupted, handler_frame, MainThread
    <3> QED BY <3>1 DEF LostOnlyOnAbort
  <2>4. ASSUME NEW c \in Clients, ClientStep(c) PROVE LostOnlyOnAbort'
    BY <2>4 DEF ClientStep, client_connects, client_sends, client_shuts,
        client_resets, client_frame, LostOnlyOnAbort
  <2> QED BY <2>1, <2>2, <2>3, <2>4, MainKeeps, WorkerKeeps
          DEF Next, SignalStep
<1> QED BY <1>1, <1>2, TypeInductive, PTL DEF Spec

-----------------------------------------------------------------------------
(* What a client is sent back. *)

(* The unit that ends the message of c. *)
EndOf(c) == <<c, MsgLen[c]>>

(* Nothing the worker of c received is lost: it has not failed. *)
Unfailed(c) ==
  \/ thread[c].pc \in {"none", "start", "lock_receive", "receive",
                        "lock_send", "send", "succeeded"}
  \/ thread[c].status = "SUCCEEDED"

Answered(c) == thread[c].pc = "succeeded" \/ thread[c].status = "SUCCEEDED"

(* The one piece a client is sent of a regular file. *)
Sent(c) == IF client[c].reply = <<>> THEN <<>> ELSE client[c].reply[1]

InitialPart(s, t) == Len(s) <= Len(t) /\ \A i \in 1 .. Len(s) : s[i] = t[i]

(* The answer c was given is right, in the file as it is now. *)
AnswerRight(c) ==
  /\ HoldsEnd(client[c].reply, c) \/ ~HoldsEnd(file.lines, c)
  /\ ~USE_AESD_CHAR_DEVICE /\ main.pc # "done" /\ client[c].conn # "reset" =>
       /\ InitialPart(Sent(c), file.partial)
       /\ \A k \in 1 .. Taken(c) : In(<<c, k>>, Sent(c))

(* The regular file keeps everything that was received; the device keeps   *)
(* no end of a message outside its lines.                                  *)
EchoInv ==
  /\ \A c \in Clients : Completed(thread[c].status)
                           => thread[c].pc \in {"exiting", "exited"}
  /\ USE_AESD_CHAR_DEVICE => \A c \in Clients : ~In(EndOf(c), file.partial)
  /\ ~USE_AESD_CHAR_DEVICE => file.lines = <<>>
  /\ ~USE_AESD_CHAR_DEVICE /\ main.pc # "done" =>
       \A c \in Clients : Unfailed(c) =>
         \A k \in 1 .. Taken(c) : In(<<c, k>>, file.partial)
  /\ \A c \in Clients : Answered(c) => AnswerRight(c)

(* What a step that writes data of w, or nothing, may do to the file.      *)
FileGrows(w) ==
  /\ USE_AESD_CHAR_DEVICE => \A c \in Clients : ~In(EndOf(c), file'.partial)
  /\ ~USE_AESD_CHAR_DEVICE => /\ file'.lines = <<>>
                              /\ InitialPart(file.partial, file'.partial)
  /\ \A c \in Clients \ {w} :
       ~HoldsEnd(file.lines, c) => ~HoldsEnd(file'.lines, c)

(* Membership in a concatenation. *)
LEMMA ConcatIn ==
  ASSUME NEW S, NEW s \in Seq(S), NEW t \in Seq(S)
  PROVE  /\ \A u : In(u, s \o t) <=> In(u, s) \/ In(u, t)
         /\ InitialPart(s, s \o t)
<1> DEFINE r == s \o t
<1>1. /\ Len(s) \in Nat /\ DOMAIN s = 1 .. Len(s)
      /\ Len(t) \in Nat /\ DOMAIN t = 1 .. Len(t)
      /\ Len(r) = Len(s) + Len(t) /\ DOMAIN r = 1 .. Len(s) + Len(t)
      /\ \A i \in 1 .. Len(s) + Len(t) :
           r[i] = IF i <= Len(s) THEN s[i] ELSE t[i - Len(s)]
  OBVIOUS
<1> HIDE DEF r
<1>2. \A i \in DOMAIN s : i \in DOMAIN r /\ r[i] = s[i]
  BY <1>1
<1>3. \A i \in DOMAIN t : i + Len(s) \in DOMAIN r /\ r[i + Len(s)] = t[i]
  BY <1>1
<1>4. ASSUME NEW i \in DOMAIN r
      PROVE  \/ i \in DOMAIN s /\ r[i] = s[i]
             \/ i - Len(s) \in DOMAIN t /\ r[i] = t[i - Len(s)]
  BY <1>1
<1>5. \A u : In(u, r) <=> In(u, s) \/ In(u, t)
  BY <1>2, <1>3, <1>4 DEF In
<1>6. InitialPart(s, r)
  BY <1>1 DEF InitialPart
<1> QED BY <1>5, <1>6 DEF r

(* A line pushed onto the device is the only one it did not hold before.   *)
LEMMA PushHolds ==
  ASSUME NEW ls \in Seq(Seq(Units)), NEW l \in Seq(Units), NEW c \in Clients,
         HoldsEnd(Push(ls, l), c)
  PROVE  HoldsEnd(ls, c) \/ In(EndOf(c), l)
<1>1. PICK i \in DOMAIN Push(ls, l) : In(EndOf(c), Push(ls, l)[i])
  BY DEF HoldsEnd, In, EndOf
<1>2. ASSUME NEW t \in Seq(Seq(Units)), Push(ls, l) = Append(t, l),
             \A j \in DOMAIN t : \E k \in DOMAIN ls : t[j] = ls[k]
      PROVE  HoldsEnd(ls, c) \/ In(EndOf(c), l)
  <2>1. \/ i \in DOMAIN t /\ Push(ls, l)[i] = t[i]
        \/ Push(ls, l)[i] = l
    BY <1>1, <1>2
  <2>2. CASE i \in DOMAIN t /\ Push(ls, l)[i] = t[i]
    <3>1. PICK k \in DOMAIN ls : t[i] = ls[k]
      BY <1>2, <2>2
    <3>2. In(EndOf(c), ls[k])
      BY <1>1, <2>2, <3>1
    <3> QED BY <3>2 DEF HoldsEnd, In, EndOf
  <2> QED BY <1>1, <2>1, <2>2
<1>3. CASE Len(ls) < MaxOps
  BY <1>2, <1>3 DEF Push
<1>4. CASE ~(Len(ls) < MaxOps)
  <2>1. Len(ls) # 0 /\ ls # <<>>
    BY <1>4, SocketAssumption
  <2>2. /\ Tail(ls) \in Seq(Seq(Units))
        /\ \A j \in DOMAIN Tail(ls) : j + 1 \in DOMAIN ls /\ Tail(ls)[j] = ls[j + 1]
    BY <2>1
  <2>3. Push(ls, l) = Append(Tail(ls), l)
    BY <1>4 DEF Push
  <2> QED BY <1>2, <2>2, <2>3
<1> QED BY <1>3, <1>4

(* write adds what it is given to a regular file. On the device, data with *)
(* an end of a message leaves nothing behind outside the lines, and only   *)
(* data of c, or gathered before, brings its end into a line.              *)
LEMMA AppendedGrows ==
  ASSUME TypeInv, EchoInv, NEW d \in Seq(Units), NEW w,
         \A i \in DOMAIN d : d[i][1] = w,
         file' = Appended(file, d)
  PROVE  /\ FileGrows(w)
         /\ ~USE_AESD_CHAR_DEVICE => \A u : In(u, d) => In(u, file'.partial)
<1>1. /\ file \in FileType /\ file.partial \in Seq(Units)
      /\ file.lines \in Seq(Seq(Units))
  BY DEF TypeInv, TypeOK, FileType
<1>2. /\ \A u : In(u, file.partial \o d) <=> In(u, file.partial) \/ In(u, d)
      /\ InitialPart(file.partial, file.partial \o d)
      /\ file.partial \o d \in Seq(Units)
  BY <1>1, ConcatIn, ConcatProperties
<1>3. \A c \in Clients \ {w} : ~In(EndOf(c), d)
  BY DEF In, EndOf
<1>4. CASE ~USE_AESD_CHAR_DEVICE
  <2>1. file'.partial = file.partial \o d /\ file'.lines = file.lines
    BY <1>1, <1>4 DEF Appended, FileType
  <2> QED BY <1>2, <1>4, <2>1 DEF FileGrows, EchoInv
<1>5. CASE USE_AESD_CHAR_DEVICE /\ HasEOL(d)
  <2>1. /\ file'.partial = <<>>
        /\ file'.lines = Push(file.lines, file.partial \o d)
    BY <1>5 DEF Appended
  <2>2. \A u : ~In(u, <<>>)
    BY DEF In
  <2>3. \A c \in Clients \ {w} : ~In(EndOf(c), file.partial \o d)
    BY <1>2, <1>3, <1>5 DEF EchoInv
  <2>4. \A c \in Clients \ {w} :
          HoldsEnd(file'.lines, c) => HoldsEnd(file.lines, c)
    BY <1>1, <1>2, <2>1, <2>3, PushHolds
  <2> QED BY <1>5, <2>1, <2>2, <2>4 DEF FileGrows
<1>6. CASE USE_AESD_CHAR_DEVICE /\ ~HasEOL(d)
  <2>1. file'.partial = file.partial \o d /\ file'.lines = file.lines
    BY <1>1, <1>6 DEF Appended, FileType
  <2>2. \A c \in Clients : ~In(EndOf(c), d)
    BY <1>6 DEF HasEOL, In, EndOf
  <2>3. \A c \in Clients : ~In(EndOf(c), file'.partial)
    BY <1>2, <1>6, <2>1, <2>2 DEF EchoInv
  <2> QED BY <1>6, <2>1, <2>3 DEF FileGrows
<1> QED BY <1>4, <1>5, <1>6

(* A file that does not change, grows by nothing. *)
LEMMA FileUnchangedGrows ==
  ASSUME TypeInv, EchoInv, UNCHANGED file, NEW w
  PROVE  FileGrows(w)
<1>1. Len(file.partial) \in Nat
  BY DEF TypeInv, TypeOK
<1>2. InitialPart(file.partial, file.partial)
  BY <1>1 DEF InitialPart
<1> QED BY <1>2 DEF FileGrows, EchoInv

(* An initial part of the file remains one as the file grows, and with it  *)
(* an answer remains right.                                                *)
LEMMA AnswerStaysRight ==
  ASSUME TypeInv, NEW w, FileGrows(w), NEW c \in Clients, c # w, AnswerRight(c),
         client'[c].reply = client[c].reply, Taken(c)' = Taken(c),
         client[c].conn = "reset" => client'[c].conn = "reset",
         main.pc = "done" => main'.pc = "done",
         TypeInv'
  PROVE  AnswerRight(c)'
<1>1. Sent(c)' = Sent(c)
  BY DEF Sent
<1>2. HoldsEnd(client'[c].reply, c) \/ ~HoldsEnd(file'.lines, c)
  BY DEF AnswerRight, FileGrows
<1>3. ASSUME ~USE_AESD_CHAR_DEVICE, main'.pc # "done",
             client'[c].conn # "reset"
      PROVE  /\ InitialPart(Sent(c), file'.partial)
             /\ \A k \in 1 .. Taken(c) : In(<<c, k>>, Sent(c))
  <2>1. /\ InitialPart(Sent(c), file.partial)
        /\ \A k \in 1 .. Taken(c) : In(<<c, k>>, Sent(c))
        /\ InitialPart(file.partial, file'.partial)
    BY <1>3 DEF AnswerRight, FileGrows
  <2>2. Len(file.partial) \in Nat /\ Len(file'.partial) \in Nat
    BY DEF TypeInv, TypeOK
  <2>3. Sent(c) \in Seq(Units)
    <3>1. client[c].reply \in Seq(Seq(Units))
      BY DEF TypeInv, TypeOK, Client
    <3> QED BY <3>1 DEF Sent
  <2>4. Len(Sent(c)) \in Nat
    BY <2>3
  <2> QED BY <2>1, <2>2, <2>4 DEF InitialPart
<1> QED BY <1>1, <1>2, <1>3 DEF AnswerRight

(* What a step that writes data of w has to respect for the answer of c to *)
(* stay right: what it adds to the received data of c is in the file.      *)
EchoStep(c, w) ==
  /\ Completed(thread'[c].status) => thread'[c].pc \in {"exiting", "exited"}
  /\ Unfailed(c)' =>
       /\ Unfailed(c)
       /\ \A k \in 1 .. Taken(c)' : \/ k \in 1 .. Taken(c)
                                    \/ USE_AESD_CHAR_DEVICE
                                    \/ In(<<c, k>>, file'.partial)
  /\ Answered(c)' =>
       \/ AnswerRight(c)'
       \/ /\ Answered(c) /\ c # w
          /\ client'[c].reply = client[c].reply
          /\ Taken(c)' = Taken(c)
          /\ client[c].conn = "reset" => client'[c].conn = "reset"

(* Such a step keeps EchoInv. *)
LEMMA EchoKept ==
  ASSUME TypeInv, TypeInv', EchoInv, NEW w, FileGrows(w),
         main.pc = "done" => main'.pc = "done",
         \A c \in Clients : EchoStep(c, w)
  PROVE  EchoInv'
<1> USE DEF EchoStep
<1>1. \A c \in Clients : Answered(c)' => AnswerRight(c)'
  BY AnswerStaysRight DEF EchoInv
<1>2. ASSUME ~USE_AESD_CHAR_DEVICE, main'.pc # "done",
             NEW c \in Clients, Unfailed(c)', NEW k \in 1 .. Taken(c)'
      PROVE  In(<<c, k>>, file'.partial)
  <2>1. CASE k \in 1 .. Taken(c)
    <3>1. In(<<c, k>>, file.partial)
      BY <1>2, <2>1 DEF EchoInv
    <3>2. /\ InitialPart(file.partial, file'.partial)
          /\ file.partial \in Seq(Units) /\ file'.partial \in Seq(Units)
      BY <1>2 DEF FileGrows, TypeInv, TypeOK
    <3>3. \A i \in DOMAIN file.partial :
            i \in DOMAIN file'.partial /\ file'.partial[i] = file.partial[i]
      BY <3>2 DEF InitialPart
    <3> QED BY <3>1, <3>3 DEF In
  <2> QED BY <1>2, <2>1
<1> QED BY <1>1, <1>2 DEF EchoInv, FileGrows

(* A connection that a step leaves alone. *)
LEMMA EchoUntouched ==
  ASSUME TypeInv, EchoInv, NEW c \in Clients, NEW w, c # w,
         thread'[c].pc = thread[c].pc, thread'[c].status = thread[c].status,
         client'[c] = client[c]
  PROVE  EchoStep(c, w)
<1>1. Taken(c)' = Taken(c)
  BY DEF Taken
<1> QED BY <1>1 DEF EchoStep, EchoInv, Unfailed, Answered

(* What recv takes is received, and is never more than the message.        *)
LEMMA ReceivedTaken ==
  ASSUME TypeInv, NEW c \in Clients,
         client' = [client EXCEPT ![c].inbox = @ - Received(c)]
  PROVE  /\ Taken(c)' = Taken(c) + Received(c)
         /\ Taken(c) + Received(c) <= MsgLen[c]
<1>1. client'[c].inbox = client[c].inbox - Received(c) /\ client'[c].unsent = client[c].unsent
  BY DEF TypeInv, TypeOK, Client
<1>2. /\ client[c].inbox \in Nat /\ client[c].unsent \in Nat
      /\ MsgLen[c] \in Nat
  BY SocketAssumption DEF TypeInv, TypeOK, Client
<1>3. PICK n \in 0 .. client[c].inbox : n = Received(c)
  BY ReceivedUnits DEF TypeInv
<1> QED BY <1>1, <1>2, <1>3 DEF Taken

(* A worker that receives puts what it takes into the file.                *)
LEMMA ReceiveEcho ==
  ASSUME TypeInv, TypeInv', EchoInv, NEW c \in Clients, receive(c)
  PROVE  FileGrows(c) /\ EchoStep(c, c)
<1> DEFINE n == Received(c)
           d == Waiting(c, n)
<1>1. n \in Nat /\ n <= client[c].inbox /\ Taken(c) \in Nat /\ d \in Seq(Units)
  <2>1. /\ n \in 0 .. client[c].inbox /\ Taken(c) \in Nat
        /\ \A m \in 0 .. n : Waiting(c, m) \in Seq(Units)
    BY ReceivedUnits DEF TypeInv
  <2>2. client[c].inbox \in Nat
    BY DEF TypeInv, TypeOK, Client
  <2> QED BY <2>1, <2>2
<1>2. /\ DOMAIN d = 1 .. n
      /\ \A i \in 1 .. n : d[i] = <<c, Taken(c) + i>>
  BY DEF Waiting
<1>3. file' = Appended(file, d)
  BY DEF receive
<1>4. Taken(c)' = Taken(c) + n
  BY ReceivedTaken DEF receive
<1>5. /\ thread[c].pc = "receive" /\ thread'[c].status = thread[c].status
      /\ thread'[c].pc \in {"receive", "lock_send"}
  BY DEF receive, Go, GoStatus, TypeInv, TypeOK, Thread
<1> HIDE DEF n, d
<1>6. /\ FileGrows(c)
      /\ ~USE_AESD_CHAR_DEVICE => \A u : In(u, d) => In(u, file'.partial)
  <2>1. \A i \in DOMAIN d : d[i][1] = c
    BY <1>2
  <2> QED BY <1>1, <1>3, <2>1, AppendedGrows
<1>7. ~Completed(thread[c].status)
  BY <1>5 DEF EchoInv
<1>8. \A k \in 1 .. Taken(c)' : k \in 1 .. Taken(c) \/ In(<<c, k>>, d)
  <2> SUFFICES ASSUME NEW k \in 1 .. Taken(c)', k \notin 1 .. Taken(c)
               PROVE  In(<<c, k>>, d)
    OBVIOUS
  <2>1. k - Taken(c) \in 1 .. n /\ Taken(c) + (k - Taken(c)) = k
    BY <1>1, <1>4
  <2> QED BY <1>2, <2>1 DEF In
<1> QED BY <1>5, <1>6, <1>7, <1>8
        DEF EchoStep, Unfailed, Answered, Completed

(* A worker that succeeds has sent the file as it is.                      *)
LEMMA SendEcho ==
  ASSUME TypeInv, TypeInv', EchoInv, NEW c \in Clients, send_file(c),
         main.pc # "done"
  PROVE  AnswerRight(c)'
<1>1. /\ thread[c].pc = "send" /\ client'[c].reply = Reads(file)
      /\ client'[c].inbox = client[c].inbox
      /\ client'[c].unsent = client[c].unsent
      /\ UNCHANGED <<file, main>>
  BY DEF send_file, Go, GoStatus, worker_frame, TypeInv, TypeOK, Client
<1>2. Taken(c)' = Taken(c)
  BY <1>1 DEF Taken
<1>3. CASE USE_AESD_CHAR_DEVICE
  BY <1>1, <1>3 DEF Reads, AnswerRight
<1>4. CASE ~USE_AESD_CHAR_DEVICE
  <2>1. ~HoldsEnd(file.lines, c)
    BY <1>4 DEF EchoInv, HoldsEnd
  <2>2. Sent(c)' = file.partial
    BY <1>1, <1>4 DEF Sent, Reads
  <2>3. Len(file.partial) \in Nat
    BY DEF TypeInv, TypeOK
  <2>4. InitialPart(file.partial, file.partial)
    BY <2>3 DEF InitialPart
  <2>5. \A k \in 1 .. Taken(c) : In(<<c, k>>, file.partial)
    BY <1>1, <1>4 DEF EchoInv, Unfailed
  <2> QED BY <1>1, <1>2, <2>1, <2>2, <2>4, <2>5 DEF AnswerRight
<1> QED BY <1>3, <1>4

(* Every step of a worker keeps the answers right. *)
LEMMA WorkerEcho ==
  ASSUME TypeInv, TypeInv', QuietShutdown, EchoInv,
         NEW c \in Clients, WorkerStep(c)
  PROVE  EchoInv'
<1>0. /\ thread[c].pc \notin {"none", "exited"} /\ main.pc # "done"
      /\ thread \in [Clients -> Thread] /\ client \in [Clients -> Client]
      /\ c # LOGGER /\ LOGGER \notin Clients
  <2>1. thread[c].pc \notin {"none", "exited"}
    BY DEF WorkerStep, worker_start, worker_lock, receive, receive_fails,
        send_file, send_file_fails, send_raises_sigpipe, worker_finish,
        pthread_exit, Go, GoStatus
  <2> QED BY <2>1, SocketAssumption DEF QuietShutdown, TypeInv, TypeOK
<1>1. ASSUME NEW w \in {c, LOGGER}, FileGrows(w), EchoStep(c, w),
             \A d \in Clients \ {c} :
               thread'[d] = thread[d] /\ client'[d] = client[d]
      PROVE  EchoInv'
  <2>1. \A d \in Clients \ {c} : EchoStep(d, w)
    BY <1>0, <1>1, EchoUntouched
  <2> QED BY <1>0, <1>1, <2>1, EchoKept
<1>2. ASSUME NEW from, NEW to, NEW s, GoStatus(c, from, to, s)
      PROVE  /\ thread[c].pc = from /\ thread'[c].pc = to
             /\ thread'[c].status = s
             /\ \A d \in Clients \ {c} : thread'[d] = thread[d]
  BY <1>0, <1>2 DEF GoStatus, Thread
<1>3. ASSUME NEW from, NEW to, Go(c, from, to)
      PROVE  /\ thread[c].pc = from /\ thread'[c].pc = to
             /\ thread'[c].status = thread[c].status
             /\ \A d \in Clients \ {c} : thread'[d] = thread[d]
  BY <1>2, <1>3 DEF Go
<1>4. thread[c].pc \notin {"exiting", "exited"} => ~Completed(thread[c].status)
  BY DEF EchoInv
<1>5. ASSUME UNCHANGED client PROVE Taken(c)' = Taken(c)
  BY <1>5 DEF Taken
<1>6. CASE worker_start(c)
  <2>1. /\ thread[c].pc = "start" /\ thread'[c].pc = "lock_receive"
        /\ thread'[c].status = "RUNNING"
        /\ \A d \in Clients \ {c} : thread'[d] = thread[d]
        /\ UNCHANGED <<client, file>>
    BY <1>2, <1>6 DEF worker_start
  <2>2. EchoStep(c, c)
    BY <1>5, <2>1 DEF EchoStep, Completed, Unfailed, Answered
  <2> QED BY <1>1, <2>1, <2>2, FileUnchangedGrows
<1>7. CASE worker_lock(c)
  <2>1. /\ thread[c].pc \in {"lock_receive", "lock_send"}
        /\ thread'[c].pc \in {"receive", "send"}
        /\ thread'[c].status = thread[c].status
        /\ \A d \in Clients \ {c} : thread'[d] = thread[d]
        /\ UNCHANGED <<client, file>>
    BY <1>3, <1>7 DEF worker_lock
  <2>2. EchoStep(c, c)
    BY <1>4, <1>5, <2>1 DEF EchoStep, Completed, Unfailed, Answered
  <2> QED BY <1>1, <2>1, <2>2, FileUnchangedGrows
<1>8. CASE receive(c)
  <2>1. /\ \A d \in Clients \ {c} : thread'[d] = thread[d]
        /\ \A d \in Clients \ {c} : client'[d] = client[d]
    BY <1>0, <1>3, <1>8 DEF receive
  <2> QED BY <1>1, <1>8, <2>1, ReceiveEcho
<1>9. CASE receive_fails(c)
  <2>1. /\ thread[c].pc = "receive" /\ thread'[c].pc = "failed"
        /\ thread'[c].status = thread[c].status
        /\ \A d \in Clients \ {c} : thread'[d] = thread[d]
    BY <1>3, <1>9 DEF receive_fails
  <2>2. \A d \in Clients \ {c} : client'[d] = client[d]
    BY <1>0, <1>9 DEF receive_fails
  <2>3. EchoStep(c, c)
    BY <1>4, <2>1 DEF EchoStep, Completed, Unfailed, Answered
  <2>4. FileGrows(c)
    <3>1. CASE UNCHANGED file
      BY <3>1, FileUnchangedGrows
    <3>2. ASSUME NEW k \in 0 .. Received(c),
                 file' = Appended(file, Waiting(c, k))
          PROVE  FileGrows(c)
      <4>1. Waiting(c, k) \in Seq(Units)
        BY ReceivedUnits DEF TypeInv
      <4>2. \A i \in DOMAIN Waiting(c, k) : Waiting(c, k)[i][1] = c
        BY DEF Waiting
      <4> QED BY <3>2, <4>1, <4>2, AppendedGrows
    <3> QED BY <1>9, <3>1, <3>2 DEF receive_fails
  <2> QED BY <1>1, <2>1, <2>2, <2>3, <2>4
<1>10. CASE send_file(c)
  <2>1. /\ thread[c].pc = "send" /\ thread'[c].pc = "succeeded"
        /\ thread'[c].status = thread[c].status
        /\ \A d \in Clients \ {c} : thread'[d] = thread[d]
        /\ UNCHANGED file
    BY <1>3, <1>10 DEF send_file
  <2>2. /\ \A d \in Clients \ {c} : client'[d] = client[d]
        /\ client'[c].unsent = client[c].unsent
        /\ client'[c].inbox = client[c].inbox
    BY <1>0, <1>10 DEF send_file, Client
  <2>3. AnswerRight(c)' /\ Taken(c)' = Taken(c)
    BY <1>0, <1>10, <2>2, SendEcho DEF Taken
  <2>4. EchoStep(c, c)
    BY <1>4, <2>1, <2>3 DEF EchoStep, Completed, Unfailed
  <2> QED BY <1>1, <2>1, <2>2, <2>4, FileUnchangedGrows
<1>11. CASE send_file_fails(c)
  <2>1. /\ thread[c].pc = "send" /\ thread'[c].pc = "failed"
        /\ thread'[c].status = thread[c].status
        /\ \A d \in Clients \ {c} : thread'[d] = thread[d]
        /\ UNCHANGED file
    BY <1>3, <1>11 DEF send_file_fails
  <2>2. \A d \in Clients \ {c} : client'[d] = client[d]
    BY <1>0, <1>11 DEF send_file_fails
  <2>3. EchoStep(c, c)
    BY <1>4, <2>1 DEF EchoStep, Completed, Unfailed, Answered
  <2> QED BY <1>1, <2>1, <2>2, <2>3, FileUnchangedGrows
<1>12. CASE send_raises_sigpipe(c)
  <2>1. UNCHANGED <<thread, client, file>>
    BY <1>12 DEF send_raises_sigpipe, main_frame
  <2>2. EchoStep(c, LOGGER)
    BY <1>0, <2>1, EchoUntouched
  <2> QED BY <1>1, <2>1, <2>2, FileUnchangedGrows
<1>13. CASE worker_finish(c)
  <2>1. /\ \/ thread[c].pc = "succeeded" /\ thread'[c].status = "SUCCEEDED"
           \/ thread[c].pc = "failed" /\ thread'[c].status = "FAILED"
        /\ thread'[c].pc = "exiting"
        /\ \A d \in Clients \ {c} : thread'[d] = thread[d]
        /\ UNCHANGED <<client, file>>
    BY <1>2, <1>13 DEF worker_finish
  <2>2. EchoStep(c, LOGGER)
    BY <1>0, <1>5, <2>1 DEF EchoStep, Unfailed, Answered
  <2> QED BY <1>1, <2>1, <2>2, FileUnchangedGrows
<1>14. CASE pthread_exit(c)
  <2>1. /\ thread[c].pc = "exiting" /\ thread'[c].pc = "exited"
        /\ thread'[c].status = thread[c].status
        /\ \A d \in Clients \ {c} : thread'[d] = thread[d]
        /\ UNCHANGED <<client, file>>
    BY <1>3, <1>14 DEF pthread_exit
  <2>2. EchoStep(c, LOGGER)
    BY <1>0, <1>5, <2>1 DEF EchoStep, Unfailed, Answered
  <2> QED BY <1>1, <2>1, <2>2, FileUnchangedGrows
<1> QED
  BY <1>6, <1>7, <1>8, <1>9, <1>10, <1>11, <1>12, <1>13, <1>14 DEF WorkerStep

(* The main thread touches the file only when it removes it, at the end.   *)
LEMMA MainEcho ==
  ASSUME TypeInv, TypeInv', OwnInv, EchoInv, MainStep
  PROVE  EchoInv'
<1>0. /\ LOGGER \notin Clients /\ main.pc # "done"
      /\ main \in MainThread /\ thread \in [Clients -> Thread]
  BY SocketAssumption DEF MainStep, application_ends, connection_timeout,
      accept, nanosleep, start_worker, start_worker_fails,
      slist_join_completed_threads, joined_completed, slist_join_threads,
      slist_free, cleanup, MainAt, TypeInv, TypeOK
<1>1. UNCHANGED client /\ (cleanup \/ UNCHANGED file)
  BY DEF MainStep, application_ends, connection_timeout, accept, nanosleep,
      start_worker, start_worker_fails, slist_join_completed_threads,
      joined_completed, slist_join_threads, slist_free, cleanup, main_frame
<1>2. CASE start_worker
  <2>1. PICK fd \in Clients : fd = main.client_fd
    BY <1>0, <1>2 DEF start_worker, MainAt, TypeInv, FdInv, MainThread
  <2>2. /\ thread'[fd].pc = "start" /\ thread'[fd].status = "UNITITIALIZED"
        /\ \A d \in Clients \ {fd} : thread'[d] = thread[d]
        /\ UNCHANGED file
    BY <1>0, <1>2, <2>1 DEF start_worker
  <2>3. thread[fd].pc = "none"
    BY <2>1 DEF OwnInv, ConnectionInv
  <2>4. Taken(fd)' = Taken(fd)
    BY <1>1 DEF Taken
  <2>5. EchoStep(fd, LOGGER)
    BY <2>2, <2>3, <2>4 DEF EchoStep, Completed, Unfailed, Answered
  <2>6. \A d \in Clients \ {fd} : EchoStep(d, LOGGER)
    BY <1>0, <1>1, <2>2, EchoUntouched
  <2>7. FileGrows(LOGGER)
    BY <2>2, FileUnchangedGrows
  <2> QED BY <1>0, <2>5, <2>6, <2>7, EchoKept
<1>3. CASE cleanup
  <2>1. main'.pc = "done" /\ UNCHANGED thread
    BY <1>0, <1>3 DEF cleanup, MainThread
  <2>2. \/ USE_AESD_CHAR_DEVICE /\ UNCHANGED file
        \/ ~USE_AESD_CHAR_DEVICE /\ file'.lines = <<>>
    BY <1>3 DEF cleanup, EmptyFile
  <2>3. ~USE_AESD_CHAR_DEVICE => \A c : ~HoldsEnd(file'.lines, c)
    BY <2>2 DEF HoldsEnd
  <2>4. \A c \in Clients : AnswerRight(c) => AnswerRight(c)'
    BY <1>1, <2>1, <2>2, <2>3 DEF AnswerRight
  <2>5. \A c \in Clients : Answered(c)' => AnswerRight(c)'
    BY <2>1, <2>4 DEF EchoInv, Answered
  <2> QED BY <2>1, <2>2, <2>5 DEF EchoInv
<1>4. CASE ~start_worker /\ ~cleanup
  <2>1. UNCHANGED <<client, file>>
    BY <1>1, <1>4
  <2>2. \A c \in Clients : EchoStep(c, LOGGER)
    BY <1>0, <1>4, <2>1, MainThreads, EchoUntouched
  <2>3. FileGrows(LOGGER)
    BY <2>1, FileUnchangedGrows
  <2> QED BY <1>0, <2>2, <2>3, EchoKept
<1> QED BY <1>2, <1>3, <1>4

(* Timestamps are nobody's message, and a signal changes no answer.        *)
LEMMA OthersEcho ==
  ASSUME TypeInv, TypeInv', EchoInv, LoggerStep \/ SignalStep
  PROVE  EchoInv'
<1>0. LOGGER \notin Clients /\ main \in MainThread
  BY SocketAssumption DEF TypeInv, TypeOK
<1>1. UNCHANGED <<thread, client>> /\ main'.pc = main.pc
  BY <1>0 DEF LoggerStep, logger_sem_wait, logger_check, logger_append,
      logger_frame, SignalStep, sigusr1_handler, sigint_handler,
      sigint_handler_post, Interrupted, handler_frame, MainThread
<1>2. \A c \in Clients : EchoStep(c, LOGGER)
  BY <1>0, <1>1, EchoUntouched
<1>3. FileGrows(LOGGER)
  <2> DEFINE d == <<<<LOGGER, ticks>>>>
  <2>1. UNCHANGED file \/ file' = Appended(file, d)
    BY DEF LoggerStep, logger_sem_wait, logger_check, logger_append,
        SignalStep, sigusr1_handler, sigint_handler, sigint_handler_post,
        handler_frame
  <2>2. d \in Seq(Units) /\ \A i \in DOMAIN d : d[i][1] = LOGGER
    BY SocketAssumption DEF Units, TypeInv, TypeOK
  <2> HIDE DEF d
  <2> QED BY <2>1, <2>2, AppendedGrows, FileUnchangedGrows
<1> QED BY <1>1, <1>2, <1>3, EchoKept

(* What a client does changes nothing of what was received.                *)
LEMMA ClientTaken ==
  ASSUME TypeInv, NEW c \in Clients, ClientStep(c), NEW d \in Clients
  PROVE  Taken(d)' = Taken(d)
<1>0. client \in [Clients -> Client]
  BY DEF TypeInv, TypeOK
<1>1. CASE d # c
  <2>1. client'[d] = client[d]
    BY <1>0, <1>1 DEF ClientStep, client_connects, client_sends, client_shuts,
        client_resets, Client
  <2> QED BY <2>1 DEF Taken
<1>2. CASE d = c /\ client_sends(c)
  <2>1. PICK n \in 1 .. client[c].unsent :
          client' = [client EXCEPT ![c].unsent = @ - n, ![c].inbox = n]
    BY <1>2 DEF client_sends
  <2>2. /\ client'[c].unsent = client[c].unsent - n /\ client'[c].inbox = n
        /\ client[c].unsent \in Nat /\ client[c].inbox = 0
        /\ MsgLen[c] \in Nat
    BY <1>0, <1>2, <2>1, SocketAssumption DEF client_sends, Client
  <2> QED BY <1>2, <2>2 DEF Taken
<1>3. CASE d = c /\ ~client_sends(c)
  <2>1. client'[c].unsent = client[c].unsent /\ client'[c].inbox = client[c].inbox
    BY <1>0, <1>3 DEF ClientStep, client_connects, client_shuts,
        client_resets, Client
  <2> QED BY <1>3, <2>1 DEF Taken
<1> QED BY <1>1, <1>2, <1>3

(* What a client does changes neither what was received from it nor what   *)
(* it was sent.                                                            *)
LEMMA ClientEcho ==
  ASSUME TypeInv, TypeInv', EchoInv, NEW c \in Clients, ClientStep(c)
  PROVE  EchoInv'
<1>0. LOGGER \notin Clients /\ client \in [Clients -> Client]
  BY SocketAssumption DEF TypeInv, TypeOK
<1>1. UNCHANGED <<main, thread, file>>
  BY DEF ClientStep, client_connects, client_sends, client_shuts,
      client_resets, client_frame
<1>2. /\ \A d \in Clients \ {c} : client'[d] = client[d]
      /\ client'[c].reply = client[c].reply
      /\ client[c].conn = "reset" => client'[c].conn = "reset"
  BY <1>0, ZenonT(60) DEF ClientStep, client_connects, client_sends, client_shuts,
      client_resets, Client
<1>3. Taken(c)' = Taken(c)
  BY ClientTaken
<1>4. EchoStep(c, LOGGER)
  BY <1>0, <1>1, <1>2, <1>3 DEF EchoStep, EchoInv, Unfailed, Answered
<1>5. \A d \in Clients \ {c} : EchoStep(d, LOGGER)
  BY <1>0, <1>1, <1>2, EchoUntouched
<1> QED BY <1>1, <1>4, <1>5, FileUnchangedGrows, EchoKept

(* Together: EchoInv is an invariant of the server. *)
LEMMA EchoInductive == Spec => []EchoInv
<1>1. Init => EchoInv
  <2> SUFFICES ASSUME Init PROVE EchoInv
    OBVIOUS
  <2>1. /\ \A c \in Clients : /\ thread[c].pc = "none"
                              /\ thread[c].status = "UNITITIALIZED"
        /\ file.lines = <<>> /\ file.partial = <<>>
    BY DEF Init, EmptyFile
  <2>2. \A u : ~In(u, <<>>)
    BY DEF In
  <2>3. ASSUME NEW c \in Clients PROVE Taken(c) = 0
    <3>1. client[c].unsent = MsgLen[c] /\ client[c].inbox = 0
      BY DEF Init
    <3>2. MsgLen[c] \in Nat
      BY SocketAssumption
    <3> QED BY <3>1, <3>2 DEF Taken
  <2> QED BY <2>1, <2>2, <2>3 DEF EchoInv, Completed, Answered
<1>2. TypeInv /\ TypeInv' /\ OwnInv /\ EchoInv /\ [Next]_vars => EchoInv'
  <2> SUFFICES ASSUME TypeInv, TypeInv', OwnInv, EchoInv, [Next]_vars
               PROVE  EchoInv'
    OBVIOUS
  <2>1. CASE UNCHANGED vars
    <3>1. LOGGER \notin Clients
      BY SocketAssumption
    <3>2. \A c \in Clients : EchoStep(c, LOGGER)
      BY <2>1, <3>1, EchoUntouched DEF vars
    <3> QED BY <2>1, <3>2, FileUnchangedGrows, EchoKept DEF vars
  <2>2. CASE Next
    BY <2>2, OwnIsQuiet, MainEcho, OthersEcho, WorkerEcho, ClientEcho
    DEF Next, SignalStep
  <2> QED BY <2>1, <2>2
<1> QED BY <1>1, <1>2, TypeInductive, OwnInductive, PTL DEF Spec

(* With a regular result file, what a worker that succeeded has sent is an *)
(* initial part of the file with everything it received in it, although    *)
(* the mutex is released between receiving and sending.                    *)
THEOREM EchoSnapshot == Spec => []EchoIsSnapshot
<1>1. TypeInv /\ EchoInv => EchoIsSnapshot
  <2> SUFFICES ASSUME TypeInv, EchoInv, NEW c \in Clients,
                      ~USE_AESD_CHAR_DEVICE, main.pc # "done",
                      thread[c].status = "SUCCEEDED", client[c].conn # "reset"
               PROVE  /\ Len(Sent(c)) <= Len(file.partial)
                      /\ Sent(c) = SubSeq(file.partial, 1, Len(Sent(c)))
                      /\ \A k \in 1 .. Taken(c) : In(<<c, k>>, Sent(c))
    BY DEF EchoIsSnapshot, Sent, In
  <2>1. /\ InitialPart(Sent(c), file.partial)
        /\ \A k \in 1 .. Taken(c) : In(<<c, k>>, Sent(c))
    BY DEF EchoInv, Answered, AnswerRight
  <2>2. Sent(c) \in Seq(Units) /\ file.partial \in Seq(Units)
    <3>1. client[c].reply \in Seq(Seq(Units))
      BY DEF TypeInv, TypeOK, Client
    <3> QED BY <3>1 DEF Sent, TypeInv, TypeOK
  <2>3. Len(Sent(c)) \in Nat /\ Len(file.partial) \in Nat
    BY <2>2
  <2>4. /\ SubSeq(file.partial, 1, Len(Sent(c))) \in Seq(Units)
        /\ Len(SubSeq(file.partial, 1, Len(Sent(c)))) = Len(Sent(c))
        /\ \A i \in 1 .. Len(Sent(c)) :
             SubSeq(file.partial, 1, Len(Sent(c)))[i] = file.partial[i]
    BY <2>1, <2>2, <2>3 DEF InitialPart
  <2>5. Sent(c) = SubSeq(file.partial, 1, Len(Sent(c)))
    BY <2>1, <2>2, <2>4, SeqEqual DEF InitialPart
  <2> QED BY <2>1, <2>5 DEF InitialPart
<1> QED BY <1>1, TypeInductive, EchoInductive, PTL

(* With the device, the line a client completed is in its reply, or the    *)
(* device no longer holds it.                                              *)
THEOREM EchoOnDevice == Spec => []EchoOrEvicted
<1>1. EchoInv => EchoOrEvicted
  BY DEF EchoInv, EchoOrEvicted, Answered, AnswerRight
<1> QED BY <1>1, EchoInductive, PTL

-----------------------------------------------------------------------------
(* Messages stay together. *)

(* Nothing of c is in the file. *)
Unwritten(c) ==
  \A a \in DOMAIN Pieces : \A i \in DOMAIN Pieces[a] : Pieces[a][i][1] # c

(* The last thing in the file is what c sent last. *)
AtEnd(c) ==
  file.partial # <<>> /\ file.partial[Len(file.partial)] = <<c, Taken(c)>>

(* Between locking and unlocking, a worker continues what it has written   *)
(* at the end of the file; once the end of the message has completed a     *)
(* line nothing more is to come.                                           *)
PlaceInv(c) ==
  /\ thread[c].pc \in {"none", "start", "lock_receive"} => Unwritten(c)
  /\ thread[c].pc = "receive" =>
       Unwritten(c) \/ AtEnd(c) \/ Taken(c) = MsgLen[c]

WholeInv == MessageIntact /\ \A c \in Clients : PlaceInv(c)

(* What write does to the pieces: a piece is empty, or is one that was     *)
(* there before, with the data at the end of the last; the oldest may have *)
(* been dropped.                                                           *)
PiecesGrow(d) ==
  \E s \in {0, 1} : \A a \in DOMAIN Pieces' :
    \/ Pieces'[a] = <<>>
    \/ /\ a + s \in DOMAIN Pieces
       /\ Pieces'[a] = IF a + s = Len(Pieces) THEN file.partial \o d
                                              ELSE Pieces[a + s]

(* The pieces are sequences of units. *)
LEMMA PiecesType ==
  ASSUME TypeInv
  PROVE  /\ file.lines \in Seq(Seq(Units)) /\ file.partial \in Seq(Units)
         /\ Pieces \in Seq(Seq(Units)) /\ Len(Pieces) = Len(file.lines) + 1
         /\ DOMAIN Pieces = 1 .. Len(file.lines) + 1
         /\ Pieces[Len(Pieces)] = file.partial
         /\ \A a \in 1 .. Len(file.lines) : Pieces[a] = file.lines[a]
<1>1. file.lines \in Seq(Seq(Units)) /\ file.partial \in Seq(Units)
  BY DEF TypeInv, TypeOK
<1> QED BY <1>1, AppendProperties DEF Pieces

(* write, on the device and on a regular file. *)
LEMMA AppendedPieces ==
  ASSUME TypeInv, NEW d \in Seq(Units), file' = Appended(file, d)
  PROVE  PiecesGrow(d)
<1> DEFINE x == file.partial \o d
<1>0. PICK n \in Nat : n = Len(file.lines)
  BY PiecesType
<1>1. /\ file.lines \in Seq(Seq(Units)) /\ file.partial \in Seq(Units)
      /\ Len(Pieces) = n + 1 /\ DOMAIN Pieces = 1 .. n + 1
      /\ Len(file.lines) = n
      /\ \A a \in 1 .. n : Pieces[a] = file.lines[a]
  BY <1>0, PiecesType
<1>2. x \in Seq(Units) /\ <<>> \in Seq(Units)
  BY <1>1, ConcatProperties
<1> HIDE DEF x
<1>3. CASE ~(USE_AESD_CHAR_DEVICE /\ HasEOL(d))
  <2>1. file'.partial = x /\ file'.lines = file.lines
    BY <1>3 DEF Appended, TypeInv, TypeOK, x
  <2>2. Pieces' = Append(file.lines, x)
    BY <2>1 DEF Pieces
  <2>3. /\ DOMAIN Pieces' = 1 .. n + 1 /\ Pieces'[n + 1] = x
        /\ \A a \in 1 .. n : Pieces'[a] = file.lines[a]
    BY <1>1, <1>2, <2>2, AppendProperties
  <2>4. \A a \in DOMAIN Pieces' :
          /\ a + 0 \in DOMAIN Pieces
          /\ Pieces'[a] = IF a + 0 = Len(Pieces) THEN x ELSE Pieces[a + 0]
    BY <1>1, <2>3
  <2> QED BY <2>4 DEF PiecesGrow, x
<1>4. CASE USE_AESD_CHAR_DEVICE /\ HasEOL(d)
  <2>1. file'.partial = <<>> /\ file'.lines = Push(file.lines, x)
    BY <1>4 DEF Appended, x
  <2>2. Pieces' = Append(Push(file.lines, x), <<>>)
    BY <2>1 DEF Pieces
  <2>3. CASE n < MaxOps
    <3>1. Push(file.lines, x) = Append(file.lines, x)
      BY <1>1, <2>3 DEF Push
    <3>2. PICK ls \in Seq(Seq(Units)) : ls = Append(file.lines, x)
      BY <1>1, <1>2, AppendProperties
    <3>3. Len(ls) = n + 1 /\ ls[n + 1] = x /\ \A a \in 1 .. n : ls[a] = file.lines[a]
      BY <1>1, <1>2, <3>2, AppendProperties
    <3>4. /\ DOMAIN Pieces' = 1 .. n + 2 /\ Pieces'[n + 2] = <<>>
          /\ \A a \in 1 .. n + 1 : Pieces'[a] = ls[a]
      BY <1>1, <1>2, <2>2, <3>1, <3>2, <3>3, AppendProperties
    <3>5. ASSUME NEW a \in DOMAIN Pieces'
          PROVE  \/ Pieces'[a] = <<>>
                 \/ /\ a + 0 \in DOMAIN Pieces
                    /\ Pieces'[a] = IF a + 0 = Len(Pieces) THEN x
                                                           ELSE Pieces[a + 0]
      <4>1. a + 0 = a /\ (a = n + 2 \/ a = n + 1 \/ a \in 1 .. n)
        BY <3>4
      <4>2. CASE a \in 1 .. n
        <5>1. a \in 1 .. n + 1 /\ a # n + 1
          BY <4>2
        <5> QED BY <1>1, <3>3, <3>4, <4>1, <4>2, <5>1
      <4>3. CASE a = n + 1
        BY <1>1, <3>3, <3>4, <4>1, <4>3
      <4> QED BY <3>4, <4>1, <4>2, <4>3
    <3> QED BY <3>5 DEF PiecesGrow, x
  <2>4. CASE ~(n < MaxOps)
    <3>1. Push(file.lines, x) = Append(Tail(file.lines), x)
      BY <1>1, <2>4 DEF Push
    <3>2. n >= 1 /\ file.lines # <<>>
      BY <1>1, <2>4, SocketAssumption
    <3>3. PICK tl \in Seq(Seq(Units)) : tl = Tail(file.lines)
      BY <1>1, <3>2, HeadTailProperties
    <3>4. /\ Len(tl) = n - 1 /\ DOMAIN tl = 1 .. n - 1
          /\ \A a \in 1 .. n - 1 : tl[a] = file.lines[a + 1]
      BY <1>1, <3>2, <3>3, HeadTailProperties
    <3>5. PICK ls \in Seq(Seq(Units)) : ls = Append(tl, x)
      BY <1>2, AppendProperties
    <3>6. Len(ls) = n /\ ls[n] = x /\ \A a \in 1 .. n - 1 : ls[a] = tl[a]
      BY <1>1, <1>2, <3>2, <3>4, <3>5, AppendProperties
    <3>7. /\ DOMAIN Pieces' = 1 .. n + 1 /\ Pieces'[n + 1] = <<>>
          /\ \A a \in 1 .. n : Pieces'[a] = ls[a]
      BY <1>1, <1>2, <2>2, <3>1, <3>3, <3>5, <3>6, AppendProperties
    <3>8. ASSUME NEW a \in DOMAIN Pieces'
          PROVE  \/ Pieces'[a] = <<>>
                 \/ /\ a + 1 \in DOMAIN Pieces
                    /\ Pieces'[a] = IF a + 1 = Len(Pieces) THEN x
                                                           ELSE Pieces[a + 1]
      <4>1. a = n + 1 \/ a = n \/ a \in 1 .. n - 1
        BY <1>1, <3>7, SMTT(30)
      <4>2. CASE a \in 1 .. n - 1
        <5>1. a \in 1 .. n /\ a + 1 \in 1 .. n /\ a + 1 # n + 1
          BY <1>1, <4>2, SMTT(30)
        <5>2. Pieces'[a] = file.lines[a + 1]
          BY <3>4, <3>6, <3>7, <4>2, <5>1
        <5> QED BY <1>1, <5>1, <5>2
      <4>3. CASE a = n
        BY <1>1, <3>2, <3>6, <3>7, <4>3
      <4> QED BY <3>7, <4>1, <4>2, <4>3
    <3> QED BY <3>8 DEF PiecesGrow, x
  <2> QED BY <2>3, <2>4
<1> QED BY <1>3, <1>4

(* Every unit in the file after a write was there before, at the same      *)
(* place of its piece, or is a unit of the data, behind what was gathered. *)
LEMMA UnitsGrow ==
  ASSUME TypeInv, NEW d \in Seq(Units), PiecesGrow(d)
  PROVE  \E s \in {0, 1} :
           \A a \in DOMAIN Pieces' : \A i \in DOMAIN Pieces'[a] :
             /\ a + s \in DOMAIN Pieces
             /\ \/ i \in DOMAIN Pieces[a + s] /\ Pieces'[a][i] = Pieces[a + s][i]
                \/ /\ a + s = Len(Pieces)
                   /\ i - Len(file.partial) \in DOMAIN d
                   /\ Pieces'[a][i] = d[i - Len(file.partial)]
<1> DEFINE x == file.partial \o d
<1>1. PICK s \in {0, 1} : \A a \in DOMAIN Pieces' :
        \/ Pieces'[a] = <<>>
        \/ /\ a + s \in DOMAIN Pieces
           /\ Pieces'[a] = IF a + s = Len(Pieces) THEN x ELSE Pieces[a + s]
  BY DEF PiecesGrow
<1>2. file.partial \in Seq(Units) /\ Pieces[Len(Pieces)] = file.partial
  BY PiecesType
<1>3. ASSUME NEW i \in DOMAIN x
      PROVE  \/ i \in DOMAIN file.partial /\ x[i] = file.partial[i]
             \/ /\ i - Len(file.partial) \in DOMAIN d
                /\ x[i] = d[i - Len(file.partial)]
  BY <1>2
<1> HIDE DEF x
<1>4. ASSUME NEW a \in DOMAIN Pieces', NEW i \in DOMAIN Pieces'[a]
      PROVE  /\ a + s \in DOMAIN Pieces
             /\ \/ i \in DOMAIN Pieces[a + s] /\ Pieces'[a][i] = Pieces[a + s][i]
                \/ /\ a + s = Len(Pieces)
                   /\ i - Len(file.partial) \in DOMAIN d
                   /\ Pieces'[a][i] = d[i - Len(file.partial)]
  <2>1. Pieces'[a] # <<>>
    BY <1>4
  <2>2. /\ a + s \in DOMAIN Pieces
        /\ Pieces'[a] = IF a + s = Len(Pieces) THEN x ELSE Pieces[a + s]
    BY <1>1, <2>1
  <2>3. CASE a + s = Len(Pieces)
    <3>1. Pieces'[a] = x /\ i \in DOMAIN x
      BY <2>2, <2>3
    <3> QED BY <1>2, <1>3, <2>2, <2>3, <3>1
  <2>4. CASE a + s # Len(Pieces)
    BY <2>2, <2>4
  <2> QED BY <2>3, <2>4
<1> QED BY <1>4

(* A write of w's data puts nothing of anybody else into the file.         *)
LEMMA UnwrittenKept ==
  ASSUME TypeInv, NEW d \in Seq(Units), PiecesGrow(d), NEW c, Unwritten(c),
         \A i \in DOMAIN d : d[i][1] # c
  PROVE  Unwritten(c)'
<1>1. PICK s \in {0, 1} :
        \A a \in DOMAIN Pieces' : \A i \in DOMAIN Pieces'[a] :
          /\ a + s \in DOMAIN Pieces
          /\ \/ i \in DOMAIN Pieces[a + s] /\ Pieces'[a][i] = Pieces[a + s][i]
             \/ /\ a + s = Len(Pieces)
                /\ i - Len(file.partial) \in DOMAIN d
                /\ Pieces'[a][i] = d[i - Len(file.partial)]
  BY UnitsGrow
<1>2. ASSUME NEW a \in DOMAIN Pieces', NEW i \in DOMAIN Pieces'[a]
      PROVE  Pieces'[a][i][1] # c
  <2>1. CASE /\ a + s \in DOMAIN Pieces /\ i \in DOMAIN Pieces[a + s]
             /\ Pieces'[a][i] = Pieces[a + s][i]
    BY <2>1 DEF Unwritten
  <2>2. CASE /\ i - Len(file.partial) \in DOMAIN d
             /\ Pieces'[a][i] = d[i - Len(file.partial)]
    BY <2>2
  <2> QED BY <1>1, <2>1, <2>2
<1> QED BY <1>2 DEF Unwritten

(* Places that differ as the units do still do further on.                 *)
LEMMA Differences ==
  ASSUME NEW T \in Int, NEW u \in Int, NEW m \in Int, NEW i \in Int, NEW j \in Int
  PROVE  /\ T - u = m - i => (T + (j - m)) - u = j - i
         /\ T - u = m - j => u - (T + (i - m)) = j - i
OBVIOUS

(* Data of w that follows what w has in the file keeps messages together.  *)
LEMMA IntactKept ==
  ASSUME TypeInv, TypeInv', MessageIntact, NEW d \in Seq(Units), PiecesGrow(d),
         NEW w \in Clients \cup {LOGGER}, NEW T \in Nat,
         \/ w = LOGGER /\ \A i \in DOMAIN d : d[i][1] = LOGGER
         \/ /\ \A i \in DOMAIN d : d[i] = <<w, T + i>>
            /\ \/ Unwritten(w)
               \/ file.partial # <<>> /\ file.partial[Len(file.partial)] = <<w, T>>
  PROVE  MessageIntact'
<1>1. PICK s \in {0, 1} :
        \A a \in DOMAIN Pieces' : \A i \in DOMAIN Pieces'[a] :
          /\ a + s \in DOMAIN Pieces
          /\ \/ i \in DOMAIN Pieces[a + s] /\ Pieces'[a][i] = Pieces[a + s][i]
             \/ /\ a + s = Len(Pieces)
                /\ i - Len(file.partial) \in DOMAIN d
                /\ Pieces'[a][i] = d[i - Len(file.partial)]
  BY UnitsGrow
<1>2. /\ Pieces \in Seq(Seq(Units)) /\ Len(Pieces) \in Nat \ {0}
      /\ DOMAIN Pieces = 1 .. Len(Pieces)
      /\ Pieces[Len(Pieces)] = file.partial
      /\ file.partial \in Seq(Units) /\ Len(file.partial) \in Nat
      /\ Len(d) \in Nat /\ DOMAIN d = 1 .. Len(d)
  BY PiecesType
<1>3. PICK n \in Nat, m \in Nat : n = Len(Pieces) /\ m = Len(file.partial)
  BY <1>2
<1> SUFFICES ASSUME NEW a \in DOMAIN Pieces', NEW b \in DOMAIN Pieces',
                    NEW i \in DOMAIN Pieces'[a], NEW j \in DOMAIN Pieces'[b],
                    Pieces'[a][i][1] = Pieces'[b][j][1],
                    Pieces'[a][i][1] # LOGGER
             PROVE  a = b /\ Pieces'[b][j][2] - Pieces'[a][i][2] = j - i
  BY DEF MessageIntact
<1> DEFINE Old(e, k) == /\ k \in DOMAIN Pieces[e + s]
                        /\ Pieces'[e][k] = Pieces[e + s][k]
           New(e, k) == /\ e + s = n /\ k - m \in DOMAIN d
                        /\ Pieces'[e][k] = d[k - m]
<1>4. /\ a + s \in DOMAIN Pieces /\ (Old(a, i) \/ New(a, i))
      /\ b + s \in DOMAIN Pieces /\ (Old(b, j) \/ New(b, j))
  BY <1>1, <1>3
<1>5. a \in Nat /\ b \in Nat /\ i \in Nat /\ j \in Nat
  <2>1. file'.lines \in Seq(Seq(Units)) /\ file'.partial \in Seq(Units)
    BY DEF TypeInv, TypeOK
  <2>2. Pieces' \in Seq(Seq(Units))
    BY <2>1, AppendProperties DEF Pieces
  <2>3. \A e \in DOMAIN Pieces' : e \in Nat /\ Pieces'[e] \in Seq(Units)
    BY <2>2
  <2> QED BY <2>3
<1>6. \A e \in DOMAIN Pieces : \A k \in DOMAIN Pieces[e] :
        k \in Nat /\ Pieces[e][k] \in Units /\ Pieces[e][k][2] \in Nat
  <2>1. \A e \in DOMAIN Pieces : Pieces[e] \in Seq(Units)
    BY <1>2
  <2> QED BY <2>1 DEF Units
<1>7. ASSUME New(a, i) \/ New(b, j)
      PROVE  /\ w # LOGGER /\ \A k \in DOMAIN d : d[k] = <<w, T + k>>
             /\ \/ Unwritten(w)
                \/ m \in DOMAIN Pieces[n] /\ Pieces[n][m] = <<w, T>>
  <2>1. PICK k \in DOMAIN d : d[k][1] # LOGGER
    BY <1>7
  <2>2. /\ \A q \in DOMAIN d : d[q] = <<w, T + q>>
        /\ \/ Unwritten(w)
           \/ file.partial # <<>> /\ file.partial[m] = <<w, T>>
    BY <1>3, <2>1
  <2>3. file.partial # <<>> => m \in DOMAIN Pieces[n] /\ Pieces[n] = file.partial
    BY <1>2, <1>3
  <2> QED BY <2>1, <2>2, <2>3
<1>8. CASE Old(a, i) /\ Old(b, j)
  <2>1. /\ a + s = b + s
        /\ Pieces[b + s][j][2] - Pieces[a + s][i][2] = j - i
    BY <1>4, <1>8 DEF MessageIntact
  <2> QED BY <1>5, <1>8, <2>1
<1>9. CASE New(a, i) /\ New(b, j)
  <2>1. Pieces'[a][i] = <<w, T + (i - m)>> /\ Pieces'[b][j] = <<w, T + (j - m)>>
    BY <1>7, <1>9
  <2>2. Pieces'[a][i][2] = T + (i - m) /\ Pieces'[b][j][2] = T + (j - m)
    BY <2>1
  <2>3. a + s = n /\ b + s = n
    BY <1>9
  <2>4. a = b
    BY <1>5, <2>3
  <2>5. (T + (j - m)) - (T + (i - m)) = j - i
    BY <1>3, <1>5
  <2> QED BY <2>2, <2>4, <2>5
<1>10. CASE Old(a, i) /\ New(b, j)
  <2>1. Pieces'[b][j] = <<w, T + (j - m)>> /\ Pieces[a + s][i][1] = w
    BY <1>7, <1>10
  <2>2. m \in DOMAIN Pieces[n] /\ Pieces[n][m] = <<w, T>> /\ w # LOGGER
    BY <1>4, <1>7, <1>10, <2>1 DEF Unwritten
  <2>3. n \in DOMAIN Pieces
    BY <1>2, <1>3
  <2>4. a + s = n /\ T - Pieces[a + s][i][2] = m - i
    BY <1>4, <1>10, <2>1, <2>2, <2>3 DEF MessageIntact
  <2>5. Pieces[a + s][i][2] \in Nat
    BY <1>4, <1>6, <1>10
  <2>6. b + s = n /\ Pieces'[a][i] = Pieces[a + s][i]
    BY <1>10
  <2>7. a = b
    BY <1>5, <2>4, <2>6
  <2>8. PICK u \in Nat : u = Pieces[a + s][i][2]
    BY <2>5
  <2>9. (T + (j - m)) - u = j - i
    <3>1. T - u = m - i
      BY <2>4, <2>8
    <3>2. T \in Int /\ u \in Int /\ m \in Int /\ i \in Int /\ j \in Int
      BY <1>5
    <3> QED BY <3>1, <3>2, Differences
  <2>10. Pieces'[b][j][2] = T + (j - m) /\ Pieces'[a][i][2] = u
    BY <2>1, <2>6, <2>8
  <2> QED BY <2>7, <2>9, <2>10
<1>11. CASE New(a, i) /\ Old(b, j)
  <2>1. Pieces'[a][i] = <<w, T + (i - m)>> /\ Pieces[b + s][j][1] = w
    BY <1>7, <1>11
  <2>2. m \in DOMAIN Pieces[n] /\ Pieces[n][m] = <<w, T>> /\ w # LOGGER
    BY <1>4, <1>7, <1>11, <2>1 DEF Unwritten
  <2>3. n \in DOMAIN Pieces
    BY <1>2, <1>3
  <2>4. b + s = n /\ T - Pieces[b + s][j][2] = m - j
    BY <1>4, <1>11, <2>1, <2>2, <2>3 DEF MessageIntact
  <2>5. Pieces[b + s][j][2] \in Nat
    BY <1>4, <1>6, <1>11
  <2>6. a + s = n /\ Pieces'[b][j] = Pieces[b + s][j]
    BY <1>11
  <2>7. a = b
    BY <1>5, <2>4, <2>6
  <2>8. PICK u \in Nat : u = Pieces[b + s][j][2]
    BY <2>5
  <2>9. u - (T + (i - m)) = j - i
    <3>1. T - u = m - j
      BY <2>4, <2>8
    <3>2. T \in Int /\ u \in Int /\ m \in Int /\ i \in Int /\ j \in Int
      BY <1>5
    <3> QED BY <3>1, <3>2, Differences
  <2>10. Pieces'[a][i][2] = T + (i - m) /\ Pieces'[b][j][2] = u
    BY <2>1, <2>6, <2>8
  <2> QED BY <2>7, <2>9, <2>10
<1> QED BY <1>4, <1>8, <1>9, <1>10, <1>11


(* A step that leaves the file alone, and lets a worker start receiving    *)
(* only at the beginning of its message, keeps messages together.          *)
LEMMA WholeUntouched ==
  ASSUME WholeInv, UNCHANGED file,
         \A c \in Clients :
           /\ thread'[c].pc \in {"none", "start", "lock_receive"} =>
                thread[c].pc \in {"none", "start", "lock_receive"}
           /\ thread'[c].pc = "receive" =>
                \/ thread[c].pc = "lock_receive"
                \/ thread[c].pc = "receive" /\ Taken(c)' = Taken(c)
  PROVE  WholeInv'
<1>1. Pieces' = Pieces
  BY DEF Pieces
<1>2. MessageIntact'
  BY <1>1 DEF WholeInv, MessageIntact
<1>3. \A c \in Clients : Unwritten(c) => Unwritten(c)'
  BY <1>1 DEF Unwritten
<1>4. \A c \in Clients : Taken(c)' = Taken(c) /\ AtEnd(c) => AtEnd(c)'
  BY DEF AtEnd
<1>5. ASSUME NEW c \in Clients PROVE PlaceInv(c)'
  BY <1>3, <1>4 DEF WholeInv, PlaceInv
<1> QED BY <1>2, <1>5 DEF WholeInv

(* A write by the one who holds the mutex, or by the logger when nobody    *)
(* does, keeps messages together and everybody else at his place.          *)
LEMMA WriteWhole ==
  ASSUME TypeInv, TypeInv', WholeInv, NEW d \in Seq(Units),
         file' = Appended(file, d),
         NEW w \in Clients \cup {LOGGER}, NEW T \in Nat,
         \/ w = LOGGER /\ \A i \in DOMAIN d : d[i][1] = LOGGER
         \/ /\ \A i \in DOMAIN d : d[i] = <<w, T + i>>
            /\ \/ Unwritten(w)
               \/ file.partial # <<>> /\ file.partial[Len(file.partial)] = <<w, T>>,
         \A e \in Clients \ {w} :
           thread[e].pc # "receive" /\ thread'[e].pc = thread[e].pc
  PROVE  MessageIntact' /\ \A e \in Clients \ {w} : PlaceInv(e)'
<1>1. PiecesGrow(d)
  BY AppendedPieces
<1>2. MessageIntact'
  BY <1>1, IntactKept DEF WholeInv
<1>3. \A i \in DOMAIN d : d[i][1] = w
  OBVIOUS
<1>4. ASSUME NEW e \in Clients \ {w}, Unwritten(e) PROVE Unwritten(e)'
  BY <1>1, <1>3, <1>4, UnwrittenKept
<1>5. ASSUME NEW e \in Clients \ {w} PROVE PlaceInv(e)'
  BY <1>4 DEF WholeInv, PlaceInv
<1> QED BY <1>2, <1>5

(* recv and append_to_file continue the message at the end of the file.    *)
LEMMA ReceiveWhole ==
  ASSUME TypeInv, TypeInv', OwnInv, WholeInv, NEW c \in Clients, receive(c)
  PROVE  WholeInv'
<1> DEFINE d == Waiting(c, Received(c))
<1>1. PICK n \in Nat, T \in Nat, M \in Nat :
        n = Received(c) /\ T = Taken(c) /\ M = MsgLen[c]
  <2>1. Received(c) \in 0 .. client[c].inbox /\ client[c].inbox \in Nat
    BY ReceivedUnits DEF TypeInv, TypeOK, Client
  <2>2. Taken(c) \in Nat /\ MsgLen[c] \in Nat
    BY ReceivedUnits, SocketAssumption DEF TypeInv
  <2> QED BY <2>1, <2>2
<1>2. /\ d \in Seq(Units) /\ Len(d) = n /\ DOMAIN d = 1 .. n
      /\ \A i \in 1 .. n : d[i] = <<c, T + i>>
  <2>1. d \in Seq(Units)
    BY <1>1, ReceivedUnits DEF TypeInv
  <2>2. DOMAIN d = 1 .. n /\ \A i \in 1 .. n : d[i] = <<c, T + i>>
    BY <1>1 DEF Waiting
  <2> QED BY <1>1, <2>1, <2>2, LenProperties
<1>3. Taken(c)' = T + n /\ T + n <= M
  BY <1>1, ReceivedTaken DEF receive
<1>4. file' = Appended(file, d)
  BY DEF receive
<1> HIDE DEF d
<1>5. /\ thread[c].pc = "receive"
      /\ thread'[c].pc \in {"receive", "lock_send"}
      /\ n # BUFFER_SIZE => thread'[c].pc = "lock_send"
      /\ \A e \in Clients \ {c} : thread'[e].pc = thread[e].pc
  <2>1. \/ n = BUFFER_SIZE /\ Moves(c, "receive", "receive")
        \/ n # BUFFER_SIZE /\ Moves(c, "receive", "lock_send")
    BY <1>1, GoMoves DEF receive
  <2> QED BY <2>1 DEF Moves
<1>6. \A e \in Clients \ {c} : thread[e].pc # "receive"
  BY <1>5 DEF OwnInv, MutexInv
<1>7. file.partial \in Seq(Units) /\ file \in FileType
  BY DEF TypeInv, TypeOK, FileType
<1>8. ~(USE_AESD_CHAR_DEVICE /\ HasEOL(d)) =>
        file'.partial = file.partial \o d /\ file'.lines = file.lines
  BY <1>4, <1>7 DEF Appended, FileType
<1>9. CASE n = 0
  <2>1. d = <<>> /\ ~HasEOL(d)
    BY <1>2, <1>9 DEF HasEOL
  <2>2. file' = file
    BY <1>4, <1>7, <2>1 DEF Appended, FileType
  <2>3. thread'[c].pc = "lock_send"
    BY <1>5, <1>9, SocketAssumption
  <2> QED BY <1>5, <1>6, <2>2, <2>3, WholeUntouched
<1>10. CASE n # 0
  <2>1. T # M
    BY <1>3, <1>10
  <2>2. \/ Unwritten(c)
        \/ file.partial # <<>> /\ file.partial[Len(file.partial)] = <<c, T>>
    BY <1>1, <1>5, <2>1 DEF WholeInv, PlaceInv, AtEnd
  <2>3. MessageIntact' /\ \A e \in Clients \ {c} : PlaceInv(e)'
    BY <1>2, <1>4, <1>5, <1>6, <2>2, WriteWhole
  <2>4. CASE USE_AESD_CHAR_DEVICE /\ HasEOL(d)
    <3>1. PICK i \in 1 .. n : T + i = M
      BY <1>1, <1>2, <2>4, SocketAssumption DEF HasEOL
    <3>2. T + n = M
      BY <1>3, <3>1
    <3> QED BY <1>1, <1>3, <1>5, <2>3, <3>2 DEF WholeInv, PlaceInv
  <2>5. CASE ~(USE_AESD_CHAR_DEVICE /\ HasEOL(d))
    <3>1. PICK p \in Seq(Units) : p = file.partial \o d
      BY <1>2, <1>7, ConcatProperties
    <3>2. Len(p) = Len(file.partial) + n /\ Len(file.partial) \in Nat
      BY <1>2, <1>7, <3>1, ConcatProperties, LenProperties
    <3>3. p[Len(p)] = d[n] /\ p # <<>>
      BY <1>2, <1>7, <1>10, <3>1, <3>2, ConcatProperties
    <3>4. p[Len(p)] = <<c, T + n>>
      BY <1>2, <1>10, <3>3
    <3>5. AtEnd(c)'
      BY <1>3, <1>8, <2>5, <3>1, <3>3, <3>4 DEF AtEnd
    <3> QED BY <1>5, <2>3, <3>5 DEF WholeInv, PlaceInv
  <2> QED BY <2>4, <2>5
<1> QED BY <1>9, <1>10


(* When receiving fails, whatever was written continues the message.       *)
LEMMA ReceiveFailsWhole ==
  ASSUME TypeInv, TypeInv', OwnInv, WholeInv, NEW c \in Clients, receive_fails(c)
  PROVE  WholeInv'
<1>1. /\ thread[c].pc = "receive" /\ thread'[c].pc = "failed"
      /\ \A e \in Clients \ {c} : thread'[e].pc = thread[e].pc
  <2>1. Moves(c, "receive", "failed")
    BY GoMoves DEF receive_fails
  <2> QED BY <2>1 DEF Moves
<1>2. \A e \in Clients \ {c} : thread[e].pc # "receive"
  BY <1>1 DEF OwnInv, MutexInv
<1>3. CASE UNCHANGED file
  BY <1>1, <1>2, <1>3, WholeUntouched
<1>4. CASE ~UNCHANGED file
  <2>1. PICK k \in 0 .. Received(c) : file' = Appended(file, Waiting(c, k))
    BY <1>4 DEF receive_fails
  <2> DEFINE d == Waiting(c, k)
  <2>2. PICK T \in Nat : T = Taken(c)
    BY ReceivedUnits DEF TypeInv
  <2>3. d \in Seq(Units) /\ \A i \in DOMAIN d : d[i] = <<c, T + i>>
    <3>1. d \in Seq(Units)
      BY <2>1, ReceivedUnits DEF TypeInv
    <3> QED BY <2>2, <3>1 DEF Waiting
  <2>4. T # MsgLen[c]
    <3>1. client[c].inbox > 0
      BY <1>4 DEF receive_fails
    <3>2. /\ client[c].inbox \in Nat /\ client[c].unsent \in Nat
          /\ MsgLen[c] \in Nat
      BY SocketAssumption DEF TypeInv, TypeOK, Client
    <3> QED BY <2>2, <3>1, <3>2 DEF Taken
  <2>5. \/ Unwritten(c)
        \/ file.partial # <<>> /\ file.partial[Len(file.partial)] = <<c, T>>
    BY <1>1, <2>2, <2>4 DEF WholeInv, PlaceInv, AtEnd
  <2> HIDE DEF d
  <2>6. file' = Appended(file, d)
    BY <2>1 DEF d
  <2>7. MessageIntact' /\ \A e \in Clients \ {c} : PlaceInv(e)'
    BY <1>1, <1>2, <2>3, <2>5, <2>6, WriteWhole
  <2>8. PlaceInv(c)'
    BY <1>1 DEF PlaceInv
  <2> QED BY <2>7, <2>8 DEF WholeInv
<1> QED BY <1>3, <1>4

(* The steps of a worker that receives and sends with the mutex held.      *)
LEMMA WorkerWhole ==
  ASSUME TypeInv, TypeInv', OwnInv, WholeInv, NEW c \in Clients, WorkerStep(c)
  PROVE  WholeInv'
<1>1. CASE receive(c)
  BY <1>1, ReceiveWhole
<1>2. CASE receive_fails(c)
  BY <1>2, ReceiveFailsWhole
<1>3. CASE ~receive(c) /\ ~receive_fails(c)
  <2> USE DEF worker_start, worker_lock, send_file, send_file_fails,
              worker_finish, pthread_exit
  <2>0. client \in [Clients -> Client]
    BY DEF TypeInv, TypeOK
  <2>1. UNCHANGED file
    BY <1>3 DEF WorkerStep, send_raises_sigpipe
  <2>2. \A e \in Clients \ {c} : client'[e] = client[e]
    BY <1>3, <2>0 DEF WorkerStep, send_raises_sigpipe, main_frame
  <2>3. \A e \in Clients \ {c} : Taken(e)' = Taken(e)
    BY <2>2 DEF Taken
  <2>4. CASE send_raises_sigpipe(c)
    <3>1. UNCHANGED <<thread, client>>
      BY <2>4 DEF send_raises_sigpipe, main_frame
    <3>2. \A e \in Clients : Taken(e)' = Taken(e)
      BY <3>1 DEF Taken
    <3> QED BY <2>1, <3>1, <3>2, WholeUntouched
  <2>5. CASE ~send_raises_sigpipe(c)
    <3>1. \/ Moves(c, "start", "lock_receive")
          \/ Moves(c, "lock_receive", "receive")
          \/ \E from, to : /\ Moves(c, from, to)
                           /\ to \in {"send", "succeeded", "failed", "exiting",
                                      "exited"}
      BY <1>3, <2>5, GoMoves DEF WorkerStep
    <3> QED BY <2>1, <2>3, <3>1, WholeUntouched DEF Moves
  <2> QED BY <2>4, <2>5
<1> QED BY <1>1, <1>2, <1>3

(* The main thread starts a worker that has written nothing yet, and       *)
(* removes the file only as a whole.                                       *)
LEMMA MainWhole ==
  ASSUME TypeInv, OwnInv, WholeInv, MainStep
  PROVE  WholeInv'
<1>0. main \in MainThread /\ thread \in [Clients -> Thread]
  BY DEF TypeInv, TypeOK
<1>1. UNCHANGED client /\ (cleanup \/ UNCHANGED file)
  BY DEF MainStep, application_ends, connection_timeout, accept, nanosleep,
      start_worker, start_worker_fails, slist_join_completed_threads,
      joined_completed, slist_join_threads, slist_free, cleanup, main_frame
<1>2. \A c \in Clients : Taken(c)' = Taken(c)
  BY <1>1 DEF Taken
<1>3. CASE start_worker
  <2>1. PICK fd \in Clients : fd = main.client_fd
    BY <1>0, <1>3 DEF start_worker, MainAt, TypeInv, FdInv, MainThread
  <2>2. /\ thread'[fd].pc = "start" /\ UNCHANGED file
        /\ \A e \in Clients \ {fd} : thread'[e] = thread[e]
    BY <1>0, <1>3, <2>1 DEF start_worker
  <2>3. thread[fd].pc = "none"
    BY <2>1 DEF OwnInv, ConnectionInv
  <2> QED BY <1>2, <2>2, <2>3, WholeUntouched
<1>4. CASE UNCHANGED file /\ ~start_worker
  BY <1>2, <1>4, MainThreads, WholeUntouched
<1>5. CASE cleanup /\ ~UNCHANGED file
  <2>1. file' = [lines |-> <<>>, partial |-> <<>>]
    BY <1>5 DEF cleanup, EmptyFile
  <2>2. Pieces' = << <<>> >>
    BY <2>1 DEF Pieces
  <2>3. \A a \in DOMAIN Pieces' : DOMAIN Pieces'[a] = {}
    BY <2>2
  <2>4. MessageIntact' /\ \A c \in Clients : Unwritten(c)'
    BY <2>3 DEF MessageIntact, Unwritten
  <2> QED BY <2>4 DEF WholeInv, PlaceInv
<1> QED BY <1>1, <1>3, <1>4, <1>5

(* The logger writes when no worker is between two of its buffers.         *)
LEMMA OthersWhole ==
  ASSUME TypeInv, TypeInv', OwnInv, WholeInv, LoggerStep \/ SignalStep
  PROVE  WholeInv'
<1> DEFINE d == <<<<LOGGER, ticks>>>>
<1>1. UNCHANGED <<thread, client>>
  BY DEF LoggerStep, logger_sem_wait, logger_check, logger_append,
      logger_frame, SignalStep, sigusr1_handler, sigint_handler,
      sigint_handler_post, handler_frame
<1>2. \A c \in Clients : Taken(c)' = Taken(c)
  BY <1>1 DEF Taken
<1>3. UNCHANGED file \/ (mutex = NULL /\ file' = Appended(file, d))
  BY DEF LoggerStep, logger_sem_wait, logger_check, logger_append,
      LoggerMayWrite, SignalStep, sigusr1_handler, sigint_handler,
      sigint_handler_post, handler_frame
<1>4. CASE UNCHANGED file
  BY <1>1, <1>2, <1>4, WholeUntouched
<1>5. CASE mutex = NULL /\ file' = Appended(file, d)
  <2>1. d \in Seq(Units) /\ \A i \in DOMAIN d : d[i][1] = LOGGER
    BY SocketAssumption DEF Units, TypeInv, TypeOK
  <2>2. \A e \in Clients : thread[e].pc # "receive"
    BY <1>5, SocketAssumption DEF OwnInv, MutexInv
  <2> HIDE DEF d
  <2>3. 0 \in Nat /\ LOGGER \in Clients \cup {LOGGER} /\ LOGGER \notin Clients
    BY SocketAssumption
  <2>4. MessageIntact' /\ \A e \in Clients \ {LOGGER} : PlaceInv(e)'
    BY <1>1, <1>5, <2>1, <2>2, <2>3, WriteWhole
  <2> QED BY <2>3, <2>4 DEF WholeInv
<1> QED BY <1>3, <1>4, <1>5

(* Together: WholeInv is an invariant of the server. *)
LEMMA WholeInductive == Spec => []WholeInv
<1>1. Init => WholeInv
  <2> SUFFICES ASSUME Init PROVE WholeInv
    OBVIOUS
  <2>1. Pieces = << <<>> >>
    BY DEF Init, EmptyFile, Pieces
  <2>2. \A a \in DOMAIN Pieces : DOMAIN Pieces[a] = {}
    BY <2>1
  <2>3. MessageIntact /\ \A c \in Clients : Unwritten(c)
    BY <2>2 DEF MessageIntact, Unwritten
  <2> QED BY <2>3 DEF WholeInv, PlaceInv
<1>2. TypeInv /\ TypeInv' /\ OwnInv /\ WholeInv /\ [Next]_vars => WholeInv'
  <2> SUFFICES ASSUME TypeInv, TypeInv', OwnInv, WholeInv, [Next]_vars
               PROVE  WholeInv'
    OBVIOUS
  <2>1. CASE UNCHANGED vars
    <3>1. UNCHANGED <<file, thread, client>>
      BY <2>1 DEF vars
    <3>2. \A c \in Clients : Taken(c)' = Taken(c)
      BY <3>1 DEF Taken
    <3> QED BY <3>1, <3>2, WholeUntouched
  <2>2. ASSUME NEW c \in Clients, ClientStep(c) PROVE WholeInv'
    <3>1. UNCHANGED <<file, thread>>
      BY <2>2 DEF ClientStep, client_connects, client_sends, client_shuts,
          client_resets, client_frame
    <3> QED BY <2>2, <3>1, ClientTaken, WholeUntouched
  <2>3. CASE Next
    BY <2>2, <2>3, MainWhole, OthersWhole, WorkerWhole DEF Next, SignalStep
  <2> QED BY <2>1, <2>3
<1> QED BY <1>1, <1>2, TypeInductive, OwnInductive, PTL DEF Spec

(* A client's data stays together and in order in the result file, in one  *)
(* line of the device: append_to_file is called again and again while a    *)
(* message is received, and neither the logger nor another worker comes    *)
(* between two of the calls.                                               *)
THEOREM MessagesIntact == Spec => []MessageIntact
<1>1. WholeInv => MessageIntact
  BY DEF WholeInv
<1> QED BY <1>1, WholeInductive, PTL
=============================================================================
