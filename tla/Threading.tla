----------------------------- MODULE Threading -----------------------------
(***************************************************************************)
(* start_thread_obtaining_mutex and threadfunc (examples/threading): each  *)
(* call starts a thread that waits, takes a mutex, holds it and gives it   *)
(* back. The thread_data is allocated by the starter, used by both, and    *)
(* freed by whoever joins the thread. Calls may be made concurrently.      *)
(***************************************************************************)
EXTENDS Integers

CONSTANTS
  Threads,   \* one for each call of start_thread_obtaining_mutex
  NONE,
  Faults     \* "pthread_create"

VARIABLES
  starter,      \* where each call is
  thread,       \* where each threadfunc is
  thread_data,  \* the block of each thread, and its flag
  mutex,        \* its holder, or NONE
  joined        \* the flag the joiner of each thread has read

vars == <<starter, thread, thread_data, mutex, joined>>

-----------------------------------------------------------------------------
(* Mutated forms, each a slip a maintainer could make. *)

(* The thread frees the block it is given. *)
Result_freed(block) == [block EXCEPT !.state = "freed"]

(* The mutex stays locked. *)
Unlock_forgotten(t) == mutex' = t

-----------------------------------------------------------------------------
Init ==
  /\ starter = [t \in Threads |-> "none"]
  /\ thread = [t \in Threads |-> "none"]
  /\ thread_data = [t \in Threads |->
                      [state |-> "none", thread_complete_success |-> FALSE]]
  /\ mutex = NONE
  /\ joined = [t \in Threads |-> "no"]

(* malloc and the initialisation of the block. *)
start_thread_obtaining_mutex(t) ==
  /\ starter[t] = "none"
  /\ starter' = [starter EXCEPT ![t] = "pthread_create"]
  /\ thread_data' = [thread_data EXCEPT ![t].state = "allocated"]
  /\ UNCHANGED <<thread, mutex, joined>>

(* A block that no thread was started with is not freed. *)
pthread_create(t) ==
  /\ starter[t] = "pthread_create"
  /\ \/ /\ starter' = [starter EXCEPT ![t] = "set"]
        /\ thread' = [thread EXCEPT ![t] = "obtain"]
     \/ /\ "pthread_create" \in Faults
        /\ starter' = [starter EXCEPT ![t] = "false"]
        /\ UNCHANGED thread
  /\ UNCHANGED <<thread_data, mutex, joined>>

(* The flag is set by the starter, whatever the thread has done by then.   *)
Started(block) == [block EXCEPT !.thread_complete_success = TRUE]

set_success(t) ==
  /\ starter[t] = "set"
  /\ thread_data' = [thread_data EXCEPT ![t] = Started(@)]
  /\ starter' = [starter EXCEPT ![t] = "true"]
  /\ UNCHANGED <<thread, mutex, joined>>

-----------------------------------------------------------------------------
(* threadfunc *)

Lock(t) == mutex = NONE /\ mutex' = t

Unlock(t) == mutex' = NONE

(* usleep, then pthread_mutex_lock. *)
threadfunc_obtain(t) ==
  /\ thread[t] = "obtain"
  /\ Lock(t)
  /\ thread' = [thread EXCEPT ![t] = "release"]
  /\ UNCHANGED <<starter, thread_data, joined>>

(* What the thread leaves of the block whose address it returns. *)
Result(block) == block

(* usleep, then pthread_mutex_unlock and return. *)
threadfunc_release(t) ==
  /\ thread[t] = "release"
  /\ Unlock(t)
  /\ thread' = [thread EXCEPT ![t] = "returned"]
  /\ thread_data' = [thread_data EXCEPT ![t] = Result(@)]
  /\ UNCHANGED <<starter, joined>>

(* The caller that was told true joins the thread, reads the flag and      *)
(* frees the block.                                                        *)
join(t) ==
  /\ starter[t] = "true" /\ thread[t] = "returned" /\ joined[t] = "no"
  /\ joined' = [joined EXCEPT ![t] =
       IF thread_data[t].thread_complete_success THEN "true" ELSE "false"]
  /\ thread_data' = [thread_data EXCEPT ![t].state = "freed"]
  /\ UNCHANGED <<starter, thread, mutex>>

-----------------------------------------------------------------------------
Step(t) ==
  \/ pthread_create(t) \/ set_success(t) \/ threadfunc_release(t) \/ join(t)

Next ==
  \E t \in Threads :
    start_thread_obtaining_mutex(t) \/ threadfunc_obtain(t) \/ Step(t)

Spec == Init /\ [][Next]_vars

(* Threads are scheduled, and a mutex that is free again and again is      *)
(* granted in the end.                                                     *)
Fairness == \A t \in Threads : WF_vars(Step(t)) /\ SF_vars(threadfunc_obtain(t))

-----------------------------------------------------------------------------
(* The block of a thread is allocated whenever starter, thread or joiner   *)
(* may use it, although each of them may be the last to do so; and the     *)
(* joiner of a thread that was started is told that it succeeded.          *)
DataOwned ==
  \A t \in Threads :
    /\ \/ starter[t] \in {"pthread_create", "set"}
       \/ thread[t] \in {"obtain", "release"}
       \/ starter[t] = "true" /\ joined[t] = "no"
       => thread_data[t].state = "allocated"
    /\ joined[t] # "false"

(* Every thread that was started returns and is joined, whoever else wants *)
(* the mutex.                                                              *)
ThreadsReturn == \A t \in Threads : starter[t] = "true" ~> joined[t] = "true"

=============================================================================
