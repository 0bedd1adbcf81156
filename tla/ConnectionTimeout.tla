------------------------- MODULE ConnectionTimeout -------------------------
(***************************************************************************)
(* The deadline of socket_client_create_connection: timespec arithmetic    *)
(* (server/src/utilities.c) and the loop that tests the monotonic clock    *)
(* before every accept. What accept finds is modelled in AesdSocket; here  *)
(* it only takes time, or ends the wait.                                   *)
(***************************************************************************)
EXTENDS Integers

CONSTANTS
  NSEC,      \* nanoseconds in a second, 1000000000 in the source
  Timeouts,  \* timeouts callers pass; application() passes one second
  MaxNap,    \* the longest time between two readings of the clock
  MaxSec     \* bound: second at which the clock stops

Timespec == [tv_sec : Nat, tv_nsec : 0 .. NSEC - 1]

ASSUME TimeAssumption ==
  /\ NSEC \in Nat \ {0}
  /\ Timeouts \subseteq Timespec
  /\ MaxNap \in Nat /\ MaxSec \in Nat

VARIABLES
  pc,        \* where the call is, or how it ended
  timeout,   \* *timeout_ptr
  start_time,
  end_time,
  current_time

vars == <<pc, timeout, start_time, end_time, current_time>>

(* The time a timespec stands for, in nanoseconds. *)
Nanos(t) == t.tv_sec * NSEC + t.tv_nsec

(* Readings of CLOCK_MONOTONIC. *)
Clock == [tv_sec : 0 .. MaxSec, tv_nsec : 0 .. NSEC - 1]

-----------------------------------------------------------------------------
(* Mutated forms, each a slip a maintainer could make. *)

(* The carry test uses > and leaves tv_nsec at a full second. *)
timespec_add_late_carry(lhs, rhs) ==
  LET nsec == lhs.tv_nsec + rhs.tv_nsec
      sec  == lhs.tv_sec + rhs.tv_sec
  IN  IF nsec > NSEC THEN [tv_sec |-> sec + 1, tv_nsec |-> nsec - NSEC]
                     ELSE [tv_sec |-> sec, tv_nsec |-> nsec]

(* Nanoseconds are compared whatever the seconds are. *)
timespec_is_elapsed_by_nsec(end, current) ==
  current.tv_sec > end.tv_sec \/ current.tv_nsec > end.tv_nsec

-----------------------------------------------------------------------------
timespec_add(lhs, rhs) ==
  LET nsec == lhs.tv_nsec + rhs.tv_nsec
      sec  == lhs.tv_sec + rhs.tv_sec
  IN  IF nsec >= NSEC THEN [tv_sec |-> sec + 1, tv_nsec |-> nsec - NSEC]
                      ELSE [tv_sec |-> sec, tv_nsec |-> nsec]

timespec_is_elapsed(end, current) ==
  \/ current.tv_sec > end.tv_sec
  \/ current.tv_sec = end.tv_sec /\ current.tv_nsec > end.tv_nsec

-----------------------------------------------------------------------------
Init ==
  /\ pc = "application"
  /\ timeout \in Timeouts
  /\ current_time \in Clock
  /\ start_time = current_time
  /\ end_time = current_time

(* The clock is read again. *)
clock_gettime ==
  /\ current_time' \in Clock
  /\ Nanos(current_time') - Nanos(current_time) \in 0 .. MaxNap

(* The call begins: the start is noted, the deadline computed. *)
create_connection ==
  /\ pc = "application"
  /\ pc' = "loop"
  /\ clock_gettime
  /\ timeout' \in Timeouts
  /\ start_time' = current_time'
  /\ end_time' = timespec_add(start_time', timeout')

(* config_is_terminated: the call returns 1. *)
loop_terminated ==
  /\ pc = "loop"
  /\ pc' = "terminated"
  /\ UNCHANGED <<timeout, start_time, end_time, current_time>>

(* Past the deadline the call returns 2; otherwise accept is tried. *)
test_elapsed ==
  /\ pc = "loop"
  /\ clock_gettime
  /\ pc' = IF timespec_is_elapsed(end_time, current_time')
             THEN "timeout" ELSE "accept"
  /\ UNCHANGED <<timeout, start_time, end_time>>

(* accept finds nothing and the thread naps, or the call returns 0 or -1. *)
accept ==
  /\ pc = "accept"
  /\ pc' \in {"loop", "returned"}
  /\ UNCHANGED <<timeout, start_time, end_time, current_time>>

(* The caller comes round its own loop. *)
application_loops ==
  /\ pc \in {"returned", "timeout"}
  /\ pc' = "application"
  /\ UNCHANGED <<timeout, start_time, end_time, current_time>>

Next ==
  \/ create_connection \/ loop_terminated \/ test_elapsed \/ accept
  \/ application_loops

Spec == Init /\ [][Next]_vars

-----------------------------------------------------------------------------
(* The deadline stays a normalised timespec: tv_nsec below one second, as  *)
(* timespec_is_elapsed relies on.                                          *)
TypeOK ==
  /\ pc \in {"application", "loop", "accept", "returned", "timeout",
             "terminated"}
  /\ timeout \in Timeouts
  /\ start_time \in Clock /\ current_time \in Clock
  /\ end_time \in Timespec

Waited == Nanos(current_time) - Nanos(start_time)

(* The timeout is neither early nor late: accept is only tried while no    *)
(* more than the timeout has passed since the call began, and the call     *)
(* times out after more than the timeout, and no later than the first      *)
(* reading of the clock that can tell, however the seconds and nanoseconds *)
(* of clock and timeout carry.                                             *)
DeadlineKept ==
  /\ pc \in {"accept", "returned"} => Waited <= Nanos(timeout)
  /\ pc = "timeout" => /\ Nanos(timeout) < Waited
                       /\ Waited <= Nanos(timeout) + MaxNap
=============================================================================
