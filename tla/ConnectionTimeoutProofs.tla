---------------------- MODULE ConnectionTimeoutProofs ----------------------
(***************************************************************************)
(* For every length of the second, every set of timeouts and every nap:    *)
(* timespec_add adds, timespec_is_elapsed compares, and the deadline of    *)
(* socket_client_create_connection is kept.                                *)
(***************************************************************************)
EXTENDS ConnectionTimeout, TLAPS

(* A timespec stands for a natural number of nanoseconds. *)
LEMMA NanosNat ==
  ASSUME NEW t \in Timespec
  PROVE  Nanos(t) \in Nat
<1>1. t.tv_sec * NSEC \in Nat /\ t.tv_nsec \in Nat
  BY TimeAssumption DEF Timespec
<1> QED BY <1>1 DEF Nanos

(* timespec_add returns a normalised timespec that stands for the sum: one *)
(* carry is enough for two normalised arguments.                           *)
LEMMA AddIsSum ==
  ASSUME NEW l \in Timespec, NEW r \in Timespec
  PROVE  /\ timespec_add(l, r) \in Timespec
         /\ Nanos(timespec_add(l, r)) = Nanos(l) + Nanos(r)
<1> DEFINE nsec == l.tv_nsec + r.tv_nsec
           sec  == l.tv_sec + r.tv_sec
<1>1. /\ NSEC \in Nat /\ NSEC > 0
      /\ l.tv_sec \in Nat /\ r.tv_sec \in Nat
      /\ l.tv_nsec \in 0 .. NSEC - 1 /\ r.tv_nsec \in 0 .. NSEC - 1
  BY TimeAssumption DEF Timespec
<1>2. /\ sec * NSEC = l.tv_sec * NSEC + r.tv_sec * NSEC
      /\ (sec + 1) * NSEC = l.tv_sec * NSEC + r.tv_sec * NSEC + NSEC
      /\ l.tv_sec * NSEC \in Int /\ r.tv_sec * NSEC \in Int
  BY <1>1
<1>3. CASE nsec >= NSEC
  <2>1. timespec_add(l, r) = [tv_sec |-> sec + 1, tv_nsec |-> nsec - NSEC]
    BY <1>3 DEF timespec_add
  <2>2. nsec - NSEC \in 0 .. NSEC - 1 /\ sec + 1 \in Nat
    BY <1>1, <1>3
  <2>3. Nanos(timespec_add(l, r)) = (sec + 1) * NSEC + (nsec - NSEC)
    BY <2>1 DEF Nanos
  <2> QED BY <1>1, <1>2, <2>1, <2>2, <2>3 DEF Timespec, Nanos
<1>4. CASE ~(nsec >= NSEC)
  <2>1. timespec_add(l, r) = [tv_sec |-> sec, tv_nsec |-> nsec]
    BY <1>4 DEF timespec_add
  <2>2. nsec \in 0 .. NSEC - 1 /\ sec \in Nat
    BY <1>1, <1>4
  <2>3. Nanos(timespec_add(l, r)) = sec * NSEC + nsec
    BY <2>1 DEF Nanos
  <2> QED BY <1>1, <1>2, <2>1, <2>2, <2>3 DEF Timespec, Nanos
<1> QED BY <1>3, <1>4

(* timespec_is_elapsed compares the times two normalised timespecs stand   *)
(* for: "true if the current_time is greater than the end_time".           *)
LEMMA ElapsedIsAfter ==
  ASSUME NEW e \in Timespec, NEW c \in Timespec
  PROVE  timespec_is_elapsed(e, c) <=> Nanos(c) > Nanos(e)
<1>1. /\ NSEC \in Nat /\ NSEC > 0
      /\ e.tv_sec \in Nat /\ c.tv_sec \in Nat
      /\ e.tv_nsec \in 0 .. NSEC - 1 /\ c.tv_nsec \in 0 .. NSEC - 1
  BY TimeAssumption DEF Timespec
<1>2. ASSUME NEW x \in Nat, NEW y \in Nat, x > y
      PROVE  x * NSEC >= y * NSEC + NSEC
  <2>1. PICK k \in Nat : x = y + 1 + k
    <3>1. x - y - 1 \in Nat /\ x = y + 1 + (x - y - 1)
      BY <1>2
    <3> QED BY <3>1
  <2>2. x * NSEC = y * NSEC + NSEC + k * NSEC
    BY <2>1, <1>1
  <2>3. k * NSEC \in Nat /\ y * NSEC \in Nat
    BY <1>1
  <2> QED BY <1>1, <2>2, <2>3
<1>3. c.tv_sec * NSEC \in Int /\ e.tv_sec * NSEC \in Int
  BY <1>1
<1>4. CASE c.tv_sec > e.tv_sec
  <2>1. c.tv_sec * NSEC >= e.tv_sec * NSEC + NSEC
    BY <1>1, <1>2, <1>4
  <2> QED BY <1>1, <1>3, <1>4, <2>1 DEF timespec_is_elapsed, Nanos
<1>5. CASE e.tv_sec > c.tv_sec
  <2>1. e.tv_sec * NSEC >= c.tv_sec * NSEC + NSEC
    BY <1>1, <1>2, <1>5
  <2> QED BY <1>1, <1>3, <1>5, <2>1 DEF timespec_is_elapsed, Nanos
<1>6. CASE c.tv_sec = e.tv_sec
  BY <1>1, <1>3, <1>6 DEF timespec_is_elapsed, Nanos
<1> QED BY <1>1, <1>4, <1>5, <1>6

(* Readings of the clock are normalised timespecs. *)
LEMMA ClockIsTimespec ==
  ASSUME NEW t \in Clock
  PROVE  t \in Timespec
  BY TimeAssumption DEF Clock, Timespec

-----------------------------------------------------------------------------
(* What DeadlineKept needs to be inductive: the deadline is the start plus *)
(* the timeout, and the last reading the loop has tested was not past it.  *)
DeadlineInv ==
  /\ TypeOK
  /\ pc # "application" => Nanos(end_time) = Nanos(start_time) + Nanos(timeout)
  /\ pc \in {"loop", "accept", "returned"} => Waited <= Nanos(timeout)
  /\ pc = "timeout" => /\ Nanos(timeout) < Waited
                       /\ Waited <= Nanos(timeout) + MaxNap

(* DeadlineInv holds initially and every step of the loop keeps it. *)
LEMMA DeadlineInductive == Spec => []DeadlineInv
<1>1. Init => DeadlineInv
  BY TimeAssumption, ClockIsTimespec DEF Init, DeadlineInv, TypeOK
<1>2. DeadlineInv /\ [Next]_vars => DeadlineInv'
  <2> SUFFICES ASSUME DeadlineInv, [Next]_vars PROVE DeadlineInv'
    OBVIOUS
  <2>1. CASE UNCHANGED vars
    BY <2>1 DEF DeadlineInv, TypeOK, Waited, vars
  <2>2. CASE create_connection
    <3>1. /\ pc' = "loop" /\ timeout' \in Timeouts /\ current_time' \in Clock
          /\ start_time' = current_time'
          /\ end_time' = timespec_add(start_time', timeout')
      BY <2>2 DEF create_connection, clock_gettime
    <3>2. timeout' \in Timespec /\ start_time' \in Timespec
      BY <3>1, ClockIsTimespec, TimeAssumption
    <3>3. /\ end_time' \in Timespec
          /\ Nanos(end_time') = Nanos(start_time') + Nanos(timeout')
      BY <3>1, <3>2, AddIsSum
    <3>4. Nanos(timeout') \in Nat /\ Nanos(start_time') \in Nat
      BY <3>2, NanosNat
    <3>5. Waited' = 0
      BY <3>1, <3>4 DEF Waited
    <3> QED BY <3>1, <3>3, <3>4, <3>5 DEF DeadlineInv, TypeOK
  <2>3. CASE loop_terminated
    BY <2>3 DEF loop_terminated, DeadlineInv, TypeOK, Waited
  <2>4. CASE test_elapsed
    <3>1. /\ pc = "loop" /\ current_time' \in Clock
          /\ Nanos(current_time') - Nanos(current_time) \in 0 .. MaxNap
          /\ UNCHANGED <<timeout, start_time, end_time>>
          /\ pc' = IF timespec_is_elapsed(end_time, current_time')
                     THEN "timeout" ELSE "accept"
      BY <2>4 DEF test_elapsed, clock_gettime
    <3>2. /\ current_time \in Timespec /\ current_time' \in Timespec
          /\ start_time \in Timespec /\ timeout \in Timespec
          /\ end_time \in Timespec
      BY <3>1, ClockIsTimespec, TimeAssumption DEF DeadlineInv, TypeOK
    <3>3. /\ Nanos(current_time) \in Nat /\ Nanos(current_time') \in Nat
          /\ Nanos(start_time) \in Nat /\ Nanos(timeout) \in Nat
      BY <3>2, NanosNat
    <3>4. timespec_is_elapsed(end_time, current_time')
            <=> Nanos(current_time') > Nanos(end_time)
      BY <3>2, ElapsedIsAfter
    <3>5. /\ Nanos(end_time) = Nanos(start_time) + Nanos(timeout)
          /\ Nanos(current_time) - Nanos(start_time) <= Nanos(timeout)
      BY <3>1 DEF DeadlineInv, Waited
    <3>6. Waited' = Nanos(current_time') - Nanos(start_time)
      BY <3>1 DEF Waited
    <3>7. TypeOK'
      BY <3>1 DEF DeadlineInv, TypeOK
    <3>8. CASE timespec_is_elapsed(end_time, current_time')
      <4>1. /\ Nanos(timeout) < Nanos(current_time') - Nanos(start_time)
            /\ Nanos(current_time') - Nanos(start_time)
                 <= Nanos(timeout) + MaxNap
        BY <3>1, <3>3, <3>4, <3>5, <3>8, TimeAssumption
      <4> QED BY <4>1, <3>1, <3>5, <3>6, <3>7, <3>8 DEF DeadlineInv
    <3>9. CASE ~timespec_is_elapsed(end_time, current_time')
      <4>1. Nanos(current_time') - Nanos(start_time) <= Nanos(timeout)
        BY <3>1, <3>3, <3>4, <3>5, <3>9
      <4> QED BY <4>1, <3>1, <3>5, <3>6, <3>7, <3>9 DEF DeadlineInv
    <3> QED BY <3>8, <3>9
  <2>5. CASE accept
    BY <2>5 DEF accept, DeadlineInv, TypeOK, Waited
  <2>6. CASE application_loops
    BY <2>6 DEF application_loops, DeadlineInv, TypeOK, Waited
  <2> QED BY <2>1, <2>2, <2>3, <2>4, <2>5, <2>6 DEF Next
<1> QED BY <1>1, <1>2, PTL DEF Spec

(* The call never times out early, never tries accept after the deadline,  *)
(* and notices the deadline at the first reading of the clock behind it.   *)
THEOREM TimeoutCorrect == Spec => []DeadlineKept
<1>1. DeadlineInv => DeadlineKept
  BY DEF DeadlineInv, DeadlineKept
<1> QED BY <1>1, DeadlineInductive, PTL

(* The deadline stays a normalised timespec and the clock a reading of the *)
(* clock, whatever carries: timespec_is_elapsed is never handed a number   *)
(* of nanoseconds that is a second or more.                                *)
THEOREM TypeCorrect == Spec => []TypeOK
<1>1. DeadlineInv => TypeOK
  BY DEF DeadlineInv
<1> QED BY <1>1, DeadlineInductive, PTL
=============================================================================
