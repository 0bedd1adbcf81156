------------------------- MODULE SystemCallsProofs -------------------------
(***************************************************************************)
(* do_system, do_exec and do_exec_redirect for any number of processes and *)
(* commands, whatever fails and whoever is killed: true means that the     *)
(* command was run and exited with 0, no child is left behind, and only    *)
(* do_exec_redirect lets a second copy of the program loose.               *)
(***************************************************************************)
EXTENDS SystemCalls, TLAPS

(* The stages of a child that has neither returned nor called execv yet.   *)
Fresh == {"creat", "dup2", "execv"}

(* What a process is, as far as it can be told from the process alone. *)
ProcessInv(s) ==
  /\ s.pc = "none" => s.parent = NULL
  /\ s.pc \in {"creat", "dup2"} => s.forked_by = "do_exec_redirect"
  /\ s.pc \in Fresh \cup {"program", "waitpid"} => ~s.executed
  /\ s.pc = "command" => s.executed
  /\ s.pc \in {"program", "waitpid", "creat", "dup2"} => s.stdout = "inherited"
  /\ s.pc \in {"execv", "command"} =>
       (s.stdout = "outputfile" <=> s.forked_by = "do_exec_redirect")

(* A process that exits with 0 was the command or such a copy.             *)
ZombieInv(s) ==
  s.pc = "zombie" /\ s.status = Exit(0) =>
    /\ s.executed \/ s.forked_by = "do_exec_redirect"
    /\ s.executed /\ s.forked_by = "do_exec_redirect" <=> s.stdout = "outputfile"

(* Whoever has a child runs the program, and waits for that child unless   *)
(* it has given up.                                                        *)
ParentInv ==
  \A c \in Pids : proc[c].parent # NULL =>
    /\ proc[c].parent # c
    /\ proc[proc[c].parent].pc \in {"program", "waitpid"}
    /\ \/ /\ proc[proc[c].parent].pc = "waitpid"
          /\ proc[proc[c].parent].child = c
       \/ c \in abandoned

(* Whoever waits does so for a child of its own, forked in the function    *)
(* that is waiting; until the child has returned or after it has become    *)
(* the command, it stands for the same call.                               *)
WaitInv ==
  \A p \in Pids : proc[p].pc = "waitpid" =>
    /\ proc[p].child \in Pids
    /\ proc[proc[p].child].parent = p
    /\ proc[proc[p].child].forked_by = proc[p].function
    /\ proc[proc[p].child].pc \in Fresh \/ proc[proc[p].child].executed =>
         proc[proc[p].child].argument = proc[p].argument

CallsInv ==
  /\ TypeOK /\ OneProgram /\ ParentInv /\ WaitInv
  /\ proc[MAIN].parent = NULL
  /\ \A p \in Pids : ProcessInv(proc[p]) /\ ZombieInv(proc[p])

-----------------------------------------------------------------------------
(* The status of a process that ends. *)
LEMMA StatusTypes ==
  /\ Exit(0) \in Status /\ Exit(1) \in Status /\ Exit(127) \in Status
  /\ Exit(-1) \in Status /\ Killed \in Status
  /\ Exit(0) = [exited |-> TRUE, code |-> 0]
  /\ Exit(127) # Exit(0) /\ Exit(-1) # Exit(0) /\ Exit(1) # Exit(0)
  /\ Killed # Exit(0)
<1>1. 0 % 256 = 0 /\ 1 % 256 = 1 /\ 127 % 256 = 127
  OBVIOUS
<1>2. (-1) % 256 \in 0 .. 255 /\ (-1) % 256 # 0
  <2>1. \A a \in Int : a + 1 = 0 => a % 256 \in 0 .. 255 /\ a % 256 # 0
    OBVIOUS
  <2>2. PICK a \in Int : a = -1
    OBVIOUS
  <2>3. a + 1 = 0
    BY <2>2
  <2>4. a % 256 \in 0 .. 255 /\ a % 256 # 0
    BY <2>1, <2>3
  <2> QED BY <2>2, <2>4, Zenon
<1> QED BY <1>1, <1>2 DEF Exit, Killed, Status

(* A number nobody has. *)
LEMMA NoProcessIs ==
  /\ NoProcess \in Process /\ ProcessInv(NoProcess) /\ ZombieInv(NoProcess)
  /\ NoProcess.pc = "none" /\ NoProcess.parent = NULL /\ ~NoProcess.executed
<1>1. 0 \in 0 .. MaxCalls
  BY SystemCallsAssumption
<1>2. NoProcess \in Process
  BY <1>1, StatusTypes DEF NoProcess, Process, CallKinds
<1> QED BY <1>2 DEF NoProcess, ProcessInv, ZombieInv, Fresh

(* A step of one process that ends nobody's wait and has no child that     *)
(* could notice.                                                           *)
LEMMA OneKeeps ==
  ASSUME CallsInv, NEW p \in Pids, NEW t \in Process, ProcessInv(t), ZombieInv(t),
         proc' = [proc EXCEPT ![p] = t], UNCHANGED abandoned,
         proc[p].pc \in Fresh \cup {"program"},
         proc[p].pc = "program" => t.pc = "program",
         t.pc # "waitpid",
         t.parent = proc[p].parent,
         t.parent = NULL \/ t.forked_by = proc[p].forked_by,
         p # MAIN /\ t.pc = "program" => t.forked_by = "do_exec_redirect",
         t.pc \in Fresh \/ t.executed =>
           proc[p].pc \in Fresh /\ t.argument = proc[p].argument
  PROVE  CallsInv'
<1>1. proc \in [Pids -> Process] /\ abandoned \subseteq Pids /\ MAIN \in Pids
      /\ NULL \notin Pids
  BY SystemCallsAssumption DEF CallsInv, TypeOK
<1>2. /\ proc' \in [Pids -> Process] /\ proc'[p] = t
      /\ \A q \in Pids : q # p => proc'[q] = proc[q]
      /\ \A q \in Pids : proc'[q].parent = proc[q].parent
  BY <1>1
<1>3. /\ TypeOK' /\ proc'[MAIN].parent = NULL
      /\ \A q \in Pids : ProcessInv(proc'[q]) /\ ZombieInv(proc'[q])
  BY <1>1, <1>2 DEF CallsInv, TypeOK
<1>4. OneProgram'
  BY <1>2 DEF CallsInv, OneProgram
<1>5. \A q \in Pids : proc[q].parent \in Pids \cup {NULL}
  BY <1>1 DEF Process
<1>6. ParentInv'
  <2> SUFFICES ASSUME NEW c \in Pids, NEW q \in Pids, q = proc[c].parent
               PROVE  /\ q # c /\ proc'[q].pc \in {"program", "waitpid"}
                      /\ \/ proc'[q].pc = "waitpid" /\ proc'[q].child = c
                         \/ c \in abandoned
    BY <1>1, <1>2, <1>5 DEF ParentInv
  <2>1. /\ q # c /\ proc[q].pc \in {"program", "waitpid"}
        /\ \/ proc[q].pc = "waitpid" /\ proc[q].child = c
           \/ c \in abandoned
    BY <1>1 DEF CallsInv, ParentInv
  <2>2. CASE q = p
    BY <1>2, <2>1, <2>2 DEF Fresh
  <2>3. CASE q # p
    BY <1>2, <2>1, <2>3
  <2> QED BY <2>2, <2>3
<1>7. WaitInv'
  <2> SUFFICES ASSUME NEW q \in Pids, proc'[q].pc = "waitpid"
               PROVE  /\ proc'[q].child \in Pids
                      /\ proc'[proc'[q].child].parent = q
                      /\ proc'[proc'[q].child].forked_by = proc'[q].function
                      /\ proc'[proc'[q].child].pc \in Fresh
                           \/ proc'[proc'[q].child].executed =>
                           proc'[proc'[q].child].argument = proc'[q].argument
    BY DEF WaitInv
  <2>1. q # p /\ proc'[q] = proc[q] /\ proc[q].pc = "waitpid"
    BY <1>2
  <2>2. PICK c \in Pids :
          /\ c = proc[q].child /\ proc[c].parent = q
          /\ proc[c].forked_by = proc[q].function
          /\ proc[c].pc \in Fresh \/ proc[c].executed =>
               proc[c].argument = proc[q].argument
    BY <2>1 DEF CallsInv, WaitInv
  <2>3. proc'[c].forked_by = proc[c].forked_by
    BY <1>1, <1>2, <2>2
  <2>4. proc'[c].pc \in Fresh \/ proc'[c].executed =>
          proc'[c].argument = proc[q].argument
    BY <1>2, <2>2
  <2> QED BY <1>2, <2>1, <2>2, <2>3, <2>4
<1> QED BY <1>3, <1>4, <1>6, <1>7 DEF CallsInv

-----------------------------------------------------------------------------
(* fork: the child is a copy of the program, and the program waits.        *)
LEMMA ForkKeeps ==
  ASSUME CallsInv, NEW p \in Pids, NEW q \in Pids \ {MAIN},
         NEW s \in Process, NEW t \in Process,
         proc[p].pc = "program", proc[q].pc = "none",
         proc' = [proc EXCEPT ![p] = s, ![q] = t], abandoned' = abandoned \ {q},
         s.pc = "waitpid", s.child = q, s.parent = proc[p].parent,
         s.forked_by = proc[p].forked_by, ProcessInv(s),
         ~s.executed, t.pc \in Fresh, t.parent = p, t.forked_by = s.function,
         t.argument = s.argument, ProcessInv(t)
  PROVE  CallsInv'
<1>1. proc \in [Pids -> Process] /\ abandoned \subseteq Pids /\ MAIN \in Pids
      /\ NULL \notin Pids
  BY SystemCallsAssumption DEF CallsInv, TypeOK
<1>2. /\ p # q /\ proc' \in [Pids -> Process] /\ proc'[p] = s /\ proc'[q] = t
      /\ \A r \in Pids \ {p, q} : proc'[r] = proc[r]
  BY <1>1
<1>3. /\ TypeOK' /\ proc'[MAIN].parent = NULL
      /\ \A r \in Pids : ProcessInv(proc'[r]) /\ ZombieInv(proc'[r])
  <2>1. ZombieInv(s) /\ ZombieInv(t)
    BY DEF ZombieInv, Fresh
  <2> QED BY <1>1, <1>2, <2>1 DEF CallsInv, TypeOK
<1>4. OneProgram'
  BY <1>2 DEF CallsInv, OneProgram, Fresh
<1>5. \A r \in Pids : proc[r].parent \in Pids \cup {NULL}
  BY <1>1 DEF Process
<1>6. \A r \in Pids : proc[r].parent # q
  BY <1>1 DEF CallsInv, ParentInv
<1>7. ParentInv'
  <2> SUFFICES ASSUME NEW c \in Pids, NEW r \in Pids, r = proc'[c].parent
               PROVE  /\ r # c /\ proc'[r].pc \in {"program", "waitpid"}
                      /\ \/ proc'[r].pc = "waitpid" /\ proc'[r].child = c
                         \/ c \in abandoned'
    BY <1>1, <1>2, <1>5 DEF ParentInv, Process
  <2>1. CASE c = q
    BY <1>2, <2>1
  <2>2. CASE c # q
    <3>1. r = proc[c].parent /\ r # q
      BY <1>2, <1>6, <2>2
    <3>2. /\ r # c /\ proc[r].pc \in {"program", "waitpid"}
          /\ \/ proc[r].pc = "waitpid" /\ proc[r].child = c
             \/ c \in abandoned
      BY <1>1, <3>1 DEF CallsInv, ParentInv
    <3>3. CASE r = p
      BY <1>2, <2>2, <3>2, <3>3
    <3>4. CASE r # p
      BY <1>2, <2>2, <3>1, <3>2, <3>4
    <3> QED BY <3>3, <3>4
  <2> QED BY <2>1, <2>2
<1>8. WaitInv'
  <2> SUFFICES ASSUME NEW r \in Pids, proc'[r].pc = "waitpid"
               PROVE  /\ proc'[r].child \in Pids
                      /\ proc'[proc'[r].child].parent = r
                      /\ proc'[proc'[r].child].forked_by = proc'[r].function
                      /\ proc'[proc'[r].child].pc \in Fresh
                           \/ proc'[proc'[r].child].executed =>
                           proc'[proc'[r].child].argument = proc'[r].argument
    BY DEF WaitInv
  <2>1. CASE r = p
    BY <1>2, <2>1
  <2>2. CASE r # p
    <3>1. r # q /\ proc'[r] = proc[r] /\ proc[r].pc = "waitpid"
      BY <1>2, <2>2 DEF Fresh
    <3>2. PICK c \in Pids :
            /\ c = proc[r].child /\ proc[c].parent = r
            /\ proc[c].forked_by = proc[r].function
            /\ proc[c].pc \in Fresh \/ proc[c].executed =>
                 proc[c].argument = proc[r].argument
      BY <3>1 DEF CallsInv, WaitInv
    <3>3. c # q
      BY <1>1, <3>2 DEF CallsInv, ProcessInv
    <3>4. /\ proc'[c].forked_by = proc[c].forked_by
          /\ proc'[c].parent = proc[c].parent
          /\ proc'[c].pc \in Fresh \/ proc'[c].executed =>
               proc'[c] = proc[c]
      BY <1>2, <3>3 DEF Fresh
    <3> QED BY <1>2, <3>1, <3>2, <3>4
  <2> QED BY <2>1, <2>2
<1> QED BY <1>3, <1>4, <1>7, <1>8 DEF CallsInv

(* exit and a signal: the children of the process lose their parent.       *)
LEMMA EndsKeeps ==
  ASSUME CallsInv, NEW p \in Pids, NEW status \in Status, Ends(p, status),
         Alive(p),
         status = Exit(0) => proc[p].pc \in {"command", "program"}
  PROVE  CallsInv'
<1>1. proc \in [Pids -> Process] /\ abandoned \subseteq Pids /\ MAIN \in Pids
      /\ NULL \notin Pids
  BY SystemCallsAssumption DEF CallsInv, TypeOK
<1>2. PICK z \in Process : z = [proc[p] EXCEPT !.pc = "zombie", !.child = NULL,
                                                !.status = status]
  BY <1>1, ZenonT(60) DEF Process
<1>3. /\ z.pc = "zombie" /\ z.parent = proc[p].parent /\ z.status = status
      /\ z.forked_by = proc[p].forked_by /\ z.executed = proc[p].executed
      /\ z.argument = proc[p].argument /\ z.stdout = proc[p].stdout
  BY <1>1, <1>2 DEF Process
<1>4. proc[p].parent # NULL => ProcessInv(z) /\ ZombieInv(z)
  <2> SUFFICES ASSUME proc[p].parent # NULL, status = Exit(0)
               PROVE  /\ z.executed \/ z.forked_by = "do_exec_redirect"
                      /\ z.executed /\ z.forked_by = "do_exec_redirect"
                           <=> z.stdout = "outputfile"
    BY <1>3 DEF ProcessInv, ZombieInv, Fresh
  <2>1. p # MAIN /\ ProcessInv(proc[p])
    BY DEF CallsInv
  <2>2. CASE proc[p].pc = "command"
    BY <1>3, <2>1, <2>2 DEF ProcessInv
  <2>3. CASE proc[p].pc = "program"
    BY <1>1, <1>3, <2>1, <2>3 DEF ProcessInv, CallsInv, OneProgram
  <2> QED BY <2>2, <2>3
<1>5. /\ proc[p].parent # NULL => proc'[p] = z
      /\ proc[p].parent = NULL => proc'[p] = NoProcess
      /\ abandoned' = abandoned
  BY <1>2 DEF Ends
<1>6. ASSUME NEW q \in Pids, q # p
      PROVE  IF proc[q].parent = p
             THEN IF proc[q].pc = "zombie" THEN proc'[q] = NoProcess
                  ELSE proc'[q] = [proc[q] EXCEPT !.parent = NULL]
             ELSE proc'[q] = proc[q]
  BY <1>6 DEF Ends
<1>7. ASSUME NEW q \in Pids, q # p, proc[q].parent = p, proc[q].pc # "zombie"
      PROVE  /\ proc'[q] \in Process /\ proc'[q].parent = NULL
             /\ proc'[q].pc = proc[q].pc /\ proc'[q].child = proc[q].child
             /\ proc'[q].forked_by = proc[q].forked_by
             /\ proc'[q].function = proc[q].function
             /\ proc'[q].argument = proc[q].argument
             /\ proc'[q].executed = proc[q].executed
             /\ proc'[q].stdout = proc[q].stdout
  <2>1. proc'[q] = [proc[q] EXCEPT !.parent = NULL]
    BY <1>6, <1>7
  <2> QED BY <1>1, <2>1 DEF Process
<1>8. ASSUME NEW q \in Pids
      PROVE  proc'[q] \in Process /\ ProcessInv(proc'[q]) /\ ZombieInv(proc'[q])
  <2>1. CASE q = p
    BY <1>4, <1>5, <2>1, NoProcessIs
  <2>2. CASE q # p /\ proc[q].parent = p /\ proc[q].pc # "zombie"
    BY <1>7, <2>2 DEF CallsInv, ProcessInv, ZombieInv
  <2>3. CASE q # p /\ proc[q].parent = p /\ proc[q].pc = "zombie"
    BY <1>6, <2>3, NoProcessIs
  <2>4. CASE q # p /\ proc[q].parent # p
    BY <1>1, <1>6, <2>4 DEF CallsInv
  <2> QED BY <2>1, <2>2, <2>3, <2>4
<1>9. proc' \in [Pids -> Process]
  <2>1. proc' = [q \in Pids |-> proc'[q]]
    BY DEF Ends
  <2> QED BY <1>8, <2>1
<1>10. ASSUME NEW q \in Pids
       PROVE  /\ proc'[q].parent # NULL =>
                   /\ proc'[q].parent = proc[q].parent /\ proc[q].parent # p
                   /\ proc'[q] = IF q = p THEN z ELSE proc[q]
              /\ proc[q].parent = NULL => proc'[q].parent = NULL
              /\ proc'[q].pc \in {"program", "waitpid"} =>
                   /\ q # p /\ proc[q].pc = proc'[q].pc
                   /\ proc'[q].child = proc[q].child
                   /\ proc'[q].forked_by = proc[q].forked_by
                   /\ proc'[q].function = proc[q].function
                   /\ proc'[q].argument = proc[q].argument
  <2>1. CASE q = p
    <3>1. proc[p].parent # p
      BY <1>1 DEF CallsInv, ParentInv
    <3> QED BY <1>3, <1>5, <2>1, <3>1, NoProcessIs
  <2>2. CASE q # p /\ proc[q].parent = p /\ proc[q].pc # "zombie"
    BY <1>1, <1>7, <2>2
  <2>3. CASE q # p /\ proc[q].parent = p /\ proc[q].pc = "zombie"
    BY <1>1, <1>6, <2>3, NoProcessIs
  <2>4. CASE q # p /\ proc[q].parent # p
    BY <1>6, <2>4
  <2> QED BY <2>1, <2>2, <2>3, <2>4
<1>11. OneProgram'
  BY <1>10 DEF OneProgram, CallsInv
<1>12. ParentInv'
  <2> SUFFICES ASSUME NEW c \in Pids, proc'[c].parent # NULL
               PROVE  /\ proc'[c].parent # c
                      /\ proc'[proc'[c].parent].pc \in {"program", "waitpid"}
                      /\ \/ /\ proc'[proc'[c].parent].pc = "waitpid"
                            /\ proc'[proc'[c].parent].child = c
                         \/ c \in abandoned'
    BY DEF ParentInv
  <2>1. PICK r \in Pids : r = proc[c].parent /\ r = proc'[c].parent /\ r # p
    BY <1>1, <1>10 DEF Process
  <2>2. /\ r # c /\ proc[r].pc \in {"program", "waitpid"}
        /\ \/ proc[r].pc = "waitpid" /\ proc[r].child = c
           \/ c \in abandoned
    BY <1>1, <2>1 DEF CallsInv, ParentInv
  <2>3. proc'[r].pc = proc[r].pc /\ proc'[r].child = proc[r].child
    <3>1. CASE proc[r].parent = p
      BY <1>7, <2>1, <2>2, <3>1
    <3>2. CASE proc[r].parent # p
      BY <1>6, <2>1, <3>2
    <3> QED BY <3>1, <3>2
  <2> QED BY <1>5, <2>1, <2>2, <2>3
<1>13. WaitInv'
  <2> SUFFICES ASSUME NEW r \in Pids, proc'[r].pc = "waitpid"
               PROVE  /\ proc'[r].child \in Pids
                      /\ proc'[proc'[r].child].parent = r
                      /\ proc'[proc'[r].child].forked_by = proc'[r].function
                      /\ proc'[proc'[r].child].pc \in Fresh
                           \/ proc'[proc'[r].child].executed =>
                           proc'[proc'[r].child].argument = proc'[r].argument
    BY DEF WaitInv
  <2>1. /\ r # p /\ proc[r].pc = "waitpid" /\ proc'[r].child = proc[r].child
        /\ proc'[r].function = proc[r].function
        /\ proc'[r].argument = proc[r].argument
    BY <1>10
  <2>2. PICK c \in Pids :
          /\ c = proc[r].child /\ proc[c].parent = r
          /\ proc[c].forked_by = proc[r].function
          /\ proc[c].pc \in Fresh \/ proc[c].executed =>
               proc[c].argument = proc[r].argument
    BY <2>1 DEF CallsInv, WaitInv
  <2>3. IF c = p THEN proc'[c] = z ELSE proc'[c] = proc[c]
    BY <1>1, <1>5, <1>6, <2>1, <2>2, ZenonT(60)
  <2>4. /\ proc'[c].parent = r /\ proc'[c].forked_by = proc[r].function
        /\ proc'[c].pc \in Fresh \/ proc'[c].executed =>
             proc'[c].argument = proc[r].argument
    BY <1>3, <2>2, <2>3 DEF Fresh
  <2> QED BY <2>1, <2>2, <2>4
<1>14. TypeOK' /\ proc'[MAIN].parent = NULL
  BY <1>1, <1>5, <1>9, <1>10 DEF TypeOK, CallsInv
<1> QED BY <1>8, <1>11, <1>12, <1>13, <1>14 DEF CallsInv

(* waitpid, whether it reaps the child or fails: the program goes on.      *)
LEMMA WaitKeeps ==
  ASSUME CallsInv, NEW p \in Pids, NEW c \in Pids, NEW t \in Process,
         proc[p].pc = "waitpid", c = proc[p].child, NEW result \in BOOLEAN,
         t = Returns(proc[p], result),
         \/ /\ proc[c].pc = "zombie" /\ abandoned' = abandoned
            /\ proc' = [proc EXCEPT ![c] = NoProcess, ![p] = t]
         \/ /\ abandoned' = abandoned \cup {c}
            /\ proc' = [proc EXCEPT ![p] = t]
  PROVE  CallsInv'
<1>1. proc \in [Pids -> Process] /\ abandoned \subseteq Pids /\ MAIN \in Pids
      /\ NULL \notin Pids
  BY SystemCallsAssumption DEF CallsInv, TypeOK
<1>2. /\ t.pc = "program" /\ t.parent = proc[p].parent /\ t.child = NULL
      /\ t.forked_by = proc[p].forked_by /\ t.executed = proc[p].executed
      /\ t.stdout = proc[p].stdout /\ t.argument = proc[p].argument
  BY <1>1 DEF Returns, Process
<1>3. ProcessInv(t) /\ ZombieInv(t) /\ ~t.executed
  BY <1>2 DEF CallsInv, ProcessInv, ZombieInv, Fresh
<1>4. /\ proc[c].parent = p /\ c # p
      /\ \A r \in Pids : proc[r].parent \in Pids \cup {NULL}
  BY <1>1 DEF CallsInv, WaitInv, ParentInv, Process
<1>5. /\ proc' \in [Pids -> Process] /\ proc'[p] = t
      /\ \A r \in Pids \ {p, c} : proc'[r] = proc[r]
      /\ \/ proc'[c] = NoProcess /\ proc[c].pc = "zombie" /\ abandoned' = abandoned
         \/ proc'[c] = proc[c] /\ abandoned' = abandoned \cup {c}
  BY <1>1, <1>4, NoProcessIs
<1>6. /\ TypeOK' /\ proc'[MAIN].parent = NULL
      /\ \A r \in Pids : ProcessInv(proc'[r]) /\ ZombieInv(proc'[r])
  BY <1>1, <1>2, <1>3, <1>5, NoProcessIs DEF CallsInv, TypeOK
<1>7. OneProgram'
  BY <1>2, <1>5, NoProcessIs DEF CallsInv, OneProgram
<1>8. ParentInv'
  <2> SUFFICES ASSUME NEW d \in Pids, proc'[d].parent # NULL
               PROVE  /\ proc'[d].parent # d
                      /\ proc'[proc'[d].parent].pc \in {"program", "waitpid"}
                      /\ \/ /\ proc'[proc'[d].parent].pc = "waitpid"
                            /\ proc'[proc'[d].parent].child = d
                         \/ d \in abandoned'
    BY DEF ParentInv
  <2>1. proc'[d].parent = proc[d].parent
    BY <1>2, <1>5, NoProcessIs
  <2>2. PICK r \in Pids : r = proc[d].parent
    BY <1>4, <2>1
  <2>3. /\ r # d /\ proc[r].pc \in {"program", "waitpid"}
        /\ \/ proc[r].pc = "waitpid" /\ proc[r].child = d
           \/ d \in abandoned
    BY <1>1, <2>2 DEF CallsInv, ParentInv
  <2>4. CASE r = p
    <3>1. d \in abandoned'
      BY <1>5, <2>1, <2>2, <2>3, <2>4, NoProcessIs
    <3> QED BY <1>2, <1>5, <2>1, <2>2, <2>3, <2>4, <3>1
  <2>5. CASE r # p
    <3>1. proc'[r] = proc[r] /\ (d \in abandoned => d \in abandoned')
      BY <1>5, <2>3, <2>5
    <3> QED BY <2>1, <2>2, <2>3, <3>1
  <2> QED BY <2>4, <2>5
<1>9. WaitInv'
  <2> SUFFICES ASSUME NEW r \in Pids, proc'[r].pc = "waitpid"
               PROVE  /\ proc'[r].child \in Pids
                      /\ proc'[proc'[r].child].parent = r
                      /\ proc'[proc'[r].child].forked_by = proc'[r].function
                      /\ proc'[proc'[r].child].pc \in Fresh
                           \/ proc'[proc'[r].child].executed =>
                           proc'[proc'[r].child].argument = proc'[r].argument
    BY DEF WaitInv
  <2>1. r # p /\ proc'[r] = proc[r] /\ proc[r].pc = "waitpid"
    BY <1>2, <1>5, NoProcessIs
  <2>2. PICK d \in Pids :
          /\ d = proc[r].child /\ proc[d].parent = r
          /\ proc[d].forked_by = proc[r].function
          /\ proc[d].pc \in Fresh \/ proc[d].executed =>
               proc[d].argument = proc[r].argument
    BY <2>1 DEF CallsInv, WaitInv
  <2>3. d # c
    BY <1>4, <2>1, <2>2
  <2>4. /\ proc'[d].parent = r /\ proc'[d].forked_by = proc[r].function
        /\ proc'[d].pc \in Fresh \/ proc'[d].executed =>
             proc'[d].argument = proc[r].argument
    BY <1>2, <1>3, <1>5, <2>2, <2>3 DEF Fresh
  <2> QED BY <2>1, <2>2, <2>4
<1> QED BY <1>6, <1>7, <1>8, <1>9 DEF CallsInv

-----------------------------------------------------------------------------
(* The program alone. *)
LEMMA CallsInit == Init => CallsInv
<1> SUFFICES ASSUME Init PROVE CallsInv
  OBVIOUS
<1>1. MAIN \in Pids /\ NULL \notin Pids /\ MaxCalls \in Nat
  BY SystemCallsAssumption
<1>2. PICK m \in Process : m = [NoProcess EXCEPT !.pc = "program"]
  BY NoProcessIs DEF Process
<1>3. /\ m.pc = "program" /\ m.parent = NULL /\ ~m.executed
      /\ m.stdout = "inherited"
  BY <1>2, NoProcessIs DEF NoProcess
<1>4. ProcessInv(m) /\ ZombieInv(m)
  BY <1>3 DEF ProcessInv, ZombieInv, Fresh
<1>5. \A p \in Pids : proc[p] = IF p = MAIN THEN m ELSE NoProcess
  BY <1>2 DEF Init
<1>6. TypeOK
  BY <1>2, NoProcessIs DEF Init, TypeOK
<1>7. \A p \in Pids : proc[p].parent = NULL /\ proc[p].pc # "waitpid"
  BY <1>3, <1>5, NoProcessIs
<1>8. OneProgram
  BY <1>5, NoProcessIs DEF OneProgram
<1> QED BY <1>1, <1>3, <1>4, <1>5, <1>6, <1>7, <1>8, NoProcessIs
        DEF CallsInv, ParentInv, WaitInv

(* The functions called by the program, in it and in its child. *)
LEMMA CallsSteps ==
  ASSUME CallsInv, NEW p \in Pids, fork(p) \/ creat(p) \/ dup2(p) \/ execv(p)
  PROVE  CallsInv'
<1>1. proc \in [Pids -> Process] /\ abandoned \subseteq Pids /\ MAIN \in Pids
      /\ NULL \notin Pids /\ MaxCalls \in Nat
  BY SystemCallsAssumption DEF CallsInv, TypeOK
<1>2. ProcessInv(proc[p]) /\ ZombieInv(proc[p]) /\ proc[p] \in Process
  BY <1>1 DEF CallsInv
<1>3. CASE fork(p)
  <2>1. proc[p].pc = "program" /\ proc[p].argument + 1 \in 0 .. MaxCalls
    <3>1. proc[p].pc = "program" /\ proc[p].argument < MaxCalls
      BY <1>3 DEF fork
    <3>2. proc[p].argument \in 0 .. MaxCalls
      BY <1>2 DEF Process
    <3> QED BY <1>1, <3>1, <3>2
  <2>2. PICK f \in CallKinds :
          LET called == [proc[p] EXCEPT !.function = f, !.argument = @ + 1]
          IN  \/ "fork" \in Faults /\ Becomes(p, Returns(called, FALSE))
              \/ \E q \in Pids \ {MAIN} :
                   /\ proc[q].pc = "none"
                   /\ proc' = [proc EXCEPT
                        ![p] = [called EXCEPT !.pc = "waitpid", !.child = q],
                        ![q] = [called EXCEPT !.parent = p, !.forked_by = f,
                          !.pc = IF f = "do_exec_redirect" THEN "creat" ELSE "execv"]]
                   /\ abandoned' = abandoned \ {q}
    BY <1>3 DEF fork
  <2>3. PICK called \in Process :
          called = [proc[p] EXCEPT !.function = f, !.argument = @ + 1]
    BY <1>2, <2>1 DEF Process
  <2>4. /\ called.pc = "program" /\ called.function = f
        /\ called.parent = proc[p].parent /\ called.forked_by = proc[p].forked_by
        /\ ~called.executed /\ called.stdout = "inherited"
    BY <1>2, <2>1, <2>3 DEF Process, ProcessInv
  <2>5. CASE Becomes(p, Returns(called, FALSE))
    <3>1. PICK t \in Process : t = Returns(called, FALSE)
      BY <2>3, ZenonT(60) DEF Returns, Process
    <3>2. /\ t.pc = "program" /\ t.parent = proc[p].parent
          /\ t.forked_by = proc[p].forked_by /\ ~t.executed
          /\ t.stdout = "inherited"
      BY <2>3, <2>4, <3>1 DEF Returns, Process
    <3>3. ProcessInv(t) /\ ZombieInv(t)
      BY <3>2 DEF ProcessInv, ZombieInv, Fresh
    <3>4. p # MAIN => t.forked_by = "do_exec_redirect"
      BY <2>1, <3>2 DEF CallsInv, OneProgram
    <3>5. proc' = [proc EXCEPT ![p] = t] /\ UNCHANGED abandoned
      BY <2>5, <3>1 DEF Becomes
    <3> QED BY <2>1, <3>2, <3>3, <3>4, <3>5, OneKeeps DEF Fresh
  <2>6. ASSUME NEW q \in Pids \ {MAIN}, proc[q].pc = "none",
               proc' = [proc EXCEPT
                 ![p] = [called EXCEPT !.pc = "waitpid", !.child = q],
                 ![q] = [called EXCEPT !.parent = p, !.forked_by = f,
                   !.pc = IF f = "do_exec_redirect" THEN "creat" ELSE "execv"]],
               abandoned' = abandoned \ {q}
        PROVE  CallsInv'
    <3>1. PICK s \in Process : s = [called EXCEPT !.pc = "waitpid", !.child = q]
      BY <2>3 DEF Process
    <3>2. PICK t \in Process :
            t = [called EXCEPT !.parent = p, !.forked_by = f,
                   !.pc = IF f = "do_exec_redirect" THEN "creat" ELSE "execv"]
      BY <2>3, ZenonT(60) DEF Process
    <3>3. /\ s.pc = "waitpid" /\ s.child = q /\ s.parent = proc[p].parent
          /\ s.forked_by = proc[p].forked_by /\ s.function = f
          /\ ~s.executed /\ s.stdout = "inherited" /\ s.argument = called.argument
      BY <2>3, <2>4, <3>1 DEF Process
    <3>4. /\ t.pc = IF f = "do_exec_redirect" THEN "creat" ELSE "execv"
          /\ t.parent = p /\ t.forked_by = f /\ t.argument = called.argument
          /\ ~t.executed /\ t.stdout = "inherited"
      BY <2>3, <2>4, <3>2 DEF Process
    <3>5. ProcessInv(s) /\ ProcessInv(t) /\ t.pc \in Fresh
      BY <3>3, <3>4 DEF ProcessInv, Fresh
    <3>6. proc' = [proc EXCEPT ![p] = s, ![q] = t]
      BY <2>6, <3>1, <3>2
    <3> QED BY <2>1, <2>6, <3>3, <3>4, <3>5, <3>6, ForkKeeps, ZenonT(60)
  <2> QED BY <2>2, <2>3, <2>5, <2>6
<1>4. ASSUME NEW t \in Process, Becomes(p, t), proc[p].pc \in {"creat", "dup2"},
             t = Returns(proc[p], FALSE)
      PROVE  CallsInv'
  <2>1. /\ t.pc = "program" /\ t.parent = proc[p].parent
        /\ t.forked_by = "do_exec_redirect" /\ ~t.executed
        /\ t.stdout = "inherited" /\ proc[p].forked_by = "do_exec_redirect"
    BY <1>2, <1>4 DEF Returns, Process, ProcessInv, Fresh
  <2>2. ProcessInv(t) /\ ZombieInv(t)
    BY <2>1 DEF ProcessInv, ZombieInv, Fresh
  <2>3. proc' = [proc EXCEPT ![p] = t] /\ UNCHANGED abandoned
    BY <1>4 DEF Becomes
  <2> QED BY <1>4, <2>1, <2>2, <2>3, OneKeeps DEF Fresh
<1>5. proc[p].pc \in {"creat", "dup2"} => Returns(proc[p], FALSE) \in Process
  BY <1>2 DEF Returns, Process
<1>6. CASE creat(p)
  <2>1. PICK t \in Process : t = [proc[p] EXCEPT !.pc = "dup2"]
    BY <1>2 DEF Process
  <2>2. /\ proc[p].pc = "creat" /\ t.pc = "dup2" /\ t.parent = proc[p].parent
        /\ t.forked_by = proc[p].forked_by /\ t.executed = proc[p].executed
        /\ t.stdout = proc[p].stdout /\ t.argument = proc[p].argument
    BY <1>2, <1>6, <2>1 DEF creat, Process
  <2>3. ProcessInv(t) /\ ZombieInv(t)
    BY <1>2, <2>2 DEF ProcessInv, ZombieInv, Fresh
  <2>4. CASE Becomes(p, [proc[p] EXCEPT !.pc = "dup2"])
    <3>1. proc' = [proc EXCEPT ![p] = t] /\ UNCHANGED abandoned
      BY <2>1, <2>4 DEF Becomes
    <3> QED BY <2>2, <2>3, <3>1, OneKeeps DEF Fresh
  <2> QED BY <1>4, <1>5, <1>6, <2>4 DEF creat
<1>7. CASE dup2(p)
  <2>1. PICK t \in Process :
          t = [proc[p] EXCEPT !.pc = "execv", !.stdout = "outputfile"]
    BY <1>2 DEF Process
  <2>2. /\ proc[p].pc = "dup2" /\ t.pc = "execv" /\ t.parent = proc[p].parent
        /\ t.forked_by = proc[p].forked_by /\ t.executed = proc[p].executed
        /\ t.stdout = "outputfile" /\ t.argument = proc[p].argument
    BY <1>2, <1>7, <2>1 DEF dup2, Process
  <2>3. ProcessInv(t) /\ ZombieInv(t)
    BY <1>2, <2>2 DEF ProcessInv, ZombieInv, Fresh
  <2>4. CASE Becomes(p, [proc[p] EXCEPT !.pc = "execv", !.stdout = "outputfile"])
    <3>1. proc' = [proc EXCEPT ![p] = t] /\ UNCHANGED abandoned
      BY <2>1, <2>4 DEF Becomes
    <3> QED BY <2>2, <2>3, <3>1, OneKeeps DEF Fresh
  <2> QED BY <1>4, <1>5, <1>7, <2>4 DEF dup2
<1>8. CASE execv(p)
  <2>1. proc[p].pc = "execv" /\ ~proc[p].executed
    BY <1>2, <1>8 DEF execv, ProcessInv, Fresh
  <2>2. CASE Becomes(p, [proc[p] EXCEPT !.pc = "command", !.executed = TRUE])
    <3>1. PICK t \in Process :
            t = [proc[p] EXCEPT !.pc = "command", !.executed = TRUE]
      BY <1>2 DEF Process
    <3>2. /\ t.pc = "command" /\ t.parent = proc[p].parent
          /\ t.forked_by = proc[p].forked_by /\ t.executed
          /\ t.stdout = proc[p].stdout /\ t.argument = proc[p].argument
      BY <1>2, <3>1 DEF Process
    <3>3. ProcessInv(t) /\ ZombieInv(t)
      BY <1>2, <2>1, <3>2 DEF ProcessInv, ZombieInv, Fresh
    <3>4. proc' = [proc EXCEPT ![p] = t] /\ UNCHANGED abandoned
      BY <2>2, <3>1 DEF Becomes
    <3> QED BY <2>1, <3>2, <3>3, <3>4, OneKeeps DEF Fresh
  <2>3. CASE proc[p].parent = NULL /\ Becomes(p, NoProcess)
    <3>1. proc' = [proc EXCEPT ![p] = NoProcess] /\ UNCHANGED abandoned
      BY <2>3 DEF Becomes
    <3> QED BY <2>1, <2>3, <3>1, NoProcessIs, OneKeeps DEF Fresh
  <2>4. CASE Becomes(p, ExecFailed(proc[p]))
    <3>1. PICK st \in Status :
            /\ st = Exit(IF proc[p].function = "do_system" THEN 127 ELSE -1)
            /\ st # Exit(0)
      BY StatusTypes
    <3>2. PICK t \in Process : t = [proc[p] EXCEPT !.pc = "zombie", !.status = st]
      BY <1>2, <3>1, ZenonT(60) DEF Process
    <3>3. /\ t.pc = "zombie" /\ t.parent = proc[p].parent /\ t.status = st
          /\ t.forked_by = proc[p].forked_by /\ ~t.executed
      BY <1>2, <2>1, <3>2 DEF Process
    <3>4. ProcessInv(t) /\ ZombieInv(t)
      BY <3>1, <3>3 DEF ProcessInv, ZombieInv, Fresh
    <3>5. proc' = [proc EXCEPT ![p] = t] /\ UNCHANGED abandoned
      BY <2>4, <3>1, <3>2 DEF Becomes, ExecFailed
    <3> QED BY <2>1, <3>3, <3>4, <3>5, OneKeeps DEF Fresh
  <2> QED BY <1>8, <2>2, <2>3, <2>4 DEF execv
<1> QED BY <1>3, <1>6, <1>7, <1>8

(* What the program makes of the status is yes or no. *)
LEMMA ResultTypes ==
  ASSUME NEW f, NEW s \in Status
  PROVE  /\ Result(f, s) \in BOOLEAN
         /\ Result(f, s) => s = Exit(0)
BY StatusTypes DEF Result, is_command_successful, Status

(* Every step of every process keeps the invariant. *)
LEMMA CallsInductive == CallsInv /\ [Next]_vars => CallsInv'
<1> SUFFICES ASSUME CallsInv, [Next]_vars PROVE CallsInv'
  OBVIOUS
<1>1. CASE UNCHANGED vars
  BY <1>1 DEF vars, CallsInv, TypeOK, OneProgram, ParentInv, WaitInv
<1>2. ASSUME NEW p \in Pids, Step(p) \/ waitpid_fails(p) \/ kill(p)
      PROVE  CallsInv'
  <2>1. proc \in [Pids -> Process]
    BY DEF CallsInv, TypeOK
  <2>2. proc[p].pc = "waitpid" =>
          \A result \in BOOLEAN : Returns(proc[p], result) \in Process
    BY <2>1, ZenonT(60) DEF Returns, Process
  <2>3. proc[p].pc = "waitpid" => proc[p].child \in Pids
    BY DEF CallsInv, WaitInv
  <2>4. CASE fork(p) \/ creat(p) \/ dup2(p) \/ execv(p)
    BY <2>4, CallsSteps
  <2>5. CASE exit(p)
    <3>1. PICK code \in {0, 1} : Ends(p, Exit(code))
      BY <2>5 DEF exit
    <3>2. Exit(code) \in Status
      BY StatusTypes
    <3>3. Alive(p) /\ proc[p].pc \in {"command", "program"}
      BY <2>5 DEF exit, Alive
    <3> QED BY <3>1, <3>2, <3>3, EndsKeeps
  <2>6. CASE kill(p)
    BY <2>6, StatusTypes, EndsKeeps DEF kill
  <2>7. CASE waitpid(p)
    <3>1. PICK c \in Pids : c = proc[p].child
      BY <2>3, <2>7 DEF waitpid
    <3>2. proc[p].pc = "waitpid" /\ proc[c].pc = "zombie"
      BY <2>7, <3>1 DEF waitpid, Waited
    <3>3. PICK result \in BOOLEAN :
            result = Result(proc[p].function, proc[c].status)
      BY <2>1, ResultTypes DEF Process
    <3>4. PICK t \in Process : t = Returns(proc[p], result)
      BY <2>2, <3>2
    <3>5. abandoned' = abandoned /\ proc' = [proc EXCEPT ![c] = NoProcess, ![p] = t]
      BY <2>1, <2>7, <3>1, <3>2, <3>3, <3>4 DEF waitpid
    <3> QED BY <3>1, <3>2, <3>4, <3>5, WaitKeeps
  <2>8. CASE waitpid_fails(p)
    <3>1. PICK c \in Pids : c = proc[p].child
      BY <2>3, <2>8 DEF waitpid_fails
    <3>2. PICK t \in Process : t = Returns(proc[p], FALSE)
      BY <2>2, <2>8 DEF waitpid_fails
    <3>3. /\ proc[p].pc = "waitpid" /\ abandoned' = abandoned \cup {c}
          /\ proc' = [proc EXCEPT ![p] = t]
      BY <2>8, <3>1, <3>2 DEF waitpid_fails
    <3> QED BY <3>1, <3>2, <3>3, WaitKeeps
  <2> QED BY <1>2, <2>4, <2>5, <2>6, <2>7, <2>8 DEF Step
<1> QED BY <1>1, <1>2 DEF Next

(* CallsInv holds throughout. *)
LEMMA CallsHold == Spec => []CallsInv
BY CallsInit, CallsInductive, PTL DEF Spec

-----------------------------------------------------------------------------
(* Every variable has its type, whatever fails. *)
THEOREM TypeCorrect == Spec => []TypeOK
<1>1. CallsInv => TypeOK
  BY DEF CallsInv
<1> QED BY <1>1, CallsHold, PTL

(* Only do_exec_redirect lets a second copy of the program loose: do_system *)
(* and do_exec never return in the child.                                  *)
THEOREM OnlyRedirectReturns == Spec => []OneProgram
<1>1. CallsInv => OneProgram
  BY DEF CallsInv
<1> QED BY <1>1, CallsHold, PTL

(* No child is left behind, unless waitpid failed. *)
THEOREM NoChildLeft == Spec => []ChildrenReaped
<1>1. CallsInv => ChildrenReaped
  BY SystemCallsAssumption DEF CallsInv, ParentInv, ChildrenReaped
<1> QED BY <1>1, CallsHold, PTL

(* A function that returns true has run its command to a successful end;   *)
(* only the exit code of a copy of the program that do_exec_redirect let   *)
(* loose is mistaken for the command's.                                    *)
THEOREM TrueIsTrue == Spec => TrueMeansDone
<1> DEFINE Done(p) ==
      proc[p].pc = "waitpid" /\ proc'[p].pc = "program" /\ proc'[p].result =>
         LET c == proc[proc[p].child]
         IN  /\ c.pc = "zombie" /\ c.parent = p /\ c.status = Exit(0)
             /\ c.forked_by = proc[p].function
             /\ \/ c.executed /\ c.argument = proc[p].argument
                \/ c.forked_by = "do_exec_redirect" /\ ~c.executed
             /\ c.executed /\ c.forked_by = "do_exec_redirect"
                  <=> c.stdout = "outputfile"
<1>1. CallsInv /\ [Next]_vars => [\A p \in Pids : Done(p)]_vars
  <2> SUFFICES ASSUME CallsInv, Next, NEW p \in Pids,
                      proc[p].pc = "waitpid", proc'[p].pc = "program",
                      proc'[p].result
               PROVE  Done(p)
    BY DEF vars
  <2>1. proc \in [Pids -> Process] /\ NULL \notin Pids
    BY SystemCallsAssumption DEF CallsInv, TypeOK
  <2>2. PICK q \in Pids : Step(q) \/ waitpid_fails(q) \/ kill(q)
    BY DEF Next
  <2>3. ASSUME NEW r \in Pids, NEW t, Becomes(r, t), r # p
        PROVE  FALSE
    BY <2>1, <2>3 DEF Becomes
  <2>4. ASSUME NEW status, Ends(q, status)
        PROVE  FALSE
    <3>1. CASE p = q
      BY <2>4, <3>1 DEF Ends, NoProcess
    <3>2. CASE p # q
      <4>1. proc'[p] \in {proc[p], [proc[p] EXCEPT !.parent = NULL]}
        BY <2>4, <3>2 DEF Ends
      <4>2. proc'[p].pc = proc[p].pc
        BY <2>1, <4>1 DEF Process
      <4> QED BY <4>2
    <3> QED BY <3>1, <3>2
  <2>5. ~(fork(q) \/ creat(q) \/ dup2(q) \/ execv(q))
    <3>1. SUFFICES ASSUME fork(q) \/ creat(q) \/ dup2(q) \/ execv(q) PROVE FALSE
      OBVIOUS
    <3>2. q # p
      BY <3>1 DEF fork, creat, dup2, execv
    <3>3. CASE fork(q)
      <4>1. ASSUME NEW r \in Pids, NEW s, NEW t, proc[r].pc = "none",
                   proc' = [proc EXCEPT ![q] = s, ![r] = t]
            PROVE  FALSE
        BY <2>1, <3>2, <4>1
      <4>2. PICK f \in CallKinds :
              LET called == [proc[q] EXCEPT !.function = f, !.argument = @ + 1]
              IN  \/ "fork" \in Faults /\ Becomes(q, Returns(called, FALSE))
                  \/ \E r \in Pids \ {MAIN} :
                       /\ proc[r].pc = "none"
                       /\ proc' = [proc EXCEPT
                            ![q] = [called EXCEPT !.pc = "waitpid", !.child = r],
                            ![r] = [called EXCEPT !.parent = q, !.forked_by = f,
                              !.pc = IF f = "do_exec_redirect" THEN "creat"
                                                               ELSE "execv"]]
                       /\ abandoned' = abandoned \ {r}
        BY <3>3 DEF fork
      <4>3. PICK called : called = [proc[q] EXCEPT !.function = f, !.argument = @ + 1]
        OBVIOUS
      <4>4. CASE Becomes(q, Returns(called, FALSE))
        BY <2>3, <3>2, <4>4
      <4>5. ASSUME NEW r \in Pids, proc[r].pc = "none",
                   proc' = [proc EXCEPT
                     ![q] = [called EXCEPT !.pc = "waitpid", !.child = r],
                     ![r] = [called EXCEPT !.parent = q, !.forked_by = f,
                       !.pc = IF f = "do_exec_redirect" THEN "creat" ELSE "execv"]]
            PROVE  FALSE
        BY <4>1, <4>5
      <4> QED BY <4>2, <4>3, <4>4, <4>5
    <3> QED BY <2>3, <3>1, <3>2, <3>3 DEF creat, dup2, execv
  <2>6. ~exit(q) /\ ~kill(q)
    BY <2>4 DEF exit, kill
  <2>7. PICK c \in Pids :
          /\ c = proc[p].child /\ proc[c].parent = p
          /\ proc[c].forked_by = proc[p].function
          /\ proc[c].pc \in Fresh \/ proc[c].executed =>
               proc[c].argument = proc[p].argument
    BY DEF CallsInv, WaitInv
  <2>8. ~waitpid_fails(q)
    <3>1. SUFFICES ASSUME waitpid_fails(q) PROVE FALSE
      OBVIOUS
    <3>2. CASE q = p
      BY <2>1, <3>1, <3>2 DEF waitpid_fails, Returns, Process
    <3>3. CASE q # p
      BY <2>1, <3>1, <3>3 DEF waitpid_fails
    <3> QED BY <3>2, <3>3
  <2>9. waitpid(q)
    BY <2>2, <2>5, <2>6, <2>8 DEF Step
  <2>10. q = p
    <3>1. SUFFICES ASSUME q # p PROVE FALSE
      OBVIOUS
    <3>2. p # proc[q].child
      BY <2>9 DEF waitpid, Waited
    <3> QED BY <2>1, <2>9, <3>1, <3>2 DEF waitpid
  <2>11. proc[c].pc = "zombie" /\ c # p
    BY <2>7, <2>9, <2>10 DEF waitpid, Waited
  <2>12. proc[c].status \in Status /\ proc[c].executed \in BOOLEAN
    BY <2>1 DEF Process
  <2>13. proc'[p] = Returns(proc[p], Result(proc[p].function, proc[c].status))
    BY <2>1, <2>7, <2>9, <2>10 DEF waitpid
  <2>14. Result(proc[p].function, proc[c].status)
    BY <2>1, <2>12, <2>13, ResultTypes DEF Returns, Process
  <2>15. proc[c].status = Exit(0)
    BY <2>12, <2>14, ResultTypes
  <2>16. ZombieInv(proc[c])
    BY DEF CallsInv
  <2> QED BY <2>7, <2>11, <2>12, <2>15, <2>16 DEF ZombieInv
<1> QED BY <1>1, CallsHold, PTL DEF Spec, TrueMeansDone
=============================================================================
