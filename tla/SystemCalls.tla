---------------------------- MODULE SystemCalls ----------------------------
(***************************************************************************)
(* do_system, do_exec and do_exec_redirect (examples/systemcalls): a       *)
(* program that runs commands one after the other, the processes it forks, *)
(* and what waitpid tells it about them. Any call may fail and any process *)
(* be killed.                                                              *)
(*                                                                         *)
(* A forked child is a copy of the program until it has called execv.      *)
(* When creat or dup2 fails, do_exec_redirect returns in the child, which  *)
(* from then on is a second instance of the calling program.               *)
(***************************************************************************)
EXTENDS Integers, FiniteSets

CONSTANTS
  Pids,      \* process numbers
  MAIN,      \* the program
  NULL,
  Faults,    \* system calls that may fail
  MaxCalls   \* bound: commands one instance of the program runs

ASSUME SystemCallsAssumption ==
  /\ MAIN \in Pids /\ NULL \notin Pids /\ MaxCalls \in Nat
  /\ Faults \subseteq {"fork", "creat", "dup2", "execv", "waitpid"}

VARIABLES
  proc,      \* the process with each number
  abandoned  \* children whose waitpid failed

vars == <<proc, abandoned>>

CallKinds == {"do_system", "do_exec", "do_exec_redirect"}

(* What waitpid stores: how the process ended, and its exit code or signal. *)
Status == [exited : BOOLEAN, code : 0 .. 255]

(* Mutated form of Exit: the code is taken as it was passed. *)
Exit_untruncated(code) == [exited |-> TRUE, code |-> code]

Exit(code) == [exited |-> TRUE, code |-> code % 256]
Killed == [exited |-> FALSE, code |-> 9]

Process ==
  [pc        : {"none", "program", "creat", "dup2", "execv", "command",
                "waitpid", "zombie"},
   function  : CallKinds,             \* the function it called last
   argument  : 0 .. MaxCalls,         \* the command, by number
   result    : BOOLEAN,               \* what that function returned
   forked_by : CallKinds \cup {NULL}, \* the function it was forked in
   executed  : BOOLEAN,               \* execv has replaced the program
   stdout    : {"inherited", "outputfile"},
   parent    : Pids \cup {NULL},
   child     : Pids \cup {NULL},      \* the one waitpid waits for
   status    : Status]

NoProcess ==
  [pc |-> "none", function |-> "do_system", argument |-> 0, result |-> FALSE,
   forked_by |-> NULL, executed |-> FALSE, stdout |-> "inherited",
   parent |-> NULL, child |-> NULL, status |-> Exit(0)]

Alive(p) == proc[p].pc \notin {"none", "zombie"}

-----------------------------------------------------------------------------
(* Mutated forms, each a slip a maintainer could make. *)

(* WEXITSTATUS is used without WIFEXITED: it is 0 after a signal. *)
is_command_successful_any(status) == ~status.exited \/ status.code = 0

(* The exit after a failing execv is missing: the function goes on. *)
ExecFailed_returns(s) == [s EXCEPT !.pc = "program", !.result = FALSE]

(* A failing execv is tried again, for ever. *)
ExecFailed_retries(s) == [s EXCEPT !.pc = "dup2"]

(* The child is not waited for. *)
Waited_not(c) == TRUE

-----------------------------------------------------------------------------
Init ==
  /\ proc = [p \in Pids |-> IF p = MAIN THEN [NoProcess EXCEPT !.pc = "program"]
                                        ELSE NoProcess]
  /\ abandoned = {}

(* The function returns to the program. *)
Returns(s, result) ==
  [s EXCEPT !.pc = "program", !.result = result, !.child = NULL]

Becomes(p, new) == proc' = [proc EXCEPT ![p] = new] /\ UNCHANGED abandoned

(* The program calls a function, which forks: the child is a copy of it.   *)
fork(p) ==
  /\ proc[p].pc = "program" /\ proc[p].argument < MaxCalls
  /\ \E f \in CallKinds :
       LET called == [proc[p] EXCEPT !.function = f, !.argument = @ + 1]
       IN  \/ "fork" \in Faults /\ Becomes(p, Returns(called, FALSE))
           \/ \E q \in Pids \ {MAIN} :
                /\ proc[q].pc = "none"
                /\ proc' = [proc EXCEPT
                     ![p] = [called EXCEPT !.pc = "waitpid", !.child = q],
                     ![q] = [called EXCEPT !.parent = p, !.forked_by = f,
                       !.pc = IF f = "do_exec_redirect" THEN "creat" ELSE "execv"]]
                /\ abandoned' = abandoned \ {q}

(* do_exec_redirect in the child: return false when a call fails. *)
creat(p) ==
  /\ proc[p].pc = "creat"
  /\ \/ Becomes(p, [proc[p] EXCEPT !.pc = "dup2"])
     \/ "creat" \in Faults /\ Becomes(p, Returns(proc[p], FALSE))

dup2(p) ==
  /\ proc[p].pc = "dup2"
  /\ \/ Becomes(p, [proc[p] EXCEPT !.pc = "execv", !.stdout = "outputfile"])
     \/ "dup2" \in Faults /\ Becomes(p, Returns(proc[p], FALSE))

(* A process ends. Its own children lose their parent; it remains as a     *)
(* zombie for the parent that has not waited for it yet.                   *)
Ends(p, status) ==
  /\ proc' = [q \in Pids |->
       CASE q = p /\ proc[p].parent # NULL ->
              [proc[p] EXCEPT !.pc = "zombie", !.child = NULL, !.status = status]
         [] q = p /\ proc[p].parent = NULL -> NoProcess
         [] q # p /\ proc[q].parent = p ->
              IF proc[q].pc = "zombie" THEN NoProcess
                                       ELSE [proc[q] EXCEPT !.parent = NULL]
         [] OTHER -> proc[q]]
  /\ UNCHANGED abandoned

(* exit(-1); in do_system the shell's 127. *)
ExecFailed(s) ==
  [s EXCEPT !.pc = "zombie",
            !.status = Exit(IF s.function = "do_system" THEN 127 ELSE -1)]

execv(p) ==
  /\ proc[p].pc = "execv"
  /\ \/ Becomes(p, [proc[p] EXCEPT !.pc = "command", !.executed = TRUE])
     \/ /\ "execv" \in Faults
        /\ Becomes(p, IF proc[p].parent = NULL THEN NoProcess
                                               ELSE ExecFailed(proc[p]))

(* A command, or an instance of the program between two calls, ends. *)
exit(p) ==
  /\ proc[p].pc \in {"command", "program"}
  /\ \E code \in {0, 1} : Ends(p, Exit(code))

(* A signal ends it. *)
kill(p) == Alive(p) /\ Ends(p, Killed)

is_command_successful(status) == status.exited /\ status.code = 0

(* do_system compares all of the status with 0. *)
Result(function, status) ==
  IF function = "do_system" THEN status = Exit(0) ELSE is_command_successful(status)

(* waitpid returns once the child has ended. *)
Waited(c) == proc[c].pc = "zombie"

waitpid(p) ==
  LET c == proc[p].child
  IN  /\ proc[p].pc = "waitpid"
      /\ Waited(c)
      /\ proc' = [proc EXCEPT ![c] = IF proc[c].pc = "zombie" THEN NoProcess ELSE @,
           ![p] = Returns(proc[p], Result(proc[p].function, proc[c].status))]
      /\ UNCHANGED abandoned

waitpid_fails(p) ==
  /\ proc[p].pc = "waitpid" /\ "waitpid" \in Faults
  /\ proc' = [proc EXCEPT ![p] = Returns(proc[p], FALSE)]
  /\ abandoned' = abandoned \cup {proc[p].child}

-----------------------------------------------------------------------------
Step(p) ==
  fork(p) \/ creat(p) \/ dup2(p) \/ execv(p) \/ exit(p) \/ waitpid(p)

Next == \E p \in Pids : Step(p) \/ waitpid_fails(p) \/ kill(p)

Spec == Init /\ [][Next]_vars

(* Processes are scheduled, and commands and programs come to an end.      *)
Fairness == \A p \in Pids : WF_vars(Step(p))

-----------------------------------------------------------------------------
(* Every variable has its type. *)
TypeOK == proc \in [Pids -> Process] /\ abandoned \subseteq Pids

(* A function that returns true has waited for the child it forked, and    *)
(* that child was the command, with its output where it was asked for, and *)
(* exited with 0. The one exception is a child in which do_exec_redirect   *)
(* itself returned: its exit code is that of another program.              *)
TrueMeansDone ==
  [][\A p \in Pids :
       proc[p].pc = "waitpid" /\ proc'[p].pc = "program" /\ proc'[p].result =>
         LET c == proc[proc[p].child]
         IN  /\ c.pc = "zombie" /\ c.parent = p /\ c.status = Exit(0)
             /\ c.forked_by = proc[p].function
             /\ \/ c.executed /\ c.argument = proc[p].argument
                \/ c.forked_by = "do_exec_redirect" /\ ~c.executed
             /\ c.executed /\ c.forked_by = "do_exec_redirect"
                  <=> c.stdout = "outputfile"]_vars

(* do_system and do_exec never return in the child: a process other than   *)
(* MAIN that is back in the program's code is a copy do_exec_redirect has  *)
(* let go.                                                                 *)
OneProgram ==
  \A p \in Pids \ {MAIN} :
    proc[p].pc \in {"program", "waitpid"} => proc[p].forked_by = "do_exec_redirect"

(* No child is left behind: between two calls, every process the program   *)
(* has forked has been waited for, unless waitpid failed.                  *)
ChildrenReaped ==
  \A p, c \in Pids :
    proc[c].pc # "none" /\ proc[c].parent = p =>
      \/ proc[p].pc = "waitpid" /\ proc[p].child = c
      \/ c \in abandoned

(* No call waits in vain: the child it waits for ends, a copy of the       *)
(* program that makes calls of its own included.                           *)
WaitsEnd ==
  \A p \in Pids : proc[p].pc = "waitpid" ~> proc[p].pc # "waitpid"

=============================================================================
