------------------------------ MODULE Examples ------------------------------
(***************************************************************************)
(* The small programs of the repository side by side: the systemcalls and  *)
(* threading examples and the finder application. They share nothing: a    *)
(* behaviour is one of a single program, chosen at the start.              *)
(***************************************************************************)
EXTENDS SystemCalls, Sequences

CONSTANTS
  Threads, ThreadFaults,                           \* Threading
  NUMFILES, WRITESTR, NEWLINE, OldFiles, FinderFaults   \* FinderApp

(* finder-test.sh is run with at least one file and a string that is not   *)
(* empty and has no newline. A missing file or directory is told from one  *)
(* that exists.                                                            *)
ASSUME FinderAssumption ==
  /\ NUMFILES \in Nat \ {0}
  /\ WRITESTR \in Seq({WRITESTR[k] : k \in DOMAIN WRITESTR})
  /\ WRITESTR # <<>> /\ WRITESTR # NULL
  /\ \A k \in DOMAIN WRITESTR : WRITESTR[k] # NEWLINE
  /\ NULL \notin [1 .. NUMFILES -> {WRITESTR, NULL}]

VARIABLES
  program,                                       \* the one that runs
  starter, thread, thread_data, mutex, joined,   \* Threading
  assignment1, script, i, dir, written, output, status, failed   \* FinderApp

Thr == INSTANCE Threading WITH NONE <- NULL, Faults <- ThreadFaults

Fin == INSTANCE FinderApp WITH
         pc <- script, ABSENT <- NULL, Faults <- FinderFaults

thr_vars == <<starter, thread, thread_data, mutex, joined>>
fin_vars == <<assignment1, script, i, dir, written, output, status, failed>>
examples_vars == <<program, vars, thr_vars, fin_vars>>

ExamplesInit ==
  /\ program \in {"systemcalls", "threading", "finder"}
  /\ Init /\ Thr!Init /\ Fin!Init
  /\ program # "finder" => dir = NULL /\ ~assignment1

ExamplesNext ==
  /\ \/ program = "systemcalls" /\ Next /\ UNCHANGED <<thr_vars, fin_vars>>
     \/ program = "threading" /\ Thr!Next /\ UNCHANGED <<vars, fin_vars>>
     \/ program = "finder" /\ Fin!Next /\ UNCHANGED <<vars, thr_vars>>
  /\ UNCHANGED program

ExamplesSpec == ExamplesInit /\ [][ExamplesNext]_examples_vars

FairExamples == /\ ExamplesSpec
                /\ program = "systemcalls" => Fairness
                /\ program = "threading" => Thr!Fairness

(* The thread_data of start_thread_obtaining_mutex lives as long as it is  *)
(* used.                                                                   *)
DataOwned == Thr!DataOwned

(* A thread start_thread_obtaining_mutex has started is joined in the end. *)
ThreadsReturn == program = "threading" => Thr!ThreadsReturn

(* finder-test.sh reports success exactly when nothing failed, and then    *)
(* all files were written.                                                 *)
SuccessIsEarned == Fin!SuccessIsEarned

=============================================================================
