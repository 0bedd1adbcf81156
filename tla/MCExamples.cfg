SPECIFICATION FairExamples
CONSTANTS
  Threads = {t1, t2, t3}
  ThreadFaults = {"pthread_create"}
  NUMFILES = 2
  WRITESTR <- MCWritestr
  NEWLINE = "n"
  OldFiles <- MCOldFiles
  FinderFaults = {"rm", "cat", "mkdir", "open", "write", "grep", "redirect"}
  MAIN = MAIN
  NULL = NULL
  Pids = {MAIN, p1, p2, p3}
  Faults = {"fork", "creat", "dup2", "execv", "waitpid"}
  MaxCalls = 2
CHECK_DEADLOCK FALSE
INVARIANTS
  TypeOK
  OneProgram
  ChildrenReaped
  DataOwned
  SuccessIsEarned
PROPERTIES
  TrueMeansDone
  WaitsEnd
  ThreadsReturn
