----------------------------- MODULE FinderApp -----------------------------
(***************************************************************************)
(* The finder application: finder-test.sh empties a directory, has writer  *)
(* (writer.c) put a string into NUMFILES files, has finder.sh count the    *)
(* files and lines that contain it, and compares the counts. The shell     *)
(* runs with "set -e" up to the comparison: a command that fails ends it.  *)
(* A file is a sequence of characters; the directory may hold files        *)
(* already. The string is one that grep takes literally (letters, digits   *)
(* and underscores as in AELD_IS_FUN), on a single line.                   *)
(***************************************************************************)
EXTENDS Integers, Sequences, FiniteSets

CONSTANTS
  NUMFILES,
  WRITESTR,     \* the string
  NEWLINE,
  ABSENT,       \* no such file or directory
  OldFiles,     \* what a file may hold before the script runs
  Faults        \* what may fail: "rm", "cat", "mkdir", "open", "write",
                \* "grep", and the "redirect" into the result file

VARIABLES
  assignment1,  \* conf/assignment.txt says so, or nothing: no directory is made
  pc,       \* the command the script is at
  i,        \* its loop variable
  dir,      \* the files in WRITEDIR, or ABSENT
  written,  \* the files that were given the whole string
  output,   \* what finder.sh printed: numbers of files and of lines
  status,   \* exit status of the script
  failed    \* history: a command, or a call it made, has failed

vars == <<assignment1, pc, i, dir, written, output, status, failed>>

Files == 1 .. NUMFILES

-----------------------------------------------------------------------------
(* write(fd, data, n) at the start of a file that is not truncated. *)
Overwrite(old, n) == SubSeq(WRITESTR, 1, n) \o SubSeq(old, n + 1, Len(old))

(* Mutated form of Emptied: the script trusts mkdir -p. *)
Emptied_kept(d) == d

(* What main of writer returns when n characters were written. *)
ExitCode(n) == IF n = Len(WRITESTR) THEN 0 ELSE 255

(* The outcomes of writer for a file: it cannot be opened, or is opened,   *)
(* created if need be, and written in whole, in part or not at all.        *)
writer(file) ==
  LET old     == IF file = ABSENT THEN <<>> ELSE file
      lengths == IF "write" \in Faults THEN 0 .. Len(WRITESTR)
                                       ELSE {Len(WRITESTR)}
  IN  {[code |-> 255, file |-> file, n |-> 0] : f \in Faults \cap {"open"}}
      \cup {[code |-> ExitCode(n), file |-> Overwrite(old, n), n |-> n] :
              n \in lengths}

(* grep: the lines of a file, by number, that contain the string. *)
Matches(file) ==
  {Cardinality({j \in 1 .. k : file[j] = NEWLINE}) :
     k \in {k \in 1 .. Len(file) - Len(WRITESTR) + 1 :
              SubSeq(file, k, k + Len(WRITESTR) - 1) = WRITESTR}}

(* The matching lines of the whole directory. A file grep cannot read is   *)
(* passed over: the exit status of the pipeline is that of wc.             *)
MatchingLines(d, unread) ==
  UNION {{f} \X Matches(d[f]) : f \in {f \in Files \ unread : d[f] # ABSENT}}

Unreadable == IF "grep" \in Faults THEN SUBSET Files ELSE {{}}

(* The digits of n begin with those of m. *)
BeginsWith(n, m) ==
  \E p \in 1 .. n : /\ p = 1 \/ \E k \in 1 .. n : p = 10 ^ k
                    /\ m * p <= n /\ n < (m + 1) * p

(* grep "${MATCHSTR}": nothing follows the second number in the pattern.   *)
Expected(counts) == counts[1] = NUMFILES /\ BeginsWith(counts[2], NUMFILES)

-----------------------------------------------------------------------------
Init ==
  /\ assignment1 \in BOOLEAN /\ pc = "rm" /\ i = 1
  /\ written = {} /\ output = <<0, 0>> /\ status = 0 /\ failed = FALSE
  /\ dir \in {ABSENT} \cup [Files -> OldFiles \cup {ABSENT}]

Exits(code) == pc' = "exited" /\ status' = code

(* set -e. Of the code of a failing command only that it is not 0 counts. *)
Fails(code) == Exits(code) /\ failed' = TRUE

Succeeds(next) == pc' = next /\ UNCHANGED <<status, failed>>

(* rm -rf "${WRITEDIR}" *)
Emptied(d) == ABSENT

(* What a failing rm -rf leaves of an existing directory. *)
PartlyEmptied(d) ==
  {[f \in Files |-> IF f \in gone THEN ABSENT ELSE d[f]] : gone \in SUBSET Files}

rm ==
  /\ pc = "rm"
  /\ \/ dir' = Emptied(dir) /\ Succeeds("mkdir")
     \/ /\ "rm" \in Faults /\ dir # ABSENT
        /\ dir' \in PartlyEmptied(dir) /\ Fails(1)
  /\ UNCHANGED <<assignment1, i, written, output>>

(* cat assignment.txt, and mkdir -p, which leaves a directory that exists  *)
(* alone.                                                                  *)
mkdir ==
  /\ pc = "mkdir"
  /\ \/ /\ dir' = IF assignment1 \/ dir # ABSENT THEN dir
                  ELSE [f \in Files |-> ABSENT]
        /\ Succeeds("writer")
     \/ /\ \/ "cat" \in Faults
           \/ ~assignment1 /\ dir = ABSENT /\ "mkdir" \in Faults
        /\ Fails(1) /\ UNCHANGED dir
  /\ UNCHANGED <<assignment1, i, written, output>>

(* One iteration of the loop; without the directory writer cannot open.    *)
run_writer ==
  /\ pc = "writer" /\ i \in Files
  /\ \/ dir = ABSENT /\ Fails(255) /\ UNCHANGED <<i, dir, written>>
     \/ /\ dir # ABSENT
        /\ \E run \in writer(dir[i]) :
             /\ dir' = [dir EXCEPT ![i] = run.file]
             /\ written' = IF run.n = Len(WRITESTR) THEN written \cup {i} ELSE written
             /\ IF run.code = 0 THEN i' = i + 1 /\ Succeeds("writer")
                                ELSE Fails(run.code) /\ UNCHANGED i
  /\ UNCHANGED <<assignment1, output>>

(* OUTPUTSTRING=$(finder.sh ...): finder.sh fails without a directory. It  *)
(* runs grep twice, and a file may be unreadable to either.                *)
run_finder ==
  /\ pc = "writer" /\ i > NUMFILES
  /\ IF dir = ABSENT
       THEN Fails(1) /\ UNCHANGED output
       ELSE /\ \E u1, u2 \in Unreadable :
                 /\ output' = <<Cardinality({l[1] : l \in MatchingLines(dir, u1)}),
                                Cardinality(MatchingLines(dir, u2))>>
                 /\ failed' = (u1 \cup u2 # {})
            /\ pc' = "save" /\ UNCHANGED status
  /\ UNCHANGED <<assignment1, i, dir, written>>

(* echo ${OUTPUTSTRING} > /tmp/assignment4-result.txt *)
save ==
  /\ pc = "save"
  /\ \/ Succeeds("cleanup")
     \/ "redirect" \in Faults /\ Fails(1)
  /\ UNCHANGED <<assignment1, i, dir, written, output>>

(* rm -rf /tmp/aeld-data, which is WRITEDIR or the directory it is in. *)
cleanup ==
  /\ pc = "cleanup"
  /\ \/ dir' = ABSENT /\ Succeeds("compare")
     \/ "rm" \in Faults /\ dir' \in {ABSENT} \cup PartlyEmptied(dir) /\ Fails(1)
  /\ UNCHANGED <<assignment1, i, written, output>>

(* set +e, and what finder.sh printed decides. *)
compare ==
  /\ pc = "compare"
  /\ Exits(IF Expected(output) THEN 0 ELSE 1)
  /\ UNCHANGED <<assignment1, i, dir, written, output, failed>>

Next == rm \/ mkdir \/ run_writer \/ run_finder \/ save \/ cleanup \/ compare

Spec == Init /\ [][Next]_vars

-----------------------------------------------------------------------------
(* The script reports success exactly when nothing it did has failed:      *)
(* neither a short write, which writer turns into an exit code, nor a grep *)
(* that passed over a file, which shows in the counts alone, is taken for  *)
(* a success, and the comparison rejects no run without a failure. Success *)
(* means that every file was written; and although writer does not         *)
(* truncate, finder.sh has searched files that held the string and nothing *)
(* else, whatever was in the directory before.                             *)
SuccessIsEarned ==
  /\ pc = "exited" => (status = 0 <=> ~failed)
  /\ pc = "exited" /\ status = 0 => written = Files
  /\ pc = "save" => \A f \in Files : dir[f] = WRITESTR

=============================================================================
