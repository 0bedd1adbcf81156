----------------------------- MODULE MCExamples -----------------------------
(* Checks Examples with three threads, and two files that may exist.        *)
EXTENDS Examples

MCWritestr == <<"a", "b">>

(* Old files: two lines with the string, and a line longer than it.        *)
MCOldFiles == {<<"a", "b", "n", "a", "b">>, <<"x", "x", "x">>}

=============================================================================
