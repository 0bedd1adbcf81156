---------------------------- MODULE MCAesdSocket ----------------------------
(* AesdSocket on small instances. *)
EXTENDS AesdSocket, TLC

CONSTANTS c1, c2

(* One message shorter than the buffer, one longer. *)
ShortAndLong == c1 :> 1 @@ c2 :> 3

(* One message longer than the buffer, one that can arrive in two pieces. *)
LongAndFull == c1 :> 3 @@ c2 :> 2

BothShort == c1 :> 1 @@ c2 :> 1

(* One client with a message longer than the buffer. *)
OneLong == c1 :> 3

=============================================================================
