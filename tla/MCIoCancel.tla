----------------------------- MODULE MCIoCancel ------------------------------
(* The instance of IoCancel for TLC. *)
EXTENDS IoCancel

CONSTANT s1

OneStack == {s1}
AllKinds == {"plain", "close", "timed", "linked"}
=============================================================================
