---------------------------- MODULE MCTftpUpload ----------------------------
(* Instances of TftpUpload for TLC. *)
EXTENDS TftpUpload

CONSTANTS f1, f2

LenTwo == [f \in Files |-> 2]

=============================================================================
