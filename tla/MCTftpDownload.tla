--------------------------- MODULE MCTftpDownload ---------------------------
(* Instances of TftpDownload for TLC. *)
EXTENDS TftpDownload

CONSTANTS f1, f2

\* Two blocks: the first is not the last, the last ends the transfer.
LenTwo == [f \in Files |-> 2]

LenThree == [f \in Files |-> 3]

\* Longer than the block numbers can count.
LenWrap == [f \in Files |-> 4]

\* One transfer is as long as the other or one block shorter.
LenTwoFiles == [f \in Files |-> IF f = f1 THEN 1 ELSE 2]

=============================================================================
