---------------------------- MODULE FileTransfer ----------------------------
(***************************************************************************)
(* What a TFTP transfer promises its user, with no network and no packets: *)
(* the copy grows by the next block of the file that was asked for, and a  *)
(* transfer that reports success has copied all of it.  It may fail at any *)
(* time and then leaves a prefix, to which blocks under way may be added.  *)
(***************************************************************************)
EXTENDS Naturals, Sequences

CONSTANTS Files, FileLen, None

VARIABLES source, copy, status

vars == <<source, copy, status>>

Whole(f) == [k \in 1..FileLen[f] |-> <<f, k>>]

Init ==
    /\ source = None
    /\ copy = <<>>
    /\ status = "ready"

Start ==
    /\ status # "recv"
    /\ source' \in Files
    /\ copy' = <<>>
    /\ status' \in {"recv", "failed"}

CopyBlock ==
    /\ status \in {"recv", "failed"}
    /\ Len(copy) < FileLen[source]
    /\ copy' = Append(copy, <<source, Len(copy) + 1>>)
    /\ \/ status' \in {status, "failed"}
       \/ status = "recv" /\ copy' = Whole(source) /\ status' = "ok"
    /\ UNCHANGED source

Finish ==
    /\ status = "recv"
    /\ copy = Whole(source)
    /\ status' = "ok"
    /\ UNCHANGED <<source, copy>>

Fail ==
    /\ status = "recv"
    /\ status' = "failed"
    /\ UNCHANGED <<source, copy>>

Next == Start \/ CopyBlock \/ Finish \/ Fail

Spec == Init /\ [][Next]_vars

=============================================================================
