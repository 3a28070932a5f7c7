----------------------------- MODULE TftpUpload -----------------------------
(***************************************************************************)
(* An upload: tftp_client::doUpload against the receive loop of the server *)
(* (tftp_server::run) and the session threads it starts (work,             *)
(* tftp_server::doWriteRequest).                                           *)
(*                                                                         *)
(* Every session opens the named file for itself, truncates it and writes  *)
(* at its own offset, through an ofstream that buffers what it is given:   *)
(* the sessions a repeated request starts share the file on disk and       *)
(* nothing else.  A file is stored under the name it has on the client.    *)
(* The disk may refuse what a stream writes out: file.write tells, in      *)
(* file.bad(), and file.close() is never asked.  The disk is kept in whole *)
(* blocks: one that a failure has cut counts as not written.               *)
(***************************************************************************)
EXTENDS TftpNet, Sequences

CONSTANT
    Multiples       \* files of n * 512 bytes: their last block is empty

ASSUME MultiplesAssumption == Multiples \subseteq Files

VARIABLES
    \* the client process
    status,         \* "ready", "recv" (in the loop), "ok" or "failed"
    calls,          \* uploads started so far
    want,           \* the file being uploaded
    read,           \* blocks read from it
    lastSent,       \* lastSentPacket, resent after a timeout
    retryCount,
    nextBlock,      \* unsigned short
    waitingFinalAck,
    finalBlock,     \* unsigned short
    peer,           \* peerAddr, None while hasPeer is false
    removed,        \* local files the client has deleted
    \* the server's sessions
    spc,            \* "free", "starting", "recv", "closing", "over", "aborted"
    sfile,          \* the file the session writes
    expectBlock,    \* uint16_t
    repeat,
    lastAck,        \* block number acknowledged in lastPacket
    wrote,          \* blocks the session has given to its ofstream
    flushed,        \* how many of them have been written out to the disk
    disk            \* content of each stored file, by position

client == <<status, calls, want, read, lastSent, retryCount, nextBlock,
            waitingFinalAck, finalBlock, peer, removed>>
streams == <<wrote, flushed, disk>>
server == <<spc, sfile, expectBlock, repeat, lastAck, streams>>
vars == <<netVars, client, server>>

Init ==
    /\ net = {} /\ dups = 0
    /\ status = "ready" /\ calls = 0
    /\ want = None /\ read = 0
    /\ lastSent = ErrorPacket(None)
    /\ retryCount = 0 /\ nextBlock = 1 /\ peer = None
    /\ waitingFinalAck = FALSE /\ finalBlock = 0
    /\ removed = {}
    /\ spc = [s \in Sessions |-> "free"]
    /\ sfile = [s \in Sessions |-> None]
    /\ expectBlock = [s \in Sessions |-> 0]
    /\ repeat = [s \in Sessions |-> 0]
    /\ lastAck = [s \in Sessions |-> 0]
    /\ wrote = [s \in Sessions |-> <<>>]
    /\ flushed = [s \in Sessions |-> 0]
    /\ disk = [f \in Files |-> <<>>]

-----------------------------------------------------------------------------
(* The client. *)

StartUpload(f) ==
    /\ status # "recv"
    /\ calls < MaxTransfers
    /\ f \notin removed
    /\ calls' = calls + 1
    /\ want' = f
    /\ read' = 0
    /\ lastSent' = Request(Main, f)
    /\ retryCount' = 0
    /\ nextBlock' = 1
    /\ waitingFinalAck' = FALSE
    /\ finalBlock' = 0
    /\ peer' = None
    /\ \/ status' = "recv" /\ Send({Request(Main, f)})
       \/ status' = "failed" /\ UNCHANGED netVars
    /\ UNCHANGED <<removed, server>>

Target == IF peer = None THEN Main ELSE peer

\* Mutant: retryCount is not incremented.
ClientRetransmitUncounted ==
    /\ status = "recv"
    /\ retryCount < MaxRetry
    /\ Send({Readdressed(lastSent, Target)})
    /\ UNCHANGED <<status, calls, want, read, lastSent, retryCount, nextBlock,
                   waitingFinalAck, finalBlock, peer, removed, server>>

ClientRetransmit ==
    /\ status = "recv"
    /\ retryCount < MaxRetry
    /\ retryCount' = retryCount + 1
    /\ Send({Readdressed(lastSent, Target)})
    /\ UNCHANGED <<status, calls, want, read, lastSent, nextBlock,
                   waitingFinalAck, finalBlock, peer, removed, server>>

\* Retries exhausted, or a recvfrom or a sendto that fails.
ClientGiveUp ==
    /\ status = "recv"
    /\ status' = "failed"
    /\ UNCHANGED <<netVars, calls, want, read, lastSent, retryCount,
                   nextBlock, waitingFinalAck, finalBlock, peer, removed,
                   server>>

\* Mutant: the sender's port is not compared with the peer's.
FromAnyone(p) ==
    /\ status = "recv"
    /\ p \in net
    /\ p.op \in {"ACK", "ERROR"}
    /\ peer' = p.tid
    /\ retryCount' = 0
    /\ UNCHANGED <<calls, want, server>>

\* A datagram for the client, from the peer or from anyone if none is locked;
\* it becomes the peer.
FromPeer(p) ==
    /\ status = "recv"
    /\ p \in net
    /\ p.op \in {"ACK", "ERROR"}
    /\ peer \in {None, p.tid}
    /\ peer' = p.tid
    /\ retryCount' = 0
    /\ UNCHANGED <<calls, want, server>>

RecvStranger(p) ==
    /\ status = "recv"
    /\ p \in net
    /\ p.op \in {"ACK", "ERROR"}
    /\ peer \notin {None, p.tid}
    /\ Deliver(p, {})
    /\ retryCount' = 0
    /\ UNCHANGED <<status, calls, want, read, lastSent, nextBlock,
                   waitingFinalAck, finalBlock, peer, removed, server>>

AwaitedAck == IF waitingFinalAck THEN finalBlock
                                 ELSE Wire(nextBlock + Modulus - 1)

\* Mutant: any ACK ends the upload once the last block is sent.
RecvAnyFinalAck(p) ==
    /\ FromPeer(p) /\ p.op = "ACK"
    /\ waitingFinalAck
    /\ Deliver(p, {})
    /\ status' = "ok"
    /\ UNCHANGED <<read, lastSent, nextBlock, waitingFinalAck, finalBlock,
                   removed>>

RecvFinalAck(p) ==
    /\ FromPeer(p) /\ p.op = "ACK"
    /\ waitingFinalAck
    /\ p.block = AwaitedAck
    /\ Deliver(p, {})
    /\ status' = "ok"
    /\ UNCHANGED <<read, lastSent, nextBlock, waitingFinalAck, finalBlock,
                   removed>>

\* The next block is read and sent; a short one is the last.
RecvNextAck(p) ==
    /\ FromPeer(p) /\ p.op = "ACK"
    /\ ~ waitingFinalAck
    /\ p.block = AwaitedAck
    /\ LET d == [op |-> "DATA", tid |-> p.tid, block |-> nextBlock,
                 data |-> <<want, read + 1>>]
       IN  /\ Deliver(p, {d})
           /\ lastSent' = d
           /\ waitingFinalAck' = IsLast(d.data)
           /\ finalBlock' = IF IsLast(d.data) THEN nextBlock ELSE finalBlock
    /\ read' = read + 1
    /\ nextBlock' = Wire(nextBlock + 1)
    /\ UNCHANGED <<status, removed>>

\* An older ACK is answered with the last packet, a newer one is dropped.
RecvOtherAck(p) ==
    /\ FromPeer(p) /\ p.op = "ACK"
    /\ p.block # AwaitedAck
    /\ Deliver(p, IF p.block < AwaitedAck
                  THEN {Readdressed(lastSent, p.tid)} ELSE {})
    /\ UNCHANGED <<status, read, lastSent, nextBlock, waitingFinalAck,
                   finalBlock, removed>>

\* The file that was being read, the user's own copy, is deleted.
RecvError(p) ==
    /\ FromPeer(p) /\ p.op = "ERROR"
    /\ Deliver(p, {})
    /\ status' = "failed"
    /\ removed' = removed \cup {want}
    /\ UNCHANGED <<read, lastSent, nextBlock, waitingFinalAck, finalBlock>>

ClientStep ==
    \/ ClientRetransmit \/ ClientGiveUp
    \/ \E p \in net :
          \/ RecvStranger(p) \/ RecvFinalAck(p) \/ RecvNextAck(p)
          \/ RecvOtherAck(p) \/ RecvError(p)

-----------------------------------------------------------------------------
(* The server. *)

\* run(): a socket, a copy of the request and a detached thread.
Accept(s, p) ==
    /\ spc[s] = "free"
    /\ p \in net /\ p.op = "RQ" /\ p.tid = Main
    /\ Deliver(p, {})
    /\ spc' = [spc EXCEPT ![s] = "starting"]
    /\ sfile' = [sfile EXCEPT ![s] = p.file]
    /\ UNCHANGED <<client, expectBlock, repeat, lastAck, streams>>

\* A hole: a position before the session's offset in a file another session
\* has truncated since.
Hole == <<None, 0>>

\* The stored file once blocks from+1..Len(blks) of a stream are written to it.
Overwritten(stored, blks, from) ==
    LET n == IF Len(stored) > Len(blks) \/ from = Len(blks)
             THEN Len(stored) ELSE Len(blks)
    IN  [k \in 1..n |-> IF k > from /\ k <= Len(blks) THEN blks[k]
                        ELSE IF k <= Len(stored) THEN stored[k]
                        ELSE Hole]

\* The ofstream of s writes out what it has not yet written of blks.
Flush(s, blks) ==
    /\ disk' = [disk EXCEPT ![sfile[s]] = Overwritten(@, blks, flushed[s])]
    /\ flushed' = [flushed EXCEPT ![s] = Len(blks)]

\* file.close() on the stream of s, which has been given blks: they are written
\* out, or, when the disk fails, the first n of them, and nobody is told.
CloseStream(s, blks) ==
    \E n \in flushed[s]..Len(blks) : Flush(s, SubSeq(blks, 1, n))

\* file.write fails and the stream is closed.  The write has stopped after n
\* blocks; the stream still holds all of its buffer, and the close writes it
\* again from there, as far as block m.
CloseBadStream(s) ==
    \E n, m \in flushed[s]..Len(wrote[s]) :
        LET out == SubSeq(wrote[s], 1, n) \o SubSeq(wrote[s], flushed[s] + 1, m)
        IN  /\ disk' = [disk EXCEPT ![sfile[s]] = Overwritten(@, out, flushed[s])]
            /\ flushed' = [flushed EXCEPT ![s] = n]

Truncate(s) == disk' = [disk EXCEPT ![sfile[s]] = <<>>]

Begin(s) ==
    /\ spc[s] = "starting"
    /\ spc' = [spc EXCEPT ![s] = "recv"]
    /\ Truncate(s)
    /\ Send({AckPacket(s, 0)})
    /\ lastAck' = [lastAck EXCEPT ![s] = 0]
    /\ expectBlock' = [expectBlock EXCEPT ![s] = 1]
    /\ UNCHANGED <<client, sfile, repeat, wrote, flushed>>

\* The file cannot be opened, or the first ACK cannot be sent once it is.
BeginFails(s) ==
    /\ spc[s] = "starting"
    /\ spc' = [spc EXCEPT ![s] = "aborted"]
    /\ Truncate(s) \/ UNCHANGED disk
    /\ Send({ErrorPacket(s)})
    /\ UNCHANGED <<client, sfile, expectBlock, repeat, lastAck, wrote, flushed>>

\* Mutants: repeat is not tested; repeat is not incremented.
SessionRetransmitForever(s) ==
    /\ spc[s] = "recv"
    /\ repeat' = [repeat EXCEPT ![s] = @ + 1]
    /\ Send({AckPacket(s, lastAck[s])})
    /\ UNCHANGED <<client, spc, sfile, expectBlock, lastAck, streams>>

SessionRetransmitUncounted(s) ==
    /\ spc[s] = "recv"
    /\ repeat[s] <= MaxRepeat
    /\ Send({AckPacket(s, lastAck[s])})
    /\ UNCHANGED <<client, spc, sfile, expectBlock, repeat, lastAck, streams>>

\* A timeout: the test is repeat <= maxRepeat, and nothing ever resets repeat.
SessionRetransmit(s) ==
    /\ spc[s] = "recv"
    /\ repeat[s] <= MaxRepeat
    /\ repeat' = [repeat EXCEPT ![s] = @ + 1]
    /\ Send({AckPacket(s, lastAck[s])})
    /\ UNCHANGED <<client, spc, sfile, expectBlock, lastAck, streams>>

\* Timeouts exhausted, a receive or a send that fails, or the request resent to
\* the session's own port: the file is closed and an ERROR is sent.
SessionAborts(s) ==
    /\ spc[s] = "recv"
    /\ spc' = [spc EXCEPT ![s] = "aborted"]
    /\ CloseStream(s, wrote[s])
    /\ Send({ErrorPacket(s)})
    /\ UNCHANGED <<client, sfile, expectBlock, repeat, lastAck, wrote>>

\* A datagram of 4 bytes, header and no data, is not looked at.
IsShort(p) == IsLast(p.data) /\ p.data[1] \in Multiples

DataFor(s, p) ==
    /\ spc[s] = "recv"
    /\ p \in net /\ p.op = "DATA" /\ p.tid = s
    /\ UNCHANGED <<client, sfile, repeat>>

RecvShort(s, p) ==
    /\ DataFor(s, p)
    /\ IsShort(p)
    /\ Deliver(p, {})
    /\ UNCHANGED <<spc, expectBlock, lastAck, streams>>

\* Mutant: the loop ends on the short block before writing it.
RecvExpectedLastDropped(s, p) ==
    /\ DataFor(s, p)
    /\ ~ IsShort(p)
    /\ p.block = expectBlock[s]
    /\ wrote' = IF IsLast(p.data)
                THEN wrote ELSE [wrote EXCEPT ![s] = Append(@, p.data)]
    /\ Flush(s, wrote'[s]) \/ UNCHANGED <<flushed, disk>>
    /\ Deliver(p, {AckPacket(s, p.block)})
    /\ IF IsLast(p.data)
       THEN /\ spc' = [spc EXCEPT ![s] = "closing"]
            /\ UNCHANGED <<expectBlock, lastAck>>
       ELSE /\ lastAck' = [lastAck EXCEPT ![s] = p.block]
            /\ expectBlock' = [expectBlock EXCEPT ![s] = Wire(@ + 1)]
            /\ UNCHANGED spc

\* The block is written, to the stream's buffer or through it to the disk, and
\* acknowledged; the last one ends the loop before lastPacket is updated.
RecvExpected(s, p) ==
    /\ DataFor(s, p)
    /\ ~ IsShort(p)
    /\ p.block = expectBlock[s]
    /\ wrote' = [wrote EXCEPT ![s] = Append(@, p.data)]
    /\ Flush(s, wrote'[s]) \/ UNCHANGED <<flushed, disk>>
    /\ Deliver(p, {AckPacket(s, p.block)})
    /\ IF IsLast(p.data)
       THEN /\ spc' = [spc EXCEPT ![s] = "closing"]
            /\ UNCHANGED <<expectBlock, lastAck>>
       ELSE /\ lastAck' = [lastAck EXCEPT ![s] = p.block]
            /\ expectBlock' = [expectBlock EXCEPT ![s] = Wire(@ + 1)]
            /\ UNCHANGED spc

\* file.write fails, or the send of the ACK does once the block is written; the
\* stream is closed.
ExpectedFails(s, p) ==
    /\ DataFor(s, p)
    /\ ~ IsShort(p)
    /\ p.block = expectBlock[s]
    /\ \/ /\ wrote' = [wrote EXCEPT ![s] = Append(@, p.data)]
          /\ CloseStream(s, wrote'[s])
       \/ UNCHANGED wrote /\ CloseBadStream(s)
    /\ spc' = [spc EXCEPT ![s] = "aborted"]
    /\ Deliver(p, {ErrorPacket(s)})
    /\ UNCHANGED <<expectBlock, lastAck>>

\* Mutant: a block received again is written again.
RecvOtherWritten(s, p) ==
    /\ DataFor(s, p)
    /\ ~ IsShort(p)
    /\ p.block < expectBlock[s]
    /\ wrote' = [wrote EXCEPT ![s] = Append(@, p.data)]
    /\ Deliver(p, {AckPacket(s, p.block)})
    /\ UNCHANGED <<spc, flushed, disk, expectBlock, lastAck>>

\* A smaller number is acknowledged again and not written; a greater one ends
\* the session with an ERROR.
RecvOther(s, p) ==
    /\ DataFor(s, p)
    /\ ~ IsShort(p)
    /\ p.block # expectBlock[s]
    /\ IF p.block < expectBlock[s]
       THEN /\ Deliver(p, {AckPacket(s, p.block)})
            /\ UNCHANGED <<spc, flushed, disk>>
       ELSE /\ Deliver(p, {ErrorPacket(s)})
            /\ spc' = [spc EXCEPT ![s] = "aborted"]
            /\ CloseStream(s, wrote[s])
    /\ UNCHANGED <<expectBlock, lastAck, wrote>>

\* file.close() comes after the final ACK was sent, and the session ends
\* normally whatever became of it.
Close(s) ==
    /\ spc[s] = "closing"
    /\ spc' = [spc EXCEPT ![s] = "over"]
    /\ CloseStream(s, wrote[s])
    /\ UNCHANGED <<netVars, client, sfile, expectBlock, repeat, lastAck, wrote>>

SessionStep(s) ==
    \/ Begin(s) \/ BeginFails(s) \/ SessionRetransmit(s) \/ SessionAborts(s)
    \/ Close(s)
    \/ \E p \in net :
          \/ RecvShort(s, p) \/ RecvExpected(s, p) \/ ExpectedFails(s, p)
          \/ RecvOther(s, p)

-----------------------------------------------------------------------------
Next ==
    \/ \E f \in Files : StartUpload(f)
    \/ ClientStep
    \/ \E s \in Sessions, p \in net : Accept(s, p)
    \/ \E s \in Sessions : SessionStep(s)

\* Both loops always return from their receive, with a datagram or after the
\* 5 s timeout; nothing is assumed of the network or of the user.
Fairness == WF_vars(ClientStep) /\ \A s \in Sessions : WF_vars(SessionStep(s))

Spec == Init /\ [][Next]_vars
FairSpec == Spec /\ Fairness

-----------------------------------------------------------------------------
(* Properties. *)

SessionStates == {"free", "starting", "recv", "closing", "over", "aborted"}

\* The types of the client's and the server's variables; block numbers are 16
\* bits wide on both sides.
TypeOK ==
    /\ net \subseteq Packets
    /\ dups \in 0..MaxDups
    /\ status \in {"ready", "recv", "ok", "failed"}
    /\ calls \in 0..MaxTransfers
    /\ want \in Files \cup {None}
    /\ read \in Nat
    /\ lastSent \in Requests \cup DataPackets \cup {ErrorPacket(None)}
    /\ retryCount \in 0..MaxRetry
    /\ nextBlock \in WireNumbers
    /\ waitingFinalAck \in BOOLEAN
    /\ finalBlock \in WireNumbers
    /\ peer \in Sessions \cup {None}
    /\ removed \subseteq Files
    /\ spc \in [Sessions -> SessionStates]
    /\ sfile \in [Sessions -> Files \cup {None}]
    /\ expectBlock \in [Sessions -> WireNumbers]
    /\ repeat \in [Sessions -> 0..(MaxRepeat + 1)]
    /\ lastAck \in [Sessions -> WireNumbers]
    /\ wrote \in [Sessions -> Seq(Blocks)]
    /\ flushed \in [Sessions -> Nat]
    /\ disk \in [Files -> Seq(Blocks \cup {Hole})]

\* A session writes the blocks of its file once each and in order, whatever is
\* resent, duplicated or delayed.
SessionIntact ==
    \A s \in Sessions : \A k \in 1..Len(wrote[s]) :
        wrote[s][k] = <<sfile[s], k>>

\* An upload that returns 0 was received whole by the session it talked to,
\* which has left its loop for good.
OkMeansReceived ==
    status = "ok" => /\ wrote[peer] = Content(want)
                     /\ spc[peer] \in {"closing", "over"}

\* Under a name that no other session has opened, the disk holds a beginning of
\* the client's file, as much as the session has written out, with no block
\* twice, missing or out of place, until an error ends the session; and all of
\* it once the session has ended normally, unless its close failed (line 467).
StoredUnlessShared ==
    \A s \in Sessions :
        /\ spc[s] \in {"recv", "closing", "over"}
        /\ \A t \in Sessions \ {s} : sfile[t] # sfile[s]
        => /\ disk[sfile[s]] = SubSeq(Content(sfile[s]), 1, flushed[s])
           /\ spc[s] = "over" /\ flushed[s] = Len(wrote[s])
              => disk[sfile[s]] = Content(sfile[s])

\* The upload implements the abstract transfer: the copy is what the session
\* the client talks to has received.
Received == IF peer = None THEN <<>> ELSE wrote[peer]
Abstract == INSTANCE FileTransfer WITH source <- want, copy <- Received
ImplementsTransfer == Abstract!Spec

\* doUpload returns.
UploadReturns == status = "recv" ~> status # "recv"

\* A session's detached thread ends, whether its client is still there or not.
SessionsEnd ==
    \A s \in Sessions :
        spc[s] = "starting" ~> spc[s] \in {"over", "aborted"}

\* When the client has printed that the upload is complete, the server has
\* nothing left to do and the disk has taken all that was written to it, the
\* file is on the server's disk.
UploadStored ==
    /\ status = "ok"
    /\ \A s \in Sessions : /\ spc[s] \notin {"starting", "recv", "closing"}
                           /\ flushed[s] = Len(wrote[s])
    => disk[want] = Content(want)

=============================================================================
