---------------------------- MODULE TftpDownload ----------------------------
(***************************************************************************)
(* A download: tftp_client::doDownload against the receive loop of the     *)
(* server (tftp_server::run) and the session threads it starts             *)
(* (work, tftp_server::doReadRequest).                                     *)
(*                                                                         *)
(* One client process makes up to MaxTransfers downloads one after the     *)
(* other on the same socket; the server starts one session per request it  *)
(* receives, so a retransmitted or duplicated request starts a second one. *)
(* A receive that blocks ends in a datagram or in a timeout, and the       *)
(* timeout may come first whatever is in flight.                           *)
(***************************************************************************)
EXTENDS TftpNet, Sequences

VARIABLES
    \* the client process
    status,         \* "ready", "recv" (in the loop), "ok" or "failed"
    calls,          \* downloads started so far
    want,           \* the file named in the request
    file,           \* blocks written to the local file
    lastSent,       \* lastSentPacket, resent after a timeout
    retryCount,
    expectedBlock,  \* unsigned short
    peer,           \* peerAddr, None while hasPeer is false
    \* the server's sessions
    spc,            \* "free", "starting", "recv", "over" or "aborted"
    sfile,          \* the file the session has opened
    nextBlockNum,   \* int: it does not wrap
    finalyBlock,    \* number of the last block once sent, else 0
    repeat,
    lastBlock       \* number of the block held in lastPacket

client == <<status, calls, want, file, lastSent, retryCount,
            expectedBlock, peer>>
server == <<spc, sfile, nextBlockNum, finalyBlock, repeat, lastBlock>>
vars == <<netVars, client, server>>

Init ==
    /\ net = {} /\ dups = 0
    /\ status = "ready" /\ calls = 0
    /\ want = None /\ file = <<>>
    /\ lastSent = ErrorPacket(None)
    /\ retryCount = 0 /\ expectedBlock = 1 /\ peer = None
    /\ spc = [s \in Sessions |-> "free"]
    /\ sfile = [s \in Sessions |-> None]
    /\ nextBlockNum = [s \in Sessions |-> 1]
    /\ finalyBlock = [s \in Sessions |-> 0]
    /\ repeat = [s \in Sessions |-> 0]
    /\ lastBlock = [s \in Sessions |-> 0]

-----------------------------------------------------------------------------
(* The client. *)

\* The local file is truncated before the request leaves; a request that
\* cannot be sent ends the call at once.
StartDownload(f) ==
    /\ status # "recv"
    /\ calls < MaxTransfers
    /\ calls' = calls + 1
    /\ want' = f
    /\ file' = <<>>
    /\ lastSent' = Request(Main, f)
    /\ retryCount' = 0
    /\ expectedBlock' = 1
    /\ peer' = None
    /\ \/ status' = "recv" /\ Send({Request(Main, f)})
       \/ status' = "failed" /\ UNCHANGED netVars
    /\ UNCHANGED server

Target == IF peer = None THEN Main ELSE peer

\* Mutant: retryCount is not incremented.
ClientRetransmitUncounted ==
    /\ status = "recv"
    /\ retryCount < MaxRetry
    /\ Send({Readdressed(lastSent, Target)})
    /\ UNCHANGED <<status, calls, want, file, lastSent, retryCount,
                   expectedBlock, peer, server>>

ClientRetransmit ==
    /\ status = "recv"
    /\ retryCount < MaxRetry
    /\ retryCount' = retryCount + 1
    /\ Send({Readdressed(lastSent, Target)})
    /\ UNCHANGED <<status, calls, want, file, lastSent, expectedBlock, peer,
                   server>>

\* Retries exhausted.
ClientGiveUp ==
    /\ status = "recv"
    /\ retryCount >= MaxRetry
    /\ status' = "failed"
    /\ UNCHANGED <<netVars, calls, want, file, lastSent, retryCount,
                   expectedBlock, peer, server>>

\* recvfrom fails, or the sendto of a retransmission does.
ClientFails ==
    /\ status = "recv"
    /\ status' = "failed"
    /\ \/ retryCount' = retryCount
       \/ retryCount < MaxRetry /\ retryCount' = retryCount + 1
    /\ UNCHANGED <<netVars, calls, want, file, lastSent, expectedBlock, peer,
                   server>>

\* Mutant: the sender's port is not compared with the peer's.
FromAnyone(p) ==
    /\ status = "recv"
    /\ p \in net
    /\ p.op \in {"DATA", "ERROR"}

\* A datagram for the client, from the peer or from anyone if none is locked.
FromPeer(p) ==
    /\ status = "recv"
    /\ p \in net
    /\ p.op \in {"DATA", "ERROR"}
    /\ peer \in {None, p.tid}

RecvStranger(p) ==
    /\ status = "recv"
    /\ p \in net
    /\ p.op \in {"DATA", "ERROR"}
    /\ peer \notin {None, p.tid}
    /\ Deliver(p, {})
    /\ retryCount' = 0
    /\ UNCHANGED <<status, calls, want, file, lastSent, expectedBlock, peer,
                   server>>

PreviousBlock == Wire(expectedBlock + Modulus - 1)

\* What every accepted DATA packet does: lock the peer and acknowledge.
Acknowledge(p) ==
    /\ Deliver(p, {AckPacket(p.tid, p.block)})
    /\ lastSent' = AckPacket(p.tid, p.block)
    /\ peer' = p.tid
    /\ retryCount' = 0
    /\ status' = IF IsLast(p.data) THEN "ok" ELSE "recv"
    /\ UNCHANGED <<calls, want, server>>

RecvExpected(p) ==
    /\ FromPeer(p) /\ p.op = "DATA"
    /\ p.block = expectedBlock
    /\ file' = Append(file, p.data)
    /\ expectedBlock' = Wire(expectedBlock + 1)
    /\ Acknowledge(p)

\* Mutant: the previous block is written again.
RecvPreviousWritten(p) ==
    /\ FromPeer(p) /\ p.op = "DATA"
    /\ p.block = PreviousBlock
    /\ file' = Append(file, p.data)
    /\ Acknowledge(p)
    /\ UNCHANGED expectedBlock

\* Acknowledged again, not written again.
RecvPrevious(p) ==
    /\ FromPeer(p) /\ p.op = "DATA"
    /\ p.block = PreviousBlock
    /\ Acknowledge(p)
    /\ UNCHANGED <<file, expectedBlock>>

\* Any other block is dropped, but its sender is locked as the peer.
RecvOther(p) ==
    /\ FromPeer(p) /\ p.op = "DATA"
    /\ p.block \notin {expectedBlock, PreviousBlock}
    /\ Deliver(p, {})
    /\ peer' = p.tid
    /\ retryCount' = 0
    /\ UNCHANGED <<status, calls, want, file, lastSent, expectedBlock, server>>

\* The write fails, or the sendto of the ACK does once the block is written.
AcceptFails(p) ==
    /\ FromPeer(p) /\ p.op = "DATA"
    /\ p.block \in {expectedBlock, PreviousBlock}
    /\ Deliver(p, {})
    /\ peer' = p.tid
    /\ retryCount' = 0
    /\ \/ file' = file
       \/ p.block = expectedBlock /\ file' = Append(file, p.data)
    /\ status' = "failed"
    /\ UNCHANGED <<calls, want, lastSent, expectedBlock, server>>

RecvError(p) ==
    /\ FromPeer(p) /\ p.op = "ERROR"
    /\ Deliver(p, {})
    /\ peer' = p.tid
    /\ retryCount' = 0
    /\ status' = "failed"
    /\ UNCHANGED <<calls, want, file, lastSent, expectedBlock, server>>

ClientStep ==
    \/ ClientRetransmit \/ ClientGiveUp \/ ClientFails
    \/ \E p \in net :
          \/ RecvStranger(p) \/ RecvExpected(p) \/ RecvPrevious(p)
          \/ RecvOther(p) \/ AcceptFails(p) \/ RecvError(p)

-----------------------------------------------------------------------------
(* The server. *)

\* run(): a socket, a copy of the request and a detached thread.
Accept(s, p) ==
    /\ spc[s] = "free"
    /\ p \in net /\ p.op = "RQ" /\ p.tid = Main
    /\ Deliver(p, {})
    /\ spc' = [spc EXCEPT ![s] = "starting"]
    /\ sfile' = [sfile EXCEPT ![s] = p.file]
    /\ UNCHANGED <<client, nextBlockNum, finalyBlock, repeat, lastBlock>>

\* The state after sending block nextBlockNum, whose size says if it is final.
SentBlock(s) ==
    /\ lastBlock' = [lastBlock EXCEPT ![s] = nextBlockNum[s]]
    /\ finalyBlock' = IF nextBlockNum[s] = FileLen[sfile[s]]
                      THEN [finalyBlock EXCEPT ![s] = nextBlockNum[s]]
                      ELSE finalyBlock
    /\ nextBlockNum' = [nextBlockNum EXCEPT ![s] = @ + 1]

NextPacket(s) == DataPacket(s, sfile[s], nextBlockNum[s])
LastPacket(s) == DataPacket(s, sfile[s], lastBlock[s])

Begin(s) ==
    /\ spc[s] = "starting"
    /\ spc' = [spc EXCEPT ![s] = "recv"]
    /\ Send({NextPacket(s)})
    /\ SentBlock(s)
    /\ UNCHANGED <<client, sfile, repeat>>

\* Mutants: repeat is not tested; repeat is not incremented.
SessionRetransmitForever(s) ==
    /\ spc[s] = "recv"
    /\ repeat' = [repeat EXCEPT ![s] = @ + 1]
    /\ Send({LastPacket(s)})
    /\ UNCHANGED <<client, spc, sfile, nextBlockNum, finalyBlock, lastBlock>>

SessionRetransmitUncounted(s) ==
    /\ spc[s] = "recv"
    /\ repeat[s] <= MaxRepeat
    /\ Send({LastPacket(s)})
    /\ UNCHANGED <<client, spc, sfile, nextBlockNum, finalyBlock, repeat,
                   lastBlock>>

\* A timeout: the test is repeat <= maxRepeat, one resend more than the limit.
SessionRetransmit(s) ==
    /\ spc[s] = "recv"
    /\ repeat[s] <= MaxRepeat
    /\ repeat' = [repeat EXCEPT ![s] = @ + 1]
    /\ Send({LastPacket(s)})
    /\ UNCHANGED <<client, spc, sfile, nextBlockNum, finalyBlock, lastBlock>>

SessionGiveUp(s) ==
    /\ spc[s] = "recv"
    /\ repeat[s] > MaxRepeat
    /\ spc' = [spc EXCEPT ![s] = "aborted"]
    /\ Send({ErrorPacket(s)})
    /\ UNCHANGED <<client, sfile, nextBlockNum, finalyBlock, repeat,
                   lastBlock>>

\* The file cannot be opened or read, or a send or a receive fails.
SessionFails(s) ==
    /\ spc[s] \in {"starting", "recv"}
    /\ spc' = [spc EXCEPT ![s] = "aborted"]
    /\ Send({ErrorPacket(s)})
    /\ UNCHANGED <<client, sfile, nextBlockNum, finalyBlock, repeat,
                   lastBlock>>

RecvAck(s, p) ==
    /\ spc[s] = "recv"
    /\ p \in net /\ p.op = "ACK" /\ p.tid = s
    /\ repeat' = [repeat EXCEPT ![s] = 0]
    /\ UNCHANGED <<client, sfile>>

\* Mutants: once the last block is sent any ACK is the final one; an older ACK
\* makes the session send the next block.
IsAnyAckFinal(s, p) == finalyBlock[s] # 0
IsStaleAckNext(s, p) == finalyBlock[s] = 0 /\ p.block <= nextBlockNum[s] - 1

IsFinalAck(s, p) == finalyBlock[s] # 0 /\ p.block = finalyBlock[s]
IsNextAck(s, p) == finalyBlock[s] = 0 /\ p.block = nextBlockNum[s] - 1

AckFinal(s, p) ==
    /\ RecvAck(s, p)
    /\ IsFinalAck(s, p)
    /\ Deliver(p, {})
    /\ spc' = [spc EXCEPT ![s] = "over"]
    /\ UNCHANGED <<nextBlockNum, finalyBlock, lastBlock>>

AckNext(s, p) ==
    /\ RecvAck(s, p)
    /\ IsNextAck(s, p)
    /\ Deliver(p, {NextPacket(s)})
    /\ SentBlock(s)
    /\ UNCHANGED spc

\* Neither: an earlier block is answered with the last packet, one not yet
\* sent is ignored.
AckOther(s, p) ==
    /\ RecvAck(s, p)
    /\ ~IsFinalAck(s, p) /\ ~IsNextAck(s, p)
    /\ Deliver(p, IF p.block <= nextBlockNum[s] - 1
                  THEN {LastPacket(s)} ELSE {})
    /\ UNCHANGED <<spc, nextBlockNum, finalyBlock, lastBlock>>

\* A request resent to the session's own port: an unexpected opcode, which
\* ends the session without an ERROR packet.
RecvRequest(s, p) ==
    /\ spc[s] = "recv"
    /\ p \in net /\ p.op = "RQ" /\ p.tid = s
    /\ Deliver(p, {})
    /\ repeat' = [repeat EXCEPT ![s] = 0]
    /\ spc' = [spc EXCEPT ![s] = "aborted"]
    /\ UNCHANGED <<client, sfile, nextBlockNum, finalyBlock, lastBlock>>

SessionStep(s) ==
    \/ Begin(s) \/ SessionRetransmit(s) \/ SessionGiveUp(s) \/ SessionFails(s)
    \/ \E p \in net :
          \/ AckFinal(s, p) \/ AckNext(s, p) \/ AckOther(s, p)
          \/ RecvRequest(s, p)

-----------------------------------------------------------------------------
Next ==
    \/ \E f \in Files : StartDownload(f)
    \/ ClientStep
    \/ \E s \in Sessions, p \in net : Accept(s, p)
    \/ \E s \in Sessions : SessionStep(s)

\* Both loops always return from their receive, with a datagram or after the
\* 5 s timeout; nothing is assumed of the network or of the user.
Fairness == WF_vars(ClientStep) /\ \A s \in Sessions : WF_vars(SessionStep(s))

Spec == Init /\ [][Next]_vars
FairSpec == Spec /\ Fairness

-----------------------------------------------------------------------------
(* Properties. *)

SessionStates == {"free", "starting", "recv", "over", "aborted"}

\* The types of the client's and the server's variables; block numbers the
\* client keeps are 16 bits wide, the server's are ints.
TypeOK ==
    /\ net \subseteq Packets
    /\ dups \in 0..MaxDups
    /\ status \in {"ready", "recv", "ok", "failed"}
    /\ calls \in 0..MaxTransfers
    /\ want \in Files \cup {None}
    /\ file \in Seq(Blocks)
    /\ lastSent \in Requests \cup AckPackets \cup {ErrorPacket(None)}
    /\ retryCount \in 0..MaxRetry
    /\ expectedBlock \in WireNumbers
    /\ peer \in Sessions \cup {None}
    /\ spc \in [Sessions -> SessionStates]
    /\ sfile \in [Sessions -> Files \cup {None}]
    /\ nextBlockNum \in [Sessions -> Nat \ {0}]
    /\ finalyBlock \in [Sessions -> Nat]
    /\ repeat \in [Sessions -> 0..(MaxRepeat + 1)]
    /\ lastBlock \in [Sessions -> Nat]

\* What the client has written is the beginning of the file its peer opened,
\* each block once and in order, whatever was resent, duplicated or delayed;
\* and a download that returns 0 has written all of it.
FileIntact ==
    /\ \A k \in 1..Len(file) : file[k] = <<sfile[peer], k>>
    /\ status = "ok" => Len(file) = FileLen[sfile[peer]]

\* Stop and wait: a session is never more than one block ahead of what its
\* client has written, and a session that is not the client's peer never gets
\* past its first block, even when a repeated request started several.
StopAndWait ==
    \A s \in Sessions :
        nextBlockNum[s] <= (IF s = peer THEN Len(file) ELSE 0) + 2

\* A session that prints "file transfer over" has delivered: its client has
\* the whole file and reported success.
OverMeansDelivered ==
    \A s \in Sessions :
        spc[s] = "over" => /\ status = "ok"
                           /\ file = Content(sfile[s])

\* The download implements the abstract transfer: what the user asked for is
\* copied block by block, and success means a whole copy of it.
Abstract == INSTANCE FileTransfer WITH source <- want, copy <- file
ImplementsTransfer == Abstract!Spec

\* doDownload returns.
TransferReturns == status = "recv" ~> status # "recv"

\* A session's detached thread ends, whether its client is still there or not.
SessionsEnd ==
    \A s \in Sessions :
        spc[s] \in {"starting", "recv"} ~> spc[s] \in {"over", "aborted"}

\* A download that reports success has written the file the user asked for
\* (packets of another transfer are kept out by the peer's port).
DownloadedWhatWasAsked == status = "ok" => file = Content(want)

\* The acknowledgement of the block last sent makes the session move on: it
\* ends, or it sends the block after it.
AckedBlockAdvances ==
    [][\A s \in Sessions : \A p \in net :
          (/\ AckFinal(s, p) \/ AckNext(s, p) \/ AckOther(s, p)
           /\ p.block = Wire(lastBlock[s]))
          => spc'[s] = "over" \/ lastBlock'[s] = lastBlock[s] + 1]_vars

=============================================================================
