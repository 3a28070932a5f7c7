-------------------------- MODULE TftpUploadProofs --------------------------
(***************************************************************************)
(* Proofs about TftpUpload, for any number of files, sessions, retries and *)
(* duplicates.                                                             *)
(***************************************************************************)
EXTENDS TftpUpload, TftpNetProofs, SequenceTheorems, TLAPS

-----------------------------------------------------------------------------
(* Type correctness, with what it needs to know of the sessions and of the *)
(* client's place in its file.                                             *)

\* A session has a file once it is accepted, and has written nothing before it
\* has opened it.
ServerInv ==
    \A s \in Sessions :
        /\ spc[s] = "free" <=> sfile[s] = None
        /\ spc[s] \in {"free", "starting"} => wrote[s] = <<>>
        /\ flushed[s] <= Len(wrote[s])

\* A client in its loop has not read past the end of its file, and resends a
\* request or, once it has a peer, a block.
SenderInv ==
    status = "recv" =>
        /\ want \in Files
        /\ read <= FileLen[want]
        /\ waitingFinalAck <=> read = FileLen[want]
        /\ \/ lastSent \in Requests
           \/ lastSent \in DataPackets /\ peer # None

TypeInv == TypeOK /\ ServerInv /\ SenderInv

LEMMA TypeInit == Init => TypeInv
<1> SUFFICES ASSUME Init PROVE TypeInv
  OBVIOUS
<1>1. TypeOK
  <2>1. 0 \in WireNumbers /\ 1 \in WireNumbers /\ 0 \in 0..MaxDups
        /\ 0 \in 0..MaxTransfers /\ 0 \in 0..MaxRetry /\ 0 \in 0..(MaxRepeat + 1)
    BY NetAssumption DEF WireNumbers
  <2>2. /\ spc \in [Sessions -> SessionStates] /\ sfile \in [Sessions -> Files \cup {None}]
        /\ expectBlock \in [Sessions -> WireNumbers]
        /\ lastAck \in [Sessions -> WireNumbers]
        /\ repeat \in [Sessions -> 0..(MaxRepeat + 1)]
        /\ wrote \in [Sessions -> Seq(Blocks)] /\ flushed \in [Sessions -> Nat]
        /\ disk \in [Files -> Seq(Blocks \cup {Hole})]
    BY <2>1 DEF Init, SessionStates
  <2> QED
    BY <2>1, <2>2 DEF Init, TypeOK
<1>2. ServerInv /\ SenderInv
  BY NetAssumption DEF Init, ServerInv, SenderInv
<1> QED
  BY <1>1, <1>2 DEF TypeInv

LEMMA OverwrittenType ==
    ASSUME NEW stored \in Seq(Blocks \cup {Hole}), NEW blks \in Seq(Blocks),
           NEW from \in Nat, from <= Len(blks)
    PROVE  /\ Overwritten(stored, blks, from) \in Seq(Blocks \cup {Hole})
           /\ Len(stored) = from =>
                 /\ Len(Overwritten(stored, blks, from)) = Len(blks)
                 /\ \A k \in 1..Len(blks) :
                       Overwritten(stored, blks, from)[k] =
                           IF k <= from THEN stored[k] ELSE blks[k]
<1> DEFINE n == IF Len(stored) > Len(blks) \/ from = Len(blks)
                THEN Len(stored) ELSE Len(blks)
           at(k) == IF k > from /\ k <= Len(blks) THEN blks[k]
                    ELSE IF k <= Len(stored) THEN stored[k]
                    ELSE Hole
<1>1. n \in Nat /\ Len(stored) \in Nat /\ Len(blks) \in Nat
  OBVIOUS
<1>2. \A k \in 1..n : at(k) \in Blocks \cup {Hole}
  BY <1>1
<1>3. Overwritten(stored, blks, from) = [k \in 1..n |-> at(k)]
  BY DEF Overwritten
<1> HIDE DEF n, at
<1>4. [k \in 1..n |-> at(k)] \in Seq(Blocks \cup {Hole})
      /\ Len([k \in 1..n |-> at(k)]) = n
  BY <1>1, <1>2
<1>5. ASSUME Len(stored) = from
      PROVE  /\ n = Len(blks)
             /\ \A k \in 1..Len(blks) : at(k) = IF k <= from THEN stored[k] ELSE blks[k]
  BY <1>1, <1>5 DEF n, at
<1> QED
  BY <1>3, <1>4, <1>5

LEMMA FlushTypes ==
    ASSUME TypeOK, NEW s \in Sessions, sfile[s] \in Files,
           NEW blks \in Seq(Blocks), flushed[s] <= Len(blks), Flush(s, blks)
    PROVE  /\ disk' = [disk EXCEPT ![sfile[s]] =
                           Overwritten(disk[sfile[s]], blks, flushed[s])]
           /\ disk' \in [Files -> Seq(Blocks \cup {Hole})]
           /\ flushed' = [flushed EXCEPT ![s] = Len(blks)]
           /\ flushed' \in [Sessions -> Nat]
<1>1. /\ disk \in [Files -> Seq(Blocks \cup {Hole})] /\ flushed \in [Sessions -> Nat]
      /\ disk[sfile[s]] \in Seq(Blocks \cup {Hole}) /\ flushed[s] \in Nat
      /\ Len(blks) \in Nat
  BY DEF TypeOK
<1>2. Overwritten(disk[sfile[s]], blks, flushed[s]) \in Seq(Blocks \cup {Hole})
  BY <1>1, OverwrittenType
<1>3. /\ disk' = [disk EXCEPT ![sfile[s]] =
                      Overwritten(disk[sfile[s]], blks, flushed[s])]
      /\ flushed' = [flushed EXCEPT ![s] = Len(blks)]
  BY DEF Flush
<1> QED
  BY <1>1, <1>2, <1>3

LEMMA SubSeqType ==
    ASSUME NEW blks \in Seq(Blocks), NEW m \in Nat, NEW n \in Nat, m >= 1, n <= Len(blks)
    PROVE  SubSeq(blks, m, n) \in Seq(Blocks)
<1>1. \A k \in m..n : blks[k] \in Blocks
  OBVIOUS
<1> QED
  BY <1>1, SubSeqProperties

LEMMA PrefixType ==
    ASSUME NEW blks \in Seq(Blocks), NEW n \in Nat, n <= Len(blks)
    PROVE  /\ SubSeq(blks, 1, n) \in Seq(Blocks)
           /\ Len(SubSeq(blks, 1, n)) = n
           /\ \A k \in 1..n : SubSeq(blks, 1, n)[k] = blks[k]
<1>1. \A k \in 1..n : blks[k] \in Blocks
  OBVIOUS
<1>2. SubSeq(blks, 1, n) \in Seq(Blocks)
  BY <1>1, SubSeqProperties
<1> QED
  BY <1>2

\* However a stream writes out and however far it gets, what is on the disk is
\* blocks and holes, and no more has been written out than was given.
LEMMA WriteOutTypes ==
    ASSUME TypeOK, NEW s \in Sessions, sfile[s] \in Files,
           NEW blks \in Seq(Blocks), flushed[s] <= Len(wrote[s]),
           Len(wrote[s]) <= Len(blks),
           Flush(s, blks) \/ CloseStream(s, blks) \/ CloseBadStream(s)
    PROVE  /\ disk' \in [Files -> Seq(Blocks \cup {Hole})]
           /\ \E n \in flushed[s]..Len(blks) : flushed' = [flushed EXCEPT ![s] = n]
<1>1. /\ disk \in [Files -> Seq(Blocks \cup {Hole})] /\ flushed[s] \in Nat
      /\ disk[sfile[s]] \in Seq(Blocks \cup {Hole})
      /\ wrote[s] \in Seq(Blocks) /\ Len(wrote[s]) \in Nat /\ Len(blks) \in Nat
      /\ flushed[s] <= Len(blks)
  BY DEF TypeOK
<1>2. CASE Flush(s, blks)
  BY <1>1, <1>2, FlushTypes
<1>3. CASE CloseStream(s, blks)
  <2>1. PICK n \in flushed[s]..Len(blks) : Flush(s, SubSeq(blks, 1, n))
    BY <1>3 DEF CloseStream
  <2>2. n \in Nat /\ n <= Len(blks) /\ flushed[s] <= n
    BY <1>1, <2>1
  <2>3. PICK part \in Seq(Blocks) : part = SubSeq(blks, 1, n) /\ Len(part) = n
    BY <2>2, PrefixType
  <2> QED
    BY <2>1, <2>2, <2>3, FlushTypes
<1>4. CASE CloseBadStream(s)
  <2>1. PICK n, m \in flushed[s]..Len(wrote[s]) :
            /\ disk' = [disk EXCEPT ![sfile[s]] =
                   Overwritten(@, SubSeq(wrote[s], 1, n)
                                  \o SubSeq(wrote[s], flushed[s] + 1, m), flushed[s])]
            /\ flushed' = [flushed EXCEPT ![s] = n]
    BY <1>4 DEF CloseBadStream
  <2>2. n \in Nat /\ m \in Nat /\ n <= Len(wrote[s]) /\ m <= Len(wrote[s])
        /\ flushed[s] <= n /\ flushed[s] + 1 \in Nat /\ flushed[s] + 1 >= 1
        /\ n \in flushed[s]..Len(blks)
    BY <1>1, <2>1
  <2>3. PICK one \in Seq(Blocks) : one = SubSeq(wrote[s], 1, n) /\ Len(one) = n
    BY <1>1, <2>2, PrefixType
  <2>4. PICK two \in Seq(Blocks) : two = SubSeq(wrote[s], flushed[s] + 1, m)
    <3>1. PICK a \in Nat : a = flushed[s] + 1 /\ a >= 1
      BY <2>2
    <3> QED
      <4>1. PICK given \in Seq(Blocks) : given = wrote[s] /\ m <= Len(given)
        BY <1>1, <2>2
      <4>2. m \in Nat
        BY <2>2
      <4>3. SubSeq(given, a, m) \in Seq(Blocks)
        BY <3>1, <4>1, <4>2, SubSeqType
      <4> QED
        BY <3>1, <4>1, <4>3
  <2>5. one \o two \in Seq(Blocks) /\ flushed[s] <= Len(one \o two)
    BY <1>1, <2>2, <2>3
  <2>6. Overwritten(disk[sfile[s]], one \o two, flushed[s]) \in Seq(Blocks \cup {Hole})
    BY <1>1, <2>5, OverwrittenType
  <2> QED
    BY <1>1, <2>1, <2>2, <2>3, <2>4, <2>6
<1> QED
  BY <1>2, <1>3, <1>4

LEMMA TargetIsPort == TypeOK => Target \in Sessions \cup {Main}
BY DEF TypeOK, Target

LEMMA ReaddressedType ==
    ASSUME NEW to \in Sessions \cup {Main},
           NEW p \in Requests \cup DataPackets, p \in Requests \/ to \in Sessions
    PROVE  /\ Readdressed(p, to) \in Packets
           /\ Readdressed(p, to).op = p.op /\ Readdressed(p, to).tid = to
           /\ p.op = "RQ" => Readdressed(p, to).file = p.file
           /\ p.op = "DATA" => Readdressed(p, to).data = p.data
                               /\ Readdressed(p, to).block = p.block
<1>1. CASE p \in Requests
  BY <1>1 DEF Readdressed, Requests, Packets
<1>2. CASE p \in DataPackets
  BY <1>2, NetAssumption DEF Readdressed, DataPackets, Requests, Packets
<1> QED
  BY <1>1, <1>2

\* Steps of the client keep the types, when they send packets and keep their
\* own variables' types.
LEMMA ClientKeepsTypes ==
    ASSUME TypeInv, UNCHANGED server,
           net' \subseteq Packets, dups' \in 0..MaxDups,
           status' \in {"recv", "ok", "failed"}, calls' \in 0..MaxTransfers,
           want' \in Files \cup {None}, read' \in Nat,
           lastSent' \in Requests \cup DataPackets \cup {ErrorPacket(None)},
           retryCount' \in 0..MaxRetry, nextBlock' \in WireNumbers,
           waitingFinalAck' \in BOOLEAN, finalBlock' \in WireNumbers,
           peer' \in Sessions \cup {None}, removed' \subseteq Files, SenderInv'
    PROVE  TypeInv'
<1>1. TypeOK'
  BY DEF TypeInv, TypeOK, server, streams
<1>2. ServerInv'
  BY DEF TypeInv, ServerInv, server, streams
<1> QED
  BY <1>1, <1>2 DEF TypeInv

LEMMA StartKeepsTypes ==
    ASSUME TypeInv, NEW f \in Files, StartUpload(f)
    PROVE  TypeInv'
<1>1. Request(Main, f) \in Requests /\ Request(Main, f) \in Packets
  BY DEF Request, Requests, Packets
<1>2. net' \subseteq Packets /\ dups' \in 0..MaxDups
  BY <1>1, NetGrows DEF StartUpload, netVars, TypeInv, TypeOK
<1>3. SenderInv'
  <2>1. FileLen[f] \in Nat \ {0}
    BY NetAssumption
  <2> QED
    BY <1>1, <2>1 DEF StartUpload, SenderInv
<1>4. 0 \in WireNumbers /\ 1 \in WireNumbers /\ 0 \in 0..MaxRetry
      /\ calls' \in 0..MaxTransfers
  BY NetAssumption DEF WireNumbers, StartUpload, TypeInv, TypeOK
<1>5. /\ status' \in {"recv", "failed"} /\ want' = f /\ read' = 0
      /\ lastSent' = Request(Main, f) /\ retryCount' = 0 /\ nextBlock' = 1
      /\ waitingFinalAck' = FALSE /\ finalBlock' = 0 /\ peer' = None
      /\ removed' = removed /\ UNCHANGED server
  BY DEF StartUpload
<1>6. removed \subseteq Files
  BY DEF TypeInv, TypeOK
<1> QED
  BY <1>1, <1>2, <1>3, <1>4, <1>5, <1>6, ClientKeepsTypes

\* A retransmission: the request to anyone, a block to the peer.
LEMMA ResentType ==
    ASSUME TypeInv, status = "recv", NEW to \in Sessions \cup {Main},
           to = Target \/ to \in Sessions
    PROVE  /\ lastSent \in Requests \cup DataPackets
           /\ lastSent \in Requests \/ to \in Sessions
           /\ Readdressed(lastSent, to) \in Packets
<1>1. lastSent \in Requests \cup DataPackets /\ (lastSent \in Requests \/ peer # None)
  BY DEF TypeInv, SenderInv
<1>2. lastSent \in Requests \/ to \in Sessions
  BY <1>1 DEF Target, TypeInv, TypeOK
<1> QED
  BY <1>1, <1>2, ReaddressedType

LEMMA ClientRetransmitKeepsTypes ==
    ASSUME TypeInv, ClientRetransmit
    PROVE  TypeInv'
<1>1. Readdressed(lastSent, Target) \in Packets
  BY TargetIsPort, ResentType DEF ClientRetransmit, TypeInv
<1>2. net' \subseteq Packets /\ dups' \in 0..MaxDups
  BY <1>1, NetGrows DEF ClientRetransmit, TypeInv, TypeOK
<1>3. /\ UNCHANGED <<status, calls, want, read, lastSent, nextBlock,
                     waitingFinalAck, finalBlock, peer, removed, server>>
      /\ retryCount' \in 0..MaxRetry /\ status = "recv"
  BY NetAssumption DEF ClientRetransmit, TypeInv, TypeOK
<1>4. SenderInv'
  BY <1>3 DEF TypeInv, SenderInv
<1> QED
  BY <1>2, <1>3, <1>4, ClientKeepsTypes DEF TypeInv, TypeOK

LEMMA ClientRecvKeepsTypes ==
    ASSUME TypeInv, NEW p \in net,
           RecvStranger(p) \/ RecvFinalAck(p) \/ RecvOtherAck(p) \/ RecvError(p)
    PROVE  TypeInv'
<1>1. /\ status = "recv" /\ retryCount' = 0
      /\ UNCHANGED <<calls, want, read, lastSent, nextBlock, waitingFinalAck,
                     finalBlock, server>>
      /\ status' \in {"recv", "ok", "failed"}
      /\ p.tid \in Sessions
      /\ peer' = peer \/ peer' = p.tid
  BY PacketFields DEF RecvStranger, RecvFinalAck, RecvOtherAck, RecvError, FromPeer,
     TypeInv, TypeOK
<1>2. removed' \subseteq Files
  BY DEF RecvStranger, RecvFinalAck, RecvOtherAck, RecvError, TypeInv, TypeOK, SenderInv,
         FromPeer
<1>3. net' \subseteq Packets /\ dups' \in 0..MaxDups
  <2>1. {Readdressed(lastSent, p.tid)} \subseteq Packets
    BY <1>1, ResentType
  <2>2. PICK out \in SUBSET Packets : Deliver(p, out)
    BY <2>1 DEF RecvStranger, RecvFinalAck, RecvOtherAck, RecvError
  <2> QED
    BY <2>2, NetGrows DEF TypeInv, TypeOK
<1>4. SenderInv'
  <2>1. p.tid # None
    BY <1>1, NetAssumption
  <2> QED
    BY <1>1, <2>1 DEF TypeInv, SenderInv
<1>5. 0 \in 0..MaxRetry
  BY NetAssumption
<1> QED
  BY <1>1, <1>2, <1>3, <1>4, <1>5, ClientKeepsTypes DEF TypeInv, TypeOK

\* The next block of the file.
LEMMA NextBlockSent ==
    ASSUME TypeInv, NEW p \in net, RecvNextAck(p)
    PROVE  /\ status = "recv" /\ status' = "recv"
           /\ p.op = "ACK" /\ p.block = AwaitedAck
           /\ p.tid \in Sessions /\ p.tid # None /\ peer \in {None, p.tid} /\ peer' = p.tid
           /\ want \in Files /\ read + 1 \in 1..FileLen[want] /\ read' = read + 1
           /\ \E d \in DataPackets :
                 /\ d = [op |-> "DATA", tid |-> p.tid, block |-> nextBlock,
                         data |-> <<want, read + 1>>]
                 /\ lastSent' = d /\ Deliver(p, {d})
           /\ waitingFinalAck' <=> read + 1 = FileLen[want]
           /\ finalBlock' = IF waitingFinalAck' THEN nextBlock ELSE finalBlock
           /\ nextBlock' = Wire(nextBlock + 1) /\ retryCount' = 0
           /\ UNCHANGED <<calls, want, removed, server>>
<1> DEFINE d == [op |-> "DATA", tid |-> p.tid, block |-> nextBlock,
                 data |-> <<want, read + 1>>]
<1>1. /\ status = "recv" /\ p.op = "ACK" /\ p.block = AwaitedAck /\ peer' = p.tid
      /\ ~ waitingFinalAck /\ peer \in {None, p.tid} /\ retryCount' = 0
      /\ status' = status /\ read' = read + 1 /\ nextBlock' = Wire(nextBlock + 1)
      /\ UNCHANGED <<calls, want, removed, server>>
  BY DEF RecvNextAck, FromPeer
<1>2. p.tid \in Sessions /\ p.tid # None
  BY <1>1, PacketFields, NetAssumption DEF TypeInv, TypeOK
<1>3. want \in Files /\ read + 1 \in 1..FileLen[want]
  <2>1. want \in Files /\ read <= FileLen[want] /\ read # FileLen[want] /\ read \in Nat
    BY <1>1 DEF TypeInv, SenderInv, TypeOK
  <2>2. FileLen[want] \in Nat
    BY <2>1, NetAssumption
  <2> QED
    BY <2>1, <2>2
<1>4. nextBlock \in WireNumbers /\ <<want, read + 1>> \in Blocks
  BY <1>3, BlockIsBlock DEF TypeInv, TypeOK
<1>5. d \in DataPackets
  BY <1>2, <1>4 DEF DataPackets
<1>6. IsLast(<<want, read + 1>>) <=> read + 1 = FileLen[want]
  BY DEF IsLast
<1>7. /\ Deliver(p, {d}) /\ lastSent' = d
      /\ waitingFinalAck' = IsLast(d.data)
      /\ finalBlock' = IF IsLast(d.data) THEN nextBlock ELSE finalBlock
  BY DEF RecvNextAck
<1>8. d.data = <<want, read + 1>>
  OBVIOUS
<1> HIDE DEF d
<1>9. /\ waitingFinalAck' <=> read + 1 = FileLen[want]
      /\ finalBlock' = IF waitingFinalAck' THEN nextBlock ELSE finalBlock
  BY <1>6, <1>7, <1>8
<1>10. \E e \in DataPackets :
          /\ e = [op |-> "DATA", tid |-> p.tid, block |-> nextBlock,
                  data |-> <<want, read + 1>>]
          /\ lastSent' = e /\ Deliver(p, {e})
  BY <1>5, <1>7 DEF d
<1> QED
  BY <1>1, <1>2, <1>3, <1>9, <1>10

LEMMA RecvNextAckKeepsTypes ==
    ASSUME TypeInv, NEW p \in net, RecvNextAck(p)
    PROVE  TypeInv'
<1>1. net' \subseteq Packets /\ dups' \in 0..MaxDups
  <2>1. PICK out \in SUBSET Packets : Deliver(p, out)
    BY NextBlockSent DEF Packets
  <2> QED
    BY <2>1, NetGrows DEF TypeInv, TypeOK
<1>2. /\ read' \in Nat /\ nextBlock' \in WireNumbers /\ finalBlock' \in WireNumbers
      /\ waitingFinalAck' \in BOOLEAN
  <2>1. read \in Nat /\ nextBlock \in Nat /\ nextBlock \in WireNumbers
        /\ finalBlock \in WireNumbers
    BY DEF TypeInv, TypeOK, WireNumbers
  <2>2. waitingFinalAck' \in BOOLEAN
    BY DEF RecvNextAck, IsLast
  <2>3. read' = read + 1 /\ nextBlock' = Wire(nextBlock + 1)
        /\ finalBlock' \in {nextBlock, finalBlock}
    BY NextBlockSent
  <2>4. Wire(nextBlock + 1) \in WireNumbers
    BY <2>1, WireType
  <2> QED
    BY <2>1, <2>2, <2>3, <2>4
<1>3. SenderInv'
  <2>1. /\ want \in Files /\ want' = want
        /\ read + 1 <= FileLen[want] /\ read' = read + 1
        /\ waitingFinalAck' <=> read + 1 = FileLen[want]
        /\ peer' = p.tid /\ p.tid # None
    BY NextBlockSent
  <2>2. lastSent' \in DataPackets
    BY NextBlockSent
  <2> QED
    BY <2>1, <2>2 DEF SenderInv
<1>4. 0 \in 0..MaxRetry
  BY NetAssumption
<1> QED
  BY <1>1, <1>2, <1>3, <1>4, NextBlockSent, ClientKeepsTypes DEF TypeInv, TypeOK

LEMMA AcceptKeepsTypes ==
    ASSUME TypeInv, NEW s \in Sessions, NEW p \in net, Accept(s, p)
    PROVE  TypeInv'
<1>1. /\ spc[s] = "free" /\ p.file \in Files /\ p.file # None
      /\ spc' = [spc EXCEPT ![s] = "starting"] /\ sfile' = [sfile EXCEPT ![s] = p.file]
      /\ UNCHANGED <<client, expectBlock, repeat, lastAck, wrote, flushed, disk>>
  BY PacketFields, NetAssumption DEF Accept, streams, TypeInv, TypeOK
<1>2. net' \subseteq Packets /\ dups' \in 0..MaxDups
  <2>1. {} \in SUBSET Packets /\ Deliver(p, {})
    BY DEF Accept
  <2> QED
    BY <2>1, NetGrows DEF TypeInv, TypeOK
<1>3. TypeOK'
  BY <1>1, <1>2 DEF client, TypeInv, TypeOK, SessionStates
<1>4. ServerInv'
  BY <1>1 DEF TypeInv, TypeOK, ServerInv
<1>5. SenderInv'
  BY <1>1 DEF client, TypeInv, SenderInv
<1> QED
  BY <1>3, <1>4, <1>5 DEF TypeInv

\* Steps of a session that is neither free nor waiting to start afterwards.
LEMMA SessionKeepsTypes ==
    ASSUME TypeInv, NEW s \in Sessions, spc[s] # "free", UNCHANGED <<client, sfile>>,
           net' \subseteq Packets, dups' \in 0..MaxDups,
           NEW pl \in {"recv", "closing", "over", "aborted"},
           spc' = [spc EXCEPT ![s] = pl],
           expectBlock' \in [Sessions -> WireNumbers],
           repeat' \in [Sessions -> 0..(MaxRepeat + 1)],
           lastAck' \in [Sessions -> WireNumbers],
           wrote' \in [Sessions -> Seq(Blocks)], flushed' \in [Sessions -> Nat],
           \A t \in Sessions \ {s} : wrote'[t] = wrote[t] /\ flushed'[t] = flushed[t],
           flushed'[s] <= Len(wrote'[s]),
           disk' \in [Files -> Seq(Blocks \cup {Hole})]
    PROVE  TypeInv'
<1>1. spc \in [Sessions -> SessionStates] /\ spc' \in [Sessions -> SessionStates]
  BY DEF TypeInv, TypeOK, SessionStates
<1>2. TypeOK'
  BY <1>1 DEF client, TypeInv, TypeOK
<1>3. ServerInv'
  BY <1>1 DEF TypeInv, ServerInv
<1>4. SenderInv'
  BY DEF client, TypeInv, SenderInv
<1> QED
  BY <1>2, <1>3, <1>4 DEF TypeInv

LEMMA FileOf ==
    ASSUME TypeInv, NEW s \in Sessions, spc[s] # "free"
    PROVE  sfile[s] \in Files
BY DEF TypeInv, TypeOK, ServerInv

LEMMA BeginKeepsTypes ==
    ASSUME TypeInv, NEW s \in Sessions, Begin(s) \/ BeginFails(s)
    PROVE  TypeInv'
<1>1. /\ spc[s] = "starting" /\ UNCHANGED <<client, sfile, repeat, wrote, flushed>>
      /\ \E pl \in {"recv", "aborted"} : spc' = [spc EXCEPT ![s] = pl]
      /\ Truncate(s) \/ disk' = disk
  BY DEF Begin, BeginFails
<1>2. sfile[s] \in Files
  BY <1>1, FileOf
<1>3. 0 \in WireNumbers /\ 1 \in WireNumbers
  BY NetAssumption DEF WireNumbers
<1>4. net' \subseteq Packets /\ dups' \in 0..MaxDups
  <2>1. {AckPacket(s, 0)} \in SUBSET Packets /\ {ErrorPacket(s)} \in SUBSET Packets
    BY <1>3, AckPacketType, ErrorPacketType
  <2>2. Send({AckPacket(s, 0)}) \/ Send({ErrorPacket(s)})
    BY DEF Begin, BeginFails
  <2> QED
    BY <2>1, <2>2, NetGrows DEF TypeInv, TypeOK
<1>5. /\ expectBlock' \in [Sessions -> WireNumbers]
      /\ lastAck' \in [Sessions -> WireNumbers]
  BY <1>3 DEF Begin, BeginFails, TypeInv, TypeOK
<1>6. disk' \in [Files -> Seq(Blocks \cup {Hole})]
  <2>1. disk \in [Files -> Seq(Blocks \cup {Hole})]
    BY DEF TypeInv, TypeOK
  <2>2. <<>> \in Seq(Blocks \cup {Hole})
    OBVIOUS
  <2>3. CASE disk' = [disk EXCEPT ![sfile[s]] = <<>>]
    BY <1>2, <2>1, <2>2, <2>3
  <2> QED
    BY <1>1, <2>1, <2>3 DEF Truncate
<1>7. /\ repeat' \in [Sessions -> 0..(MaxRepeat + 1)]
      /\ wrote' \in [Sessions -> Seq(Blocks)] /\ flushed' \in [Sessions -> Nat]
      /\ flushed'[s] <= Len(wrote'[s])
  BY <1>1 DEF TypeInv, TypeOK, ServerInv
<1> QED
  BY <1>1, <1>4, <1>5, <1>6, <1>7, SessionKeepsTypes

LEMMA SessionRetransmitKeepsTypes ==
    ASSUME TypeInv, NEW s \in Sessions, SessionRetransmit(s)
    PROVE  TypeInv'
<1>1. /\ spc[s] = "recv" /\ spc' = [spc EXCEPT ![s] = "recv"]
      /\ UNCHANGED <<client, sfile, expectBlock, lastAck, wrote, flushed, disk>>
  BY DEF SessionRetransmit, streams, TypeInv, TypeOK
<1>2. net' \subseteq Packets /\ dups' \in 0..MaxDups
  <2>1. lastAck[s] \in WireNumbers
    BY DEF TypeInv, TypeOK
  <2>2. {AckPacket(s, lastAck[s])} \in SUBSET Packets
    BY <2>1, AckPacketType
  <2> QED
    BY <2>2, NetGrows DEF SessionRetransmit, TypeInv, TypeOK
<1>3. repeat' \in [Sessions -> 0..(MaxRepeat + 1)]
  <2>1. repeat[s] + 1 \in 0..(MaxRepeat + 1)
    BY NetAssumption DEF SessionRetransmit, TypeInv, TypeOK
  <2> QED
    BY <2>1 DEF SessionRetransmit, TypeInv, TypeOK
<1>4. flushed[s] <= Len(wrote[s])
  BY DEF TypeInv, ServerInv
<1> QED
  BY <1>1, <1>2, <1>3, <1>4, SessionKeepsTypes DEF TypeInv, TypeOK

\* The session is told to send an ERROR, or has nothing more to send, and
\* closes its file.
LEMMA ClosingKeepsTypes ==
    ASSUME TypeInv, NEW s \in Sessions, spc[s] \in {"recv", "closing"},
           UNCHANGED <<client, sfile, expectBlock, repeat, lastAck, wrote>>,
           NEW pl \in {"over", "aborted"}, spc' = [spc EXCEPT ![s] = pl],
           CloseStream(s, wrote[s]),
           \/ UNCHANGED netVars
           \/ Send({ErrorPacket(s)}) \/ \E p \in net : Deliver(p, {ErrorPacket(s)})
    PROVE  TypeInv'
<1>1. sfile[s] \in Files /\ wrote[s] \in Seq(Blocks) /\ flushed[s] <= Len(wrote[s])
      /\ Len(wrote[s]) \in Nat
  BY FileOf DEF TypeInv, TypeOK, ServerInv
<1>2. /\ disk' \in [Files -> Seq(Blocks \cup {Hole})]
      /\ \E n \in flushed[s]..Len(wrote[s]) : flushed' = [flushed EXCEPT ![s] = n]
  BY <1>1, WriteOutTypes DEF TypeInv
<1>3. /\ flushed'[s] <= Len(wrote[s]) /\ flushed' \in [Sessions -> Nat]
      /\ \A t \in Sessions \ {s} : flushed'[t] = flushed[t]
  BY <1>1, <1>2 DEF TypeInv, TypeOK
<1>4. net' \subseteq Packets /\ dups' \in 0..MaxDups
  <2>1. {ErrorPacket(s)} \in SUBSET Packets
    BY ErrorPacketType
  <2> QED
    BY <2>1, NetGrows DEF netVars, TypeInv, TypeOK
<1>5. /\ expectBlock' \in [Sessions -> WireNumbers]
      /\ repeat' \in [Sessions -> 0..(MaxRepeat + 1)]
      /\ lastAck' \in [Sessions -> WireNumbers] /\ wrote' \in [Sessions -> Seq(Blocks)]
      /\ flushed'[s] <= Len(wrote'[s])
      /\ \A t \in Sessions \ {s} : wrote'[t] = wrote[t] /\ flushed'[t] = flushed[t]
  BY <1>1, <1>3 DEF TypeInv, TypeOK
<1>6. pl \in {"recv", "closing", "over", "aborted"} /\ spc[s] # "free"
  OBVIOUS
<1> QED
  BY <1>2, <1>3, <1>4, <1>5, <1>6, SessionKeepsTypes

LEMMA EndsKeepTypes ==
    ASSUME TypeInv, NEW s \in Sessions, SessionAborts(s) \/ Close(s)
    PROVE  TypeInv'
<1>1. CASE SessionAborts(s)
  <2>1. /\ spc[s] = "recv" /\ spc' = [spc EXCEPT ![s] = "aborted"]
        /\ CloseStream(s, wrote[s]) /\ Send({ErrorPacket(s)})
        /\ UNCHANGED <<client, sfile, expectBlock, repeat, lastAck, wrote>>
    BY <1>1 DEF SessionAborts
  <2> QED
    BY <2>1, ClosingKeepsTypes
<1>2. CASE Close(s)
  <2>1. /\ spc[s] = "closing" /\ spc' = [spc EXCEPT ![s] = "over"]
        /\ CloseStream(s, wrote[s]) /\ UNCHANGED netVars
        /\ UNCHANGED <<client, sfile, expectBlock, repeat, lastAck, wrote>>
    BY <1>2 DEF Close
  <2> QED
    BY <2>1, ClosingKeepsTypes
<1> QED
  BY <1>1, <1>2

\* A block that may be written and may reach the disk.
LEMMA BlockTaken ==
    ASSUME TypeInv, NEW s \in Sessions, NEW p \in net, DataFor(s, p),
           wrote' = [wrote EXCEPT ![s] = Append(@, p.data)] \/ UNCHANGED wrote,
           \/ Flush(s, wrote'[s]) \/ CloseStream(s, wrote'[s]) \/ CloseBadStream(s)
           \/ UNCHANGED <<flushed, disk>>
    PROVE  /\ sfile[s] \in Files /\ p.data \in Blocks /\ p.block \in WireNumbers
           /\ wrote' \in [Sessions -> Seq(Blocks)] /\ flushed' \in [Sessions -> Nat]
           /\ \A t \in Sessions \ {s} : wrote'[t] = wrote[t] /\ flushed'[t] = flushed[t]
           /\ flushed'[s] <= Len(wrote'[s])
           /\ disk' \in [Files -> Seq(Blocks \cup {Hole})]
           /\ wrote'[s] \in {wrote[s], Append(wrote[s], p.data)}
           /\ wrote'[s] \in Seq(Blocks) /\ flushed[s] <= Len(wrote'[s])
<1>1. /\ spc[s] = "recv" /\ sfile[s] \in Files
      /\ p.data \in Blocks /\ p.block \in WireNumbers
      /\ wrote[s] \in Seq(Blocks) /\ wrote \in [Sessions -> Seq(Blocks)]
      /\ flushed[s] <= Len(wrote[s]) /\ flushed \in [Sessions -> Nat]
      /\ disk \in [Files -> Seq(Blocks \cup {Hole})]
  BY PacketFields, FileOf DEF DataFor, TypeInv, TypeOK, ServerInv
<1>2. /\ Append(wrote[s], p.data) \in Seq(Blocks)
      /\ Len(Append(wrote[s], p.data)) = Len(wrote[s]) + 1
      /\ Len(wrote[s]) \in Nat /\ flushed[s] \in Nat
  BY <1>1
<1>3. /\ wrote' \in [Sessions -> Seq(Blocks)] /\ wrote'[s] \in Seq(Blocks)
      /\ wrote'[s] \in {wrote[s], Append(wrote[s], p.data)}
      /\ \A t \in Sessions \ {s} : wrote'[t] = wrote[t]
      /\ flushed[s] <= Len(wrote'[s]) /\ Len(wrote'[s]) \in Nat
      /\ Len(wrote[s]) <= Len(wrote'[s])
  <2>1. CASE UNCHANGED wrote
    BY <1>1, <1>2, <2>1
  <2>2. CASE wrote' = [wrote EXCEPT ![s] = Append(wrote[s], p.data)]
    <3>1. wrote'[s] = Append(wrote[s], p.data)
      BY <1>1, <2>2
    <3>2. wrote' \in [Sessions -> Seq(Blocks)]
      BY <1>1, <1>2, <2>2
    <3>3. \A t \in Sessions \ {s} : wrote'[t] = wrote[t]
      BY <1>1, <2>2
    <3> QED
      BY <1>1, <1>2, <3>1, <3>2, <3>3
  <2> QED
    BY <2>1, <2>2
<1>4. CASE UNCHANGED <<flushed, disk>>
  BY <1>1, <1>3, <1>4
<1>5. CASE Flush(s, wrote'[s]) \/ CloseStream(s, wrote'[s]) \/ CloseBadStream(s)
  <2>1. PICK blks \in Seq(Blocks) : blks = wrote'[s]
    BY <1>3
  <2>2. Flush(s, blks) \/ CloseStream(s, blks) \/ CloseBadStream(s)
    BY <1>5, <2>1
  <2>3. flushed[s] <= Len(wrote[s]) /\ Len(wrote[s]) <= Len(blks)
    BY <1>1, <1>3, <2>1
  <2>4. /\ disk' \in [Files -> Seq(Blocks \cup {Hole})]
        /\ \E n \in flushed[s]..Len(blks) : flushed' = [flushed EXCEPT ![s] = n]
    BY <1>1, <2>2, <2>3, WriteOutTypes DEF TypeInv
  <2>5. PICK n \in flushed[s]..Len(blks) : flushed' = [flushed EXCEPT ![s] = n]
    BY <2>4
  <2>6. n \in Nat /\ n <= Len(wrote'[s])
    BY <1>2, <1>3, <2>1, <2>5
  <2>7. /\ flushed'[s] = n /\ flushed' \in [Sessions -> Nat]
        /\ \A t \in Sessions \ {s} : flushed'[t] = flushed[t]
    BY <1>1, <2>5, <2>6
  <2> QED
    BY <1>1, <1>3, <2>4, <2>6, <2>7
<1> QED
  BY <1>4, <1>5

LEMMA RecvDataKeepsTypes ==
    ASSUME TypeInv, NEW s \in Sessions, NEW p \in net,
           RecvShort(s, p) \/ RecvExpected(s, p) \/ ExpectedFails(s, p)
    PROVE  TypeInv'
<1>1. DataFor(s, p) /\ spc[s] = "recv" /\ UNCHANGED <<client, sfile, repeat>>
  BY DEF RecvShort, RecvExpected, ExpectedFails, DataFor
<1>2. /\ wrote' = [wrote EXCEPT ![s] = Append(@, p.data)] \/ UNCHANGED wrote
      /\ \/ Flush(s, wrote'[s]) \/ CloseStream(s, wrote'[s]) \/ CloseBadStream(s)
         \/ UNCHANGED <<flushed, disk>>
  BY DEF RecvShort, RecvExpected, ExpectedFails, streams
<1>3. p.block \in WireNumbers
  BY <1>1, <1>2, BlockTaken
<1>4. net' \subseteq Packets /\ dups' \in 0..MaxDups
  <2>1. {AckPacket(s, p.block)} \in SUBSET Packets /\ {ErrorPacket(s)} \in SUBSET Packets
    BY <1>3, AckPacketType, ErrorPacketType
  <2>2. PICK out \in SUBSET Packets : Deliver(p, out)
    BY <2>1 DEF RecvShort, RecvExpected, ExpectedFails
  <2> QED
    BY <2>2, NetGrows DEF TypeInv, TypeOK
<1>5. \E pl \in {"recv", "closing", "over", "aborted"} : spc' = [spc EXCEPT ![s] = pl]
  BY <1>1 DEF RecvShort, RecvExpected, ExpectedFails, TypeInv, TypeOK
<1>6. /\ expectBlock' \in [Sessions -> WireNumbers]
      /\ lastAck' \in [Sessions -> WireNumbers]
  <2>1. /\ expectBlock \in [Sessions -> WireNumbers] /\ expectBlock[s] + 1 \in Nat
        /\ lastAck \in [Sessions -> WireNumbers]
    <3>1. expectBlock \in [Sessions -> WireNumbers] /\ lastAck \in [Sessions -> WireNumbers]
      BY DEF TypeInv, TypeOK
    <3>2. expectBlock[s] \in WireNumbers
      BY <3>1
    <3> QED
      BY <3>1, <3>2 DEF WireNumbers
  <2>2. Wire(expectBlock[s] + 1) \in WireNumbers
    BY <2>1, WireType
  <2>3. \/ expectBlock' = expectBlock
        \/ expectBlock' = [expectBlock EXCEPT ![s] = Wire(expectBlock[s] + 1)]
    BY DEF RecvShort, RecvExpected, ExpectedFails
  <2>4. lastAck' = lastAck \/ lastAck' = [lastAck EXCEPT ![s] = p.block]
    BY DEF RecvShort, RecvExpected, ExpectedFails
  <2>5. expectBlock' \in [Sessions -> WireNumbers]
    BY <2>1, <2>2, <2>3
  <2>6. lastAck' \in [Sessions -> WireNumbers]
    BY <1>3, <2>1, <2>4
  <2> QED
    BY <2>5, <2>6
<1>7. /\ wrote' \in [Sessions -> Seq(Blocks)] /\ flushed' \in [Sessions -> Nat]
      /\ \A t \in Sessions \ {s} : wrote'[t] = wrote[t] /\ flushed'[t] = flushed[t]
      /\ flushed'[s] <= Len(wrote'[s])
      /\ disk' \in [Files -> Seq(Blocks \cup {Hole})]
  BY <1>1, <1>2, BlockTaken
<1>8. repeat' \in [Sessions -> 0..(MaxRepeat + 1)]
  BY <1>1 DEF TypeInv, TypeOK
<1> QED
  BY <1>1, <1>4, <1>5, <1>6, <1>7, <1>8, SessionKeepsTypes

LEMMA RecvOtherKeepsTypes ==
    ASSUME TypeInv, NEW s \in Sessions, NEW p \in net, RecvOther(s, p)
    PROVE  TypeInv'
<1>1. /\ spc[s] = "recv" /\ p.block \in WireNumbers
      /\ UNCHANGED <<client, sfile, repeat, expectBlock, lastAck, wrote>>
  BY PacketFields DEF RecvOther, DataFor, TypeInv, TypeOK
<1>2. CASE p.block < expectBlock[s]
  <2>1. Deliver(p, {AckPacket(s, p.block)}) /\ UNCHANGED <<spc, flushed, disk>>
    BY <1>2 DEF RecvOther
  <2>2. net' \subseteq Packets /\ dups' \in 0..MaxDups
    <3>1. {AckPacket(s, p.block)} \in SUBSET Packets
      BY <1>1, AckPacketType
    <3> QED
      BY <2>1, <3>1, NetGrows DEF TypeInv, TypeOK
  <2>3. spc' = [spc EXCEPT ![s] = "recv"] /\ flushed[s] <= Len(wrote[s])
    BY <1>1, <2>1 DEF TypeInv, TypeOK, ServerInv
  <2> QED
    BY <1>1, <2>1, <2>2, <2>3, SessionKeepsTypes DEF TypeInv, TypeOK
<1>3. CASE ~ (p.block < expectBlock[s])
  <2>1. /\ Deliver(p, {ErrorPacket(s)}) /\ CloseStream(s, wrote[s])
        /\ spc' = [spc EXCEPT ![s] = "aborted"]
    BY <1>3 DEF RecvOther
  <2> QED
    BY <1>1, <2>1, ClosingKeepsTypes
<1> QED
  BY <1>2, <1>3

LEMMA TypeNext == TypeInv /\ [Next]_vars => TypeInv'
<1> SUFFICES ASSUME TypeInv, [Next]_vars PROVE TypeInv'
  OBVIOUS
<1>1. CASE UNCHANGED vars
  BY <1>1 DEF vars, netVars, client, server, streams, TypeInv, TypeOK, ServerInv, SenderInv
<1>2. CASE ClientGiveUp
  <2>1. /\ status' = "failed" /\ UNCHANGED netVars /\ UNCHANGED server
        /\ UNCHANGED <<calls, want, read, lastSent, retryCount, nextBlock,
                       waitingFinalAck, finalBlock, peer, removed>>
    BY <1>2 DEF ClientGiveUp
  <2>2. SenderInv'
    BY <2>1 DEF SenderInv
  <2> QED
    BY <2>1, <2>2, ClientKeepsTypes DEF netVars, TypeInv, TypeOK
<1>3. ASSUME NEW s \in Sessions, SessionStep(s) PROVE TypeInv'
  BY <1>3, BeginKeepsTypes, SessionRetransmitKeepsTypes, EndsKeepTypes, RecvDataKeepsTypes,
     RecvOtherKeepsTypes DEF SessionStep
<1> QED
  BY <1>1, <1>2, <1>3, StartKeepsTypes, ClientRetransmitKeepsTypes, ClientRecvKeepsTypes,
     RecvNextAckKeepsTypes, AcceptKeepsTypes DEF Next, ClientStep

\* Every variable keeps its kind of value, and block numbers their 16 bits: the
\* client never reads past the end of its file, whatever it is answered.
THEOREM TypeCorrect == Spec => []TypeOK
<1>1. TypeInv => TypeOK
  BY DEF TypeInv
<1> QED
  BY <1>1, TypeInit, TypeNext, PTL DEF Spec

-----------------------------------------------------------------------------
(* One upload: what the sessions write and acknowledge, when the client    *)
(* program makes one upload of a file that block numbers can count.  With  *)
(* a second upload, an ACK that a session of the first sent late can make  *)
(* the client send it blocks of another file.                              *)

OneUpload == MaxTransfers = 1

\* What an ACK of block b from session s says: b has been written, and if it is
\* the last the session has left its loop for good.
AckOK(s, b) ==
    /\ b <= Len(wrote[s])
    /\ b = FileLen[want] => spc[s] \in {"closing", "over"}

\* Requests are for one file; blocks of it travel under their own numbers, and
\* to the client's peer alone.
PacketOK(p) ==
    /\ p.op = "RQ" => p.file = want
    /\ p.op = "DATA" => p.tid = peer /\ p.data = <<want, p.block>>
    /\ p.op = "ACK" => AckOK(p.tid, p.block)

\* A session in its loop has acknowledged what it has written, is short of the
\* end, and waits for the next block; one that ended its loop has it all.
SessionOK(s) ==
    /\ spc[s] # "free" => sfile[s] = want
    /\ wrote[s] # <<>> => s = peer
    /\ \A k \in 1..Len(wrote[s]) : wrote[s][k] = <<want, k>>
    /\ spc[s] = "recv" => /\ expectBlock[s] = Len(wrote[s]) + 1
                          /\ lastAck[s] = Len(wrote[s])
                          /\ Len(wrote[s]) < FileLen[want]
    /\ spc[s] \in {"closing", "over"} => Len(wrote[s]) = FileLen[want]

ClientOK ==
    /\ calls = 0 => /\ net = {} /\ status = "ready" /\ peer = None
                    /\ \A s \in Sessions : spc[s] = "free"
    /\ calls # 0 => want \in Files
    /\ status = "recv" =>
          /\ nextBlock = Wire(read + 1)
          /\ waitingFinalAck => finalBlock = read
          /\ lastSent.op = "RQ" => lastSent.file = want
          /\ lastSent.op = "DATA" => lastSent.data = <<want, lastSent.block>>
    /\ status = "ok" => /\ peer \in Sessions
                        /\ spc[peer] \in {"closing", "over"}

SessionInv == \A s \in Sessions : SessionOK(s)
PacketInv == \A p \in net : PacketOK(p)

UploadInv == TypeInv /\ ClientOK /\ PacketInv /\ SessionInv

LEMMA UploadInit == Init => UploadInv
<1> SUFFICES ASSUME Init PROVE UploadInv
  OBVIOUS
<1>1. SessionInv
  BY DEF Init, SessionInv, SessionOK
<1>2. ClientOK /\ PacketInv
  BY DEF Init, ClientOK, PacketInv
<1> QED
  BY <1>1, <1>2, TypeInit DEF UploadInv

\* Steps of the client once it has started.
LEMMA ClientMoves ==
    ASSUME UploadInv, UNCHANGED <<want, calls, server>>, calls # 0,
           peer # None => peer' = peer,
           \A q \in net' : q \in net \/ PacketOK(q)',
           status' = "recv" =>
               /\ nextBlock' = Wire(read' + 1)
               /\ waitingFinalAck' => finalBlock' = read'
               /\ lastSent'.op = "RQ" => lastSent'.file = want
               /\ lastSent'.op = "DATA" => lastSent'.data = <<want, lastSent'.block>>,
           status' = "ok" => /\ peer' \in Sessions
                             /\ spc[peer'] \in {"closing", "over"}
    PROVE  ClientOK' /\ PacketInv' /\ SessionInv'
<1>1. /\ want' = want /\ calls' = calls
      /\ UNCHANGED <<spc, sfile, expectBlock, lastAck, wrote>>
  BY DEF server, streams
<1>2. ClientOK'
  BY <1>1 DEF UploadInv, ClientOK
<1>3. ASSUME NEW q \in net PROVE PacketOK(q)'
  <2>1. PacketOK(q) /\ q \in Packets
    BY DEF UploadInv, PacketInv, TypeInv, TypeOK
  <2>2. q.op = "DATA" => peer # None
    BY <2>1, PacketFields, NetAssumption DEF PacketOK
  <2> QED
    BY <1>1, <2>1, <2>2 DEF PacketOK, AckOK
<1>4. ASSUME NEW s \in Sessions PROVE SessionOK(s)'
  <2>1. SessionOK(s) /\ s # None
    BY NetAssumption DEF UploadInv, SessionInv
  <2> QED
    BY <1>1, <2>1 DEF SessionOK
<1> QED
  BY <1>2, <1>3, <1>4 DEF PacketInv, SessionInv

\* Steps of one session, and the accept loop's.
LEMMA SessionMoves ==
    ASSUME UploadInv, NEW s \in Sessions, UNCHANGED client, calls # 0,
           \A t \in Sessions \ {s} :
               /\ spc'[t] = spc[t] /\ sfile'[t] = sfile[t] /\ wrote'[t] = wrote[t]
               /\ expectBlock'[t] = expectBlock[t] /\ lastAck'[t] = lastAck[t],
           Len(wrote'[s]) \in Nat, Len(wrote[s]) <= Len(wrote'[s]),
           spc[s] \in {"closing", "over"} => spc'[s] \in {"closing", "over"},
           SessionOK(s)',
           \A q \in net' : q \in net \/ PacketOK(q)'
    PROVE  ClientOK' /\ PacketInv' /\ SessionInv'
<1>1. UNCHANGED <<status, calls, want, read, lastSent, nextBlock, waitingFinalAck,
                  finalBlock, peer>>
  BY DEF client
<1>2. ClientOK'
  BY <1>1 DEF UploadInv, ClientOK
<1>3. ASSUME NEW q \in net PROVE PacketOK(q)'
  <2>1. PacketOK(q) /\ q \in Packets
    BY DEF UploadInv, PacketInv, TypeInv, TypeOK
  <2>2. CASE q.op = "ACK"
    <3>1. q.tid \in Sessions /\ q.block \in Nat
      BY <2>1, <2>2 DEF Packets, Requests, DataPackets, AckPackets, ErrorPackets,
                        WireNumbers
    <3>2. wrote[s] \in Seq(Blocks) /\ Len(wrote[s]) \in Nat
      BY DEF UploadInv, TypeInv, TypeOK
    <3>3. AckOK(q.tid, q.block)
      BY <2>1, <2>2 DEF PacketOK
    <3>4. q.block <= Len(wrote'[q.tid])
      <4>1. CASE q.tid = s
        BY <3>1, <3>2, <3>3, <4>1 DEF AckOK
      <4>2. CASE q.tid # s
        BY <3>1, <3>3, <4>2 DEF AckOK
      <4> QED
        BY <4>1, <4>2
    <3>5. q.block = FileLen[want] => spc'[q.tid] \in {"closing", "over"}
      BY <3>1, <3>3 DEF AckOK
    <3> QED
      BY <1>1, <2>2, <3>4, <3>5 DEF PacketOK, AckOK
  <2>3. CASE q.op # "ACK"
    BY <1>1, <2>1, <2>3 DEF PacketOK
  <2> QED
    BY <2>2, <2>3
<1>4. ASSUME NEW t \in Sessions, t # s PROVE SessionOK(t)'
  BY <1>1, <1>4 DEF UploadInv, SessionInv, SessionOK
<1> QED
  BY <1>2, <1>3, <1>4 DEF PacketInv, SessionInv

LEMMA StartKeepsUpload ==
    ASSUME UploadInv, OneUpload, NEW f \in Files, StartUpload(f)
    PROVE  ClientOK' /\ PacketInv' /\ SessionInv'
<1>1. /\ calls = 0 /\ calls' = 1 /\ want' = f /\ peer' = None /\ UNCHANGED server
      /\ read' = 0 /\ nextBlock' = 1 /\ waitingFinalAck' = FALSE
      /\ lastSent' = Request(Main, f) /\ status' \in {"recv", "failed"}
  BY DEF StartUpload, OneUpload, UploadInv, TypeInv, TypeOK
<1>2. /\ net = {} /\ \A s \in Sessions : spc[s] = "free"
      /\ UNCHANGED <<spc, sfile, wrote, expectBlock, lastAck>>
  BY <1>1 DEF UploadInv, ClientOK, server, streams
<1>3. PacketInv'
  <2>1. Send({Request(Main, f)}) \/ UNCHANGED netVars
    BY DEF StartUpload
  <2>2. \A q \in net' : q = Request(Main, f)
    BY <1>2, <2>1 DEF Send, netVars
  <2> QED
    BY <1>1, <2>2 DEF PacketInv, PacketOK, Request
<1>4. SessionInv'
  BY <1>2 DEF SessionInv, SessionOK, UploadInv, TypeInv, ServerInv
<1>5. ClientOK'
  <2>1. Wire(0 + 1) = 1
    BY WireSmall, NetAssumption
  <2>2. Request(Main, f).op = "RQ" /\ Request(Main, f).file = f
    BY DEF Request
  <2> QED
    BY <1>1, <2>1, <2>2 DEF ClientOK
<1> QED
  BY <1>3, <1>4, <1>5

\* What is resent is as good as it was.
LEMMA ResentOK ==
    ASSUME UploadInv, status = "recv", NEW to \in Sessions \cup {Main},
           to = Target \/ (to \in Sessions /\ peer \in {None, to}),
           want' = want, peer' = IF to \in Sessions THEN to ELSE peer,
           NEW q, q = Readdressed(lastSent, to)
    PROVE  PacketOK(q)'
<1>1. /\ lastSent \in Requests \cup DataPackets
      /\ lastSent \in Requests \/ to \in Sessions
      /\ lastSent \in Requests \/ peer # None
  BY ResentType DEF UploadInv, TypeInv, SenderInv
<1>2. /\ lastSent.op = "RQ" => lastSent.file = want
      /\ lastSent.op = "DATA" => lastSent.data = <<want, lastSent.block>>
  BY DEF UploadInv, ClientOK
<1>3. CASE lastSent \in Requests
  <2>1. lastSent.op = "RQ"
    BY <1>3 DEF Requests
  <2>2. q.op = "RQ" /\ q.file = want
    BY <1>1, <1>2, <1>3, <2>1, ReaddressedType
  <2> QED
    BY <2>2 DEF PacketOK
<1>4. CASE lastSent \notin Requests
  <2>1. lastSent \in DataPackets /\ lastSent.op = "DATA" /\ to \in Sessions
    BY <1>1, <1>4 DEF DataPackets
  <2>2. /\ q.op = "DATA" /\ q.tid = to /\ q.data = lastSent.data
        /\ q.block = lastSent.block
    BY <1>1, <2>1, ReaddressedType
  <2> QED
    BY <1>2, <2>1, <2>2 DEF PacketOK
<1> QED
  BY <1>3, <1>4

LEMMA RetransmitKeepsUpload ==
    ASSUME UploadInv, ClientRetransmit \/ ClientGiveUp
    PROVE  ClientOK' /\ PacketInv' /\ SessionInv'
<1>1. /\ UNCHANGED <<want, calls, server, peer, read, lastSent, nextBlock,
                     waitingFinalAck, finalBlock>>
      /\ status = "recv" /\ status' \in {"recv", "failed"}
  BY DEF ClientRetransmit, ClientGiveUp
<1>2. calls # 0
  BY <1>1 DEF UploadInv, ClientOK
<1>3. Target \in Sessions \cup {Main} /\ peer' = IF Target \in Sessions THEN Target ELSE peer
  BY <1>1, NetAssumption DEF Target, UploadInv, TypeInv, TypeOK
<1>4. \A q \in net' : q \in net \/ q = Readdressed(lastSent, Target)
  BY DEF ClientRetransmit, ClientGiveUp, Send, netVars
<1>5. ASSUME NEW q \in net' PROVE q \in net \/ PacketOK(q)'
  <2>1. PICK to \in Sessions \cup {Main} : to = Target
    BY <1>3
  <2>2. q \in net \/ q = Readdressed(lastSent, to)
    BY <1>4, <2>1
  <2>3. want' = want /\ peer' = IF to \in Sessions THEN to ELSE peer
    BY <1>1, <1>3, <2>1
  <2> QED
    BY <1>1, <2>1, <2>2, <2>3, ResentOK
<1>6. /\ status' = "recv" =>
            /\ nextBlock' = Wire(read' + 1)
            /\ waitingFinalAck' => finalBlock' = read'
            /\ lastSent'.op = "RQ" => lastSent'.file = want
            /\ lastSent'.op = "DATA" => lastSent'.data = <<want, lastSent'.block>>
      /\ status' # "ok"
  BY <1>1 DEF UploadInv, ClientOK
<1> QED
  BY <1>1, <1>2, <1>5, <1>6, ClientMoves

\* The ACK that is awaited is that of the last block read.
LEMMA AwaitedIsRead ==
    ASSUME UploadInv, SmallFiles, status = "recv"
    PROVE  /\ AwaitedAck = read /\ read \in Nat
           /\ want \in Files /\ FileLen[want] \in Nat /\ FileLen[want] < Modulus
           /\ waitingFinalAck => read = FileLen[want]
           /\ read < FileLen[want] => nextBlock = read + 1
<1>1. /\ want \in Files /\ read \in Nat /\ read <= FileLen[want]
      /\ waitingFinalAck <=> read = FileLen[want]
      /\ nextBlock = Wire(read + 1)
      /\ waitingFinalAck => finalBlock = read
  BY DEF UploadInv, TypeInv, TypeOK, SenderInv, ClientOK
<1>2. FileLen[want] \in Nat /\ FileLen[want] < Modulus /\ Modulus \in Nat
  BY <1>1, NetAssumption DEF SmallFiles
<1>3. read < FileLen[want] => nextBlock = read + 1
  <2>1. read < FileLen[want] => read + 1 \in 0..(Modulus - 1)
    BY <1>1, <1>2
  <2> QED
    BY <1>1, <2>1, WireSmall
<1>4. waitingFinalAck => AwaitedAck = read
  BY <1>1 DEF AwaitedAck
<1>5. ASSUME ~ waitingFinalAck PROVE AwaitedAck = read
  <2>1. read \in 0..(Modulus - 1) /\ read < FileLen[want]
    BY <1>1, <1>2, <1>5
  <2>2. nextBlock + Modulus - 1 = read + Modulus
    BY <1>1, <1>2, <1>3, <2>1
  <2>3. Wire(nextBlock + Modulus - 1) = read
    BY <2>1, <2>2, WireSmall
  <2> QED
    BY <1>5, <2>3 DEF AwaitedAck
<1> QED
  BY <1>1, <1>2, <1>3, <1>4, <1>5

LEMMA ClientRecvKeepsUpload ==
    ASSUME UploadInv, SmallFiles, NEW p \in net,
           RecvStranger(p) \/ RecvFinalAck(p) \/ RecvOtherAck(p) \/ RecvError(p)
    PROVE  ClientOK' /\ PacketInv' /\ SessionInv'
<1>1. /\ UNCHANGED <<want, calls, server, read, lastSent, nextBlock, waitingFinalAck,
                     finalBlock>>
      /\ status = "recv"
      /\ peer # None => peer' = peer
  BY DEF RecvStranger, RecvFinalAck, RecvOtherAck, RecvError, FromPeer
<1>2. calls # 0
  BY <1>1 DEF UploadInv, ClientOK
<1>3. p.tid \in Sessions /\ p.op \in {"ACK", "ERROR"} /\ p \in Packets
  BY PacketFields DEF RecvStranger, RecvFinalAck, RecvOtherAck, RecvError, FromPeer,
     UploadInv, TypeInv, TypeOK
<1>4. ASSUME NEW q \in net' PROVE q \in net \/ PacketOK(q)'
  <2>1. CASE RecvOtherAck(p)
    <3>1. /\ peer \in {None, p.tid} /\ peer' = p.tid
          /\ q \in net \/ q = Readdressed(lastSent, p.tid)
      BY <2>1 DEF RecvOtherAck, FromPeer, Deliver
    <3> QED
      BY <1>1, <1>3, <3>1, ResentOK
  <2>2. CASE ~ RecvOtherAck(p)
    BY <2>2 DEF RecvStranger, RecvFinalAck, RecvError, Deliver
  <2> QED
    BY <2>1, <2>2
<1>5. ASSUME RecvFinalAck(p) PROVE peer' \in Sessions /\ spc[peer'] \in {"closing", "over"}
  <2>1. /\ p.op = "ACK" /\ waitingFinalAck /\ p.block = AwaitedAck /\ peer' = p.tid
    BY <1>5 DEF RecvFinalAck, FromPeer
  <2>2. AwaitedAck = read /\ read = FileLen[want]
    BY <1>1, <2>1, AwaitedIsRead
  <2>3. AckOK(p.tid, p.block)
    BY <2>1 DEF UploadInv, PacketInv, PacketOK
  <2>4. spc[p.tid] \in {"closing", "over"}
    BY <2>1, <2>2, <2>3 DEF AckOK
  <2> QED
    BY <1>3, <2>1, <2>4
<1>6. status' = "ok" => RecvFinalAck(p)
  <2>1. RecvStranger(p) \/ RecvOtherAck(p) => status' = "recv"
    BY <1>1 DEF RecvStranger, RecvOtherAck
  <2>2. RecvError(p) => status' = "failed"
    BY DEF RecvError
  <2> QED
    BY <2>1, <2>2
<1>7. status' = "recv" =>
         /\ nextBlock' = Wire(read' + 1)
         /\ waitingFinalAck' => finalBlock' = read'
         /\ lastSent'.op = "RQ" => lastSent'.file = want
         /\ lastSent'.op = "DATA" => lastSent'.data = <<want, lastSent'.block>>
  BY <1>1 DEF UploadInv, ClientOK
<1>8. status' = "ok" => peer' \in Sessions /\ spc[peer'] \in {"closing", "over"}
  BY <1>5, <1>6
<1> QED
  BY <1>1, <1>2, <1>4, <1>7, <1>8, ClientMoves

LEMMA RecvNextAckKeepsUpload ==
    ASSUME UploadInv, SmallFiles, NEW p \in net, RecvNextAck(p)
    PROVE  ClientOK' /\ PacketInv' /\ SessionInv'
<1>1. /\ status = "recv" /\ status' = "recv" /\ peer \in {None, p.tid} /\ peer' = p.tid
      /\ read + 1 \in 1..FileLen[want] /\ read' = read + 1
      /\ waitingFinalAck' <=> read + 1 = FileLen[want]
      /\ finalBlock' = IF waitingFinalAck' THEN nextBlock ELSE finalBlock
      /\ nextBlock' = Wire(nextBlock + 1)
      /\ UNCHANGED <<calls, want, removed, server>>
  BY NextBlockSent DEF UploadInv
<1>2. PICK d \in DataPackets :
          /\ d = [op |-> "DATA", tid |-> p.tid, block |-> nextBlock,
                  data |-> <<want, read + 1>>]
          /\ lastSent' = d /\ Deliver(p, {d})
  BY NextBlockSent DEF UploadInv
<1>3. read \in Nat /\ FileLen[want] \in Nat /\ nextBlock = read + 1
  <2>1. /\ read \in Nat /\ FileLen[want] \in Nat
        /\ read < FileLen[want] => nextBlock = read + 1
    BY <1>1, AwaitedIsRead
  <2>2. read < FileLen[want]
    BY <1>1, <2>1
  <2> QED
    BY <2>1, <2>2
<1>4. /\ d.op = "DATA" /\ d.tid = peer' /\ d.data = <<want, d.block>>
  BY <1>1, <1>2, <1>3
<1>5. PacketOK(d)'
  BY <1>1, <1>4 DEF PacketOK
<1>6. \A q \in net' : q \in net \/ PacketOK(q)'
  BY <1>2, <1>5 DEF Deliver
<1>7. calls # 0
  BY <1>1 DEF UploadInv, ClientOK
<1>8. /\ nextBlock' = Wire(read' + 1) /\ (waitingFinalAck' => finalBlock' = read')
      /\ (lastSent'.op = "RQ" => lastSent'.file = want)
      /\ (lastSent'.op = "DATA" => lastSent'.data = <<want, lastSent'.block>>)
  BY <1>1, <1>2, <1>3, <1>4
<1>9. peer # None => peer' = peer
  BY <1>1
<1> QED
  BY <1>1, <1>6, <1>7, <1>8, <1>9, ClientMoves

\* What is known of a session that has something to do.
LEMMA SessionFacts ==
    ASSUME UploadInv, NEW s \in Sessions, spc[s] # "free" \/ net # {}
    PROVE  /\ calls # 0 /\ want \in Files
           /\ FileLen[want] \in Nat \ {0}
           /\ wrote[s] \in Seq(Blocks) /\ Len(wrote[s]) \in Nat
           /\ spc \in [Sessions -> SessionStates]
           /\ sfile \in [Sessions -> Files \cup {None}]
           /\ wrote \in [Sessions -> Seq(Blocks)]
           /\ expectBlock \in [Sessions -> WireNumbers]
           /\ lastAck \in [Sessions -> WireNumbers]
           /\ SessionOK(s)
           /\ s # None
<1>1. calls # 0
  BY DEF UploadInv, ClientOK
<1>2. want \in Files /\ FileLen[want] \in Nat \ {0} /\ s # None
  BY <1>1, NetAssumption DEF UploadInv, ClientOK
<1>3. wrote[s] \in Seq(Blocks) /\ Len(wrote[s]) \in Nat
  BY DEF UploadInv, TypeInv, TypeOK
<1> QED
  BY <1>1, <1>2, <1>3 DEF UploadInv, TypeInv, TypeOK, SessionInv

LEMMA AcceptKeepsUpload ==
    ASSUME UploadInv, NEW s \in Sessions, NEW p \in net, Accept(s, p)
    PROVE  ClientOK' /\ PacketInv' /\ SessionInv'
<1>1. /\ spc[s] = "free" /\ p.op = "RQ"
      /\ spc' = [spc EXCEPT ![s] = "starting"] /\ sfile' = [sfile EXCEPT ![s] = p.file]
      /\ UNCHANGED client
      /\ UNCHANGED <<expectBlock, lastAck, wrote>>
      /\ \A q \in net' : q \in net
  BY DEF Accept, streams, Deliver
<1>2. p.file = want
  BY <1>1 DEF UploadInv, PacketInv, PacketOK
<1>3. spc'[s] = "starting" /\ sfile'[s] = want /\ want' = want /\ wrote[s] = <<>>
  BY <1>1, <1>2, SessionFacts DEF client, UploadInv, TypeInv, ServerInv
<1>4. SessionOK(s)'
  BY <1>1, <1>3, SessionFacts DEF SessionOK
<1> QED
  BY <1>1, <1>4, SessionFacts, SessionMoves

LEMMA BeginKeepsUpload ==
    ASSUME UploadInv, NEW s \in Sessions, Begin(s) \/ BeginFails(s)
    PROVE  ClientOK' /\ PacketInv' /\ SessionInv'
<1>1. /\ spc[s] = "starting" /\ UNCHANGED <<client, sfile, wrote>>
      /\ want' = want
  BY DEF Begin, BeginFails, client
<1>2. wrote[s] = <<>> /\ Len(wrote[s]) = 0
  BY <1>1 DEF UploadInv, TypeInv, ServerInv
<1>3. sfile[s] = want
  BY <1>1 DEF UploadInv, SessionInv, SessionOK
<1>4. CASE Begin(s)
  <2>1. /\ spc' = [spc EXCEPT ![s] = "recv"] /\ lastAck' = [lastAck EXCEPT ![s] = 0]
        /\ expectBlock' = [expectBlock EXCEPT ![s] = 1]
        /\ \A q \in net' : q \in net \/ q = AckPacket(s, 0)
    BY <1>4 DEF Begin, Send
  <2>2. spc'[s] = "recv" /\ lastAck'[s] = 0 /\ expectBlock'[s] = 1
    BY <1>1, <2>1, SessionFacts
  <2>3. SessionOK(s)'
    BY <1>1, <1>2, <1>3, <2>2, SessionFacts DEF SessionOK
  <2>4. ASSUME NEW q, q = AckPacket(s, 0) PROVE PacketOK(q)'
    BY <1>1, <1>2, <2>4, SessionFacts DEF PacketOK, AckOK, AckPacket
  <2>5. /\ \A t \in Sessions \ {s} : /\ spc'[t] = spc[t] /\ lastAck'[t] = lastAck[t]
                                   /\ expectBlock'[t] = expectBlock[t]
        /\ calls # 0 /\ Len(wrote'[s]) \in Nat /\ Len(wrote[s]) <= Len(wrote'[s])
    BY <1>1, <1>2, <2>1, SessionFacts
  <2>6. \A q \in net' : q \in net \/ PacketOK(q)'
    BY <2>1, <2>4
  <2> QED
    BY <1>1, <2>3, <2>5, <2>6, SessionMoves
<1>5. CASE BeginFails(s)
  <2>1. /\ spc' = [spc EXCEPT ![s] = "aborted"]
        /\ UNCHANGED <<expectBlock, lastAck>>
        /\ \A q \in net' : q \in net \/ q = ErrorPacket(s)
    BY <1>5 DEF BeginFails, Send
  <2>2. spc'[s] = "aborted"
    BY <1>1, <2>1, SessionFacts
  <2>3. SessionOK(s)'
    BY <1>1, <1>2, <1>3, <2>2 DEF SessionOK
  <2>4. ASSUME NEW q, q = ErrorPacket(s) PROVE PacketOK(q)'
    BY <2>4 DEF PacketOK, ErrorPacket
  <2>5. \A t \in Sessions \ {s} : spc'[t] = spc[t]
    BY <1>1, <2>1, SessionFacts
  <2>6. calls # 0 /\ Len(wrote'[s]) \in Nat /\ Len(wrote[s]) <= Len(wrote'[s])
    BY <1>1, <1>2, SessionFacts
  <2>7. \A q \in net' : q \in net \/ PacketOK(q)'
    BY <2>1, <2>4
  <2> QED
    BY <1>1, <2>1, <2>3, <2>5, <2>6, <2>7, SessionMoves
<1> QED
  BY <1>4, <1>5

\* A session that writes nothing: it repeats its last ACK, sends an ERROR and
\* stops, or closes.
LEMMA QuietKeepsUpload ==
    ASSUME UploadInv, NEW s \in Sessions, spc[s] \in {"recv", "closing"},
           UNCHANGED <<client, sfile, expectBlock, lastAck, wrote>>,
           NEW pl \in {"recv", "over", "aborted"}, spc' = [spc EXCEPT ![s] = pl],
           pl = "recv" => spc[s] = "recv", spc[s] = "closing" => pl = "over",
           pl = "over" => spc[s] = "closing",
           NEW b \in Nat, spc[s] = "recv" => b <= Len(wrote[s]),
           \A q \in net' : \/ q \in net \/ q = ErrorPacket(s)
                           \/ spc'[s] = "recv" /\ q = AckPacket(s, b)
    PROVE  ClientOK' /\ PacketInv' /\ SessionInv'
<1>1. spc'[s] = pl /\ want' = want
  BY SessionFacts DEF client
<1>2. SessionOK(s)'
  <2>1. SessionOK(s)
    BY SessionFacts
  <2>2. /\ wrote'[s] = wrote[s] /\ sfile'[s] = sfile[s]
        /\ expectBlock'[s] = expectBlock[s] /\ lastAck'[s] = lastAck[s] /\ peer' = peer
    BY DEF client
  <2> QED
    BY <1>1, <2>1, <2>2 DEF SessionOK
<1>3. ASSUME NEW q, q = ErrorPacket(s) PROVE PacketOK(q)'
  BY <1>3 DEF PacketOK, ErrorPacket
<1>4. ASSUME NEW q, q = AckPacket(s, b), spc'[s] = "recv" PROVE PacketOK(q)'
  <2>1. b <= Len(wrote[s]) /\ Len(wrote[s]) < FileLen[want]
    BY <1>1, <1>4, SessionFacts DEF SessionOK
  <2>2. b # FileLen[want]
    BY <2>1, SessionFacts
  <2> QED
    BY <1>1, <1>4, <2>1, <2>2 DEF PacketOK, AckOK, AckPacket
<1>5. \A q \in net' : q \in net \/ PacketOK(q)'
  BY <1>3, <1>4
<1>6. \A t \in Sessions \ {s} : spc'[t] = spc[t]
  BY SessionFacts
<1> QED
  BY <1>1, <1>2, <1>5, <1>6, SessionFacts, SessionMoves

LEMMA RepeatsKeepUpload ==
    ASSUME UploadInv, NEW s \in Sessions,
           SessionRetransmit(s) \/ SessionAborts(s) \/ Close(s)
    PROVE  ClientOK' /\ PacketInv' /\ SessionInv'
<1>1. UNCHANGED <<client, sfile, expectBlock, lastAck, wrote>>
  BY DEF SessionRetransmit, SessionAborts, Close, streams
<1>2. CASE SessionRetransmit(s)
  <2>1. spc[s] = "recv" /\ spc' = spc /\ Send({AckPacket(s, lastAck[s])})
    BY <1>2 DEF SessionRetransmit
  <2>2. lastAck[s] = Len(wrote[s]) /\ Len(wrote[s]) \in Nat
    BY <2>1, SessionFacts DEF SessionOK
  <2>3. PICK b \in Nat : b = lastAck[s] /\ b <= Len(wrote[s])
    BY <2>2
  <2>4. spc' = [spc EXCEPT ![s] = "recv"] /\ spc'[s] = "recv"
    BY <2>1, SessionFacts
  <2>5. ASSUME NEW q \in net' PROVE q \in net \/ q = AckPacket(s, b)
    BY <2>1, <2>3 DEF Send
  <2> QED
    BY <1>1, <2>1, <2>3, <2>4, <2>5, QuietKeepsUpload
<1>3. CASE SessionAborts(s)
  <2>1. /\ spc[s] = "recv" /\ spc' = [spc EXCEPT ![s] = "aborted"]
        /\ \A q \in net' : q \in net \/ q = ErrorPacket(s)
    BY <1>3 DEF SessionAborts, Send
  <2>2. 0 \in Nat /\ 0 <= Len(wrote[s])
    BY <2>1, SessionFacts
  <2> QED
    BY <1>1, <2>1, <2>2, QuietKeepsUpload
<1>4. CASE Close(s)
  <2>1. /\ spc[s] = "closing" /\ spc' = [spc EXCEPT ![s] = "over"] /\ net' = net
    BY <1>4 DEF Close, netVars
  <2>2. 0 \in Nat /\ 0 <= Len(wrote[s])
    BY <2>1, SessionFacts
  <2> QED
    BY <1>1, <2>1, <2>2, QuietKeepsUpload
<1> QED
  BY <1>2, <1>3, <1>4

LEMMA RecvOtherKeepsUpload ==
    ASSUME UploadInv, NEW s \in Sessions, NEW p \in net,
           RecvShort(s, p) \/ RecvOther(s, p)
    PROVE  ClientOK' /\ PacketInv' /\ SessionInv'
<1>1. /\ UNCHANGED <<client, sfile, expectBlock, lastAck, wrote>>
      /\ spc[s] = "recv" /\ p.op = "DATA"
  BY DEF RecvShort, RecvOther, DataFor, streams
<1>2. p \in Packets /\ p.block \in Nat /\ 0 \in Nat /\ 0 <= Len(wrote[s])
  <2>1. p \in Packets
    BY DEF UploadInv, TypeInv, TypeOK
  <2>2. p.block \in WireNumbers
    BY <1>1, <2>1, PacketFields
  <2> QED
    BY <1>1, <2>1, <2>2, SessionFacts DEF WireNumbers
<1>3. CASE RecvShort(s, p)
  <2>1. spc' = spc /\ \A q \in net' : q \in net
    BY <1>3 DEF RecvShort, Deliver
  <2>2. spc' = [spc EXCEPT ![s] = "recv"]
    BY <1>1, <2>1, SessionFacts
  <2> QED
    BY <1>1, <1>2, <2>1, <2>2, QuietKeepsUpload
<1>4. CASE RecvOther(s, p) /\ p.block < expectBlock[s]
  <2>1. spc' = spc /\ \A q \in net' : q \in net \/ q = AckPacket(s, p.block)
    BY <1>4 DEF RecvOther, Deliver
  <2>2. p.block <= Len(wrote[s]) /\ spc' = [spc EXCEPT ![s] = "recv"]
    BY <1>1, <1>2, <1>4, <2>1, SessionFacts DEF SessionOK
  <2> QED
    BY <1>1, <1>2, <2>1, <2>2, QuietKeepsUpload
<1>5. CASE RecvOther(s, p) /\ ~ (p.block < expectBlock[s])
  <2>1. /\ spc' = [spc EXCEPT ![s] = "aborted"]
        /\ \A q \in net' : q \in net \/ q = ErrorPacket(s)
    BY <1>5 DEF RecvOther, Deliver
  <2> QED
    BY <1>1, <1>2, <2>1, QuietKeepsUpload
<1> QED
  BY <1>3, <1>4, <1>5

\* The block that is taken is the next one of the session's file.
LEMMA TakenIsNext ==
    ASSUME UploadInv, SmallFiles, NEW s \in Sessions, NEW p \in net, DataFor(s, p),
           p.block = expectBlock[s]
    PROVE  /\ s = peer /\ p.block = Len(wrote[s]) + 1
           /\ p.data = <<want, Len(wrote[s]) + 1>>
           /\ IsLast(p.data) <=> Len(wrote[s]) + 1 = FileLen[want]
           /\ Len(wrote[s]) < FileLen[want]
           /\ ~ IsLast(p.data) =>
                 Wire(expectBlock[s] + 1) = Len(wrote[s]) + 2
<1>1. spc[s] = "recv" /\ p.op = "DATA" /\ p.tid = s
  BY DEF DataFor
<1>2. p.data = <<want, p.block>> /\ s = peer
  BY <1>1 DEF UploadInv, PacketInv, PacketOK
<1>3. p.block = Len(wrote[s]) + 1 /\ Len(wrote[s]) < FileLen[want]
  BY <1>1, SessionFacts DEF SessionOK
<1>4. IsLast(p.data) <=> Len(wrote[s]) + 1 = FileLen[want]
  BY <1>2, <1>3 DEF IsLast
<1>5. ASSUME ~ IsLast(p.data) PROVE Wire(expectBlock[s] + 1) = Len(wrote[s]) + 2
  <2>1. FileLen[want] < Modulus /\ Modulus \in Nat
    BY <1>1, SessionFacts, NetAssumption DEF SmallFiles
  <2>2. Len(wrote[s]) + 2 \in 0..(Modulus - 1)
    BY <1>1, <1>3, <1>4, <1>5, <2>1, SessionFacts
  <2>3. expectBlock[s] + 1 = Len(wrote[s]) + 2
    BY <1>1, <1>3, SessionFacts
  <2> QED
    BY <2>2, <2>3, WireSmall
<1> QED
  BY <1>2, <1>3, <1>4, <1>5

LEMMA RecvExpectedKeepsUpload ==
    ASSUME UploadInv, SmallFiles, NEW s \in Sessions, NEW p \in net,
           RecvExpected(s, p) \/ ExpectedFails(s, p)
    PROVE  ClientOK' /\ PacketInv' /\ SessionInv'
<1>1. /\ DataFor(s, p) /\ spc[s] = "recv" /\ p.block = expectBlock[s]
      /\ UNCHANGED client /\ sfile' = sfile /\ want' = want /\ peer' = peer
  BY DEF RecvExpected, ExpectedFails, DataFor, client
<1>2. /\ s = peer /\ p.block = Len(wrote[s]) + 1 /\ Len(wrote[s]) < FileLen[want]
      /\ p.data = <<want, Len(wrote[s]) + 1>> /\ Len(wrote[s]) \in Nat
      /\ IsLast(p.data) <=> Len(wrote[s]) + 1 = FileLen[want]
  BY <1>1, TakenIsNext, SessionFacts
<1>3. p.data \in Blocks
  BY <1>1, PacketFields DEF DataFor, UploadInv, TypeInv, TypeOK
<1> DEFINE longer == Append(wrote[s], p.data)
<1>4. /\ longer # <<>> /\ Len(longer) = Len(wrote[s]) + 1
      /\ \A k \in 1..Len(longer) : longer[k] = <<want, k>>
  <2>1. wrote[s] \in Seq(Blocks) /\ \A k \in 1..Len(wrote[s]) : wrote[s][k] = <<want, k>>
    BY <1>1, SessionFacts DEF SessionOK
  <2>2. /\ Len(longer) = Len(wrote[s]) + 1 /\ longer \in Seq(Blocks)
        /\ \A k \in 1..Len(wrote[s]) : longer[k] = wrote[s][k]
        /\ longer[Len(wrote[s]) + 1] = p.data
    BY <1>3, <2>1
  <2>3. longer # <<>>
    BY <1>2, <2>2
  <2>4. ASSUME NEW k \in 1..Len(longer) PROVE longer[k] = <<want, k>>
    <3> HIDE DEF longer
    <3>1. k \in 1..Len(wrote[s]) \/ k = Len(wrote[s]) + 1
      BY <1>2, <2>2
    <3> QED
      BY <1>2, <2>1, <2>2, <3>1
  <2> QED
    BY <2>2, <2>3, <2>4
<1>5. \/ wrote' = wrote \/ wrote' = [wrote EXCEPT ![s] = longer]
  BY DEF RecvExpected, ExpectedFails
<1>6. /\ wrote'[s] = wrote[s] \/ wrote'[s] = longer
      /\ \A t \in Sessions \ {s} : wrote'[t] = wrote[t]
      /\ Len(wrote'[s]) \in Nat /\ Len(wrote[s]) <= Len(wrote'[s])
  <2> HIDE DEF longer
  <2> QED
    BY <1>1, <1>2, <1>4, <1>5, SessionFacts
<1>7. CASE ExpectedFails(s, p)
  <2>1. /\ spc' = [spc EXCEPT ![s] = "aborted"] /\ UNCHANGED <<expectBlock, lastAck>>
        /\ \A q \in net' : q \in net \/ q = ErrorPacket(s)
    BY <1>7 DEF ExpectedFails, Deliver
  <2>2. spc'[s] = "aborted"
    BY <1>1, <2>1, SessionFacts
  <2>3. SessionOK(s)'
    <3> HIDE DEF longer
    <3>1. \A k \in 1..Len(wrote[s]) : wrote[s][k] = <<want, k>>
      BY <1>1, SessionFacts DEF SessionOK
    <3>2. \A k \in 1..Len(wrote'[s]) : wrote'[s][k] = <<want, k>>
      BY <1>4, <1>6, <3>1
    <3> QED
      BY <1>1, <1>2, <2>2, <3>2, SessionFacts DEF SessionOK
  <2>4. ASSUME NEW q, q = ErrorPacket(s) PROVE PacketOK(q)'
    BY <2>4 DEF PacketOK, ErrorPacket
  <2> HIDE DEF longer
  <2> QED
    BY <1>1, <1>6, <2>1, <2>3, <2>4, SessionFacts, SessionMoves
<1>8. CASE RecvExpected(s, p)
  <2>1. /\ wrote' = [wrote EXCEPT ![s] = longer]
        /\ \A q \in net' : q \in net \/ q = AckPacket(s, p.block)
    BY <1>8 DEF RecvExpected, Deliver
  <2>2. wrote'[s] = longer
    BY <1>1, <2>1, SessionFacts
  <2>3. \/ /\ Len(longer) = FileLen[want]
           /\ spc' = [spc EXCEPT ![s] = "closing"] /\ UNCHANGED <<expectBlock, lastAck>>
        \/ /\ Len(longer) < FileLen[want] /\ spc' = spc
           /\ lastAck' = [lastAck EXCEPT ![s] = Len(longer)]
           /\ expectBlock' = [expectBlock EXCEPT ![s] = Len(longer) + 1]
    <3>1. CASE IsLast(p.data)
      <4>1. spc' = [spc EXCEPT ![s] = "closing"] /\ UNCHANGED <<expectBlock, lastAck>>
        BY <1>8, <3>1 DEF RecvExpected
      <4> QED
        BY <1>2, <1>4, <3>1, <4>1
    <3>2. CASE ~ IsLast(p.data)
      <4>1. /\ spc' = spc /\ lastAck' = [lastAck EXCEPT ![s] = p.block]
            /\ expectBlock' = [expectBlock EXCEPT ![s] = Wire(expectBlock[s] + 1)]
        BY <1>8, <3>2 DEF RecvExpected
      <4>2. Wire(expectBlock[s] + 1) = Len(wrote[s]) + 2
        BY <1>1, <3>2, TakenIsNext
      <4>3. Len(longer) < FileLen[want]
        BY <1>1, <1>2, <1>4, <3>2, SessionFacts
      <4>4. Len(longer) = p.block /\ Len(longer) + 1 = Len(wrote[s]) + 2
        BY <1>2, <1>4
      <4> HIDE DEF longer
      <4> QED
        BY <4>1, <4>2, <4>3, <4>4
    <3> QED
      BY <3>1, <3>2
  <2> HIDE DEF longer
  <2>4. /\ spc'[s] = "recv" => /\ expectBlock'[s] = Len(longer) + 1
                               /\ lastAck'[s] = Len(longer)
                               /\ Len(longer) < FileLen[want]
        /\ spc'[s] \in {"recv", "closing"}
        /\ spc'[s] = "closing" => Len(longer) = FileLen[want]
        /\ Len(longer) = FileLen[want] => spc'[s] = "closing"
        /\ \A t \in Sessions \ {s} : /\ spc'[t] = spc[t]
                                     /\ expectBlock'[t] = expectBlock[t]
                                     /\ lastAck'[t] = lastAck[t]
    BY <1>1, <2>3, SessionFacts
  <2>5. SessionOK(s)'
    BY <1>1, <1>2, <1>4, <2>2, <2>4, SessionFacts DEF SessionOK
  <2>6. ASSUME NEW q, q = AckPacket(s, p.block) PROVE PacketOK(q)'
    BY <1>1, <1>2, <1>4, <2>2, <2>4, <2>6 DEF PacketOK, AckOK, AckPacket
  <2> QED
    BY <1>1, <1>6, <2>1, <2>4, <2>5, <2>6, SessionFacts, SessionMoves
<1> QED
  BY <1>7, <1>8

LEMMA UploadNext ==
    ASSUME OneUpload, SmallFiles
    PROVE  UploadInv /\ [Next]_vars => UploadInv'
<1> SUFFICES ASSUME UploadInv, [Next]_vars PROVE UploadInv'
  OBVIOUS
<1>1. TypeInv'
  BY TypeNext DEF UploadInv
<1>2. CASE UNCHANGED vars
  BY <1>1, <1>2 DEF vars, netVars, client, server, streams, UploadInv, ClientOK, PacketInv,
     PacketOK, AckOK, SessionInv, SessionOK
<1>3. CASE ClientStep
  BY <1>1, <1>3, RetransmitKeepsUpload, ClientRecvKeepsUpload, RecvNextAckKeepsUpload
     DEF ClientStep, UploadInv
<1>4. ASSUME NEW s \in Sessions, SessionStep(s) PROVE UploadInv'
  BY <1>1, <1>4, BeginKeepsUpload, RepeatsKeepUpload, RecvOtherKeepsUpload,
     RecvExpectedKeepsUpload DEF SessionStep, UploadInv
<1> QED
  BY <1>1, <1>2, <1>3, <1>4, StartKeepsUpload, AcceptKeepsUpload DEF Next, UploadInv

LEMMA UploadInvariant ==
    ASSUME OneUpload, SmallFiles
    PROVE  Spec => []UploadInv
<1>1. UploadInv /\ [Next]_vars => UploadInv'
  BY UploadNext
<1> QED
  BY <1>1, UploadInit, PTL DEF Spec

\* The blocks of the file reach a session's stream once each and in order: no
\* datagram that is resent, delivered twice or late is written a second time
\* (doWriteRequest compares each block number with expectBlock).
THEOREM WrittenInOrder ==
    ASSUME OneUpload, SmallFiles
    PROVE  Spec => []SessionIntact
<1>1. UploadInv => SessionIntact
  <2> SUFFICES ASSUME UploadInv, NEW s \in Sessions, NEW k \in 1..Len(wrote[s])
               PROVE  wrote[s][k] = <<sfile[s], k>>
    BY DEF SessionIntact
  <2>1. SessionOK(s) /\ (spc[s] = "free" => wrote[s] = <<>>)
    BY DEF UploadInv, SessionInv, TypeInv, ServerInv
  <2>2. spc[s] # "free"
    BY <2>1
  <2> QED
    BY <2>1, <2>2 DEF SessionOK
<1> QED
  BY <1>1, UploadInvariant, PTL

\* doUpload returns 0 only when the session it talked to has taken every block
\* of the file and left its loop for good: its last ACK cannot be an old one.
THEOREM SuccessIsReal ==
    ASSUME OneUpload, SmallFiles
    PROVE  Spec => []OkMeansReceived
<1>1. UploadInv => OkMeansReceived
  <2> SUFFICES ASSUME UploadInv, status = "ok"
               PROVE  wrote[peer] = Content(want) /\ spc[peer] \in {"closing", "over"}
    BY DEF OkMeansReceived
  <2>1. peer \in Sessions /\ spc[peer] \in {"closing", "over"}
    BY DEF UploadInv, ClientOK
  <2>2. /\ Len(wrote[peer]) = FileLen[want] /\ wrote[peer] \in Seq(Blocks)
        /\ \A k \in 1..Len(wrote[peer]) : wrote[peer][k] = <<want, k>>
        /\ want \in Files
    BY <2>1, SessionFacts DEF SessionOK
  <2> QED
    BY <2>1, <2>2, IsContent
<1> QED
  BY <1>1, UploadInvariant, PTL

-----------------------------------------------------------------------------
(* The stored file, for any number of uploads.                             *)

Unshared(s) == \A t \in Sessions \ {s} : sfile[t] # sfile[s]

\* What is on the disk under a file that one session alone has opened is what
\* its stream has written out, as long as no write has failed.
DiskOK(s) ==
    spc[s] \in {"recv", "closing", "over"} /\ Unshared(s) =>
        /\ Len(disk[sfile[s]]) = flushed[s]
        /\ \A k \in 1..flushed[s] : disk[sfile[s]][k] = wrote[s][k]

DiskInv == \A s \in Sessions : DiskOK(s)

\* The steps of a session do not touch the files of the others.
LEMMA OthersOnDisk ==
    ASSUME TypeInv, DiskInv, NEW s \in Sessions, sfile' = sfile,
           \A t \in Sessions \ {s} :
               spc'[t] = spc[t] /\ wrote'[t] = wrote[t] /\ flushed'[t] = flushed[t],
           \A f \in Files \ {sfile[s]} : disk'[f] = disk[f],
           DiskOK(s)'
    PROVE  DiskInv'
<1> SUFFICES ASSUME NEW t \in Sessions, t # s PROVE DiskOK(t)'
  BY DEF DiskInv
<1> SUFFICES ASSUME spc[t] \in {"recv", "closing", "over"}, Unshared(t)
             PROVE  /\ Len(disk'[sfile[t]]) = flushed'[t]
                    /\ \A k \in 1..flushed'[t] : disk'[sfile[t]][k] = wrote'[t][k]
  BY DEF DiskOK, Unshared
<1>1. sfile[t] \in Files /\ sfile[s] # sfile[t]
  BY FileOf DEF Unshared
<1>2. disk'[sfile[t]] = disk[sfile[t]] /\ wrote'[t] = wrote[t] /\ flushed'[t] = flushed[t]
  BY <1>1
<1>3. DiskOK(t)
  BY DEF DiskInv
<1> QED
  BY <1>2, <1>3 DEF DiskOK

\* What the stream has taken since it last wrote out extends the file.
LEMMA FlushExtends ==
    ASSUME TypeInv, NEW s \in Sessions, DiskOK(s), spc[s] \in {"recv", "closing"},
           Unshared(s),
           NEW blks \in Seq(Blocks), flushed[s] <= Len(blks),
           \A k \in 1..flushed[s] : blks[k] = wrote[s][k],
           Flush(s, blks) \/ UNCHANGED <<flushed, disk>>
    PROVE  /\ Len(disk'[sfile[s]]) = flushed'[s]
           /\ flushed'[s] <= Len(blks)
           /\ \A k \in 1..flushed'[s] : disk'[sfile[s]][k] = blks[k]
           /\ \A f \in Files \ {sfile[s]} : disk'[f] = disk[f]
           /\ \A t \in Sessions \ {s} : flushed'[t] = flushed[t]
<1>1. /\ sfile[s] \in Files /\ flushed[s] \in Nat /\ Len(blks) \in Nat
      /\ Len(wrote[s]) \in Nat /\ flushed[s] <= Len(wrote[s])
      /\ disk[sfile[s]] \in Seq(Blocks \cup {Hole})
      /\ disk \in [Files -> Seq(Blocks \cup {Hole})] /\ flushed \in [Sessions -> Nat]
  <2>1. sfile[s] \in Files
    BY FileOf
  <2>2. flushed[s] \in Nat /\ Len(wrote[s]) \in Nat /\ flushed[s] <= Len(wrote[s])
    BY DEF TypeInv, TypeOK, ServerInv
  <2> QED
    BY <2>1, <2>2 DEF TypeInv, TypeOK
<1>2. /\ Len(disk[sfile[s]]) = flushed[s]
      /\ \A k \in 1..flushed[s] : disk[sfile[s]][k] = blks[k]
  BY <1>1 DEF DiskOK
<1>3. flushed[s] <= Len(blks)
  BY <1>1
<1>4. CASE UNCHANGED <<flushed, disk>> /\ ~ Flush(s, blks)
  BY <1>1, <1>2, <1>4
<1>5. CASE Flush(s, blks)
  <2>1. PICK now : /\ now = Overwritten(disk[sfile[s]], blks, flushed[s])
                   /\ disk' = [disk EXCEPT ![sfile[s]] = now]
                   /\ flushed' = [flushed EXCEPT ![s] = Len(blks)]
    BY <1>5 DEF Flush
  <2>2. /\ Len(now) = Len(blks)
        /\ \A k \in 1..Len(blks) :
              now[k] = IF k <= flushed[s] THEN disk[sfile[s]][k] ELSE blks[k]
    <3>1. PICK old \in Seq(Blocks \cup {Hole}), from \in Nat :
              old = disk[sfile[s]] /\ from = flushed[s]
      BY <1>1
    <3>2. Len(old) = from /\ from <= Len(blks) /\ now = Overwritten(old, blks, from)
      BY <1>2, <1>3, <2>1, <3>1
    <3>3. /\ Len(now) = Len(blks)
          /\ \A k \in 1..Len(blks) : now[k] = IF k <= from THEN old[k] ELSE blks[k]
      BY <3>2, OverwrittenType
    <3> QED
      BY <3>1, <3>3
  <2>3. /\ disk'[sfile[s]] = now /\ flushed'[s] = Len(blks)
        /\ \A f \in Files \ {sfile[s]} : disk'[f] = disk[f]
        /\ \A t \in Sessions \ {s} : flushed'[t] = flushed[t]
    BY <1>1, <2>1
  <2>4. ASSUME NEW k \in 1..Len(blks) PROVE now[k] = blks[k]
    BY <1>1, <1>2, <2>2
  <2> QED
    BY <2>2, <2>3, <2>4
<1> QED
  BY <1>4, <1>5

\* Whatever else is on the disk, a write touches one file and one offset.
LEMMA FlushIsLocal ==
    ASSUME TypeInv, NEW s \in Sessions, NEW blks,
           \/ Flush(s, blks) \/ CloseStream(s, blks) \/ CloseBadStream(s)
           \/ UNCHANGED <<flushed, disk>>
    PROVE  /\ \A f \in Files \ {sfile[s]} : disk'[f] = disk[f]
           /\ \A t \in Sessions \ {s} : flushed'[t] = flushed[t]
BY DEF Flush, CloseStream, CloseBadStream, TypeInv, TypeOK

LEMMA AcceptKeepsDisk ==
    ASSUME TypeInv, DiskInv, NEW s \in Sessions, NEW p \in net, Accept(s, p)
    PROVE  DiskInv'
<1>1. /\ spc[s] = "free" /\ sfile[s] = None
      /\ spc' = [spc EXCEPT ![s] = "starting"] /\ sfile' = [sfile EXCEPT ![s] = p.file]
      /\ wrote' = wrote /\ flushed' = flushed /\ disk' = disk
  BY DEF Accept, streams, TypeInv, ServerInv
<1> SUFFICES ASSUME NEW t \in Sessions PROVE DiskOK(t)'
  BY DEF DiskInv
<1>2. CASE t = s
  <2>1. spc'[s] = "starting"
    BY <1>1 DEF TypeInv, TypeOK
  <2> QED
    BY <1>2, <2>1 DEF DiskOK
<1>3. CASE t # s
  <2>1. spc'[t] = spc[t] /\ sfile'[t] = sfile[t]
    BY <1>1, <1>3 DEF TypeInv, TypeOK
  <2>2. CASE spc[t] \in {"recv", "closing", "over"} /\ Unshared(t)'
    <3>1. sfile[t] \in Files /\ sfile[t] # None
      BY <2>2, FileOf, NetAssumption
    <3>2. ASSUME NEW u \in Sessions \ {t} PROVE sfile[u] # sfile[t]
      <4>1. sfile'[u] # sfile'[t]
        BY <2>2 DEF Unshared
      <4>2. u # s => sfile'[u] = sfile[u]
        BY <1>1 DEF TypeInv, TypeOK
      <4> QED
        BY <1>1, <2>1, <3>1, <4>1, <4>2
    <3>3. Unshared(t)
      BY <3>2 DEF Unshared
    <3>4. DiskOK(t)
      BY DEF DiskInv
    <3> QED
      BY <1>1, <2>1, <2>2, <3>3, <3>4 DEF DiskOK
  <2> QED
    BY <2>1, <2>2 DEF DiskOK
<1> QED
  BY <1>2, <1>3

LEMMA BeginKeepsDisk ==
    ASSUME TypeInv, DiskInv, NEW s \in Sessions, Begin(s) \/ BeginFails(s)
    PROVE  DiskInv'
<1>1. /\ spc[s] = "starting" /\ sfile' = sfile /\ wrote' = wrote /\ flushed' = flushed
      /\ disk' = [disk EXCEPT ![sfile[s]] = <<>>] \/ disk' = disk
      /\ \E pl \in {"recv", "aborted"} : spc' = [spc EXCEPT ![s] = pl]
  BY DEF Begin, BeginFails, Truncate
<1>2. sfile[s] \in Files /\ wrote[s] = <<>> /\ flushed[s] = 0
  BY <1>1, FileOf DEF TypeInv, TypeOK, ServerInv
<1>3. /\ \A f \in Files \ {sfile[s]} : disk'[f] = disk[f]
      /\ \A t \in Sessions \ {s} : spc'[t] = spc[t]
  BY <1>1 DEF TypeInv, TypeOK
<1>4. DiskOK(s)'
  <2>1. CASE BeginFails(s)
    <3>1. spc'[s] = "aborted"
      BY <2>1 DEF BeginFails, TypeInv, TypeOK
    <3> QED
      BY <3>1 DEF DiskOK
  <2>2. CASE Begin(s)
    <3>1. spc'[s] = "recv" /\ disk' = [disk EXCEPT ![sfile[s]] = <<>>]
      BY <2>2 DEF Begin, Truncate, TypeInv, TypeOK
    <3>2. disk'[sfile[s]] = <<>>
      BY <1>2, <3>1 DEF TypeInv, TypeOK
    <3> QED
      BY <1>1, <1>2, <3>1, <3>2 DEF DiskOK
  <2> QED
    BY <2>1, <2>2
<1> QED
  BY <1>1, <1>3, <1>4, OthersOnDisk

\* A stream that has been given more, and writes out all of it, a part, or
\* nothing.
LEMMA WritesKeepDisk ==
    ASSUME TypeInv, DiskInv, NEW s \in Sessions, spc[s] \in {"recv", "closing"},
           sfile' = sfile, wrote' \in [Sessions -> Seq(Blocks)],
           \A t \in Sessions \ {s} : wrote'[t] = wrote[t],
           Len(wrote[s]) <= Len(wrote'[s]),
           \A k \in 1..Len(wrote[s]) : wrote'[s][k] = wrote[s][k],
           NEW pl \in SessionStates, spc' = [spc EXCEPT ![s] = pl],
           \/ Flush(s, wrote'[s]) \/ CloseStream(s, wrote'[s])
           \/ UNCHANGED <<flushed, disk>>
    PROVE  DiskInv'
<1>1. /\ spc'[s] = pl /\ \A t \in Sessions \ {s} : spc'[t] = spc[t]
      /\ Len(wrote[s]) \in Nat /\ flushed[s] \in Nat /\ flushed[s] <= Len(wrote[s])
  BY DEF TypeInv, TypeOK, ServerInv
<1>2. PICK given \in Seq(Blocks) : given = wrote'[s] /\ Len(given) \in Nat
  OBVIOUS
<1>3. /\ flushed[s] <= Len(given)
      /\ \A k \in 1..flushed[s] : given[k] = wrote[s][k]
  BY <1>1, <1>2
<1>4. PICK blks \in Seq(Blocks) :
         /\ Flush(s, blks) \/ UNCHANGED <<flushed, disk>>
         /\ flushed[s] <= Len(blks) /\ Len(blks) <= Len(given)
         /\ \A k \in 1..Len(blks) : blks[k] = given[k]
  <2>1. CASE Flush(s, given) \/ UNCHANGED <<flushed, disk>>
    BY <1>2, <1>3, <2>1
  <2>2. CASE CloseStream(s, given)
    <3>1. PICK n \in flushed[s]..Len(given) : Flush(s, SubSeq(given, 1, n))
      BY <2>2 DEF CloseStream
    <3>2. n \in Nat /\ n <= Len(given) /\ flushed[s] <= n
      BY <1>1, <1>2, <3>1
    <3>3. PICK part \in Seq(Blocks) :
              /\ part = SubSeq(given, 1, n) /\ Len(part) = n
              /\ \A k \in 1..n : part[k] = given[k]
      BY <3>2, PrefixType
    <3> QED
      BY <3>1, <3>2, <3>3
  <2> QED
    BY <1>2, <2>1, <2>2
<1>5. \A k \in 1..flushed[s] : blks[k] = wrote[s][k]
  BY <1>1, <1>3, <1>4
<1>6. /\ \A f \in Files \ {sfile[s]} : disk'[f] = disk[f]
      /\ \A t \in Sessions \ {s} : flushed'[t] = flushed[t]
  BY <1>4, FlushIsLocal
<1>7. DiskOK(s)'
  <2> SUFFICES ASSUME Unshared(s)
               PROVE  /\ Len(disk'[sfile[s]]) = flushed'[s]
                      /\ \A k \in 1..flushed'[s] : disk'[sfile[s]][k] = wrote'[s][k]
    BY <1>1 DEF DiskOK, Unshared
  <2>1. DiskOK(s)
    BY DEF DiskInv
  <2>2. /\ Len(disk'[sfile[s]]) = flushed'[s]
        /\ flushed'[s] <= Len(blks)
        /\ \A k \in 1..flushed'[s] : disk'[sfile[s]][k] = blks[k]
    BY <1>4, <1>5, <2>1, FlushExtends
  <2>3. ASSUME NEW k \in 1..flushed'[s] PROVE k \in 1..Len(blks)
    <3>1. Len(blks) \in Nat /\ flushed'[s] \in Nat
      <4>1. UNCHANGED <<flushed, disk>> \/ flushed' = [flushed EXCEPT ![s] = Len(blks)]
        BY <1>4 DEF Flush
      <4> QED
        BY <1>1, <4>1 DEF TypeInv, TypeOK
    <3> QED
      BY <2>2, <3>1
  <2> QED
    BY <1>2, <1>4, <2>2, <2>3
<1> QED
  BY <1>1, <1>6, <1>7, OthersOnDisk

LEMMA QuietKeepsDisk ==
    ASSUME TypeInv, DiskInv, NEW s \in Sessions, spc[s] \in {"recv", "closing"},
           sfile' = sfile, wrote' = wrote,
           NEW pl \in SessionStates, spc' = [spc EXCEPT ![s] = pl],
           CloseStream(s, wrote[s]) \/ UNCHANGED <<flushed, disk>>
    PROVE  DiskInv'
<1>1. /\ wrote' \in [Sessions -> Seq(Blocks)] /\ Len(wrote[s]) \in Nat
      /\ wrote'[s] = wrote[s]
  BY DEF TypeInv, TypeOK
<1>2. /\ \A t \in Sessions \ {s} : wrote'[t] = wrote[t]
      /\ Len(wrote[s]) <= Len(wrote'[s])
      /\ \A k \in 1..Len(wrote[s]) : wrote'[s][k] = wrote[s][k]
  BY <1>1
<1>3. CloseStream(s, wrote'[s]) \/ UNCHANGED <<flushed, disk>>
  BY <1>1
<1> QED
  BY <1>1, <1>2, <1>3, WritesKeepDisk

\* After a write that failed nothing is said of the session's own file.
LEMMA BadStreamKeepsDisk ==
    ASSUME TypeInv, DiskInv, NEW s \in Sessions, sfile' = sfile, wrote' = wrote,
           spc' = [spc EXCEPT ![s] = "aborted"], CloseBadStream(s)
    PROVE  DiskInv'
<1>1. spc'[s] = "aborted" /\ \A t \in Sessions \ {s} : spc'[t] = spc[t]
  BY DEF TypeInv, TypeOK
<1>2. DiskOK(s)'
  BY <1>1 DEF DiskOK
<1>3. /\ \A f \in Files \ {sfile[s]} : disk'[f] = disk[f]
      /\ \A t \in Sessions \ {s} : flushed'[t] = flushed[t]
  BY FlushIsLocal
<1> QED
  BY <1>1, <1>2, <1>3, OthersOnDisk

LEMMA SessionKeepsDisk ==
    ASSUME TypeInv, DiskInv, NEW s \in Sessions, SessionStep(s)
    PROVE  DiskInv'
<1>1. /\ wrote \in [Sessions -> Seq(Blocks)] /\ wrote[s] \in Seq(Blocks)
      /\ Len(wrote[s]) \in Nat /\ spc \in [Sessions -> SessionStates]
      /\ spc[s] \in SessionStates
      /\ \A pl \in {"recv", "closing", "over", "aborted"} : pl \in SessionStates
  BY DEF TypeInv, TypeOK, SessionStates
<1>2. CASE SessionRetransmit(s)
  <2>1. /\ spc[s] = "recv" /\ spc' = [spc EXCEPT ![s] = "recv"] /\ sfile' = sfile
        /\ wrote' = wrote /\ UNCHANGED <<flushed, disk>>
    BY <1>1, <1>2 DEF SessionRetransmit, streams
  <2> QED
    BY <1>1, <2>1, QuietKeepsDisk
<1>3. CASE SessionAborts(s)
  <2>1. /\ spc[s] = "recv" /\ spc' = [spc EXCEPT ![s] = "aborted"] /\ sfile' = sfile
        /\ wrote' = wrote /\ CloseStream(s, wrote[s])
    BY <1>3 DEF SessionAborts
  <2> QED
    BY <1>1, <2>1, QuietKeepsDisk
<1>4. CASE Close(s)
  <2>1. /\ spc[s] = "closing" /\ spc' = [spc EXCEPT ![s] = "over"] /\ sfile' = sfile
        /\ wrote' = wrote /\ CloseStream(s, wrote[s])
    BY <1>4 DEF Close
  <2>2. spc[s] \in {"recv", "closing"} /\ "over" \in SessionStates
    BY <1>1, <2>1
  <2> QED
    BY <2>1, <2>2, QuietKeepsDisk
<1>5. ASSUME NEW p \in net, RecvShort(s, p) PROVE DiskInv'
  <2>1. /\ spc[s] = "recv" /\ spc' = [spc EXCEPT ![s] = "recv"] /\ sfile' = sfile
        /\ wrote' = wrote /\ UNCHANGED <<flushed, disk>>
    BY <1>1, <1>5 DEF RecvShort, DataFor, streams
  <2> QED
    BY <1>1, <2>1, QuietKeepsDisk
<1>6. ASSUME NEW p \in net, RecvOther(s, p) PROVE DiskInv'
  <2>1. spc[s] = "recv" /\ sfile' = sfile /\ wrote' = wrote
    BY <1>6 DEF RecvOther, DataFor
  <2>2. CASE p.block < expectBlock[s]
    <3>1. spc' = [spc EXCEPT ![s] = "recv"] /\ UNCHANGED <<flushed, disk>>
      BY <1>1, <1>6, <2>1, <2>2 DEF RecvOther
    <3> QED
      BY <1>1, <2>1, <3>1, QuietKeepsDisk
  <2>3. CASE ~ (p.block < expectBlock[s])
    <3>1. spc' = [spc EXCEPT ![s] = "aborted"] /\ CloseStream(s, wrote[s])
      BY <1>6, <2>3 DEF RecvOther
    <3> QED
      BY <1>1, <2>1, <3>1, QuietKeepsDisk
  <2> QED
    BY <2>2, <2>3
<1>7. ASSUME NEW p \in net, RecvExpected(s, p) \/ ExpectedFails(s, p) PROVE DiskInv'
  <2>1. /\ spc[s] = "recv" /\ sfile' = sfile /\ DataFor(s, p)
        /\ wrote' = [wrote EXCEPT ![s] = Append(@, p.data)] \/ UNCHANGED wrote
        /\ \/ Flush(s, wrote'[s]) \/ CloseStream(s, wrote'[s])
           \/ UNCHANGED <<flushed, disk>>
           \/ /\ CloseBadStream(s) /\ wrote' = wrote
              /\ spc' = [spc EXCEPT ![s] = "aborted"]
    BY <1>7 DEF RecvExpected, ExpectedFails, DataFor
  <2>2. /\ wrote' \in [Sessions -> Seq(Blocks)] /\ p.data \in Blocks
        /\ \A t \in Sessions \ {s} : wrote'[t] = wrote[t]
        /\ wrote'[s] \in {wrote[s], Append(wrote[s], p.data)}
    BY <2>1, BlockTaken
  <2>3. /\ Len(wrote[s]) <= Len(wrote'[s])
        /\ \A k \in 1..Len(wrote[s]) : wrote'[s][k] = wrote[s][k]
    BY <1>1, <2>2
  <2>4. \E pl \in {"recv", "closing", "aborted"} : spc' = [spc EXCEPT ![s] = pl]
    BY <1>1, <1>7, <2>1 DEF RecvExpected, ExpectedFails
  <2>5. CASE \/ Flush(s, wrote'[s]) \/ CloseStream(s, wrote'[s])
             \/ UNCHANGED <<flushed, disk>>
    BY <1>1, <2>1, <2>2, <2>3, <2>4, <2>5, WritesKeepDisk
  <2> QED
    BY <2>1, <2>5, BadStreamKeepsDisk
<1> QED
  BY <1>2, <1>3, <1>4, <1>5, <1>6, <1>7, BeginKeepsDisk DEF SessionStep

LEMMA DiskInvariant == Spec => []DiskInv
<1>1. Init => DiskInv
  BY DEF Init, DiskInv, DiskOK
<1>2. TypeInv /\ DiskInv /\ [Next]_vars => DiskInv'
  <2> SUFFICES ASSUME TypeInv, DiskInv, [Next]_vars PROVE DiskInv'
    OBVIOUS
  <2>1. CASE UNCHANGED server
    BY <2>1 DEF server, streams, DiskInv, DiskOK, Unshared
  <2>2. UNCHANGED vars \/ (\E f \in Files : StartUpload(f)) \/ ClientStep => UNCHANGED server
    BY DEF vars, StartUpload, ClientStep, ClientRetransmit, ClientGiveUp, RecvStranger,
       RecvFinalAck, RecvNextAck, RecvOtherAck, RecvError, FromPeer
  <2> QED
    BY <2>1, <2>2, AcceptKeepsDisk, SessionKeepsDisk DEF Next
<1> QED
  BY <1>1, <1>2, TypeInit, TypeNext, PTL DEF Spec

LEMMA IsBeginning ==
    ASSUME NEW f \in Files, NEW n \in Nat, n <= FileLen[f],
           NEW blks \in Seq(Blocks \cup {Hole}), Len(blks) = n,
           \A k \in 1..n : blks[k] = <<f, k>>
    PROVE  blks = SubSeq(Content(f), 1, n)
<1>1. FileLen[f] \in Nat
  BY NetAssumption
<1>2. \A k \in 1..FileLen[f] : Content(f)[k] = <<f, k>>
  BY DEF Content
<1>3. \A k \in 1..n : Content(f)[k] = blks[k] /\ blks[k] \in Blocks \cup {Hole}
  <2>1. \A k \in 1..n : blks[k] \in Blocks \cup {Hole}
    OBVIOUS
  <2>2. \A k \in 1..n : k \in 1..FileLen[f]
    BY <1>1
  <2>3. \A k \in 1..n : Content(f)[k] = blks[k]
    BY <1>2, <2>2
  <2> QED
    BY <2>1, <2>3
<1> DEFINE part == SubSeq(Content(f), 1, n)
<1>4. /\ part \in Seq(Blocks \cup {Hole})
      /\ Len(part) = IF 1 <= n THEN n - 1 + 1 ELSE 0
      /\ \A k \in 1..(n - 1 + 1) : part[k] = Content(f)[1 + k - 1]
  <2>1. \A k \in 1..n : Content(f)[k] \in Blocks \cup {Hole}
    BY <1>3
  <2>2. 1 \in Int /\ n \in Int
    OBVIOUS
  <2> QED
    BY <2>1, <2>2, SubSeqProperties
<1> HIDE DEF part
<1>5. Len(part) = n /\ \A k \in 1..n : part[k] = Content(f)[k]
  BY <1>4
<1>6. Len(part) = Len(blks) /\ \A k \in 1..Len(blks) : blks[k] = part[k]
  BY <1>3, <1>5
<1>7. blks = part
  BY <1>4, <1>6, SeqEqual
<1> QED
  BY <1>7 DEF part

\* Under a name that one session alone has opened, the disk holds a beginning of
\* the client's file, as long as no error has ended the session; and the whole,
\* when the session has ended normally and its last write-out did not fail.
THEOREM StoredWhole ==
    ASSUME OneUpload, SmallFiles
    PROVE  Spec => []StoredUnlessShared
<1>1. UploadInv /\ DiskInv => StoredUnlessShared
  <2> SUFFICES ASSUME UploadInv, DiskInv, NEW s \in Sessions,
                      spc[s] \in {"recv", "closing", "over"},
                      \A t \in Sessions \ {s} : sfile[t] # sfile[s]
               PROVE  /\ disk[sfile[s]] = SubSeq(Content(sfile[s]), 1, flushed[s])
                      /\ spc[s] = "over" /\ flushed[s] = Len(wrote[s])
                         => disk[sfile[s]] = Content(sfile[s])
    BY DEF StoredUnlessShared
  <2>1. /\ sfile[s] = want /\ want \in Files /\ Len(wrote[s]) <= FileLen[want]
        /\ spc[s] = "over" => Len(wrote[s]) = FileLen[want]
        /\ \A k \in 1..Len(wrote[s]) : wrote[s][k] = <<want, k>>
    BY SessionFacts DEF SessionOK
  <2>2. /\ Len(disk[sfile[s]]) = flushed[s]
        /\ \A k \in 1..flushed[s] : disk[sfile[s]][k] = wrote[s][k]
    BY DEF DiskInv, DiskOK, Unshared
  <2>3. /\ disk[sfile[s]] \in Seq(Blocks \cup {Hole})
        /\ flushed[s] \in Nat /\ flushed[s] <= Len(wrote[s]) /\ Len(wrote[s]) \in Nat
        /\ FileLen[want] \in Nat
    BY <2>1, NetAssumption DEF UploadInv, TypeInv, TypeOK, ServerInv
  <2>4. flushed[s] <= FileLen[want]
    BY <2>1, <2>3
  <2>5. \A k \in 1..flushed[s] : disk[sfile[s]][k] = <<want, k>>
    BY <2>1, <2>2, <2>3
  <2>6. disk[sfile[s]] = SubSeq(Content(sfile[s]), 1, flushed[s])
    <3>1. PICK blks \in Seq(Blocks \cup {Hole}), n \in Nat :
              blks = disk[sfile[s]] /\ n = flushed[s]
      BY <2>3
    <3> QED
      BY <2>1, <2>2, <2>4, <2>5, <3>1, IsBeginning
  <2>7. ASSUME spc[s] = "over", flushed[s] = Len(wrote[s])
        PROVE  disk[sfile[s]] = Content(sfile[s])
    BY <2>1, <2>2, <2>3, <2>7, IsContent
  <2> QED
    BY <2>6, <2>7
<1> QED
  BY <1>1, UploadInvariant, DiskInvariant, PTL

-----------------------------------------------------------------------------
(* The refinement: the copy is what the client's peer has received.        *)

\* A client that has not started has no peer.
ReadyInv == status = "ready" => peer = None

LEMMA ReadyInvariant == Spec => []ReadyInv
<1>1. Init => ReadyInv
  BY DEF Init, ReadyInv
<1>2. TypeInv /\ ReadyInv /\ [Next]_vars => ReadyInv'
  <2> SUFFICES ASSUME TypeInv, ReadyInv, [Next]_vars PROVE ReadyInv'
    OBVIOUS
  <2>1. ASSUME NEW f \in Files, StartUpload(f) PROVE ReadyInv'
    BY <2>1 DEF StartUpload, ReadyInv
  <2>2. CASE ClientStep
    BY <2>2 DEF ClientStep, ClientRetransmit, ClientGiveUp, RecvStranger, RecvFinalAck,
       RecvNextAck, RecvOtherAck, RecvError, FromPeer, ReadyInv
  <2>3. CASE UNCHANGED client
    BY <2>3 DEF client, ReadyInv
  <2>4. UNCHANGED vars \/ (\E s \in Sessions : SessionStep(s))
        \/ (\E s \in Sessions, p \in net : Accept(s, p)) => UNCHANGED client
    BY DEF vars, SessionStep, Begin, BeginFails, SessionRetransmit, SessionAborts, Close,
       RecvShort, RecvExpected, ExpectedFails, RecvOther, DataFor, Accept
  <2> QED
    BY <2>1, <2>2, <2>3, <2>4 DEF Next
<1> QED
  BY <1>1, <1>2, TypeInit, TypeNext, PTL DEF Spec

LEMMA ReceivedInit == Init => Abstract!Init
BY DEF Init, Abstract!Init, Received

\* The client: it starts, fails and finishes a transfer, and locks a peer that
\* has received nothing yet.
LEMMA ClientTransfers ==
    ASSUME UploadInv, SmallFiles, ClientStep
    PROVE  Abstract!Fail \/ Abstract!Finish \/ UNCHANGED Abstract!vars
<1>1. want' = want /\ wrote' = wrote /\ status = "recv"
  BY DEF ClientStep, ClientRetransmit, ClientGiveUp, RecvStranger, RecvFinalAck,
     RecvNextAck, RecvOtherAck, RecvError, FromPeer, server, streams
<1>2. ASSUME NEW p \in net, FromPeer(p) PROVE p.tid \in Sessions /\ Received' = wrote[p.tid]
                                              /\ Received = wrote[p.tid]
  <2>1. p.tid \in Sessions /\ peer \in {None, p.tid} /\ peer' = p.tid
    BY <1>2, PacketFields DEF FromPeer, UploadInv, TypeInv, TypeOK
  <2>2. p.tid # None
    BY <2>1, NetAssumption
  <2>3. peer = None => wrote[p.tid] = <<>>
    BY <2>1, <2>2 DEF UploadInv, SessionInv, SessionOK
  <2> QED
    BY <1>1, <2>1, <2>2, <2>3 DEF Received
<1>3. CASE ClientRetransmit \/ ClientGiveUp \/ \E p \in net : RecvStranger(p)
  <2>1. peer' = peer /\ status' \in {status, "failed"}
    BY <1>3 DEF ClientRetransmit, ClientGiveUp, RecvStranger
  <2>2. Received' = Received
    BY <1>1, <2>1 DEF Received
  <2> QED
    BY <1>1, <2>1, <2>2 DEF Abstract!Fail, Abstract!vars
<1>4. ASSUME NEW p \in net, RecvNextAck(p) \/ RecvOtherAck(p)
      PROVE  UNCHANGED Abstract!vars
  <2>1. FromPeer(p) /\ status' = status
    BY <1>4 DEF RecvNextAck, RecvOtherAck
  <2>2. Received' = Received
    BY <1>2, <2>1
  <2> QED
    BY <1>1, <2>1, <2>2 DEF Abstract!vars
<1>5. ASSUME NEW p \in net, RecvError(p) PROVE Abstract!Fail
  <2>1. FromPeer(p) /\ status' = "failed"
    BY <1>5 DEF RecvError
  <2>2. Received' = Received
    BY <1>2, <2>1
  <2> QED
    BY <1>1, <2>1, <2>2 DEF Abstract!Fail
<1>6. ASSUME NEW p \in net, RecvFinalAck(p) PROVE Abstract!Finish
  <2>1. /\ FromPeer(p) /\ status' = "ok" /\ p.op = "ACK"
        /\ waitingFinalAck /\ p.block = AwaitedAck
    BY <1>6 DEF RecvFinalAck
  <2>2. Received' = Received /\ Received = wrote[p.tid] /\ p.tid \in Sessions
    BY <1>2, <2>1
  <2>3. p.block = FileLen[want]
    <3>1. AwaitedAck = read /\ (waitingFinalAck => read = FileLen[want])
      BY <1>1, AwaitedIsRead
    <3> QED
      BY <2>1, <3>1
  <2>4. spc[p.tid] \in {"closing", "over"}
    BY <2>1, <2>3 DEF UploadInv, PacketInv, PacketOK, AckOK
  <2>5. /\ Len(wrote[p.tid]) = FileLen[want] /\ wrote[p.tid] \in Seq(Blocks)
        /\ \A k \in 1..Len(wrote[p.tid]) : wrote[p.tid][k] = <<want, k>>
        /\ want \in Files
    BY <2>2, <2>4, SessionFacts DEF SessionOK
  <2>6. wrote[p.tid] = Abstract!Whole(want)
    BY <2>5, IsContent DEF Content, Abstract!Whole
  <2> QED
    BY <1>1, <2>1, <2>2, <2>6 DEF Abstract!Finish
<1> QED
  BY <1>3, <1>4, <1>5, <1>6 DEF ClientStep

\* The server: the only step the user of the transfer sees is the write of the
\* next block by the client's peer.
LEMMA ServerTransfers ==
    ASSUME UploadInv, ReadyInv, SmallFiles, NEW s \in Sessions,
           SessionStep(s) \/ \E p \in net : Accept(s, p)
    PROVE  Abstract!CopyBlock \/ UNCHANGED Abstract!vars
<1>1. want' = want /\ peer' = peer /\ status' = status
  BY DEF client, SessionStep, Begin, BeginFails, SessionRetransmit, SessionAborts, Close,
     RecvShort, RecvExpected, ExpectedFails, RecvOther, DataFor, Accept
<1>2. CASE wrote' = wrote
  BY <1>1, <1>2 DEF Received, Abstract!vars
<1>3. CASE wrote' # wrote
  <2>1. PICK p \in net : RecvExpected(s, p) \/ ExpectedFails(s, p)
    BY <1>3 DEF SessionStep, Begin, BeginFails, SessionRetransmit, SessionAborts, Close,
     RecvShort, RecvOther, Accept, streams
  <2>2. /\ DataFor(s, p) /\ spc[s] = "recv" /\ p.block = expectBlock[s]
        /\ wrote' = [wrote EXCEPT ![s] = Append(@, p.data)]
    BY <1>3, <2>1 DEF RecvExpected, ExpectedFails, DataFor
  <2>3. /\ s = peer /\ Len(wrote[s]) < FileLen[want]
        /\ p.data = <<want, Len(wrote[s]) + 1>>
    BY <2>2, TakenIsNext
  <2>4. s # None /\ wrote \in [Sessions -> Seq(Blocks)]
    BY <2>2, SessionFacts
  <2>5. Received = wrote[s] /\ Received' = wrote'[s]
    BY <1>1, <2>3, <2>4 DEF Received
  <2>6. wrote'[s] = Append(wrote[s], <<want, Len(wrote[s]) + 1>>)
    BY <2>2, <2>3, <2>4
  <2>7. status \in {"recv", "failed"}
    <3>1. status \in {"ready", "recv", "ok", "failed"}
      BY DEF UploadInv, TypeInv, TypeOK
    <3>2. status # "ok"
      BY <2>2, <2>3 DEF UploadInv, ClientOK
    <3>3. status # "ready"
      BY <2>3, <2>4 DEF ReadyInv
    <3> QED
      BY <3>1, <3>2, <3>3
  <2> QED
    BY <1>1, <2>3, <2>5, <2>6, <2>7 DEF Abstract!CopyBlock
<1> QED
  BY <1>2, <1>3

\* An upload is a transfer: the peer's copy grows by the next block of the file
\* and by nothing else, a failure leaves a prefix, and success is reported of a
\* whole copy, whatever the network does to requests, blocks and ACKs.
THEOREM IsTransfer ==
    ASSUME OneUpload, SmallFiles
    PROVE  Spec => ImplementsTransfer
<1>1. UploadInv /\ ReadyInv /\ [Next]_vars => [Abstract!Next]_(Abstract!vars)
  <2> SUFFICES ASSUME UploadInv, ReadyInv, [Next]_vars
               PROVE  Abstract!Next \/ UNCHANGED Abstract!vars
    OBVIOUS
  <2>1. ASSUME NEW f \in Files, StartUpload(f) PROVE Abstract!Start
    BY <2>1 DEF StartUpload, Received, Abstract!Start
  <2>2. CASE UNCHANGED vars
    BY <2>2 DEF vars, client, server, streams, Received, Abstract!vars
  <2> QED
    BY <2>1, <2>2, ClientTransfers, ServerTransfers DEF Next, Abstract!Next
<1>2. Init => Abstract!Init
  BY ReceivedInit
<1> QED
  BY <1>1, <1>2, UploadInvariant, ReadyInvariant, PTL
     DEF Spec, ImplementsTransfer, Abstract!Spec

=============================================================================
