------------------------- MODULE TftpDownloadProofs -------------------------
(***************************************************************************)
(* Proofs about TftpDownload, for any number of files, sessions,           *)
(* transfers, retries and duplicates.                                      *)
(***************************************************************************)
EXTENDS TftpDownload, TftpNetProofs, TLAPS

-----------------------------------------------------------------------------
(* Type correctness, with what it needs to know of the sessions and of the *)
(* packet the client keeps for retransmission.                             *)

\* A session's block counters stay within the file it has opened.
ServerInv ==
    \A s \in Sessions :
        /\ spc[s] # "free" => sfile[s] \in Files
        /\ spc[s] \in {"free", "starting"} =>
              nextBlockNum[s] = 1 /\ finalyBlock[s] = 0
        /\ spc[s] = "recv" =>
              /\ lastBlock[s] \in 1..FileLen[sfile[s]]
              /\ nextBlockNum[s] = lastBlock[s] + 1
              /\ finalyBlock[s] = (IF lastBlock[s] = FileLen[sfile[s]]
                                   THEN lastBlock[s] ELSE 0)

\* A client in its loop resends a request or, once it has a peer, an ACK.
SenderInv ==
    status = "recv" =>
        \/ lastSent \in Requests
        \/ lastSent \in AckPackets /\ peer # None

TypeInv == TypeOK /\ ServerInv /\ SenderInv

LEMMA TypeInit == Init => TypeInv
BY NetAssumption
DEF Init, TypeInv, TypeOK, ServerInv, SenderInv, SessionStates, ErrorPacket,
    WireNumbers

\* Every accepted DATA packet is acknowledged to the session it came from.
LEMMA Acknowledged ==
    ASSUME TypeInv, NEW p \in net, Acknowledge(p),
           p.tid \in Sessions, p.block \in WireNumbers,
           file' \in Seq(Blocks), expectedBlock' \in WireNumbers
    PROVE  TypeInv'
<1> USE NetAssumption
<1>1. AckPacket(p.tid, p.block) \in AckPackets
      /\ AckPacket(p.tid, p.block) \in Packets
  BY AckPacketType
<1>2. net' \subseteq Packets /\ dups' \in 0..MaxDups
  BY <1>1 DEF Acknowledge, Deliver, TypeInv, TypeOK
<1>3. TypeOK'
  BY <1>1, <1>2 DEF Acknowledge, server, TypeInv, TypeOK
<1>4. ServerInv'
  BY DEF Acknowledge, server, TypeInv, ServerInv
<1>5. SenderInv'
  BY <1>1 DEF Acknowledge, SenderInv
<1> QED
  BY <1>3, <1>4, <1>5 DEF TypeInv

\* A session that sends the next block of its file.
LEMMA BlockSent ==
    ASSUME TypeInv, NEW s \in Sessions, SentBlock(s),
           net' \subseteq net \cup {NextPacket(s)}, dups' \in 0..MaxDups,
           sfile[s] \in Files, nextBlockNum[s] \in 1..FileLen[sfile[s]],
           finalyBlock[s] = 0,
           spc' \in [Sessions -> SessionStates], spc'[s] = "recv",
           \A t \in Sessions \ {s} : spc'[t] = spc[t],
           repeat' \in [Sessions -> 0..(MaxRepeat + 1)],
           UNCHANGED <<client, sfile>>
    PROVE  TypeInv'
<1> USE NetAssumption
<1>1. NextPacket(s) \in Packets
  BY DataPacketType DEF NextPacket, Packets
<1>2. net' \subseteq Packets
  BY <1>1 DEF TypeInv, TypeOK
<1>3. /\ lastBlock' = [lastBlock EXCEPT ![s] = nextBlockNum[s]]
      /\ nextBlockNum' = [nextBlockNum EXCEPT ![s] = nextBlockNum[s] + 1]
      /\ finalyBlock' = [finalyBlock EXCEPT ![s] =
                             IF nextBlockNum[s] = FileLen[sfile[s]]
                             THEN nextBlockNum[s] ELSE 0]
  BY DEF SentBlock, TypeInv, TypeOK
<1>4. TypeOK'
  <2>1. nextBlockNum[s] \in Nat /\ nextBlockNum[s] + 1 \in Nat \ {0}
    BY DEF TypeInv, TypeOK
  <2>2. /\ lastBlock' \in [Sessions -> Nat]
        /\ nextBlockNum' \in [Sessions -> Nat \ {0}]
        /\ finalyBlock' \in [Sessions -> Nat]
    BY <1>3, <2>1 DEF TypeInv, TypeOK
  <2> QED
    BY <1>2, <2>2 DEF client, TypeInv, TypeOK
<1>5. ServerInv'
  <2>1. ASSUME NEW t \in Sessions, t # s
        PROVE  /\ UNCHANGED <<spc[t], sfile[t], lastBlock[t]>>
               /\ UNCHANGED <<nextBlockNum[t], finalyBlock[t]>>
    BY <1>3, <2>1 DEF TypeInv, TypeOK
  <2>2. /\ lastBlock'[s] = nextBlockNum[s]
        /\ nextBlockNum'[s] = nextBlockNum[s] + 1
        /\ finalyBlock'[s] = (IF nextBlockNum[s] = FileLen[sfile[s]]
                              THEN nextBlockNum[s] ELSE 0)
        /\ sfile'[s] = sfile[s]
    BY <1>3 DEF TypeInv, TypeOK
  <2> QED
    BY <2>1, <2>2 DEF TypeInv, ServerInv
<1>6. SenderInv'
  BY DEF client, TypeInv, SenderInv
<1> QED
  BY <1>4, <1>5, <1>6 DEF TypeInv

LEMMA TypeNext == TypeInv /\ [Next]_vars => TypeInv'
<1> SUFFICES ASSUME TypeInv, [Next]_vars PROVE TypeInv'
  OBVIOUS
<1> USE NetAssumption
<1>1. ASSUME NEW f \in Files, StartDownload(f) PROVE TypeInv'
  <2>1. Request(Main, f) \in Requests /\ Requests \subseteq Packets
    BY DEF Request, Requests, Packets
  <2>2. net' \subseteq Packets /\ dups' \in 0..MaxDups
    BY <1>1, <2>1 DEF Send, Deliver, StartDownload, netVars, TypeInv, TypeOK
  <2> QED
    BY <1>1, <2>1, <2>2
    DEF StartDownload, TypeInv, TypeOK, ServerInv, SenderInv, server,
        WireNumbers
<1>2. CASE ClientRetransmit
  <2>1. Readdressed(lastSent, Target) \in Packets
    BY <1>2 DEF ClientRetransmit, Readdressed, Target, TypeInv, TypeOK,
                SenderInv, Packets, Requests, AckPackets
  <2>2. net' \subseteq Packets /\ dups' \in 0..MaxDups
    BY <1>2, <2>1 DEF Send, Deliver, ClientRetransmit, TypeInv, TypeOK
  <2> QED
    BY <1>2, <2>2
    DEF ClientRetransmit, TypeInv, TypeOK, ServerInv, SenderInv, server
<1>3. CASE ClientGiveUp
  BY <1>3 DEF ClientGiveUp, netVars, server, TypeInv, TypeOK, ServerInv,
              SenderInv
<1>4. CASE ClientFails
  BY <1>4 DEF ClientFails, netVars, server, TypeInv, TypeOK, ServerInv,
              SenderInv
<1>5. ASSUME NEW p \in net, RecvStranger(p) PROVE TypeInv'
  <2>1. net' \subseteq Packets /\ dups' \in 0..MaxDups
    BY <1>5 DEF RecvStranger, Deliver, TypeInv, TypeOK
  <2> QED
    BY <1>5, <2>1 DEF RecvStranger, server, TypeInv, TypeOK, ServerInv,
                      SenderInv
<1>6. ASSUME NEW p \in net, RecvExpected(p) PROVE TypeInv'
  <2>1. p.tid \in Sessions /\ p.data \in Blocks /\ p.block \in WireNumbers
    BY <1>6, PacketFields DEF RecvExpected, FromPeer, TypeInv, TypeOK
  <2>2. file' \in Seq(Blocks)
    BY <1>6, <2>1 DEF RecvExpected, TypeInv, TypeOK
  <2>3. expectedBlock' \in WireNumbers
    BY <1>6, WireType DEF RecvExpected, TypeInv, TypeOK, WireNumbers
  <2> QED
    BY <1>6, <2>1, <2>2, <2>3, Acknowledged DEF RecvExpected
<1>7. ASSUME NEW p \in net, RecvPrevious(p) PROVE TypeInv'
  <2>1. p.tid \in Sessions /\ p.data \in Blocks /\ p.block \in WireNumbers
    BY <1>7, PacketFields DEF RecvPrevious, FromPeer, TypeInv, TypeOK
  <2>2. file' \in Seq(Blocks) /\ expectedBlock' \in WireNumbers
    BY <1>7 DEF RecvPrevious, TypeInv, TypeOK
  <2> QED
    BY <1>7, <2>1, <2>2, Acknowledged DEF RecvPrevious
<1>8. ASSUME NEW p \in net, RecvOther(p) PROVE TypeInv'
  <2>1. p.tid \in Sessions
    BY <1>8, PacketFields DEF RecvOther, FromPeer, TypeInv, TypeOK
  <2>2. net' \subseteq Packets /\ dups' \in 0..MaxDups
    BY <1>8 DEF RecvOther, Deliver, TypeInv, TypeOK
  <2>3. peer' # None
    BY <1>8, <2>1 DEF RecvOther
  <2> QED
    BY <1>8, <2>1, <2>2, <2>3
    DEF RecvOther, server, TypeInv, TypeOK, ServerInv, SenderInv
<1>9. ASSUME NEW p \in net, AcceptFails(p) PROVE TypeInv'
  <2>1. p.tid \in Sessions /\ p.data \in Blocks
    BY <1>9, PacketFields DEF AcceptFails, FromPeer, TypeInv, TypeOK
  <2>2. net' \subseteq Packets /\ dups' \in 0..MaxDups
    BY <1>9 DEF AcceptFails, Deliver, TypeInv, TypeOK
  <2>3. file' = file \/ file' = Append(file, p.data)
    BY <1>9 DEF AcceptFails
  <2>4. file \in Seq(Blocks) /\ Append(file, p.data) \in Seq(Blocks)
    BY <2>1 DEF TypeInv, TypeOK
  <2>5. file' \in Seq(Blocks)
    BY <2>3, <2>4, Zenon
  <2>6. /\ peer' = p.tid /\ retryCount' = 0 /\ status' = "failed"
        /\ UNCHANGED <<calls, want, lastSent, expectedBlock, server>>
    BY <1>9 DEF AcceptFails
  <2> QED
    BY <2>1, <2>2, <2>5, <2>6
    DEF server, TypeInv, TypeOK, ServerInv, SenderInv
<1>10. ASSUME NEW p \in net, RecvError(p) PROVE TypeInv'
  <2>1. p.tid \in Sessions
    BY <1>10, PacketFields DEF RecvError, FromPeer, TypeInv, TypeOK
  <2>2. net' \subseteq Packets /\ dups' \in 0..MaxDups
    BY <1>10 DEF RecvError, Deliver, TypeInv, TypeOK
  <2> QED
    BY <1>10, <2>1, <2>2
    DEF RecvError, server, TypeInv, TypeOK, ServerInv, SenderInv
<1>11. ASSUME NEW s \in Sessions, NEW p \in net, Accept(s, p) PROVE TypeInv'
  <2>1. p.file \in Files
    BY <1>11, PacketFields DEF Accept, TypeInv, TypeOK
  <2>2. net' \subseteq Packets /\ dups' \in 0..MaxDups
    BY <1>11 DEF Accept, Deliver, TypeInv, TypeOK
  <2>3. ServerInv'
    BY <1>11, <2>1 DEF Accept, TypeInv, TypeOK, ServerInv
  <2>4. SenderInv'
    BY <1>11 DEF Accept, client, TypeInv, SenderInv
  <2> QED
    BY <1>11, <2>1, <2>2, <2>3, <2>4
    DEF Accept, client, TypeInv, TypeOK, SessionStates
<1>12. ASSUME NEW s \in Sessions, Begin(s) PROVE TypeInv'
  <2>1. sfile[s] \in Files /\ nextBlockNum[s] = 1 /\ finalyBlock[s] = 0
    BY <1>12 DEF Begin, TypeInv, TypeOK, ServerInv
  <2>2. nextBlockNum[s] \in 1..FileLen[sfile[s]]
    BY <2>1
  <2>3. net' \subseteq net \cup {NextPacket(s)} /\ dups' \in 0..MaxDups
    BY <1>12 DEF Begin, Send, TypeInv, TypeOK
  <2>4. /\ spc' \in [Sessions -> SessionStates] /\ spc'[s] = "recv"
        /\ \A t \in Sessions \ {s} : spc'[t] = spc[t]
        /\ repeat' \in [Sessions -> 0..(MaxRepeat + 1)]
    BY <1>12 DEF Begin, TypeInv, TypeOK, SessionStates
  <2>5. SentBlock(s) /\ UNCHANGED <<client, sfile>>
    BY <1>12 DEF Begin
  <2> QED
    BY <2>1, <2>2, <2>3, <2>4, <2>5, BlockSent
<1>13. ASSUME NEW s \in Sessions, NEW p \in net, AckNext(s, p) PROVE TypeInv'
  <2>1. sfile[s] \in Files /\ nextBlockNum[s] \in 1..FileLen[sfile[s]]
        /\ finalyBlock[s] = 0
    BY <1>13 DEF AckNext, RecvAck, IsNextAck, TypeInv, TypeOK, ServerInv
  <2>2. net' \subseteq net \cup {NextPacket(s)} /\ dups' \in 0..MaxDups
    BY <1>13, NetAssumption DEF AckNext, Deliver, TypeInv, TypeOK
  <2>3. /\ spc' \in [Sessions -> SessionStates] /\ spc'[s] = "recv"
        /\ \A t \in Sessions \ {s} : spc'[t] = spc[t]
        /\ repeat' \in [Sessions -> 0..(MaxRepeat + 1)]
    BY <1>13 DEF AckNext, RecvAck, TypeInv, TypeOK
  <2>4. SentBlock(s) /\ UNCHANGED <<client, sfile>>
    BY <1>13 DEF AckNext, RecvAck
  <2> QED
    BY <2>1, <2>2, <2>3, <2>4, BlockSent
<1>14. ASSUME NEW s \in Sessions,
              \/ SessionRetransmit(s)
              \/ \E p \in net : AckOther(s, p)
       PROVE  TypeInv'
  <2>1. spc[s] = "recv"
    BY <1>14 DEF SessionRetransmit, AckOther, RecvAck
  <2>2. sfile[s] \in Files /\ lastBlock[s] \in 1..FileLen[sfile[s]]
    BY <2>1 DEF TypeInv, TypeOK, ServerInv
  <2>3. LastPacket(s) \in Packets
    BY <2>2, DataPacketType DEF LastPacket, Packets
  <2>4. net' \subseteq Packets /\ dups' \in 0..MaxDups
    <3>1. CASE SessionRetransmit(s)
      BY <2>3, <3>1 DEF SessionRetransmit, Send, TypeInv, TypeOK
    <3>2. ASSUME NEW p \in net, AckOther(s, p)
          PROVE  net' \subseteq Packets /\ dups' \in 0..MaxDups
      BY <2>3, <3>2 DEF AckOther, Deliver, TypeInv, TypeOK
    <3> QED
      BY <1>14, <3>1, <3>2
  <2>5. repeat' \in [Sessions -> 0..(MaxRepeat + 1)]
    <3>1. CASE SessionRetransmit(s)
      BY <3>1 DEF SessionRetransmit, TypeInv, TypeOK
    <3>2. CASE \E p \in net : AckOther(s, p)
      BY <3>2 DEF AckOther, RecvAck, TypeInv, TypeOK
    <3> QED
      BY <1>14, <3>1, <3>2
  <2>6. UNCHANGED <<client, spc, sfile, nextBlockNum, finalyBlock, lastBlock>>
    BY <1>14 DEF SessionRetransmit, AckOther, RecvAck
  <2> QED
    BY <2>4, <2>5, <2>6 DEF client, TypeInv, TypeOK, ServerInv, SenderInv
<1>15. ASSUME NEW s \in Sessions,
              \/ SessionGiveUp(s) \/ SessionFails(s)
              \/ \E p \in net : AckFinal(s, p) \/ RecvRequest(s, p)
       PROVE  TypeInv'
  <2>1. ErrorPacket(s) \in Packets
    BY ErrorPacketType
  <2>2. net' \subseteq Packets /\ dups' \in 0..MaxDups
    BY <1>15, <2>1
    DEF SessionGiveUp, SessionFails, AckFinal, RecvRequest, Send, Deliver,
        TypeInv, TypeOK
  <2>3. repeat' \in [Sessions -> 0..(MaxRepeat + 1)]
    BY <1>15 DEF SessionGiveUp, SessionFails, AckFinal, RecvAck, RecvRequest,
                 TypeInv, TypeOK
  <2>4. /\ spc[s] # "free"
        /\ \/ spc' = [spc EXCEPT ![s] = "over"]
           \/ spc' = [spc EXCEPT ![s] = "aborted"]
    BY <1>15 DEF SessionGiveUp, SessionFails, AckFinal, RecvAck, RecvRequest
  <2>5. UNCHANGED <<client, sfile, nextBlockNum, finalyBlock, lastBlock>>
    BY <1>15 DEF SessionGiveUp, SessionFails, AckFinal, RecvAck, RecvRequest
  <2>6. spc' \in [Sessions -> SessionStates]
    BY <2>4 DEF TypeInv, TypeOK, SessionStates
  <2>7. TypeOK'
    BY <2>2, <2>3, <2>5, <2>6 DEF client, TypeInv, TypeOK
  <2>8. ServerInv'
    BY <2>4, <2>5 DEF TypeInv, TypeOK, ServerInv
  <2> QED
    BY <2>5, <2>7, <2>8 DEF client, TypeInv, SenderInv
<1>16. CASE UNCHANGED vars
  BY <1>16 DEF vars, netVars, client, server, TypeInv, TypeOK, ServerInv,
               SenderInv
<1> QED
  BY <1>1, <1>2, <1>3, <1>4, <1>5, <1>6, <1>7, <1>8, <1>9, <1>10, <1>11,
     <1>12, <1>13, <1>14, <1>15, <1>16
  DEF Next, ClientStep, SessionStep

\* The variables keep their types in every reachable state, for any number of
\* files, sessions, transfers, retries and duplicates.
THEOREM TypeCorrect == Spec => []TypeOK
<1>1. TypeInv => TypeOK
  BY DEF TypeInv
<1> QED
  BY <1>1, TypeInit, TypeNext, PTL DEF Spec


-----------------------------------------------------------------------------
(* The file the client writes, when block numbers do not wrap.             *)

\* A DATA packet carries a block of the file its session has opened, under
\* that block's number.
DataInv ==
    \A p \in net : p.op = "DATA" =>
        /\ spc[p.tid] # "free"
        /\ p.data[1] = sfile[p.tid]
        /\ p.block = Wire(p.data[2])

\* expectedBlock follows the length of what was written; until the last block
\* is written the client stays in its loop.
CopyInv ==
    /\ FileIntact
    /\ Len(file) > 0 \/ status = "ok" => peer # None /\ spc[peer] # "free"
    /\ status = "recv" =>
          /\ expectedBlock = Wire(Len(file) + 1)
          /\ peer # None => /\ spc[peer] # "free"
                           /\ Len(file) < FileLen[sfile[peer]]

IntactInv == TypeInv /\ DataInv /\ CopyInv

LEMMA IntactInit == Init => IntactInv
<1> SUFFICES ASSUME Init PROVE IntactInv
  OBVIOUS
<1>1. TypeInv
  BY TypeInit
<1>2. DataInv
  BY DEF Init, DataInv
<1>3. CopyInv
  BY DEF Init, CopyInv, FileIntact
<1> QED
  BY <1>1, <1>2, <1>3 DEF IntactInv

\* The packet the client is waiting for carries the next block of the file;
\* the one before it is not the last.
LEMMA ExpectedIsNext ==
    ASSUME IntactInv, SmallFiles, NEW p \in net, FromPeer(p), p.op = "DATA"
    PROVE  /\ p.tid \in Sessions /\ p.tid # None
           /\ spc[p.tid] # "free" /\ sfile[p.tid] \in Files
           /\ Len(file) < FileLen[sfile[p.tid]]
           /\ p.block = expectedBlock =>
                 p.data = <<sfile[p.tid], Len(file) + 1>>
           /\ p.block = PreviousBlock => ~ IsLast(p.data)
<1> USE NetAssumption
<1>1. /\ p.tid \in Sessions /\ p.data \in Blocks
      /\ spc[p.tid] # "free"
      /\ p.data[1] = sfile[p.tid]
      /\ p.block = Wire(p.data[2])
  BY PacketFields DEF IntactInv, TypeInv, TypeOK, DataInv
<1>2. /\ sfile[p.tid] \in Files
      /\ p.data[2] \in 1..FileLen[sfile[p.tid]]
      /\ p.data = <<sfile[p.tid], p.data[2]>>
  BY <1>1, BlockParts
<1>3. FileLen[sfile[p.tid]] \in Nat \ {0} /\ FileLen[sfile[p.tid]] < Modulus
  BY <1>2 DEF SmallFiles
<1>4. p.tid # None
  BY <1>1
<1>5. Len(file) \in Nat /\ Len(file) < FileLen[sfile[p.tid]]
  <2>1. Len(file) \in Nat
    BY DEF IntactInv, TypeInv, TypeOK
  <2>2. CASE peer = None
    BY <1>3, <2>1, <2>2 DEF IntactInv, CopyInv
  <2>3. CASE peer = p.tid
    BY <1>4, <2>1, <2>3 DEF FromPeer, IntactInv, CopyInv
  <2> QED
    BY <2>2, <2>3, <2>1 DEF FromPeer
<1>6. p.block = p.data[2] /\ p.data[2] \in 1..(Modulus - 1)
  <2>1. p.data[2] \in 1..(Modulus - 1)
    BY <1>2, <1>3
  <2> QED
    BY <1>1, <2>1, WireSmall
<1>7. expectedBlock = Len(file) + 1
  <2>1. Len(file) + 1 \in 0..(Modulus - 1)
    BY <1>3, <1>5
  <2> QED
    BY <2>1, WireSmall DEF FromPeer, IntactInv, CopyInv
<1>8. PreviousBlock = Len(file)
  <2>1. Len(file) \in 0..(Modulus - 1)
    BY <1>3, <1>5
  <2>2. expectedBlock + Modulus - 1 = Len(file) + Modulus
    BY <1>5, <1>7
  <2> QED
    BY <2>1, <2>2, WireSmall DEF PreviousBlock
<1>9. p.block = expectedBlock => p.data = <<sfile[p.tid], Len(file) + 1>>
  BY <1>2, <1>6, <1>7
<1>10. p.block = PreviousBlock => ~ IsLast(p.data)
  BY <1>1, <1>3, <1>5, <1>6, <1>8 DEF IsLast
<1> QED
  BY <1>1, <1>2, <1>4, <1>5, <1>9, <1>10

\* A step that leaves the sessions' files alone and sends only good DATA.
LEMMA DataKept ==
    ASSUME DataInv, TypeOK, sfile' = sfile,
           \A t \in Sessions : spc'[t] = "free" => spc[t] = "free",
           \A q \in net' : q.op = "DATA" /\ q \notin net =>
               /\ spc'[q.tid] # "free"
               /\ q.data[1] = sfile[q.tid]
               /\ q.block = Wire(q.data[2])
    PROVE  DataInv'
<1> SUFFICES ASSUME NEW q \in net', q.op = "DATA", q \in net
             PROVE  /\ spc'[q.tid] # "free"
                    /\ q.data[1] = sfile[q.tid]
                    /\ q.block = Wire(q.data[2])
  BY DEF DataInv
<1> QED
  BY PacketFields DEF DataInv, TypeOK

LEMMA DataNext == IntactInv /\ [Next]_vars => DataInv'
<1> SUFFICES ASSUME IntactInv, [Next]_vars PROVE DataInv'
  OBVIOUS
<1> USE NetAssumption
<1>1. DataInv /\ TypeOK /\ ServerInv
  BY DEF IntactInv, TypeInv
<1>2. ASSUME \A q \in net' : q.op = "DATA" => q \in net,
             UNCHANGED <<spc, sfile>>
      PROVE  DataInv'
  BY <1>1, <1>2, DataKept
<1>3. ASSUME NEW f \in Files, StartDownload(f) PROVE DataInv'
  <2>1. net' \subseteq net \cup {Request(Main, f)}
    BY <1>3 DEF StartDownload, Send, netVars
  <2>2. Request(Main, f).op # "DATA"
    BY DEF Request
  <2>3. \A q \in net' : q.op = "DATA" => q \in net
    BY <2>1, <2>2
  <2>4. UNCHANGED <<spc, sfile>>
    BY <1>3 DEF StartDownload, server
  <2> QED
    BY <1>2, <2>3, <2>4
<1>4. CASE ClientRetransmit
  <2>1. net' \subseteq net \cup {Readdressed(lastSent, Target)}
    BY <1>4 DEF ClientRetransmit, Send
  <2>2. lastSent \in Requests \cup AckPackets
    BY <1>4 DEF ClientRetransmit, IntactInv, TypeInv, SenderInv
  <2>3. Readdressed(lastSent, Target).op # "DATA"
    BY <2>2 DEF Readdressed, Requests, AckPackets
  <2>4. \A q \in net' : q.op = "DATA" => q \in net
    BY <2>1, <2>3
  <2>5. UNCHANGED <<spc, sfile>>
    BY <1>4 DEF ClientRetransmit, server
  <2> QED
    BY <1>2, <2>4, <2>5
<1>5. CASE ClientGiveUp \/ ClientFails
  BY <1>1, <1>5 DEF ClientGiveUp, ClientFails, netVars, server, DataInv
<1>6. ASSUME NEW p \in net, RecvExpected(p) \/ RecvPrevious(p) PROVE DataInv'
  <2>1. net' \subseteq net \cup {AckPacket(p.tid, p.block)}
        /\ UNCHANGED <<spc, sfile>>
    BY <1>6 DEF RecvExpected, RecvPrevious, Acknowledge, Deliver, server
  <2>2. AckPacket(p.tid, p.block).op # "DATA"
    BY DEF AckPacket
  <2>3. \A q \in net' : q.op = "DATA" => q \in net
    BY <2>1, <2>2
  <2> QED
    BY <1>2, <2>1, <2>3
<1>7. ASSUME NEW p \in net,
             RecvStranger(p) \/ RecvOther(p) \/ AcceptFails(p) \/ RecvError(p)
      PROVE  DataInv'
  <2>1. net' \subseteq net /\ UNCHANGED <<spc, sfile>>
    BY <1>7 DEF RecvStranger, RecvOther, AcceptFails, RecvError, Deliver,
                server
  <2> QED
    BY <1>2, <2>1
<1>8. ASSUME NEW s \in Sessions, NEW p \in net, Accept(s, p) PROVE DataInv'
  <2>1. net' \subseteq net /\ spc[s] = "free"
        /\ spc' = [spc EXCEPT ![s] = "starting"]
        /\ sfile' = [sfile EXCEPT ![s] = p.file]
    BY <1>8 DEF Accept, Deliver
  <2>2. ASSUME NEW q \in net', q.op = "DATA"
        PROVE  /\ spc'[q.tid] # "free"
               /\ q.data[1] = sfile'[q.tid]
               /\ q.block = Wire(q.data[2])
    <3>1. q.tid \in Sessions /\ spc[q.tid] # "free"
          /\ q.data[1] = sfile[q.tid] /\ q.block = Wire(q.data[2])
      BY <1>1, <2>1, <2>2, PacketFields DEF DataInv, TypeOK
    <3> QED
      BY <1>1, <2>1, <3>1 DEF TypeOK
  <2> QED
    BY <2>2 DEF DataInv
<1>9. ASSUME NEW s \in Sessions, NEW n,
             net' \subseteq net \cup {DataPacket(s, sfile[s], n)},
             sfile' = sfile, spc'[s] = "recv",
             \A t \in Sessions \ {s} : spc'[t] = spc[t]
      PROVE  DataInv'
  <2>1. \A t \in Sessions : spc'[t] = "free" => spc[t] = "free"
    BY <1>9
  <2>2. ASSUME NEW q, q = DataPacket(s, sfile[s], n)
        PROVE  /\ spc'[q.tid] # "free"
               /\ q.data[1] = sfile[q.tid]
               /\ q.block = Wire(q.data[2])
    BY <1>9, <2>2 DEF DataPacket
  <2>3. \A q \in net' : q.op = "DATA" /\ q \notin net =>
             /\ spc'[q.tid] # "free"
             /\ q.data[1] = sfile[q.tid]
             /\ q.block = Wire(q.data[2])
    BY <1>9, <2>2
  <2> QED
    BY <1>1, <1>9, <2>1, <2>3, DataKept
<1>10. ASSUME NEW s \in Sessions, Begin(s) PROVE DataInv'
  <2>1. spc'[s] = "recv" /\ \A t \in Sessions \ {s} : spc'[t] = spc[t]
    BY <1>10, <1>1 DEF Begin, TypeOK
  <2>2. sfile' = sfile
        /\ net' \subseteq net \cup {DataPacket(s, sfile[s], nextBlockNum[s])}
    BY <1>10 DEF Begin, Send, NextPacket
  <2> QED
    BY <1>9, <2>1, <2>2
<1>11. ASSUME NEW s \in Sessions,
              \/ SessionRetransmit(s)
              \/ \E p \in net : AckNext(s, p) \/ AckOther(s, p)
       PROVE  DataInv'
  <2>1. spc[s] = "recv" /\ UNCHANGED <<spc, sfile>>
    BY <1>11 DEF SessionRetransmit, AckNext, AckOther, RecvAck
  <2>2. \/ net' \subseteq net \cup {DataPacket(s, sfile[s], nextBlockNum[s])}
        \/ net' \subseteq net \cup {DataPacket(s, sfile[s], lastBlock[s])}
    BY <1>11 DEF SessionRetransmit, AckNext, AckOther, Send, Deliver,
                 NextPacket, LastPacket
  <2> QED
    BY <1>9, <2>1, <2>2
<1>12. ASSUME NEW s \in Sessions,
              \/ SessionGiveUp(s) \/ SessionFails(s)
              \/ \E p \in net : AckFinal(s, p) \/ RecvRequest(s, p)
       PROVE  DataInv'
  <2>1. sfile' = sfile /\ net' \subseteq net \cup {ErrorPacket(s)}
    BY <1>12 DEF SessionGiveUp, SessionFails, AckFinal, RecvAck, RecvRequest,
                 Send, Deliver
  <2>2. \/ spc' = [spc EXCEPT ![s] = "over"]
        \/ spc' = [spc EXCEPT ![s] = "aborted"]
    BY <1>12 DEF SessionGiveUp, SessionFails, AckFinal, RecvRequest
  <2>3. \A t \in Sessions : spc'[t] = "free" => spc[t] = "free"
    BY <1>1, <2>2 DEF TypeOK
  <2>4. ErrorPacket(s).op # "DATA"
    BY DEF ErrorPacket
  <2>5. \A q \in net' : q.op = "DATA" => q \in net
    BY <2>1, <2>4
  <2> QED
    BY <1>1, <2>1, <2>3, <2>5, DataKept
<1>13. CASE UNCHANGED vars
  BY <1>1, <1>13 DEF vars, netVars, server, DataInv
<1> QED
  BY <1>3, <1>4, <1>5, <1>6, <1>7, <1>8, <1>10, <1>11, <1>12, <1>13
  DEF Next, ClientStep, SessionStep

LEMMA CopyNext == SmallFiles /\ IntactInv /\ [Next]_vars => CopyInv'
<1> SUFFICES ASSUME SmallFiles, IntactInv, [Next]_vars PROVE CopyInv'
  OBVIOUS
<1> USE NetAssumption
<1>1. CopyInv /\ TypeOK /\ ServerInv
  BY DEF IntactInv, TypeInv
<1>2. ASSUME NEW f \in Files, StartDownload(f) PROVE CopyInv'
  <2>1. Wire(0 + 1) = 1
    BY WireSmall
  <2> QED
    BY <1>2, <2>1 DEF StartDownload, CopyInv, FileIntact, server
<1>3. CASE ClientRetransmit \/ ClientGiveUp \/ ClientFails
  BY <1>1, <1>3 DEF ClientRetransmit, ClientGiveUp, ClientFails, server,
                    CopyInv, FileIntact
<1>4. ASSUME NEW p \in net, RecvStranger(p) PROVE CopyInv'
  BY <1>1, <1>4 DEF RecvStranger, server, CopyInv, FileIntact
\* The steps that lock the peer: it is the peer already, or nothing has been
\* written yet.
<1>5. ASSUME NEW p \in net, FromPeer(p), p.tid \in Sessions
      PROVE  \A k \in 1..Len(file) : file[k] = <<sfile[p.tid], k>>
  BY <1>1, <1>5 DEF FromPeer, CopyInv, FileIntact, TypeOK
<1>6. ASSUME NEW p \in net, FromPeer(p), p.op = "DATA",
             p.block = expectedBlock, file' = Append(file, p.data)
      PROVE  /\ Len(file') = Len(file) + 1
             /\ \A k \in 1..Len(file') : file'[k] = <<sfile[p.tid], k>>
  <2>1. /\ p.tid \in Sessions /\ Len(file) < FileLen[sfile[p.tid]]
        /\ p.data = <<sfile[p.tid], Len(file) + 1>>
    BY <1>6, ExpectedIsNext
  <2>2. \A k \in 1..Len(file) : file[k] = <<sfile[p.tid], k>>
    BY <1>5, <1>6, <2>1
  <2>3. file \in Seq(Blocks)
    BY <1>1 DEF TypeOK
  <2> QED
    BY <1>6, <2>1, <2>2, <2>3
<1>7. ASSUME NEW p \in net, RecvExpected(p) PROVE CopyInv'
  <2>1. /\ p.tid \in Sessions /\ p.tid # None /\ spc[p.tid] # "free"
        /\ sfile[p.tid] \in Files /\ Len(file) < FileLen[sfile[p.tid]]
        /\ p.data = <<sfile[p.tid], Len(file) + 1>>
    BY <1>7, ExpectedIsNext DEF RecvExpected
  <2>2. /\ Len(file') = Len(file) + 1
        /\ \A k \in 1..Len(file') : file'[k] = <<sfile[p.tid], k>>
    BY <1>7, <1>6 DEF RecvExpected
  <2>3. peer' = p.tid /\ UNCHANGED <<spc, sfile>>
        /\ status' = (IF Len(file) + 1 = FileLen[sfile[p.tid]]
                      THEN "ok" ELSE "recv")
    BY <1>7, <2>1 DEF RecvExpected, Acknowledge, IsLast, server
  <2>4. status' = "recv" => expectedBlock' = Wire(Len(file') + 1)
    <3>1. Len(file) + 1 \in 0..(Modulus - 1)
      <4>1. FileLen[sfile[p.tid]] \in Nat /\ FileLen[sfile[p.tid]] < Modulus
        BY <2>1 DEF SmallFiles
      <4>2. Len(file) \in Nat
        BY <1>1 DEF TypeOK
      <4> QED
        BY <2>1, <4>1, <4>2
    <3>2. expectedBlock = Len(file) + 1
      BY <1>7, <1>1, <3>1, WireSmall DEF RecvExpected, FromPeer, CopyInv
    <3> QED
      BY <1>7, <2>2, <3>2 DEF RecvExpected
  <2>5. Len(file) \in Nat /\ FileLen[sfile[p.tid]] \in Nat
    BY <1>1, <2>1 DEF TypeOK
  <2> QED
    BY <2>1, <2>2, <2>3, <2>4, <2>5 DEF CopyInv, FileIntact
<1>8. ASSUME NEW p \in net, RecvPrevious(p) PROVE CopyInv'
  <2>1. /\ p.tid \in Sessions /\ p.tid # None /\ spc[p.tid] # "free"
        /\ Len(file) < FileLen[sfile[p.tid]]
        /\ ~ IsLast(p.data)
    BY <1>8, ExpectedIsNext DEF RecvPrevious
  <2>2. \A k \in 1..Len(file) : file[k] = <<sfile[p.tid], k>>
    BY <1>8, <1>5, <2>1 DEF RecvPrevious
  <2>3. peer' = p.tid /\ status' = "recv"
        /\ UNCHANGED <<spc, sfile, file, expectedBlock>>
    BY <1>8, <2>1 DEF RecvPrevious, Acknowledge, server
  <2>4. expectedBlock = Wire(Len(file) + 1)
    BY <1>8, <1>1 DEF RecvPrevious, FromPeer, CopyInv
  <2> QED
    BY <2>1, <2>2, <2>3, <2>4 DEF CopyInv, FileIntact
<1>9. ASSUME NEW p \in net, RecvOther(p) PROVE CopyInv'
  <2>1. /\ p.tid \in Sessions /\ p.tid # None /\ spc[p.tid] # "free"
        /\ Len(file) < FileLen[sfile[p.tid]]
    BY <1>9, ExpectedIsNext DEF RecvOther
  <2>2. \A k \in 1..Len(file) : file[k] = <<sfile[p.tid], k>>
    BY <1>9, <1>5, <2>1 DEF RecvOther
  <2>3. peer' = p.tid /\ status = "recv"
        /\ UNCHANGED <<status, spc, sfile, file, expectedBlock>>
    BY <1>9 DEF RecvOther, FromPeer, server
  <2>4. expectedBlock = Wire(Len(file) + 1)
    BY <2>3, <1>1 DEF CopyInv
  <2> QED
    BY <2>1, <2>2, <2>3, <2>4 DEF CopyInv, FileIntact
<1>10. ASSUME NEW p \in net, AcceptFails(p) PROVE CopyInv'
  <2>1. p.tid \in Sessions /\ p.tid # None /\ spc[p.tid] # "free"
    BY <1>10, ExpectedIsNext DEF AcceptFails
  <2>2. \A k \in 1..Len(file') : file'[k] = <<sfile[p.tid], k>>
    <3>1. CASE file' = file
      <4>1. FromPeer(p)
        BY <1>10 DEF AcceptFails
      <4> QED
        BY <1>5, <2>1, <3>1, <4>1
    <3>2. CASE p.block = expectedBlock /\ file' = Append(file, p.data)
      <4>1. FromPeer(p) /\ p.op = "DATA"
        BY <1>10 DEF AcceptFails
      <4> QED
        BY <1>6, <3>2, <4>1
    <3> QED
      BY <1>10, <3>1, <3>2 DEF AcceptFails
  <2>3. peer' = p.tid /\ status' = "failed" /\ UNCHANGED <<spc, sfile>>
    BY <1>10 DEF AcceptFails, server
  <2> QED
    BY <2>1, <2>2, <2>3 DEF CopyInv, FileIntact
<1>11. ASSUME NEW p \in net, RecvError(p) PROVE CopyInv'
  <2>1. /\ FromPeer(p) /\ peer' = p.tid /\ status' = "failed"
        /\ UNCHANGED <<spc, sfile, file>>
    BY <1>11 DEF RecvError, server
  <2>2. Len(file) \in Nat
    BY <1>1 DEF TypeOK
  <2>3. CASE peer = None
    BY <1>1, <2>1, <2>2, <2>3 DEF CopyInv, FileIntact
  <2>4. CASE peer = p.tid
    BY <1>1, <2>1, <2>2, <2>4 DEF CopyInv, FileIntact
  <2> QED
    BY <2>1, <2>3, <2>4 DEF FromPeer
<1>12. ASSUME UNCHANGED client,
              \A t \in Sessions : spc'[t] = "free" => spc[t] = "free",
              \A t \in Sessions : spc[t] # "free" => sfile'[t] = sfile[t]
       PROVE  CopyInv'
  <2>1. peer # None /\ spc[peer] # "free" =>
           spc'[peer] # "free" /\ sfile'[peer] = sfile[peer]
    BY <1>1, <1>12 DEF CopyInv, TypeOK
  <2>2. Len(file) \in Nat
    BY <1>1 DEF TypeOK
  <2> QED
    BY <1>1, <1>12, <2>1, <2>2 DEF client, CopyInv, FileIntact
<1>13. ASSUME NEW s \in Sessions, NEW p \in net, Accept(s, p) PROVE CopyInv'
  BY <1>1, <1>12, <1>13 DEF Accept, TypeOK
<1>14. ASSUME NEW s \in Sessions, SessionStep(s) PROVE CopyInv'
  <2>1. UNCHANGED <<client, sfile>>
    BY <1>14 DEF SessionStep, Begin, SessionRetransmit, SessionGiveUp,
       SessionFails, AckFinal, AckNext, AckOther, RecvAck, RecvRequest
  <2>2. \A t \in Sessions : spc'[t] = "free" => spc[t] = "free"
    BY <1>1, <1>14 DEF SessionStep, Begin, SessionRetransmit, SessionGiveUp,
       SessionFails, AckFinal, AckNext, AckOther, RecvAck, RecvRequest, TypeOK
  <2> QED
    BY <1>12, <2>1, <2>2
<1>15. CASE UNCHANGED vars
  BY <1>12, <1>15 DEF vars, server
<1> QED
  BY <1>2, <1>3, <1>4, <1>7, <1>8, <1>9, <1>10, <1>11, <1>13, <1>14, <1>15
  DEF Next, ClientStep

LEMMA IntactInvariant == ASSUME SmallFiles PROVE Spec => []IntactInv
<1>1. IntactInv /\ [Next]_vars => IntactInv'
  BY TypeNext, DataNext, CopyNext, SmallFiles DEF IntactInv
<1> QED
  BY <1>1, IntactInit, PTL DEF Spec

\* Whatever is resent, duplicated, delayed or lost, and however many transfers
\* share the client's socket: when no file is longer than the block numbers
\* count, the client's file is a prefix of the file its peer has opened, and
\* all of it when the download returns 0.
THEOREM FileIsIntact == ASSUME SmallFiles PROVE Spec => []FileIntact
<1>1. IntactInv => FileIntact
  BY DEF IntactInv, CopyInv
<1> QED
  BY <1>1, IntactInvariant, PTL

-----------------------------------------------------------------------------
(* One download: how far the sessions get, when the client program makes   *)
(* one download.  A second one would receive the late blocks of the first, *)
(* and acknowledge them.                                                   *)

OneDownload == MaxTransfers = 1

\* What an ACK of block b says: b has been written, and if it is the last block
\* the download has returned 0.
AckedOK(b) ==
    /\ b \in 1..Len(file)
    /\ b = FileLen[want] => status = "ok"

\* Requests are for one file; ACKs go to the client's peer alone.
PacketOK(p) ==
    /\ p.op = "RQ" => p.file = want
    /\ p.op = "ACK" => p.tid = peer /\ AckedOK(p.block)

SentOK ==
    /\ lastSent.op = "RQ" => lastSent.file = want
    /\ lastSent.op = "ACK" => peer # None /\ AckedOK(lastSent.block)

SessionOK(s) ==
    /\ spc[s] # "free" => sfile[s] = want
    /\ nextBlockNum[s] <= (IF s = peer THEN Len(file) ELSE 0) + 2
    /\ spc[s] = "over" => s = peer /\ status = "ok"

CallOK ==
    /\ calls = 0 => /\ net = {} /\ status = "ready" /\ peer = None
                    /\ \A s \in Sessions : spc[s] = "free"
    /\ calls # 0 => want \in Files

PacketInv == \A p \in net : PacketOK(p)
SessionInv == \A s \in Sessions : SessionOK(s)

PaceInv == CallOK /\ SentOK /\ PacketInv /\ SessionInv
DownloadInv == IntactInv /\ PaceInv

LEMMA DownloadInit == Init => DownloadInv
<1> SUFFICES ASSUME Init PROVE DownloadInv
  OBVIOUS
<1>1. CallOK /\ PacketInv
  BY DEF Init, CallOK, PacketInv
<1>2. SentOK
  BY DEF Init, SentOK, ErrorPacket
<1>3. SessionInv
  BY DEF Init, SessionInv, SessionOK
<1> QED
  BY <1>1, <1>2, <1>3, IntactInit DEF DownloadInv, PaceInv

\* Steps of the client in its loop.
LEMMA ClientMoves ==
    ASSUME DownloadInv, status = "recv", UNCHANGED <<want, calls, server>>,
           peer # None => peer' = peer,
           Len(file') \in Nat, Len(file) <= Len(file'),
           \A q \in net' : q \in net \/ PacketOK(q)',
           calls # 0, SentOK'
    PROVE  PaceInv'
<1>1. /\ want' = want /\ calls' = calls /\ UNCHANGED <<spc, sfile, nextBlockNum>>
      /\ Len(file) \in Nat
  BY DEF server, DownloadInv, IntactInv, TypeInv, TypeOK
<1>2. CallOK'
  BY <1>1 DEF DownloadInv, PaceInv, CallOK
<1>3. ASSUME NEW q \in net PROVE PacketOK(q)'
  <2>1. PacketOK(q) /\ q \in Packets
    BY DEF DownloadInv, PaceInv, PacketInv, IntactInv, TypeInv, TypeOK
  <2>2. CASE q.op = "ACK"
    <3>1. q.tid \in Sessions /\ q.tid # None
      BY <2>1, <2>2, PacketFields, NetAssumption
    <3>2. q.tid = peer /\ q.block \in 1..Len(file) /\ q.block # FileLen[want]
      BY <2>1, <2>2 DEF PacketOK, AckedOK
    <3>3. q.tid = peer' /\ q.block \in 1..Len(file')
      BY <1>1, <3>1, <3>2
    <3> QED
      BY <1>1, <2>2, <3>2, <3>3 DEF PacketOK, AckedOK
  <2>3. CASE q.op # "ACK"
    BY <1>1, <2>1, <2>3 DEF PacketOK
  <2> QED
    BY <2>2, <2>3
<1>4. ASSUME NEW s \in Sessions PROVE SessionOK(s)'
  <2>1. SessionOK(s) /\ s # None /\ spc[s] # "over" /\ nextBlockNum[s] \in Nat
    BY NetAssumption DEF DownloadInv, PaceInv, SessionInv, SessionOK, IntactInv, TypeInv,
       TypeOK
  <2>2. nextBlockNum[s] <= (IF s = peer' THEN Len(file') ELSE 0) + 2
    BY <1>1, <2>1 DEF SessionOK
  <2> QED
    BY <1>1, <2>1, <2>2 DEF SessionOK
<1> QED
  BY <1>2, <1>3, <1>4 DEF PaceInv, PacketInv, SessionInv

\* Steps of a session, and the accept loop's: they send no ACK and no request.
LEMMA SessionMoves ==
    ASSUME DownloadInv, NEW s \in Sessions, UNCHANGED client, calls # 0,
           \A t \in Sessions \ {s} :
               /\ spc'[t] = spc[t] /\ sfile'[t] = sfile[t]
               /\ nextBlockNum'[t] = nextBlockNum[t],
           \A q \in net' : q \in net \/ q.op \in {"DATA", "ERROR"},
           SessionOK(s)'
    PROVE  PaceInv'
<1>1. UNCHANGED <<status, calls, want, file, lastSent, peer>>
  BY DEF client
<1>2. CallOK' /\ SentOK'
  BY <1>1 DEF DownloadInv, PaceInv, CallOK, SentOK, AckedOK
<1>3. ASSUME NEW q \in net' PROVE PacketOK(q)'
  BY <1>1 DEF DownloadInv, PaceInv, PacketInv, PacketOK, AckedOK
<1>4. ASSUME NEW t \in Sessions, t # s PROVE SessionOK(t)'
  BY <1>1, <1>4 DEF DownloadInv, PaceInv, SessionInv, SessionOK
<1> QED
  BY <1>2, <1>3, <1>4 DEF PaceInv, PacketInv, SessionInv

LEMMA StartKeepsPace ==
    ASSUME DownloadInv, OneDownload, NEW f \in Files, StartDownload(f)
    PROVE  PaceInv'
<1>1. /\ calls = 0 /\ calls' = 1 /\ want' = f /\ peer' = None /\ UNCHANGED server
      /\ file' = <<>> /\ lastSent' = Request(Main, f)
      /\ Send({Request(Main, f)}) \/ UNCHANGED netVars
  BY DEF StartDownload, OneDownload, DownloadInv, IntactInv, TypeInv, TypeOK
<1>2. /\ net = {} /\ \A s \in Sessions : spc[s] = "free"
      /\ UNCHANGED <<spc, sfile, nextBlockNum>>
  BY <1>1 DEF DownloadInv, PaceInv, CallOK, server
<1>3. Request(Main, f).op = "RQ" /\ Request(Main, f).file = f
  BY DEF Request
<1>4. CallOK'
  BY <1>1 DEF CallOK
<1>5. SentOK'
  BY <1>1, <1>3 DEF SentOK
<1>6. PacketInv'
  <2>1. \A q \in net' : q = Request(Main, f)
    BY <1>1, <1>2 DEF Send, netVars
  <2> QED
    BY <1>1, <1>3, <2>1 DEF PacketInv, PacketOK
<1>7. SessionInv'
  <2>1. \A s \in Sessions : nextBlockNum[s] = 1
    BY <1>2 DEF DownloadInv, IntactInv, TypeInv, ServerInv
  <2> QED
    BY <1>1, <1>2, <2>1 DEF SessionInv, SessionOK
<1> QED
  BY <1>4, <1>5, <1>6, <1>7 DEF PaceInv

\* What is known of the client in its loop, and of a session with work to do.
LEMMA LoopFacts ==
    ASSUME DownloadInv, status = "recv" \/ net # {} \/ \E s \in Sessions : spc[s] # "free"
    PROVE  /\ Len(file) \in Nat /\ file \in Seq(Blocks)
           /\ calls # 0 /\ want \in Files /\ FileLen[want] \in Nat \ {0}
<1>1. Len(file) \in Nat /\ file \in Seq(Blocks)
  BY DEF DownloadInv, IntactInv, TypeInv, TypeOK
<1>2. calls # 0 /\ want \in Files
  BY DEF DownloadInv, PaceInv, CallOK
<1> QED
  BY <1>1, <1>2, NetAssumption

\* What a datagram from the peer, or from the first to answer, is.
LEMMA DataFacts ==
    ASSUME DownloadInv, SmallFiles, NEW p \in net, FromPeer(p), p.op = "DATA"
    PROVE  /\ p.tid \in Sessions /\ p.tid # None /\ sfile[p.tid] = want
           /\ p.block \in Nat \ {0}
           /\ Len(file) < FileLen[want]
           /\ p.block = expectedBlock =>
                 /\ p.data = <<want, Len(file) + 1>> /\ p.block = Len(file) + 1
                 /\ IsLast(p.data) <=> p.block = FileLen[want]
           /\ p.block = PreviousBlock => p.block = Len(file) /\ ~ IsLast(p.data)
<1>1. IntactInv /\ p \in Packets
  BY DEF DownloadInv, IntactInv, TypeInv, TypeOK
<1>2. /\ p.tid \in Sessions /\ p.tid # None
      /\ spc[p.tid] # "free" /\ sfile[p.tid] \in Files
      /\ Len(file) < FileLen[sfile[p.tid]]
      /\ p.block = expectedBlock => p.data = <<sfile[p.tid], Len(file) + 1>>
      /\ p.block = PreviousBlock => ~ IsLast(p.data)
  BY <1>1, ExpectedIsNext
<1>3. sfile[p.tid] = want
  BY <1>2 DEF DownloadInv, PaceInv, SessionInv, SessionOK
<1>4. Len(file) \in Nat /\ want \in Files /\ FileLen[want] < Modulus /\ FileLen[want] \in Nat
  BY <1>2, <1>3, LoopFacts DEF SmallFiles
<1>5. p.block = Wire(p.data[2]) /\ p.data[1] = want
  BY <1>1, <1>3 DEF DataInv, IntactInv
<1>6. p.data \in Blocks
  BY <1>1, PacketFields
<1>7. p.data[2] \in 1..FileLen[want]
  BY <1>5, <1>6, BlockParts
<1>8. p.block = p.data[2]
  <2>1. p.data[2] \in 0..(Modulus - 1)
    BY <1>4, <1>7, NetAssumption
  <2> QED
    BY <1>5, <2>1, WireSmall
<1>9. expectedBlock = Wire(Len(file) + 1)
  BY <1>1 DEF FromPeer, IntactInv, CopyInv
<1>10. expectedBlock = Len(file) + 1
  <2>1. Len(file) + 1 \in 0..(Modulus - 1)
    BY <1>2, <1>3, <1>4, NetAssumption
  <2> QED
    BY <1>9, <2>1, WireSmall
<1>11. PreviousBlock = Len(file)
  <2>1. Len(file) \in 0..(Modulus - 1)
    BY <1>2, <1>3, <1>4, NetAssumption
  <2>2. expectedBlock + Modulus - 1 = Len(file) + Modulus
    BY <1>4, <1>10, NetAssumption
  <2> QED
    BY <2>1, <2>2, WireSmall DEF PreviousBlock
<1>12. p.block = expectedBlock => (IsLast(p.data) <=> p.block = FileLen[want])
  BY <1>5, <1>8 DEF IsLast
<1> QED
  BY <1>2, <1>3, <1>4, <1>7, <1>8, <1>10, <1>11, <1>12

LEMMA QuietKeepsPace ==
    ASSUME DownloadInv, SmallFiles,
           \/ ClientRetransmit \/ ClientGiveUp \/ ClientFails
           \/ \E p \in net : RecvStranger(p) \/ RecvOther(p) \/ AcceptFails(p) \/ RecvError(p)
    PROVE  PaceInv'
<1>1. /\ status = "recv" /\ UNCHANGED <<want, calls, lastSent>> /\ UNCHANGED server
      /\ peer # None => peer' = peer
      /\ \/ file' = file
         \/ \E p \in net : AcceptFails(p) /\ file' = Append(file, p.data)
  BY DEF ClientRetransmit, ClientGiveUp, ClientFails, RecvStranger, RecvOther, AcceptFails,
     RecvError, FromPeer
<1>2. file' \in Seq(Blocks) /\ Len(file') \in Nat /\ Len(file) <= Len(file')
  <2>1. ASSUME NEW p \in net, AcceptFails(p) PROVE p.data \in Blocks
    BY <2>1, PacketFields DEF AcceptFails, FromPeer, DownloadInv, IntactInv, TypeInv, TypeOK
  <2>2. CASE file' = file
    BY <1>1, <2>2, LoopFacts
  <2>3. ASSUME NEW p \in net, AcceptFails(p), file' = Append(file, p.data)
        PROVE  file' \in Seq(Blocks) /\ Len(file') \in Nat /\ Len(file) <= Len(file')
    BY <1>1, <2>1, <2>3, LoopFacts
  <2> QED
    BY <1>1, <2>2, <2>3
<1>3. SentOK'
  <2>1. SentOK /\ Len(file) \in Nat
    BY <1>1, LoopFacts DEF DownloadInv, PaceInv
  <2> QED
    BY <1>1, <1>2, <2>1 DEF SentOK, AckedOK
<1>4. ASSUME NEW q \in net' PROVE q \in net \/ PacketOK(q)'
  <2>1. CASE ~ ClientRetransmit
    BY <1>1, <2>1 DEF ClientGiveUp, ClientFails, RecvStranger, RecvOther, AcceptFails,
       RecvError, Deliver, netVars
  <2>2. CASE ClientRetransmit
    <3>1. /\ q \in net \/ q = Readdressed(lastSent, Target)
          /\ peer' = peer /\ file' = file /\ status' = status
      BY <2>2 DEF ClientRetransmit, Send
    <3>2. lastSent \in Requests \/ (lastSent \in AckPackets /\ peer # None)
      BY <1>1 DEF DownloadInv, IntactInv, TypeInv, SenderInv
    <3>3. SentOK
      BY DEF DownloadInv, PaceInv
    <3>4. CASE q = Readdressed(lastSent, Target) /\ lastSent \in Requests
      <4>1. lastSent.op = "RQ" /\ q.op = "RQ" /\ q.file = lastSent.file
        BY <3>4 DEF Readdressed, Requests
      <4> QED
        BY <1>1, <3>3, <4>1 DEF SentOK, PacketOK
    <3>5. CASE q = Readdressed(lastSent, Target) /\ lastSent \in AckPackets /\ peer # None
      <4>1. /\ lastSent.op = "ACK" /\ q.op = "ACK" /\ q.block = lastSent.block
            /\ q.tid = Target /\ Target = peer
        BY <3>5 DEF Readdressed, AckPackets, Target
      <4> QED
        BY <1>1, <3>1, <3>3, <4>1 DEF SentOK, PacketOK, AckedOK
    <3> QED
      BY <3>1, <3>2, <3>4, <3>5
  <2> QED
    BY <2>1, <2>2
<1>5. calls # 0
  BY <1>1, LoopFacts
<1> QED
  BY <1>1, <1>2, <1>3, <1>4, <1>5, ClientMoves

LEMMA AcknowledgeKeepsPace ==
    ASSUME DownloadInv, SmallFiles, NEW p \in net, RecvExpected(p) \/ RecvPrevious(p)
    PROVE  PaceInv'
<1>1. /\ FromPeer(p) /\ p.op = "DATA" /\ status = "recv"
      /\ UNCHANGED <<want, calls, server>>
      /\ peer' = p.tid /\ peer \in {None, p.tid}
      /\ status' = IF IsLast(p.data) THEN "ok" ELSE "recv"
      /\ \A q \in net' : q \in net \/ q = AckPacket(p.tid, p.block)
      /\ lastSent' = AckPacket(p.tid, p.block)
  BY DEF RecvExpected, RecvPrevious, FromPeer, Acknowledge, Deliver
<1>2. /\ p.tid \in Sessions /\ p.tid # None /\ p.block \in Nat \ {0}
      /\ Len(file) < FileLen[want] /\ Len(file) \in Nat /\ file \in Seq(Blocks)
      /\ calls # 0
  BY <1>1, DataFacts, LoopFacts
<1>3. /\ p.block \in 1..Len(file') /\ Len(file') \in Nat /\ Len(file) <= Len(file')
      /\ p.block = FileLen[want] => status' = "ok"
  <2>1. CASE RecvExpected(p)
    <3>1. file' = Append(file, p.data) /\ p.block = expectedBlock
      BY <2>1 DEF RecvExpected
    <3>2. p.block = Len(file) + 1 /\ (IsLast(p.data) <=> p.block = FileLen[want])
      BY <1>1, <3>1, DataFacts
    <3>3. p.data \in Blocks
      BY <1>1, PacketFields DEF DownloadInv, IntactInv, TypeInv, TypeOK
    <3>4. Len(file') = Len(file) + 1
      BY <1>2, <3>1, <3>3
    <3> QED
      BY <1>1, <1>2, <3>2, <3>4
  <2>2. CASE RecvPrevious(p)
    <3>1. file' = file /\ p.block = PreviousBlock
      BY <2>2 DEF RecvPrevious
    <3>2. p.block = Len(file)
      BY <1>1, <3>1, DataFacts
    <3> QED
      BY <1>2, <3>1, <3>2
  <2> QED
    BY <2>1, <2>2
<1>4. ASSUME NEW q, q = AckPacket(p.tid, p.block) PROVE PacketOK(q)'
  BY <1>1, <1>3, <1>4 DEF PacketOK, AckedOK, AckPacket
<1>5. SentOK'
  <2>1. lastSent'.op = "ACK" /\ lastSent'.block = p.block
    BY <1>1 DEF AckPacket
  <2> QED
    BY <1>1, <1>2, <1>3, <2>1 DEF SentOK, AckedOK
<1>6. \A q \in net' : q \in net \/ PacketOK(q)'
  BY <1>1, <1>4
<1> QED
  BY <1>1, <1>2, <1>3, <1>5, <1>6, ClientMoves

LEMMA AcceptKeepsPace ==
    ASSUME DownloadInv, NEW s \in Sessions, NEW p \in net, Accept(s, p)
    PROVE  PaceInv'
<1>1. /\ spc[s] = "free" /\ p.op = "RQ" /\ UNCHANGED client /\ nextBlockNum' = nextBlockNum
      /\ spc' = [spc EXCEPT ![s] = "starting"] /\ sfile' = [sfile EXCEPT ![s] = p.file]
      /\ \A q \in net' : q \in net
  BY DEF Accept, Deliver
<1>2. p.file = want
  BY <1>1 DEF DownloadInv, PaceInv, PacketInv, PacketOK
<1>3. /\ spc'[s] = "starting" /\ sfile'[s] = want
      /\ \A t \in Sessions \ {s} : spc'[t] = spc[t] /\ sfile'[t] = sfile[t]
  BY <1>1, <1>2 DEF DownloadInv, IntactInv, TypeInv, TypeOK
<1>4. SessionOK(s)'
  <2>1. SessionOK(s)
    BY DEF DownloadInv, PaceInv, SessionInv
  <2> QED
    BY <1>1, <1>3, <2>1 DEF SessionOK, client
<1> QED
  BY <1>1, <1>3, <1>4, LoopFacts, SessionMoves

LEMMA SessionKeepsPace ==
    ASSUME DownloadInv, NEW s \in Sessions, SessionStep(s)
    PROVE  PaceInv'
<1>1. /\ spc[s] \in {"starting", "recv"} /\ UNCHANGED client /\ sfile' = sfile
      /\ \A q \in net' : \/ q \in net \/ q = ErrorPacket(s)
                         \/ q = NextPacket(s) \/ q = LastPacket(s)
  BY DEF SessionStep, Begin, SessionRetransmit, SessionGiveUp, SessionFails, RecvAck, AckFinal,
     AckNext, AckOther, RecvRequest, Send, Deliver
<1>2. UNCHANGED <<want, file, peer, status>> /\ calls # 0 /\ Len(file) \in Nat
  BY <1>1, LoopFacts DEF client
<1>3. /\ spc \in [Sessions -> SessionStates] /\ nextBlockNum \in [Sessions -> Nat \ {0}]
      /\ SessionOK(s)
  BY DEF DownloadInv, PaceInv, SessionInv, IntactInv, TypeInv, TypeOK
<1>4. \A q \in net' : q \in net \/ q.op \in {"DATA", "ERROR"}
  BY <1>1 DEF ErrorPacket, NextPacket, LastPacket, DataPacket
<1>5. ASSUME NEW p \in net, RecvAck(s, p)
      PROVE  s = peer /\ p.block \in 1..Len(file) /\ (p.block = FileLen[want] => status = "ok")
  BY <1>5 DEF RecvAck, DownloadInv, PaceInv, PacketInv, PacketOK, AckedOK
<1>6. CASE Begin(s)
  <2>1. /\ spc' = [spc EXCEPT ![s] = "recv"] /\ spc[s] = "starting"
        /\ nextBlockNum' = [nextBlockNum EXCEPT ![s] = nextBlockNum[s] + 1]
    BY <1>6 DEF Begin, SentBlock
  <2>2. nextBlockNum[s] = 1
    BY <2>1 DEF DownloadInv, IntactInv, TypeInv, ServerInv
  <2>3. SessionOK(s)'
    BY <1>1, <1>2, <1>3, <2>1, <2>2 DEF SessionOK
  <2> QED
    BY <1>1, <1>2, <1>3, <1>4, <2>1, <2>3, SessionMoves
<1>7. ASSUME NEW p \in net, AckNext(s, p) PROVE PaceInv'
  <2>1. /\ spc' = spc /\ RecvAck(s, p) /\ p.block = nextBlockNum[s] - 1
        /\ nextBlockNum' = [nextBlockNum EXCEPT ![s] = nextBlockNum[s] + 1]
    BY <1>7 DEF AckNext, IsNextAck, SentBlock
  <2>2. s = peer /\ nextBlockNum[s] - 1 \in 1..Len(file)
    BY <1>5, <2>1
  <2>3. SessionOK(s)'
    BY <1>1, <1>2, <1>3, <2>1, <2>2 DEF SessionOK
  <2> QED
    BY <1>1, <1>2, <1>3, <1>4, <2>1, <2>3, SessionMoves
<1>8. ASSUME NEW p \in net, AckFinal(s, p) PROVE PaceInv'
  <2>1. /\ spc' = [spc EXCEPT ![s] = "over"] /\ RecvAck(s, p) /\ spc[s] = "recv"
        /\ finalyBlock[s] # 0 /\ p.block = finalyBlock[s] /\ nextBlockNum' = nextBlockNum
    BY <1>8 DEF AckFinal, RecvAck, IsFinalAck
  <2>2. p.block = FileLen[want]
    BY <1>3, <2>1 DEF SessionOK, DownloadInv, IntactInv, TypeInv, ServerInv
  <2>3. SessionOK(s)'
    BY <1>1, <1>2, <1>3, <1>5, <2>1, <2>2 DEF SessionOK
  <2> QED
    BY <1>1, <1>2, <1>3, <1>4, <2>1, <2>3, SessionMoves
<1>9. CASE \/ SessionRetransmit(s) \/ SessionGiveUp(s) \/ SessionFails(s)
           \/ \E p \in net : AckOther(s, p) \/ RecvRequest(s, p)
  <2>1. /\ nextBlockNum' = nextBlockNum
        /\ spc' = spc \/ spc' = [spc EXCEPT ![s] = "aborted"]
    BY <1>9 DEF SessionRetransmit, SessionGiveUp, SessionFails, AckOther, RecvAck, RecvRequest
  <2>2. /\ spc'[s] \in {spc[s], "aborted"}
        /\ \A t \in Sessions \ {s} : spc'[t] = spc[t]
    BY <1>3, <2>1
  <2>3. SessionOK(s)'
    BY <1>1, <1>2, <1>3, <2>1, <2>2 DEF SessionOK
  <2> QED
    BY <1>1, <1>2, <1>4, <2>1, <2>2, <2>3, SessionMoves
<1> QED
  BY <1>6, <1>7, <1>8, <1>9 DEF SessionStep

LEMMA DownloadInvariant ==
    ASSUME OneDownload, SmallFiles
    PROVE  Spec => []DownloadInv
<1>1. DownloadInv /\ [Next]_vars => DownloadInv'
  <2> SUFFICES ASSUME DownloadInv, [Next]_vars PROVE DownloadInv'
    OBVIOUS
  <2>1. IntactInv'
    BY TypeNext, DataNext, CopyNext DEF DownloadInv, IntactInv
  <2>2. CASE UNCHANGED vars
    BY <2>1, <2>2 DEF vars, netVars, client, server, DownloadInv, PaceInv, CallOK, SentOK,
       PacketInv, PacketOK, AckedOK, SessionInv, SessionOK
  <2>3. CASE ClientStep
    BY <2>1, <2>3, QuietKeepsPace, AcknowledgeKeepsPace DEF ClientStep, DownloadInv
  <2> QED
    BY <2>1, <2>2, <2>3, StartKeepsPace, AcceptKeepsPace, SessionKeepsPace
       DEF Next, DownloadInv
<1> QED
  BY <1>1, DownloadInit, PTL DEF Spec

\* Stop and wait: whatever is resent, duplicated or late, no session sends a
\* block more than one ahead of what its client has written, and one that is
\* not the client's peer never gets past its first block.
THEOREM OneBlockAhead ==
    ASSUME OneDownload, SmallFiles
    PROVE  Spec => []StopAndWait
<1>1. DownloadInv => StopAndWait
  BY DEF DownloadInv, PaceInv, SessionInv, SessionOK, StopAndWait
<1> QED
  BY <1>1, DownloadInvariant, PTL

\* A session that prints that the transfer is over is right: its client has
\* written the whole file and returned 0.
THEOREM OverIsDelivered ==
    ASSUME OneDownload, SmallFiles
    PROVE  Spec => []OverMeansDelivered
<1>1. DownloadInv => OverMeansDelivered
  <2> SUFFICES ASSUME DownloadInv, NEW s \in Sessions, spc[s] = "over"
               PROVE  status = "ok" /\ file = Content(sfile[s])
    BY DEF OverMeansDelivered
  <2>1. s = peer /\ status = "ok" /\ sfile[s] = want
    BY DEF DownloadInv, PaceInv, SessionInv, SessionOK
  <2>2. /\ \A k \in 1..Len(file) : file[k] = <<sfile[s], k>>
        /\ Len(file) = FileLen[sfile[s]]
    BY <2>1 DEF DownloadInv, IntactInv, CopyInv, FileIntact
  <2>3. file \in Seq(Blocks) /\ sfile[s] \in Files
    BY <2>1, LoopFacts
  <2> QED
    BY <2>1, <2>2, <2>3, IsContent
<1> QED
  BY <1>1, DownloadInvariant, PTL

-----------------------------------------------------------------------------
(* The refinement: the client's file is the copy.                          *)

LEMMA ClientTransfers ==
    ASSUME DownloadInv, SmallFiles, ClientStep
    PROVE  Abstract!CopyBlock \/ Abstract!Fail \/ UNCHANGED Abstract!vars
<1>1. want' = want /\ status = "recv"
  BY DEF ClientStep, ClientRetransmit, ClientGiveUp, ClientFails, RecvStranger, RecvExpected,
     RecvPrevious, RecvOther, AcceptFails, RecvError, FromPeer, Acknowledge
<1>2. CASE \/ ClientRetransmit \/ ClientGiveUp \/ ClientFails
           \/ \E p \in net : RecvStranger(p) \/ RecvOther(p) \/ RecvError(p)
  <2>1. file' = file /\ status' \in {status, "failed"}
    BY <1>2 DEF ClientRetransmit, ClientGiveUp, ClientFails, RecvStranger, RecvOther, RecvError
  <2> QED
    BY <1>1, <2>1 DEF Abstract!Fail, Abstract!vars
<1>3. ASSUME NEW p \in net, RecvPrevious(p) PROVE UNCHANGED Abstract!vars
  <2>1. /\ FromPeer(p) /\ p.op = "DATA" /\ p.block = PreviousBlock /\ file' = file
        /\ status' = IF IsLast(p.data) THEN "ok" ELSE "recv"
    BY <1>3 DEF RecvPrevious, Acknowledge
  <2>2. ~ IsLast(p.data)
    BY <2>1, DataFacts
  <2> QED
    BY <1>1, <2>1, <2>2 DEF Abstract!vars
<1>4. ASSUME NEW p \in net, RecvExpected(p) \/ AcceptFails(p), file' = Append(file, p.data)
      PROVE  Abstract!CopyBlock
  <2>1. /\ FromPeer(p) /\ p.op = "DATA" /\ p.block = expectedBlock
        /\ status' = "failed" \/ status' = IF IsLast(p.data) THEN "ok" ELSE "recv"
    <3>1. file \in Seq(Blocks) /\ p.data \in Blocks
      BY <1>1, <1>4, LoopFacts, PacketFields DEF RecvExpected, AcceptFails, FromPeer,
         DownloadInv, IntactInv, TypeInv, TypeOK
    <3>2. Append(file, p.data) # file
      BY <3>1
    <3> QED
      BY <1>4, <3>2 DEF RecvExpected, AcceptFails, Acknowledge
  <2>2. /\ p.data = <<want, Len(file) + 1>> /\ Len(file) < FileLen[want]
        /\ IsLast(p.data) <=> Len(file) + 1 = FileLen[want]
        /\ sfile[p.tid] = want /\ p.tid \in Sessions
    BY <2>1, DataFacts
  <2>3. Abstract!CopyBlock \/ (IsLast(p.data) /\ status' = "ok")
    BY <1>1, <1>4, <2>1, <2>2 DEF Abstract!CopyBlock
  <2>4. ASSUME IsLast(p.data), status' = "ok" PROVE file' = Abstract!Whole(want)
    <3>1. file \in Seq(Blocks) /\ Len(file) \in Nat /\ want \in Files /\ p.data \in Blocks
      BY <1>1, <2>1, LoopFacts, PacketFields DEF DownloadInv, IntactInv, TypeInv, TypeOK
    <3>2. \A k \in 1..Len(file) : file[k] = <<want, k>>
      BY <1>1, <2>1, <2>2, <3>1 DEF FromPeer, DownloadInv, IntactInv, CopyInv, FileIntact
    <3>3. /\ file' \in Seq(Blocks) /\ Len(file') = Len(file) + 1
          /\ file'[Len(file) + 1] = p.data
          /\ \A k \in 1..Len(file) : file'[k] = file[k]
      BY <1>4, <3>1
    <3>4. \A k \in 1..Len(file') : file'[k] = <<want, k>>
      BY <2>2, <3>1, <3>2, <3>3
    <3>5. PICK copy \in Seq(Blocks) : copy = file'
      BY <3>3
    <3>6. copy = Content(want)
      BY <2>2, <2>4, <3>1, <3>3, <3>4, <3>5, IsContent
    <3> QED
      BY <3>5, <3>6 DEF Content, Abstract!Whole
  <2>5. ASSUME IsLast(p.data), status' = "ok" PROVE Abstract!CopyBlock
    BY <1>1, <1>4, <2>2, <2>4, <2>5 DEF Abstract!CopyBlock
  <2> QED
    BY <2>3, <2>5
<1>5. ASSUME NEW p \in net, AcceptFails(p), file' = file PROVE Abstract!Fail
  BY <1>1, <1>5 DEF AcceptFails, Abstract!Fail
<1>6. ASSUME NEW p \in net, RecvExpected(p) PROVE file' = Append(file, p.data)
  BY <1>6 DEF RecvExpected
<1>7. ASSUME NEW p \in net, AcceptFails(p)
      PROVE  file' = file \/ file' = Append(file, p.data)
  BY <1>7 DEF AcceptFails
<1> QED
  BY <1>2, <1>3, <1>4, <1>5, <1>6, <1>7 DEF ClientStep

\* A download is a transfer: the client's file grows by the next block of the
\* file that was asked for and by nothing else, a failure leaves a prefix, and
\* success is reported of a whole copy.
THEOREM IsTransfer ==
    ASSUME OneDownload, SmallFiles
    PROVE  Spec => ImplementsTransfer
<1>1. DownloadInv /\ [Next]_vars => [Abstract!Next]_(Abstract!vars)
  <2> SUFFICES ASSUME DownloadInv, [Next]_vars
               PROVE  Abstract!Next \/ UNCHANGED Abstract!vars
    OBVIOUS
  <2>1. ASSUME NEW f \in Files, StartDownload(f) PROVE Abstract!Start
    BY <2>1 DEF StartDownload, Abstract!Start
  <2>2. CASE UNCHANGED client
    BY <2>2 DEF client, Abstract!vars
  <2>3. UNCHANGED vars \/ (\E s \in Sessions : SessionStep(s))
        \/ (\E s \in Sessions, p \in net : Accept(s, p)) => UNCHANGED client
    BY DEF vars, SessionStep, Begin, SessionRetransmit, SessionGiveUp, SessionFails, AckFinal,
       AckNext, AckOther, RecvAck, RecvRequest, Accept
  <2> QED
    BY <2>1, <2>2, <2>3, ClientTransfers DEF Next, Abstract!Next
<1>2. Init => Abstract!Init
  BY DEF Init, Abstract!Init
<1> QED
  BY <1>1, <1>2, DownloadInvariant, PTL DEF Spec, ImplementsTransfer, Abstract!Spec

=============================================================================
