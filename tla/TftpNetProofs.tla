---------------------------- MODULE TftpNetProofs ----------------------------
(***************************************************************************)
(* Lemmas about blocks, packets, 16-bit numbers and the network, for the   *)
(* proofs about both directions of a transfer.                             *)
(***************************************************************************)
EXTENDS TftpNet, Sequences, TLAPS

-----------------------------------------------------------------------------
(* The data: blocks, packets, wire numbers. *)

LEMMA BlockIsBlock ==
    ASSUME NEW f \in Files, NEW k \in 1..FileLen[f]
    PROVE  <<f, k>> \in Blocks
BY DEF Blocks

LEMMA BlockParts ==
    ASSUME NEW b \in Blocks
    PROVE  /\ b[1] \in Files
           /\ b[2] \in 1..FileLen[b[1]]
           /\ b = <<b[1], b[2]>>
BY DEF Blocks

LEMMA WireType ==
    ASSUME NEW n \in Nat
    PROVE  Wire(n) \in WireNumbers
BY NetAssumption, SMT DEF Wire, WireNumbers

LEMMA DataPacketType ==
    ASSUME NEW s \in Sessions, NEW f \in Files, NEW n \in 1..FileLen[f]
    PROVE  DataPacket(s, f, n) \in DataPackets
<1>1. Wire(n) \in WireNumbers
  BY WireType, NetAssumption
<1> QED
  BY <1>1, BlockIsBlock DEF DataPacket, DataPackets

\* What the fields of a packet are, by its kind.
LEMMA PacketFields ==
    ASSUME NEW p \in Packets
    PROVE  /\ p.op = "RQ" => p.file \in Files
           /\ p.op = "DATA" => /\ p.tid \in Sessions
                              /\ p.block \in WireNumbers
                              /\ p.data \in Blocks
           /\ p.op \in {"ACK", "ERROR"} => p.tid \in Sessions
BY DEF Packets, Requests, DataPackets, AckPackets, ErrorPackets

LEMMA AckPacketType ==
    ASSUME NEW s \in Sessions, NEW b \in WireNumbers
    PROVE  AckPacket(s, b) \in AckPackets /\ AckPacket(s, b) \in Packets
BY DEF AckPacket, AckPackets, Packets

LEMMA ErrorPacketType ==
    ASSUME NEW s \in Sessions
    PROVE  ErrorPacket(s) \in Packets
BY DEF ErrorPacket, ErrorPackets, Packets

\* No file is as long as the 16-bit block numbers can count: 32 MB.
SmallFiles == \A f \in Files : FileLen[f] < Modulus

LEMMA WireSmall ==
    ASSUME NEW n \in 0..(Modulus - 1)
    PROVE  Wire(n) = n /\ Wire(n + Modulus) = n
BY NetAssumption, SMT DEF Wire

\* A sequence that is a file's content block by block is its content.
LEMMA IsContent ==
    ASSUME NEW f \in Files, NEW S, NEW b \in Seq(S), Len(b) = FileLen[f],
           \A k \in 1..Len(b) : b[k] = <<f, k>>
    PROVE  b = Content(f)
<1>1. b = [k \in 1..Len(b) |-> b[k]]
  OBVIOUS
<1>2. b = [k \in 1..Len(b) |-> <<f, k>>]
  BY <1>1
<1> QED
  BY <1>2 DEF Content

-----------------------------------------------------------------------------
(* What a step adds to the network. *)

LEMMA NetGrows ==
    ASSUME net \subseteq Packets, dups \in 0..MaxDups,
           NEW out \in SUBSET Packets, Send(out) \/ \E p \in net : Deliver(p, out)
    PROVE  /\ net' \subseteq Packets /\ dups' \in 0..MaxDups
           /\ \A q \in net' : q \in net \/ q \in out
BY NetAssumption DEF Send, Deliver

=============================================================================
