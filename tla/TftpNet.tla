------------------------------ MODULE TftpNet ------------------------------
(***************************************************************************)
(* The datagrams of the TFTP pair (TFTP/tftp_client, TFTP/tftp_server) and *)
(* the UDP network between them.                                           *)
(*                                                                         *)
(* The client program owns ONE socket for its whole life                   *)
(* (tftp_client.h:10), so a packet needs no client address.  The server    *)
(* answers every request from a fresh socket (tftp_server.cpp:115): `tid'  *)
(* is the server-side port of a packet, a session's or Main, port 1069.    *)
(*                                                                         *)
(* A file is FileLen[f] blocks: size \div 512 full blocks and a last one   *)
(* shorter than 512 bytes (possibly empty), which is what ends a transfer. *)
(* Block k of f is the pair <<f, k>>; its wire number is 16 bits wide.     *)
(***************************************************************************)
EXTENDS Naturals

CONSTANTS
    Files,          \* names of files on the sending side
    FileLen,        \* number of DATA blocks of each file
    Sessions,       \* ports of the server's session sockets
    Main,           \* port 1069, where requests are received
    None,           \* no peer locked (hasPeer == false), no file opened
    Modulus,        \* 2^16: block numbers travel as uint16_t
    MaxRetry,       \* maxRetry of the client (3 in the code)
    MaxRepeat,      \* maxRepeat of the server (3 in the code)
    MaxTransfers,   \* bound: transfers the user asks of one client process
    MaxDups         \* bound: datagrams the network delivers twice

ASSUME NetAssumption ==
    /\ FileLen \in [Files -> Nat \ {0}]
    /\ Main \notin Sessions
    /\ None \notin Sessions \cup Files
    /\ Modulus \in Nat \ {0, 1}
    /\ MaxRetry \in Nat
    /\ MaxRepeat \in Nat
    /\ MaxTransfers \in Nat
    /\ MaxDups \in Nat

VARIABLES
    net,            \* datagrams in flight or in a socket buffer
    dups            \* how many were delivered twice so far

netVars == <<net, dups>>

-----------------------------------------------------------------------------
(* Blocks and packets. *)

Blocks == UNION {{<<f, k>> : k \in 1..FileLen[f]} : f \in Files}

IsLast(blk) == blk[2] = FileLen[blk[1]]

Content(f) == [k \in 1..FileLen[f] |-> <<f, k>>]

WireNumbers == 0..(Modulus - 1)

Wire(n) == n % Modulus

Request(to, f) == [op |-> "RQ", tid |-> to, file |-> f]

DataPacket(t, f, n) ==
    [op |-> "DATA", tid |-> t, block |-> Wire(n), data |-> <<f, n>>]

AckPacket(t, b) == [op |-> "ACK", tid |-> t, block |-> b]

ErrorPacket(t) == [op |-> "ERROR", tid |-> t]

\* The packet a sender keeps for retransmission, sent to another port.
Readdressed(p, to) == [p EXCEPT !.tid = to]

Requests == [op : {"RQ"}, tid : Sessions \cup {Main}, file : Files]
DataPackets ==
    [op : {"DATA"}, tid : Sessions, block : WireNumbers, data : Blocks]
AckPackets == [op : {"ACK"}, tid : Sessions, block : WireNumbers]
ErrorPackets == [op : {"ERROR"}, tid : Sessions]

Packets == Requests \cup DataPackets \cup AckPackets \cup ErrorPackets

-----------------------------------------------------------------------------
(* The network keeps one copy of a datagram, delivers datagrams in any     *)
(* order and as late as it likes, and up to MaxDups of them twice.  No     *)
(* fairness is asked of a delivery, so a lost datagram is one that stays   *)
(* here for ever: loss needs no action of its own.                         *)

Send(out) ==
    /\ net' = net \cup out
    /\ UNCHANGED dups

Deliver(p, out) ==
    /\ p \in net
    /\ \/ /\ net' = (net \ {p}) \cup out
          /\ UNCHANGED dups
       \/ /\ dups < MaxDups
          /\ net' = net \cup out
          /\ dups' = dups + 1

=============================================================================
