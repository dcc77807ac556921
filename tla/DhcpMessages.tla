---------------------------- MODULE DhcpMessages ----------------------------
(***************************************************************************)
(* The datagrams of mydhcp (struct dhcph, header.h:30-36) and the UDP      *)
(* service that carries them.                                              *)
(*                                                                         *)
(* An address or netmask is an opaque value; only equality is ever tested. *)
(* Message types keep their names; every value outside 1..5 is the one     *)
(* type "UNKNOWN".  Codes keep the numbers of the code: OFFER 0 ok, 1 no   *)
(* address; REQUEST 2 allocate, 3 extend; ACK 0 ok, 4 refused.             *)
(***************************************************************************)
EXTENDS Naturals, Sequences, SequencesExt

CONSTANTS
    Hosts, Ports,  \* IP addresses and UDP ports of the clients
    Addrs,         \* in_addr values that occur in messages
    Zero,          \* 0.0.0.0
    SockBuf        \* datagrams a socket's receive buffer holds

ASSUME ZeroAssumption == Zero \in Addrs
ASSUME SockBufAssumption == SockBuf \in Nat

\* What identifies a client: search_client compares both fields.
Peers == [ip : Hosts, port : Ports]

MsgTypes == {"DISCOVER", "OFFER", "REQUEST", "ACK", "RELEASE", "UNKNOWN"}

\* ttl is the 16-bit field as read by ntohs.
Messages == [type : MsgTypes, code : Nat, ttl : Nat, address : Addrs, netmask : Addrs]

Msg(t, c, l, a, n) == [type |-> t, code |-> c, ttl |-> l, address |-> a, netmask |-> n]

(***************************************************************************)
(* sendto on a UDP socket: the receive buffer q after m was sent to it.    *)
(* The datagram is lost (always, when the buffer is full) or inserted at   *)
(* any position, because datagrams may overtake one another.               *)
(***************************************************************************)
Transmit(q, m) ==
    {q} \cup (IF Len(q) < SockBuf
              THEN {InsertAt(q, i, m) : i \in 1..Len(q) + 1}
              ELSE {})
=============================================================================
