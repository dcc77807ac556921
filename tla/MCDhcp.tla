------------------------------- MODULE MCDhcp -------------------------------
(* mydhcpd with one or two clients on one host.                            *)
EXTENDS Dhcp

CONSTANTS h1, p1, p2, a1, a2, m1, zero

MCHosts  == {h1}
OnePort  == {p1}
TwoPorts == {p1, p2}
MCAddrs  == {a1, a2, m1, zero}

\* The two clients are interchangeable.
PortSymmetry == Permutations(TwoPorts)

TwoLines == << [address |-> a1, netmask |-> m1], [address |-> a2, netmask |-> m1] >>
=============================================================================
