---------------------------- MODULE MCDhcpServer ----------------------------
(* Two or three peers behind one host, a config file of two lines.          *)
EXTENDS DhcpServerOpen

CONSTANTS h1, p1, p2, p3, a1, a2, m1, zero

MCHosts  == {h1}
TwoPorts == {p1, p2}
ThreePorts == {p1, p2, p3}
MCAddrs  == {a1, a2, m1, zero}
MCConfig == << [address |-> a1, netmask |-> m1], [address |-> a2, netmask |-> m1] >>

\* The peers are interchangeable.
PortSymmetry == Permutations(ThreePorts)

\* One datagram per way wait_event can classify it.
MCDatagrams ==
    { Msg("DISCOVER", 0, 0, zero, zero),
      Msg("REQUEST", 2, TTL, a1, m1), Msg("REQUEST", 2, TTL, a2, m1),
      Msg("REQUEST", 2, TTL + 1, a1, m1), Msg("REQUEST", 2, TTL, a1, zero),
      Msg("REQUEST", 3, TTL, a1, m1),
      Msg("RELEASE", 0, 0, a1, zero), Msg("RELEASE", 0, 0, a2, zero),
      Msg("UNKNOWN", 0, 0, zero, zero) }
=============================================================================
