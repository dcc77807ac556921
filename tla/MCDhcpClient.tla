---------------------------- MODULE MCDhcpClient ----------------------------
(* One client, and every kind of datagram it can tell apart.               *)
EXTENDS DhcpClientOpen

CONSTANTS h1, a1, m1, zero

MCHosts == {h1}
MCPorts == {1}
MCAddrs == {a1, m1, zero}
MCDatagrams ==
    { Msg("OFFER", 0, 2, a1, m1), Msg("OFFER", 1, 0, zero, zero), Msg("OFFER", 2, 2, a1, m1),
      Msg("ACK", 0, 2, a1, m1), Msg("ACK", 4, 0, a1, m1), Msg("ACK", 2, 2, a1, m1),
      Msg("RELEASE", 0, 0, a1, zero), Msg("UNKNOWN", 0, 0, zero, zero) }
=============================================================================
