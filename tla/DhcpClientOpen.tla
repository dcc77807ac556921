--------------------------- MODULE DhcpClientOpen ---------------------------
(***************************************************************************)
(* A client that may receive any datagram at any time: wait_event does not *)
(* look at the sender, so the server is only one of many.                  *)
(***************************************************************************)
EXTENDS DhcpClient

CONSTANT Datagrams  \* what arrives
ASSUME DatagramsAssumption == Datagrams \subseteq Messages

vars == <<clientVars, srvq, cliq>>

Init == /\ ClientInit
        /\ srvq = << >>
        /\ cliq = [p \in Peers |-> << >>]

\* A datagram reaches p.  What the clients sent is off the wire by then.
Arrive == \E p \in Peers, m \in Datagrams :
    /\ Len(cliq[p]) < SockBuf
    /\ cliq' = [cliq EXCEPT ![p] = Append(@, m)]
    /\ srvq' = << >>
    /\ UNCHANGED clientVars

Next == ClientNext \/ Arrive

Spec == Init /\ [][Next]_vars

FairSpec == Spec /\ \A p \in Peers : WF_vars(Thread(p)) /\ WF_vars(Sigalrm(p))
-----------------------------------------------------------------------------
\* A client nobody answers gives up after one repetition of its request; only
\* a client in IN_USE stays without the server's help.
SilenceEndsClient ==
    []<><<Arrive>>_vars \/ <>[](\A p \in Peers : cstate[p] \in {"OFF", "IN_USE", "EXITED"})
=============================================================================
