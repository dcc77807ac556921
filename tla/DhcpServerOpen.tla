--------------------------- MODULE DhcpServerOpen ---------------------------
(***************************************************************************)
(* The server among arbitrary peers: any peer sends any datagram at any    *)
(* time, in any order, whether or not a mydhcpc would.                     *)
(***************************************************************************)
EXTENDS DhcpServer

CONSTANT Datagrams  \* what the peers send

ASSUME DatagramsAssumption == Datagrams \subseteq Messages

\* A datagram of p arrives.  What the server sent is taken off the wire by
\* then: the server never sees what becomes of its replies.
Arrive == \E p \in Peers, m \in Datagrams :
    /\ status = "running" /\ Len(srvq) < SockBuf
    /\ srvq' = Append(srvq, [src |-> p, msg |-> m])
    /\ cliq' = [q \in Peers |-> << >>]
    /\ UNCHANGED <<control, lists>>

Next == Main \/ Tick \/ Die \/ Arrive

Spec == Init /\ [][Next]_vars

\* The thread runs and the interval timer fires; nothing obliges a peer to speak.
FairSpec == Spec /\ WF_vars(Main) /\ WF_vars(Tick)
-----------------------------------------------------------------------------
\* Once the peers fall silent the server ends up with no client: every offer
\* is repeated once and withdrawn, every lease runs out.
SilenceDrains == []<><<Arrive>>_vars \/ <>[](status = "dead" \/ clients = << >>)
-----------------------------------------------------------------------------
(* The server implements LeasePool: a peer's phase and line are those of   *)
(* its record, and INIT_STATE already counts as offered.                   *)

PhaseOf == [INIT |-> "offered", WAIT_REQU |-> "offered",
            REQU_TOUT |-> "reoffered", IN_USE |-> "granted"]

lineBar  == [p \in Peers |-> LET i == search_client(p)
                             IN  IF i = 0 THEN 0 ELSE clients[i].pa]
phaseBar == [p \in Peers |-> LET i == search_client(p)
                             IN  IF i = 0 THEN "none" ELSE PhaseOf[clients[i].state]]

Pool == INSTANCE LeasePool WITH
            Clients <- Peers, Lines <- Nodes, line <- lineBar, phase <- phaseBar

\* Every step of the server, whatever the peers send and however the ticks
\* fall, offers, grants or withdraws one line or leaves the pool alone.
ImplementsLeasePool == Pool!Spec
=============================================================================
