-------------------------------- MODULE Dhcp --------------------------------
(***************************************************************************)
(* mydhcpd and its mydhcpc clients, joined by a network that loses and     *)
(* reorders datagrams.                                                     *)
(***************************************************************************)
EXTENDS DhcpServer

CONSTANT MaxHups

VARIABLES cstate, cloc, armed, alrm, hup, recvd, hups

Client == INSTANCE DhcpClient

clientVars == <<cstate, cloc, armed, alrm, hup, recvd, hups>>
allVars    == <<vars, clientVars>>

SystemInit == Init /\ Client!ClientInit

ServerStep == (Main \/ Tick \/ Die) /\ UNCHANGED clientVars
ClientStep == Client!ClientNext /\ UNCHANGED <<control, lists>>

SystemNext == ServerStep \/ ClientStep

SystemSpec == SystemInit /\ [][SystemNext]_allVars

\* Every process runs and every pending timer fires; the network, the signals
\* and the crashes are under no obligation.
FairSystemSpec ==
    /\ SystemSpec
    /\ WF_allVars(Main /\ UNCHANGED clientVars) /\ WF_allVars(Tick /\ UNCHANGED clientVars)
    /\ \A p \in Peers : /\ WF_allVars(Client!Thread(p) /\ UNCHANGED <<control, lists>>)
                        /\ WF_allVars(Client!Sigalrm(p) /\ UNCHANGED <<control, lists>>)
-----------------------------------------------------------------------------
(* What must hold of server and clients together *)

\* The variables of the clients have their types.
ClientTypeOK == Client!ClientTypeOK

\* What the server counts as in use, its client, if it still runs, has asked
\* for and is about to use or using: the two automata agree on the address
\* even though offers and requests are repeated, lost and overtaken.
ServerClientAgree ==
    \A i \in DOMAIN clients :
        LET p == clients[i].id
        IN  clients[i].state = "IN_USE" /\ cstate[p] # "EXITED" =>
                /\ cstate[p] \in Client!Acking \cup {"IN_USE"}
                /\ recvd[p].address = Config[clients[i].pa].address

\* A mydhcpc never asks for an address other than the one its record holds,
\* although a repeated DISCOVER makes the server withdraw one offer and make
\* another: the refusal f_act7 is only ever for foreign clients.
NoWrongRequest == At("dispatch") => event # "RECV_WRONG_REQU_ALLOC"

\* Two clients that use their addresses, and that the server has not forgotten,
\* never use the same one, however their records came and went: an address that
\* is in use twice (FreeMeansUnused) is always one the server has let go of.
DistinctLeases ==
    \A i, j \in DOMAIN clients :
        LET p == clients[i].id
            q == clients[j].id
        IN  /\ cstate[p] \in Client!Leasing /\ cstate[q] \in Client!Leasing
            /\ recvd[p].address = recvd[q].address
            => i = j

\* When all clients are gone, the whole pool is free again for good, whatever
\* they left in the server's buffer and whatever was lost.
PoolRefills ==
    [](  (\A p \in Peers : cstate[p] = "EXITED")
       => <>[](status = "dead" \/ clients = << >>))

\* A client does not wait for an answer for ever: it gets its lease, or gives
\* up.  (OFFER_TOUT is not listed: each OFFER there repeats the DISCOVER.)
ClientSettles ==
    \A p \in Peers : cstate[p] \in {"WAIT_OFFER"} \cup Client!Acking ~>
                     cstate[p] \in {"OFFER_TOUT", "IN_USE", "EXITED"}
-----------------------------------------------------------------------------
(* What the comments say and the code does not do *)

\* f_act1 of mydhcpc.c is for "WAIT_OFFER_STATE, OFFER_TOUT_STATE: offer (ok)
\* received: send request (alloc), go to WAIT_ACK_STATE" (mydhcpc.c:149-150).
OfferAfterTimeoutAccepted ==
    [][ \A p \in Peers :
          /\ cstate[p] = "OFFER_TOUT"
          /\ cliq[p] # << >> /\ cliq'[p] = Tail(cliq[p])
          /\ Head(cliq[p]).type = "OFFER" /\ Head(cliq[p]).code = 0
          => cstate'[p] = "WAIT_ACK" ]_allVars

\* f_act4 of mydhcpc.c: "go to IN_USE_STATE, set setitimer to half of the ttl
\* in the ack" (mydhcpc.c:197), so that the lease is renewed in time.  So it is,
\* but for the shortest ttl.
RenewalPending == Client!RenewalPending

\* f_act6 of mydhcpc.c: "half of the ttl has passed in IN_USE_STATE: send
\* request (ext), go to WAIT_ACK_EXT_STATE" (mydhcpc.c:235-236).
RenewsAtHalf == \A p \in Peers : cstate[p] = "IN_USE" /\ alrm[p] ~> cstate[p] # "IN_USE"

\* The addresses of addr_head are the unused ones ("there is no unused addr",
\* mydhcpd.c:336, is how it reads an empty list).
FreeMeansUnused ==
    \A p \in Peers, i \in DOMAIN free :
        cstate[p] \in Client!Leasing => recvd[p].address # Config[free[i]].address

\* The system before the first tick: a record that ends here has not run out.
UntimedSpec ==
    SystemInit /\ [][(Main /\ UNCHANGED clientVars) \/ ClientStep]_allVars
=============================================================================
