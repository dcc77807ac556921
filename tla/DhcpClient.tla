----------------------------- MODULE DhcpClient -----------------------------
(***************************************************************************)
(* The clients, mydhcpc.c: each peer is one process that repeats wait_event*)
(* and the handlers of ptab, interrupted by SIGALRM (half of the lease has *)
(* passed) and SIGHUP (release the lease and stop).                        *)
(*                                                                         *)
(*  cstate  the global state; "OFF" before main runs, "EXITED" after exit  *)
(*  cloc    "call": on the way to the blocking call of wait_event;         *)
(*          "blocked": inside it, which is pause() in IN_USE and a select  *)
(*          of 10 s on the socket otherwise; "woken": a signal ended it    *)
(*  armed   whether the one-shot ITIMER_REAL is running                    *)
(*  alrm,hup  sigalrm_flag > 0, sighup_flag > 0                            *)
(*  recvd   receive_dh, the buffer of the last datagram, which later       *)
(*          requests are built from                                        *)
(*  hups    SIGHUPs a peer may still get (bound MaxHups)                   *)
(*                                                                         *)
(* Durations are abstracted: the timer and the select may expire at any    *)
(* moment.  A signal that arrives while a handler runs only sets its flag, *)
(* as one at "call" does, so receiving and handling are one step.          *)
(***************************************************************************)
EXTENDS DhcpMessages

CONSTANT MaxHups
ASSUME MaxHupsAssumption == MaxHups \in Nat

VARIABLES cstate, cloc, armed, alrm, hup, recvd, hups, srvq, cliq

clientVars == <<cstate, cloc, armed, alrm, hup, recvd, hups>>

Running == {"WAIT_OFFER", "OFFER_TOUT", "WAIT_ACK", "ACK_TOUT",
            "IN_USE", "WAIT_ACK_EXT", "ACK_EXT_TOUT"}

\* The states in which an ACK is expected.
Acking == {"WAIT_ACK", "ACK_TOUT", "WAIT_ACK_EXT", "ACK_EXT_TOUT"}
Offering == {"WAIT_OFFER", "OFFER_TOUT"}

NoMsg == Msg("UNKNOWN", 0, 0, Zero, Zero)

ClientInit ==
    /\ cstate = [p \in Peers |-> "OFF"]
    /\ cloc   = [p \in Peers |-> "call"]
    /\ armed  = [p \in Peers |-> FALSE]
    /\ alrm   = [p \in Peers |-> FALSE]
    /\ hup    = [p \in Peers |-> FALSE]
    /\ recvd  = [p \in Peers |-> NoMsg]
    /\ hups   = [p \in Peers |-> MaxHups]
-----------------------------------------------------------------------------
\* ptab, as the set of <<state, event>> pairs that lead to each handler.
Table == [ f_act1 |-> {<<"WAIT_OFFER", "RECV_OFFER_OK">>},
           f_act2 |-> {<<"WAIT_OFFER", "RECV_TOUT">>, <<"OFFER_TOUT", "RECV_OFFER_OK">>},
           f_act3 |-> (Offering \X {"RECV_OFFER_NG", "RECV_UNKN", "RECV_UNEX"})
                      \cup (Acking \X {"RECV_ACK_NG", "RECV_UNKN", "RECV_UNEX"})
                      \cup ({"OFFER_TOUT", "ACK_TOUT", "ACK_EXT_TOUT"} \X {"RECV_TOUT"}),
           f_act4 |-> Acking \X {"RECV_ACK_OK"},
           f_act5 |-> {<<"WAIT_ACK", "RECV_TOUT">>},
           f_act6 |-> {<<"IN_USE", "HALF_TTL_PASS">>},
           f_act7 |-> {<<"WAIT_ACK_EXT", "RECV_TOUT">>},
           f_act8 |-> {<<"IN_USE", "RECV_SIGHUP">>} ]

\* Faults: a late message is ignored instead of ending the client; a client
\* waits for ever for a repeated answer; a client repeats its DISCOVER until
\* some OFFER comes, and accepts that one.
Rows_IgnoreLate   == [Table EXCEPT !.f_act3 = @ \ {<<"WAIT_ACK_EXT", "RECV_UNEX">>}]
Rows_WaitForever  == [Table EXCEPT !.f_act3 = @ \ {<<"ACK_TOUT", "RECV_TOUT">>}]
Rows_RetryDiscover == [Table EXCEPT !.f_act1 = Offering \X {"RECV_OFFER_OK"},
                                    !.f_act2 = Offering \X {"RECV_TOUT"},
                                    !.f_act3 = @ \ {<<"OFFER_TOUT", "RECV_TOUT">>}]

Rows == Table

\* wait_event's reading of a datagram, by the state it arrives in.
EventOf(s, m) ==
    CASE m.type = "UNKNOWN" -> "RECV_UNKN"
      [] m.type = "OFFER" /\ s \in Offering ->
            IF m.code = 0 THEN "RECV_OFFER_OK"
            ELSE IF m.code = 1 THEN "RECV_OFFER_NG" ELSE "RECV_UNKN"
      [] m.type = "ACK" /\ s \in Acking ->
            IF m.code = 0 THEN "RECV_ACK_OK"
            ELSE IF m.code = 4 THEN "RECV_ACK_NG" ELSE "RECV_UNKN"
      [] OTHER -> "RECV_UNEX"

send_message(p, m) == srvq' \in Transmit(srvq, [src |-> p, msg |-> m])

Discover == Msg("DISCOVER", 0, 0, Zero, Zero)

\* A REQUEST that repeats ttl, address and netmask of receive_dh.
Request(code, m) == Msg("REQUEST", code, m.ttl, m.address, m.netmask)

Enter(p, s) == cstate' = [cstate EXCEPT ![p] = s]

\* Fault: one second too little, so the shortest leases disarm the timer.
set_timer_Short(p, v) == armed' = [armed EXCEPT ![p] = v > 1]

\* setitimer, one shot; a value of 0 disarms the timer.
set_timer(p, v) == armed' = [armed EXCEPT ![p] = v > 0]

Send(p, m, s) == send_message(p, m) /\ Enter(p, s) /\ UNCHANGED armed

\* The handlers, with m in receive_dh.
f_act1(p, m) == Send(p, Request(2, m), "WAIT_ACK")     \* accept the OFFER
f_act2(p)    == Send(p, Discover, "OFFER_TOUT")        \* repeat the DISCOVER
f_act3(p)    == Enter(p, "EXITED") /\ UNCHANGED <<srvq, armed>>
f_act4(p, m) == /\ Enter(p, "IN_USE")                  \* the lease (re)starts
                /\ set_timer(p, m.ttl \div 2)
                /\ UNCHANGED srvq
f_act5(p, m) == Send(p, Request(2, m), "ACK_TOUT")     \* repeat the allocation
f_act6(p, m) == Send(p, Request(3, m), "WAIT_ACK_EXT") \* extend the lease
f_act7(p, m) == Send(p, Request(3, m), "ACK_EXT_TOUT") \* repeat the extension
f_act8(p, m) == Send(p, Msg("RELEASE", 0, 0, m.address, Zero), "EXITED")

\* main: the handler of ptab for event e; an event without a row is ignored.
Handle(p, e, m) ==
    LET On(f) == <<cstate[p], e>> \in Rows[f]
    IN  \/ On("f_act1") /\ f_act1(p, m)
        \/ On("f_act2") /\ f_act2(p)
        \/ On("f_act3") /\ f_act3(p)
        \/ On("f_act4") /\ f_act4(p, m)
        \/ On("f_act5") /\ f_act5(p, m)
        \/ On("f_act6") /\ f_act6(p, m)
        \/ On("f_act7") /\ f_act7(p, m)
        \/ On("f_act8") /\ f_act8(p, m)
        \/ ~(\E f \in DOMAIN Rows : On(f)) /\ UNCHANGED <<cstate, srvq, armed>>
-----------------------------------------------------------------------------
Up(p) == cstate[p] \in Running

\* Back to wait_event.
Loop(p) == cloc' = [cloc EXCEPT ![p] = "call"]

\* Fault: the state stays INIT_STATE after the DISCOVER.
Start_StayInit(p) == /\ cstate[p] = "OFF"
                     /\ Send(p, Discover, "INIT")
                     /\ UNCHANGED <<cloc, alrm, hup, recvd, hups, cliq>>

\* main starts: DISCOVER, and on to WAIT_OFFER_STATE.
Start(p) == /\ cstate[p] = "OFF"
            /\ Send(p, Discover, "WAIT_OFFER")
            /\ UNCHANGED <<cloc, alrm, hup, recvd, hups, cliq>>

\* wait_event enters pause() or select().
Block(p) == /\ Up(p) /\ cloc[p] = "call"
            /\ cloc' = [cloc EXCEPT ![p] = "blocked"]
            /\ UNCHANGED <<cstate, armed, alrm, hup, recvd, hups, srvq, cliq>>

InSelect(p) == Up(p) /\ cstate[p] # "IN_USE" /\ cloc[p] = "blocked"

\* The socket is readable: recvfrom and the handler.
Recv(p) == /\ InSelect(p) /\ cliq[p] # << >>
           /\ cliq' = [cliq EXCEPT ![p] = Tail(@)]
           /\ recvd' = [recvd EXCEPT ![p] = Head(cliq[p])]
           /\ Handle(p, EventOf(cstate[p], Head(cliq[p])), Head(cliq[p]))
           /\ Loop(p)
           /\ UNCHANGED <<alrm, hup, hups>>

\* 10 s without a datagram.
Timeout(p) == /\ InSelect(p) /\ cliq[p] = << >>
              /\ Handle(p, "RECV_TOUT", recvd[p])
              /\ Loop(p)
              /\ UNCHANGED <<alrm, hup, recvd, hups, cliq>>

\* A signal interrupts the blocking call; anywhere else it only sets its flag.
Interrupt(p) == IF cloc[p] = "blocked" THEN cloc' = [cloc EXCEPT ![p] = "woken"]
                                       ELSE UNCHANGED cloc

Sighup(p) == /\ Up(p) /\ hups[p] > 0
             /\ hups' = [hups EXCEPT ![p] = @ - 1]
             /\ hup' = [hup EXCEPT ![p] = TRUE]
             /\ Interrupt(p)
             /\ UNCHANGED <<cstate, armed, alrm, recvd, srvq, cliq>>

Sigalrm(p) == /\ Up(p) /\ armed[p]
              /\ armed' = [armed EXCEPT ![p] = FALSE]
              /\ alrm' = [alrm EXCEPT ![p] = TRUE]
              /\ Interrupt(p)
              /\ UNCHANGED <<cstate, hup, recvd, hups, srvq, cliq>>

\* identify_signal after pause() or EINTR: SIGHUP first, one signal per call.
identify_signal(p) ==
    /\ Up(p) /\ cloc[p] = "woken"
    /\ IF hup[p] THEN /\ hup' = [hup EXCEPT ![p] = FALSE]
                      /\ Handle(p, "RECV_SIGHUP", recvd[p])
                      /\ UNCHANGED alrm
                 ELSE /\ alrm' = [alrm EXCEPT ![p] = FALSE]
                      /\ Handle(p, "HALF_TTL_PASS", recvd[p])
                      /\ UNCHANGED hup
    /\ Loop(p)
    /\ UNCHANGED <<recvd, hups, cliq>>

(***************************************************************************)
(* The process ends outside the protocol: killed, an error of sendto,      *)
(* recvfrom or select, print_message on an unknown type, or the default    *)
(* action of a signal whose unset sa_flags hold SA_RESETHAND.              *)
(***************************************************************************)
Crash(p) == /\ Up(p)
            /\ Enter(p, "EXITED")
            /\ UNCHANGED <<cloc, armed, alrm, hup, recvd, hups, srvq, cliq>>

Thread(p) == Block(p) \/ Recv(p) \/ Timeout(p) \/ identify_signal(p)

ClientNext == \E p \in Peers : Start(p) \/ Thread(p) \/ Sighup(p) \/ Sigalrm(p) \/ Crash(p)
-----------------------------------------------------------------------------
\* The variables of the clients have the types the header gives them.
ClientTypeOK ==
    /\ cstate \in [Peers -> Running \cup {"OFF", "EXITED"}]
    /\ cloc   \in [Peers -> {"call", "blocked", "woken"}]
    /\ armed  \in [Peers -> BOOLEAN]
    /\ alrm   \in [Peers -> BOOLEAN]
    /\ hup    \in [Peers -> BOOLEAN]
    /\ recvd  \in [Peers -> Messages]
    /\ hups   \in [Peers -> 0..MaxHups]

Leasing == {"IN_USE", "WAIT_ACK_EXT", "ACK_EXT_TOUT"}

\* The one buffer that every datagram overwrites still holds the message a
\* repeated or later request is built from: the OFFER while it is being
\* accepted, the last ACK while the address is in use.
BufferHoldsLease ==
    \A p \in Peers :
        /\ cstate[p] \in {"WAIT_ACK", "ACK_TOUT"} =>
              recvd[p].type = "OFFER" /\ recvd[p].code = 0
        /\ cstate[p] \in Leasing => recvd[p].type = "ACK" /\ recvd[p].code = 0

\* A client in IN_USE will be told when half of its ttl has passed, or has been
\* told and not yet acted on it: no path loses the timer.
RenewalPending ==
    \A p \in Peers : cstate[p] = "IN_USE" => armed[p] \/ alrm[p]
=============================================================================
