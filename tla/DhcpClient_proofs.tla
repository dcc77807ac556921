-------------------------- MODULE DhcpClient_proofs --------------------------
(***************************************************************************)
(* Theorems about clients that may receive any datagram at any time        *)
(* (DhcpClientOpen!Spec), for every set of peers and of datagrams.         *)
(***************************************************************************)
EXTENDS DhcpClientOpen, SequenceTheorems, TLAPS

States == Running \cup {"OFF", "EXITED"}

ClientTyped == /\ ClientTypeOK
               /\ cliq \in [Peers -> Seq(Datagrams)]

BufferInv == ClientTyped /\ BufferHoldsLease
-----------------------------------------------------------------------------
(* main's table *)

LEMMA RowsOfTable ==
  /\ DOMAIN Rows = {"f_act1", "f_act2", "f_act3", "f_act4", "f_act5", "f_act6", "f_act7", "f_act8"}
  /\ Rows["f_act1"] = {<<"WAIT_OFFER", "RECV_OFFER_OK">>}
  /\ Rows["f_act2"] = {<<"WAIT_OFFER", "RECV_TOUT">>, <<"OFFER_TOUT", "RECV_OFFER_OK">>}
  /\ Rows["f_act3"] = (Offering \X {"RECV_OFFER_NG", "RECV_UNKN", "RECV_UNEX"})
                      \cup (Acking \X {"RECV_ACK_NG", "RECV_UNKN", "RECV_UNEX"})
                      \cup ({"OFFER_TOUT", "ACK_TOUT", "ACK_EXT_TOUT"} \X {"RECV_TOUT"})
  /\ Rows["f_act4"] = Acking \X {"RECV_ACK_OK"}
  /\ Rows["f_act5"] = {<<"WAIT_ACK", "RECV_TOUT">>}
  /\ Rows["f_act6"] = {<<"IN_USE", "HALF_TTL_PASS">>}
  /\ Rows["f_act7"] = {<<"WAIT_ACK_EXT", "RECV_TOUT">>}
  /\ Rows["f_act8"] = {<<"IN_USE", "RECV_SIGHUP">>}
BY DEF Rows, Table

\* Where an event can take a client.
LEMMA Transitions ==
  ASSUME NEW p \in Peers, NEW e, NEW m, Handle(p, e, m)
  PROVE  \/ Enter(p, "EXITED") /\ armed' = armed
         \/ Enter(p, "OFFER_TOUT") /\ armed' = armed
         \/ e = "RECV_OFFER_OK" /\ Enter(p, "WAIT_ACK") /\ armed' = armed
         \/ e = "RECV_ACK_OK" /\ Enter(p, "IN_USE") /\ set_timer(p, m.ttl \div 2)
         \/ /\ e = "RECV_TOUT" /\ cstate[p] = "WAIT_ACK"
            /\ Enter(p, "ACK_TOUT") /\ armed' = armed
         \/ /\ e = "HALF_TTL_PASS" /\ cstate[p] = "IN_USE"
            /\ Enter(p, "WAIT_ACK_EXT") /\ armed' = armed
         \/ /\ e = "RECV_TOUT" /\ cstate[p] = "WAIT_ACK_EXT"
            /\ Enter(p, "ACK_EXT_TOUT") /\ armed' = armed
         \/ /\ \A f \in DOMAIN Rows : <<cstate[p], e>> \notin Rows[f]
            /\ cstate' = cstate /\ armed' = armed
BY RowsOfTable DEF Handle, f_act1, f_act2, f_act3, f_act4, f_act5, f_act6, f_act7, f_act8, Send

\* A datagram always has a row, and what is accepted is what it seems.
LEMMA ReadingOf ==
  ASSUME NEW s \in Running \ {"IN_USE"}, NEW m
  PROVE  /\ \E f \in DOMAIN Rows : <<s, EventOf(s, m)>> \in Rows[f]
         /\ EventOf(s, m) = "RECV_OFFER_OK" => m.type = "OFFER" /\ m.code = 0
         /\ EventOf(s, m) = "RECV_ACK_OK" => m.type = "ACK" /\ m.code = 0
         /\ EventOf(s, m) \notin {"RECV_TOUT", "HALF_TTL_PASS", "RECV_SIGHUP"}
<1>1. s \in Offering \/ s \in Acking
  BY DEF Running, Offering, Acking
<1>2. CASE s \in Offering
  <2>1. s \notin Acking
    BY <1>2 DEF Offering, Acking
  <2>2. EventOf(s, m) \in {"RECV_OFFER_OK", "RECV_OFFER_NG", "RECV_UNKN", "RECV_UNEX"}
    BY <1>2, <2>1 DEF EventOf
  <2>3. EventOf(s, m) = "RECV_OFFER_OK" => m.type = "OFFER" /\ m.code = 0
    BY <1>2, <2>1 DEF EventOf
  <2>4. CASE EventOf(s, m) = "RECV_OFFER_OK"
    <3>1. <<s, EventOf(s, m)>> \in Rows["f_act1"] \/ <<s, EventOf(s, m)>> \in Rows["f_act2"]
      BY <1>2, <2>4, RowsOfTable DEF Offering
    <3> QED  BY <2>3, <2>4, <3>1, RowsOfTable
  <2>5. CASE EventOf(s, m) # "RECV_OFFER_OK"
    <3>1. <<s, EventOf(s, m)>> \in Rows["f_act3"]
      BY <1>2, <2>2, <2>5, RowsOfTable
    <3> QED  BY <2>2, <2>5, <3>1, RowsOfTable
  <2> QED  BY <2>4, <2>5
<1>3. CASE s \in Acking
  <2>1. s \notin Offering
    BY <1>3 DEF Offering, Acking
  <2>2. EventOf(s, m) \in {"RECV_ACK_OK", "RECV_ACK_NG", "RECV_UNKN", "RECV_UNEX"}
    BY <1>3, <2>1 DEF EventOf
  <2>3. EventOf(s, m) = "RECV_ACK_OK" => m.type = "ACK" /\ m.code = 0
    BY <1>3, <2>1 DEF EventOf
  <2>4. <<s, EventOf(s, m)>> \in Rows["f_act3"] \/ <<s, EventOf(s, m)>> \in Rows["f_act4"]
    BY <1>3, <2>2, RowsOfTable
  <2> QED  BY <2>2, <2>3, <2>4, RowsOfTable
<1> QED  BY <1>1, <1>2, <1>3
-----------------------------------------------------------------------------
(* The buffer *)

\* What an event does to the types of the client's own variables.
LEMMA HandleType ==
  ASSUME ClientTyped, NEW p \in Peers, NEW e, NEW m \in Messages, Handle(p, e, m)
  PROVE  cstate' \in [Peers -> States] /\ armed' \in [Peers -> BOOLEAN]
<1>1. cstate \in [Peers -> States] /\ armed \in [Peers -> BOOLEAN]
  BY DEF ClientTyped, ClientTypeOK, States
<1>2. {"EXITED", "OFFER_TOUT", "WAIT_ACK", "IN_USE", "ACK_TOUT", "WAIT_ACK_EXT", "ACK_EXT_TOUT"}
         \subseteq States
  BY DEF States, Running
<1>3. (m.ttl \div 2 > 0) \in BOOLEAN
  OBVIOUS
<1> QED  BY <1>1, <1>2, <1>3, Transitions DEF Enter, set_timer
LEMMA BufferInit == Init => BufferInv
<1> SUFFICES ASSUME Init PROVE BufferInv
  OBVIOUS
<1>1. NoMsg \in Messages
  BY ZeroAssumption DEF NoMsg, Msg, Messages, MsgTypes
<1>2. ClientTyped
  BY <1>1, MaxHupsAssumption DEF Init, ClientInit, ClientTyped, ClientTypeOK
<1>3. BufferHoldsLease
  BY DEF Init, ClientInit, BufferHoldsLease, Leasing
<1> QED  BY <1>2, <1>3 DEF BufferInv

\* A datagram: it ends the client, or it is the OFFER or ACK that was due.
LEMMA RecvStep ==
  ASSUME BufferInv, NEW p \in Peers, Recv(p)
  PROVE  BufferInv'
<1> DEFINE m == Head(cliq[p])
           e == EventOf(cstate[p], m)
<1>1. /\ cstate[p] \in Running \ {"IN_USE"} /\ cliq[p] # << >>
      /\ cliq' = [cliq EXCEPT ![p] = Tail(@)] /\ recvd' = [recvd EXCEPT ![p] = m]
      /\ Handle(p, e, m) /\ cloc' = [cloc EXCEPT ![p] = "call"]
      /\ UNCHANGED <<alrm, hup, hups>>
  BY DEF Recv, InSelect, Up, Loop
<1>2. m \in Datagrams /\ Tail(cliq[p]) \in Seq(Datagrams)
  BY <1>1, HeadTailProperties DEF BufferInv, ClientTyped
<1>3. m \in Messages
  BY <1>2, DatagramsAssumption
<1>4. /\ \E f \in DOMAIN Rows : <<cstate[p], e>> \in Rows[f]
      /\ e = "RECV_OFFER_OK" => m.type = "OFFER" /\ m.code = 0
      /\ e = "RECV_ACK_OK" => m.type = "ACK" /\ m.code = 0
      /\ e \notin {"RECV_TOUT", "HALF_TTL_PASS"}
  BY <1>1, ReadingOf
<1> HIDE DEF m, e
<1>5. cstate' \in [Peers -> States] /\ armed' \in [Peers -> BOOLEAN]
  BY <1>1, <1>3, HandleType DEF BufferInv
<1>6. ClientTyped'
  BY <1>1, <1>2, <1>3, <1>5 DEF BufferInv, ClientTyped, ClientTypeOK, States
<1>7. /\ \A q \in Peers \ {p} : cstate'[q] = cstate[q] /\ recvd'[q] = recvd[q]
      /\ recvd'[p] = m
  BY <1>1, Transitions DEF Enter, BufferInv, ClientTyped, ClientTypeOK
<1>8. \/ cstate'[p] \in {"EXITED", "OFFER_TOUT"}
      \/ cstate'[p] = "WAIT_ACK" /\ e = "RECV_OFFER_OK"
      \/ cstate'[p] = "IN_USE" /\ e = "RECV_ACK_OK"
  BY <1>1, <1>4, Transitions DEF Enter, BufferInv, ClientTyped, ClientTypeOK
<1>9. BufferHoldsLease'
  BY <1>4, <1>7, <1>8 DEF BufferInv, BufferHoldsLease, Leasing
<1> QED  BY <1>6, <1>9 DEF BufferInv

\* The other steps leave the buffer alone and stay with what it holds.
LEMMA OtherBufferSteps ==
  ASSUME BufferInv, NEW p \in Peers,
         Start(p) \/ Block(p) \/ Timeout(p) \/ identify_signal(p) \/ Sighup(p) \/ Sigalrm(p)
            \/ Crash(p)
  PROVE  BufferInv'
<1> USE DEF BufferInv, ClientTyped, ClientTypeOK
<1>1. UNCHANGED <<recvd, cliq>> /\ recvd[p] \in Messages
  BY DEF Start, Block, Timeout, identify_signal, Sighup, Sigalrm, Crash
<1>2. \/ \E s \in {"WAIT_OFFER", "EXITED"} : Enter(p, s) /\ armed' = armed
      \/ UNCHANGED cstate /\ \E b \in BOOLEAN : armed' = [armed EXCEPT ![p] = b]
      \/ \E e \in {"RECV_TOUT", "RECV_SIGHUP", "HALF_TTL_PASS"} : Handle(p, e, recvd[p])
  <2>1. CASE Start(p) \/ Crash(p)
    BY <2>1 DEF Start, Crash, Send
  <2>2. CASE Block(p) \/ Sighup(p) \/ Sigalrm(p)
    <3>1. armed = [armed EXCEPT ![p] = armed[p]] /\ armed[p] \in BOOLEAN
      OBVIOUS
    <3>2. UNCHANGED cstate /\ (armed' = armed \/ armed' = [armed EXCEPT ![p] = FALSE])
      BY <2>2 DEF Block, Sighup, Sigalrm
    <3> QED  BY <3>1, <3>2
  <2>3. CASE Timeout(p)
    BY <2>3 DEF Timeout
  <2>4. CASE identify_signal(p)
    BY <2>4 DEF identify_signal
  <2> QED  BY <2>1, <2>2, <2>3, <2>4
<1>3. cstate' \in [Peers -> States] /\ armed' \in [Peers -> BOOLEAN]
  <2>1. CASE \E e \in {"RECV_TOUT", "RECV_SIGHUP", "HALF_TTL_PASS"} : Handle(p, e, recvd[p])
    BY <1>1, <2>1, HandleType
  <2>2. CASE ~ \E e \in {"RECV_TOUT", "RECV_SIGHUP", "HALF_TTL_PASS"} : Handle(p, e, recvd[p])
    BY <1>2, <2>2 DEF Enter, States, Running
  <2> QED  BY <2>1, <2>2
<1>4. /\ cloc' \in [Peers -> {"call", "blocked", "woken"}]
      /\ alrm' \in [Peers -> BOOLEAN] /\ hup' \in [Peers -> BOOLEAN]
      /\ hups' \in [Peers -> 0..MaxHups]
  <2>1. CASE Start(p) \/ Block(p) \/ Crash(p)
    BY <2>1 DEF Start, Block, Crash
  <2>2. CASE Timeout(p)
    BY <2>2 DEF Timeout, Loop
  <2>3. CASE identify_signal(p)
    BY <2>3 DEF identify_signal, Loop
  <2>4. CASE Sighup(p)
    <3>1. hups[p] - 1 \in 0..MaxHups
      BY <2>4, MaxHupsAssumption DEF Sighup
    <3> QED  BY <2>4, <3>1 DEF Sighup, Interrupt
  <2>5. CASE Sigalrm(p)
    BY <2>5 DEF Sigalrm, Interrupt
  <2> QED  BY <2>1, <2>2, <2>3, <2>4, <2>5
<1>5. ClientTyped'
  BY <1>1, <1>3, <1>4 DEF States
<1>6. \A q \in Peers \ {p} : cstate'[q] = cstate[q]
  BY <1>2, Transitions DEF Enter
<1>7. \/ cstate'[p] \in {"WAIT_OFFER", "OFFER_TOUT", "EXITED", cstate[p]}
      \/ cstate[p] = "WAIT_ACK" /\ cstate'[p] = "ACK_TOUT"
      \/ cstate[p] = "IN_USE" /\ cstate'[p] = "WAIT_ACK_EXT"
      \/ cstate[p] = "WAIT_ACK_EXT" /\ cstate'[p] = "ACK_EXT_TOUT"
  BY <1>2, Transitions DEF Enter
<1>8. BufferHoldsLease'
  BY <1>1, <1>6, <1>7 DEF BufferHoldsLease, Leasing
<1> QED  BY <1>5, <1>8

LEMMA ArriveKeeps ==
  ASSUME ClientTyped, Arrive
  PROVE  UNCHANGED clientVars /\ cliq' \in [Peers -> Seq(Datagrams)]
<1>1. PICK p \in Peers, m \in Datagrams :
          cliq' = [cliq EXCEPT ![p] = Append(@, m)] /\ UNCHANGED clientVars
  BY DEF Arrive
<1>2. Append(cliq[p], m) \in Seq(Datagrams)
  BY DEF ClientTyped
<1> QED  BY <1>1, <1>2 DEF ClientTyped

LEMMA BufferStep == BufferInv /\ [Next]_vars => BufferInv'
<1> SUFFICES ASSUME BufferInv, [Next]_vars PROVE BufferInv'
  OBVIOUS
<1>1. CASE ClientNext
  BY <1>1, RecvStep, OtherBufferSteps DEF ClientNext, Thread
<1>2. CASE Arrive
  BY <1>2, ArriveKeeps DEF BufferInv, ClientTyped, ClientTypeOK, BufferHoldsLease, clientVars
<1>3. CASE UNCHANGED vars
  BY <1>3 DEF BufferInv, ClientTyped, ClientTypeOK, BufferHoldsLease, vars, clientVars
<1> QED  BY <1>1, <1>2, <1>3 DEF Next
-----------------------------------------------------------------------------
(* The theorems *)

LEMMA BufferAlways == Spec => []BufferInv
BY BufferInit, BufferStep, PTL DEF Spec

\* The client's variables keep their types, whatever arrives.
THEOREM ClientTypeCorrect == Spec => []ClientTypeOK
<1>1. BufferInv => ClientTypeOK
  BY DEF BufferInv, ClientTyped
<1> QED  BY <1>1, BufferAlways, PTL

\* When a request is built from the one receive buffer, the buffer holds the
\* OFFER or the ACK that the request is about, whatever else has arrived.
THEOREM BufferAlwaysHoldsLease == Spec => []BufferHoldsLease
<1>1. BufferInv => BufferHoldsLease
  BY DEF BufferInv
<1> QED  BY <1>1, BufferAlways, PTL

\* If every lease lasts for at least two seconds, a client in IN_USE always has
\* its timer running or its SIGALRM noted.  (With one second it does not.)
THEOREM RenewalAlwaysPending ==
  ASSUME \A m \in Datagrams : m.type = "ACK" /\ m.code = 0 => m.ttl >= 2
  PROVE  Spec => []RenewalPending
<1>1. Init => RenewalPending
  BY DEF Init, ClientInit, RenewalPending
<1>2. ASSUME BufferInv, RenewalPending, ClientNext
      PROVE  RenewalPending'
  <2> USE DEF BufferInv, ClientTyped, ClientTypeOK
  <2>1. PICK p \in Peers : Start(p) \/ Thread(p) \/ Sighup(p) \/ Sigalrm(p) \/ Crash(p)
    BY <1>2 DEF ClientNext
  <2>2. \A q \in Peers \ {p} :
            cstate'[q] = cstate[q] /\ armed'[q] = armed[q] /\ alrm'[q] = alrm[q]
    <3>1. CASE Start(p) \/ Block(p) \/ Sighup(p) \/ Sigalrm(p) \/ Crash(p)
      BY <1>2, <3>1 DEF Start, Send, Block, Sighup, Sigalrm, Crash, Enter
    <3>2. CASE Recv(p)
      BY <1>2, <3>2, Transitions DEF Recv, Enter, set_timer
    <3>3. CASE Timeout(p)
      BY <1>2, <3>3, Transitions DEF Timeout, Enter, set_timer
    <3>4. CASE identify_signal(p)
      BY <1>2, <3>4, Transitions DEF identify_signal, Enter, set_timer
    <3> QED  BY <2>1, <3>1, <3>2, <3>3, <3>4 DEF Thread
  <2>3. cstate'[p] = "IN_USE" => armed'[p] \/ alrm'[p]
    <3>1. CASE Start(p) \/ Block(p) \/ Sighup(p) \/ Sigalrm(p) \/ Crash(p)
      BY <1>2, <3>1 DEF Start, Send, Block, Sighup, Sigalrm, Crash, Enter, RenewalPending
    <3>2. CASE Recv(p)
      <4> DEFINE m == Head(cliq[p])
                 e == EventOf(cstate[p], m)
      <4>1. /\ cstate[p] \in Running \ {"IN_USE"} /\ cliq[p] # << >> /\ Handle(p, e, m)
        BY <3>2 DEF Recv, InSelect, Up
      <4>2. m \in Datagrams
        BY <1>2, <4>1, HeadTailProperties
      <4>3. /\ \E f \in DOMAIN Rows : <<cstate[p], e>> \in Rows[f]
            /\ e = "RECV_ACK_OK" => m.type = "ACK" /\ m.code = 0
            /\ e \notin {"RECV_TOUT", "HALF_TTL_PASS"}
        BY <4>1, ReadingOf
      <4>4. e = "RECV_ACK_OK" => m.ttl \div 2 > 0
        <5>1. m.ttl \in Nat
          BY <4>2, DatagramsAssumption DEF Messages
        <5> QED  BY <4>2, <4>3, <5>1
      <4> HIDE DEF m, e
      <4> QED  BY <1>2, <4>1, <4>3, <4>4, Transitions DEF Enter, set_timer
    <3>3. CASE Timeout(p)
      <4>1. cstate[p] # "IN_USE" /\ Handle(p, "RECV_TOUT", recvd[p])
        BY <3>3 DEF Timeout, InSelect
      <4> QED  BY <1>2, <4>1, Transitions DEF Enter
    <3>4. CASE identify_signal(p)
      <4>1. PICK e \in {"RECV_SIGHUP", "HALF_TTL_PASS"} : Handle(p, e, recvd[p])
        BY <3>4 DEF identify_signal
      <4>2. cstate[p] = "IN_USE" => \E f \in DOMAIN Rows : <<cstate[p], e>> \in Rows[f]
        BY <4>1, RowsOfTable
      <4> QED  BY <1>2, <4>1, <4>2, Transitions DEF Enter
    <3> QED  BY <2>1, <3>1, <3>2, <3>3, <3>4 DEF Thread
  <2> QED  BY <1>2, <2>2, <2>3 DEF RenewalPending
<1>3. BufferInv /\ RenewalPending /\ [Next]_vars => RenewalPending'
  <2>1. BufferInv /\ RenewalPending /\ Arrive => RenewalPending'
    BY ArriveKeeps DEF BufferInv, clientVars, RenewalPending
  <2>2. RenewalPending /\ UNCHANGED vars => RenewalPending'
    BY DEF vars, clientVars, RenewalPending
  <2> QED  BY <1>2, <2>1, <2>2 DEF Next
<1> QED  BY <1>1, <1>3, BufferAlways, PTL DEF Spec
=============================================================================
