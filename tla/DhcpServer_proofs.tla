-------------------------- MODULE DhcpServer_proofs --------------------------
(***************************************************************************)
(* Theorems about the server among arbitrary peers (DhcpServerOpen!Spec),  *)
(* for every config file, ttl, set of peers, buffer size and datagrams.    *)
(***************************************************************************)
EXTENDS DhcpServerOpen, SequenceTheorems, TLAPS

-----------------------------------------------------------------------------
(* Sequences and messages *)

\* RemoveAt drops one element and shifts the later ones down.
LEMMA RemoveAtProperties ==
  ASSUME NEW S, NEW s \in Seq(S), NEW i \in 1..Len(s)
  PROVE  /\ RemoveAt(s, i) \in Seq(S)
         /\ Len(RemoveAt(s, i)) = Len(s) - 1
         /\ \A j \in 1..Len(s) - 1 : RemoveAt(s, i)[j] = IF j < i THEN s[j] ELSE s[j + 1]
<1> DEFINE L == SubSeq(s, 1, i - 1)
           R == SubSeq(s, i + 1, Len(s))
<1>0. Len(s) \in Nat
  BY LenProperties
<1>1. /\ L \in Seq(S) /\ Len(L) = i - 1
      /\ \A j \in 1..i - 1 : L[j] = s[j]
  <2>1. \A j \in 1..i - 1 : s[j] \in S
    BY <1>0, ElementOfSeq
  <2> QED  BY <1>0, <2>1, SubSeqProperties
<1>2. /\ R \in Seq(S) /\ Len(R) = Len(s) - i
      /\ \A j \in 1..Len(s) - i : R[j] = s[i + j]
  <2>1. \A j \in i + 1..Len(s) : s[j] \in S
    BY <1>0, ElementOfSeq
  <2> QED  BY <1>0, <2>1, SubSeqProperties
<1>3. RemoveAt(s, i) = L \o R
  BY DEF RemoveAt
<1>4. /\ L \o R \in Seq(S)
      /\ Len(L \o R) = Len(L) + Len(R)
      /\ \A j \in 1..Len(L) + Len(R) :
            (L \o R)[j] = IF j <= Len(L) THEN L[j] ELSE R[j - Len(L)]
  BY <1>1, <1>2, ConcatProperties
<1> HIDE DEF L, R
<1>5. Len(L \o R) = Len(s) - 1
  BY <1>0, <1>1, <1>2, <1>4
<1>6. ASSUME NEW j \in 1..Len(s) - 1
      PROVE  (L \o R)[j] = IF j < i THEN s[j] ELSE s[j + 1]
  <2>1. CASE j < i
    BY <1>0, <1>1, <1>2, <1>4, <2>1
  <2>2. CASE ~(j < i)
    <3>1. (L \o R)[j] = R[j - (i - 1)]
      BY <1>0, <1>1, <1>2, <1>4, <2>2
    <3>2. R[j - (i - 1)] = s[i + (j - (i - 1))]
      BY <1>0, <1>2, <2>2
    <3> QED  BY <1>0, <2>2, <3>1, <3>2
  <2> QED  BY <2>1, <2>2
<1> QED  BY <1>3, <1>4, <1>5, <1>6

\* InsertAt keeps the type of a sequence.
LEMMA InsertAtType ==
  ASSUME NEW S, NEW s \in Seq(S), NEW i \in 1..Len(s) + 1, NEW e \in S
  PROVE  InsertAt(s, i, e) \in Seq(S)
<1>0. Len(s) \in Nat
  BY LenProperties
<1>1. SubSeq(s, 1, i - 1) \in Seq(S)
  <2>1. \A j \in 1..i - 1 : s[j] \in S
    BY <1>0, ElementOfSeq
  <2> QED  BY <1>0, <2>1, SubSeqProperties
<1>2. SubSeq(s, i, Len(s)) \in Seq(S)
  <2>1. \A j \in i..Len(s) : s[j] \in S
    BY <1>0, ElementOfSeq
  <2> QED  BY <1>0, <2>1, SubSeqProperties
<1> QED  BY <1>1, <1>2 DEF InsertAt

\* Sending a message keeps the receive buffers well typed.
LEMMA TransmitType ==
  ASSUME NEW q \in Seq(Messages), NEW m \in Messages, NEW r \in Transmit(q, m)
  PROVE  r \in Seq(Messages)
BY InsertAtType DEF Transmit

LEMMA SendType ==
  ASSUME cliq \in [Peers -> Seq(Messages)], NEW p \in Peers, NEW m \in Messages,
         send_message(p, m)
  PROVE  cliq' \in [Peers -> Seq(Messages)]
<1>1. PICK q \in Transmit(cliq[p], m) : cliq' = [cliq EXCEPT ![p] = q]
  BY DEF send_message
<1>2. q \in Seq(Messages)
  BY TransmitType
<1> QED  BY <1>1, <1>2
-----------------------------------------------------------------------------
(* Records and search_client *)

\* What a peer sends or is sent about its own record is a message.
LEMMA LeaseMsgType ==
  ASSUME NEW c \in Records, NEW t \in MsgTypes, NEW code \in Nat, NEW ttl \in Nat
  PROVE  LeaseMsg(t, code, ttl, c) \in Messages
<1>1. c.pa \in 1..Len(Config)
  BY DEF Records, Nodes
<1>2. Config[c.pa] \in [address : Addrs, netmask : Addrs]
  BY <1>1, ConfigAssumption, ElementOfSeq
<1> QED  BY <1>2 DEF LeaseMsg, Msg, Messages

LEMMA Durations == WireTTL \in Nat /\ HalfTTL \in 0..TTL
<1>1. WireTTL \in Nat
  BY TTLAssumption, WireModulusAssumption DEF WireTTL
<1>2. HalfTTL \in 0..TTL
  BY TTLAssumption DEF HalfTTL
<1> QED  BY <1>1, <1>2

\* search_client decides whether p has a record, and finds it.
LEMMA SearchClient ==
  ASSUME clients \in Seq(Records), UniqueClients, NEW p \in Peers
  PROVE  /\ search_client(p) = 0 => \A i \in DOMAIN clients : clients[i].id # p
         /\ search_client(p) # 0 => /\ search_client(p) \in DOMAIN clients
                                    /\ clients[search_client(p)].id = p
<1>1. ASSUME NEW i \in DOMAIN clients
      PROVE  i \in Found(p) <=> clients[i].id = p
  <2>1. clients[i].id \in Peers
    <3>1. clients[i] \in Records
      BY LenProperties, ElementOfSeq
    <3> QED  BY <3>1 DEF Records
  <2> QED  BY <2>1 DEF Found, Peers
<1>2. Found(p) \subseteq DOMAIN clients
  BY DEF Found
<1>3. DOMAIN clients \subseteq Nat \ {0}
  BY LenProperties
<1>4. CASE Found(p) = {}
  BY <1>1, <1>4 DEF search_client
<1>5. CASE Found(p) # {}
  <2>1. PICK i \in Found(p) : Found(p) = {i}
    BY <1>1, <1>2, <1>5 DEF UniqueClients
  <2>2. search_client(p) = i
    BY <1>2, <1>3, <2>1 DEF search_client
  <2> QED  BY <1>1, <1>2, <1>3, <2>1, <2>2
<1> QED  BY <1>4, <1>5
-----------------------------------------------------------------------------
(* What a step can do to the two lists: nothing to the leases, hand the     *)
(* first free address to a new client, or take one client's address back.  *)

Kept == /\ free' = free
        /\ DOMAIN clients' = DOMAIN clients
        /\ \A i \in DOMAIN clients : /\ clients'[i].id = clients[i].id
                                     /\ clients'[i].pa = clients[i].pa

Taken == /\ free # << >> /\ free' = Tail(free)
         /\ \E r \in Records : /\ clients' = Append(clients, r)
                               /\ r.pa = Head(free)
                               /\ \A i \in DOMAIN clients : clients[i].id # r.id

GivenBack == \E i \in DOMAIN clients : terminate(i)

Change == Kept \/ Taken \/ GivenBack

\* A handler that rewrites state and ttlcounter of one record keeps the leases.
LEMMA RewriteRecord ==
  ASSUME clients \in Seq(Records), NEW i \in DOMAIN clients,
         NEW s \in ClientStates, NEW t \in -1..TTL,
         clients' = [clients EXCEPT ![i].state = s, ![i].ttlcounter = t],
         free' = free
  PROVE  clients' \in Seq(Records) /\ Kept
<1>1. i \in 1..Len(clients) /\ clients[i] \in Records
  BY LenProperties, ElementOfSeq
<1> DEFINE r == [clients[i] EXCEPT !.state = s, !.ttlcounter = t]
<1>2. r \in Records /\ r.id = clients[i].id /\ r.pa = clients[i].pa
  BY <1>1 DEF Records
<1>3. clients' = [clients EXCEPT ![i] = r]
  BY <1>1 DEF Records
<1> HIDE DEF r
<1> DEFINE new == [clients EXCEPT ![i] = r]
<1>4. /\ new \in Seq(Records) /\ Len(new) = Len(clients)
      /\ \A j \in 1..Len(clients) : new[j] = IF j = i THEN r ELSE clients[j]
  BY <1>1, <1>2, ExceptSeq
<1> HIDE DEF new
<1>5. clients' = new
  BY <1>3 DEF new
<1> QED  BY <1>2, <1>4, <1>5, LenProperties DEF Kept

\* Likewise a tick.
LEMMA TickRecords ==
  ASSUME clients \in Seq(Records), sinceAck \in [Peers -> 0..TTL + 1],
         sigalrm_handler, free' = free
  PROVE  clients' \in Seq(Records) /\ Kept /\ sinceAck' \in [Peers -> 0..TTL + 1]
<1>1. Len(clients) \in Nat /\ DOMAIN clients = 1..Len(clients)
  BY LenProperties
<1>2. ASSUME NEW i \in DOMAIN clients
      PROVE  /\ clients'[i] \in Records
             /\ clients'[i].id = clients[i].id /\ clients'[i].pa = clients[i].pa
  <2>1. clients[i] \in Records
    BY <1>1, ElementOfSeq
  <2> DEFINE t == IF clients[i].ttlcounter < 0 THEN clients[i].ttlcounter
                                               ELSE clients[i].ttlcounter - 1
  <2>2. clients'[i] = [clients[i] EXCEPT !.ttlcounter = t]
    BY DEF sigalrm_handler
  <2>3. t \in -1..TTL
    BY <2>1, TTLAssumption DEF Records
  <2> HIDE DEF t
  <2> QED  BY <2>1, <2>2, <2>3 DEF Records
<1>3. clients' \in [1..Len(clients) -> Records]
  BY <1>1, <1>2 DEF sigalrm_handler
<1>4. clients' \in Seq(Records) /\ DOMAIN clients' = DOMAIN clients
  BY <1>1, <1>3, SeqDef
<1>5. sinceAck' \in [Peers -> 0..TTL + 1]
  BY TTLAssumption DEF sigalrm_handler
<1> QED  BY <1>2, <1>4, <1>5 DEF Kept

\* terminate shortens the list of clients by one record.
LEMMA Terminate ==
  ASSUME clients \in Seq(Records), free \in Seq(Nodes), NEW i \in DOMAIN clients, terminate(i)
  PROVE  /\ clients' \in Seq(Records) /\ Len(clients') = Len(clients) - 1
         /\ \A j \in 1..Len(clients) - 1 :
               clients'[j] = IF j < i THEN clients[j] ELSE clients[j + 1]
         /\ free' \in Seq(Nodes) /\ Len(free') = Len(free) + 1
         /\ \A j \in 1..Len(free) + 1 :
               free'[j] = IF j <= Len(free) THEN free[j] ELSE clients[i].pa
<1>1. i \in 1..Len(clients) /\ clients[i] \in Records
  BY LenProperties, ElementOfSeq
<1>2. clients[i].pa \in Nodes
  BY <1>1 DEF Records
<1>3. clients' = RemoveAt(clients, i) /\ free' = Append(free, clients[i].pa)
  BY DEF terminate, insert_addr_list
<1>4. /\ free' \in Seq(Nodes) /\ Len(free') = Len(free) + 1
      /\ \A j \in 1..Len(free) + 1 :
            free'[j] = IF j <= Len(free) THEN free[j] ELSE clients[i].pa
  BY <1>2, <1>3, LenProperties
<1> QED  BY <1>1, <1>3, <1>4, RemoveAtProperties
-----------------------------------------------------------------------------
(* Type correctness *)

Typed == TypeOK /\ UniqueClients

\* The datagram wait_event reads, and what is left of the buffer.
LEMMA ReceiveType ==
  ASSUME Typed, Receives
  PROVE  /\ Sender \in Peers /\ Received \in Messages
         /\ srvq' \in Seq([src : Peers, msg : Messages])
<1>1. Head(srvq) \in [src : Peers, msg : Messages]
  BY HeadTailProperties DEF Typed, TypeOK, Receives
<1>2. srvq' \in Seq([src : Peers, msg : Messages])
  BY HeadTailProperties DEF Typed, TypeOK, Receives
<1> QED  BY <1>1, <1>2 DEF Sender, Received

\* Steps that leave lists and buffers alone.
LEMMA ControlSteps ==
  ASSUME Typed, RecvEmpty \/ Pause \/ ScanTimeout \/ ScanNext \/ ScanEnd \/ Die
  PROVE  TypeOK' /\ Change
<1>1. UNCHANGED <<clients, free, sinceAck, srvq, cliq>>
  BY DEF RecvEmpty, Pause, ScanTimeout, ScanNext, ScanEnd, Die, lists
<1>2. Kept
  BY <1>1 DEF Kept
<1>3. Len(clients) \in Nat /\ DOMAIN clients = 1..Len(clients)
  BY LenProperties DEF Typed, TypeOK
<1>4. /\ status' \in {"running", "dead"}
      /\ loc' \in {"recv", "eagain", "pause", "scan", "dispatch"}
      /\ event' \in Events \cup {"CONTINUE"}
      /\ pc' \in 0..Len(clients) + 1
      /\ loc' = "scan" => pc' > 0
      /\ loc' = "dispatch" => pc' \in DOMAIN clients
  <2>1. CASE RecvEmpty \/ Pause \/ ScanEnd
    BY <1>3, <2>1 DEF RecvEmpty, Pause, ScanEnd, At, Goto, Typed, TypeOK
  <2>2. CASE ScanTimeout
    BY <1>3, <2>2 DEF ScanTimeout, At, Return, Typed, TypeOK, Events
  <2>3. CASE ScanNext
    BY <1>3, <2>3 DEF ScanNext, At, Typed, TypeOK
  <2>4. CASE Die
    BY <1>3, <2>4 DEF Die, Typed, TypeOK
  <2> QED  BY <2>1, <2>2, <2>3, <2>4
<1> QED  BY <1>1, <1>2, <1>4 DEF Change, Typed, TypeOK

\* Steps that read a datagram without opening a record.
LEMMA DropSteps ==
  ASSUME Typed, RecvStranger \/ RecvDiscoverNoIP
  PROVE  TypeOK' /\ Change
<1>1. Receives /\ Goto("recv") /\ UNCHANGED <<clients, free, sinceAck>>
  BY DEF RecvStranger, RecvDiscoverNoIP, lists
<1>2. Kept
  BY <1>1 DEF Kept
<1>3. cliq' \in [Peers -> Seq(Messages)]
  <2>1. CASE RecvStranger
    BY <2>1 DEF RecvStranger, Typed, TypeOK
  <2>2. CASE RecvDiscoverNoIP
    <3>1. Msg("OFFER", 1, 0, Zero, Zero) \in Messages
      BY ZeroAssumption DEF Msg, Messages, MsgTypes
    <3> QED  BY <1>1, <2>2, <3>1, ReceiveType, SendType DEF RecvDiscoverNoIP, f_act2, Typed, TypeOK
  <2> QED  BY <2>1, <2>2
<1>4. Len(clients) \in Nat
  BY LenProperties DEF Typed, TypeOK
<1> QED  BY <1>1, <1>2, <1>3, <1>4, ReceiveType DEF Change, Goto, Typed, TypeOK

\* A DISCOVER that finds a free address.
LEMMA DiscoverStep ==
  ASSUME Typed, RecvDiscover
  PROVE  TypeOK' /\ Change
<1> DEFINE r == [id |-> Sender, state |-> "INIT", ttlcounter |-> HalfTTL, pa |-> Head(free)]
<1>1. Sender \in Peers
  BY ReceiveType DEF RecvDiscover
<1>2. Head(free) \in Nodes /\ Tail(free) \in Seq(Nodes)
  BY HeadTailProperties DEF RecvDiscover, Typed, TypeOK
<1>3. r \in Records
  BY <1>1, <1>2, Durations, TTLAssumption DEF Records, ClientStates
<1>4. \A i \in DOMAIN clients : clients[i].id # r.id
  BY <1>1, SearchClient DEF RecvDiscover, Typed, TypeOK
<1>5. /\ clients' = Append(clients, r) /\ free' = Tail(free) /\ free # << >>
      /\ r.pa = Head(free)
  BY DEF RecvDiscover, NewRecord, insert_client_list, del_addr_from_list
<1> HIDE DEF r
<1>6. Taken
  BY <1>3, <1>4, <1>5 DEF Taken
<1>7. Len(clients) \in Nat
  BY LenProperties DEF Typed, TypeOK
<1>8. /\ clients' \in Seq(Records) /\ Len(clients') = Len(clients) + 1
      /\ DOMAIN clients' = 1..Len(clients) + 1
  BY <1>3, <1>5, <1>7, LenProperties DEF Typed, TypeOK
<1>9. /\ loc' = "dispatch" /\ pc' = Len(clients) + 1 /\ event' = "RECV_DISC"
      /\ UNCHANGED <<status, sinceAck, cliq>> /\ Receives
  BY DEF RecvDiscover, Return
<1> QED  BY <1>2, <1>5, <1>6, <1>7, <1>8, <1>9, ReceiveType
         DEF Change, Typed, TypeOK, Events

\* A listed client's datagram.
LEMMA ListedStep ==
  ASSUME Typed, RecvListed
  PROVE  TypeOK' /\ Change
<1> DEFINE i == search_client(Sender)
           e == EventOf(clients[i], Received)
<1>1. Receives /\ Sender \in Peers /\ Received \in Messages
  BY ReceiveType DEF RecvListed
<1>2. i \in DOMAIN clients
  BY <1>1, SearchClient DEF RecvListed, Typed, TypeOK
<1>3. Len(clients) \in Nat /\ DOMAIN clients = 1..Len(clients)
  BY LenProperties DEF Typed, TypeOK
<1>4. CASE clients[i].state = "INIT"
  <2>1. terminate(i) /\ Goto("recv") /\ UNCHANGED <<sinceAck, cliq>>
    BY <1>4 DEF RecvListed
  <2>2. GivenBack
    BY <1>2, <2>1 DEF GivenBack
  <2>3. clients' \in Seq(Records) /\ Len(clients') \in Nat /\ free' \in Seq(Nodes)
    BY <1>2, <1>3, <2>1, Terminate, LenProperties DEF Typed, TypeOK
  <2> QED  BY <1>1, <2>1, <2>2, <2>3, ReceiveType DEF Change, Goto, Typed, TypeOK
<1>5. CASE clients[i].state # "INIT"
  <2>1. /\ IF e = "CONTINUE" THEN Goto("recv") ELSE Return(e, i)
        /\ UNCHANGED <<clients, free, sinceAck, cliq>>
    BY <1>5 DEF RecvListed, lists
  <2>2. Kept
    BY <2>1 DEF Kept
  <2>3. e \in Events \cup {"CONTINUE"}
    BY DEF EventOf, Events
  <2> HIDE DEF e, i
  <2> QED  BY <1>1, <1>2, <1>3, <2>1, <2>2, <2>3, ReceiveType
           DEF Change, Goto, Return, Typed, TypeOK
<1> QED  BY <1>4, <1>5

\* What every handler has in common.
LEMMA DispatchedType ==
  ASSUME Typed, NEW f, Dispatched(f)
  PROVE  /\ pc \in DOMAIN clients /\ clients[pc] \in Records
         /\ loc' = "recv" /\ pc' = 0 /\ event' = "CONTINUE"
         /\ UNCHANGED <<status, srvq>>
<1>1. pc \in DOMAIN clients
  BY DEF Dispatched, At, Typed, TypeOK
<1>2. clients[pc] \in Records
  BY <1>1, LenProperties, ElementOfSeq DEF Typed, TypeOK
<1> QED  BY <1>1, <1>2 DEF Dispatched, Goto

LEMMA ReplyType ==
  ASSUME Typed, pc \in DOMAIN clients, clients[pc] \in Records,
         NEW t \in MsgTypes, NEW code \in Nat, NEW ttl \in Nat, Reply(t, code, ttl)
  PROVE  cliq' \in [Peers -> Seq(Messages)]
<1>1. clients[pc].id \in Peers
  BY DEF Records
<1>2. LeaseMsg(t, code, ttl, clients[pc]) \in Messages
  BY LeaseMsgType
<1> QED  BY <1>1, <1>2, SendType DEF Reply, Typed, TypeOK

\* A handler that keeps the record.
LEMMA RewriteSteps ==
  ASSUME Typed, f_act1 \/ f_act3 \/ f_act4 \/ f_act6
  PROVE  TypeOK' /\ Change
<1>1. PICK f : Dispatched(f)
  BY DEF f_act1, f_act3, f_act4, f_act6
<1>2. /\ pc \in DOMAIN clients /\ clients[pc] \in Records
      /\ loc' = "recv" /\ pc' = 0 /\ event' = "CONTINUE"
      /\ UNCHANGED <<status, srvq>>
  BY <1>1, DispatchedType
<1>3. cliq' \in [Peers -> Seq(Messages)]
  <2>1. CASE f_act1 \/ f_act4
    BY <1>2, <2>1, ReplyType, Durations DEF f_act1, f_act4, MsgTypes
  <2>2. CASE f_act3 \/ f_act6
    BY <1>2, <2>2, ReplyType, Durations DEF f_act3, f_act6, MsgTypes
  <2> QED  BY <2>1, <2>2
<1>4. \E s \in ClientStates, t \in -1..TTL :
         clients' = [clients EXCEPT ![pc].state = s, ![pc].ttlcounter = t]
  <2>1. clients[pc].state \in ClientStates /\ clients[pc].ttlcounter \in -1..TTL
    BY <1>2 DEF Records
  <2>2. HalfTTL \in -1..TTL /\ TTL \in -1..TTL
    BY Durations, TTLAssumption
  <2>3. CASE f_act1
    <3>1. clients' = [clients EXCEPT ![pc].state = "WAIT_REQU",
                                     ![pc].ttlcounter = clients[pc].ttlcounter]
      BY <1>2, <2>3 DEF f_act1, Records, Typed, TypeOK
    <3> QED  BY <2>1, <3>1 DEF ClientStates
  <2>4. CASE f_act3
    BY <2>2, <2>4 DEF f_act3, ClientStates
  <2>5. CASE f_act4
    BY <2>2, <2>5 DEF f_act4, ClientStates
  <2>6. CASE f_act6
    <3>1. clients' = [clients EXCEPT ![pc].state = clients[pc].state, ![pc].ttlcounter = TTL]
      BY <1>2, <2>6 DEF f_act6, Records, Typed, TypeOK
    <3> QED  BY <2>1, <2>2, <3>1
  <2> QED  BY <2>3, <2>4, <2>5, <2>6
<1>5. free' = free /\ sinceAck' \in [Peers -> 0..TTL + 1]
  <2>1. free' = free /\ (UNCHANGED sinceAck \/ Acked(clients[pc].id))
    BY DEF f_act1, f_act3, f_act4, f_act6, lists
  <2>2. sinceAck \in [Peers -> 0..TTL + 1] /\ 0 \in 0..TTL + 1
    BY TTLAssumption DEF Typed, TypeOK
  <2>3. Acked(clients[pc].id) => sinceAck' \in [Peers -> 0..TTL + 1]
    BY <2>2 DEF Acked
  <2> QED  BY <2>1, <2>2, <2>3
<1>6. clients' \in Seq(Records) /\ Kept
  BY <1>2, <1>4, <1>5, RewriteRecord DEF Typed, TypeOK
<1>7. Len(clients') \in Nat
  BY <1>6, LenProperties
<1> QED  BY <1>2, <1>3, <1>5, <1>6, <1>7 DEF Change, Typed, TypeOK

\* A handler that ends the record.
LEMMA TerminateSteps ==
  ASSUME Typed, f_act5 \/ f_act7
  PROVE  TypeOK' /\ Change
<1>1. PICK f : Dispatched(f)
  BY DEF f_act5, f_act7
<1>2. /\ pc \in DOMAIN clients /\ clients[pc] \in Records
      /\ loc' = "recv" /\ pc' = 0 /\ event' = "CONTINUE"
      /\ UNCHANGED <<status, srvq>>
  BY <1>1, DispatchedType
<1>3. cliq' \in [Peers -> Seq(Messages)]
  <2>1. CASE f_act5
    BY <2>1 DEF f_act5, Typed, TypeOK
  <2>2. CASE f_act7
    BY <1>2, <2>2, ReplyType DEF f_act7, MsgTypes
  <2> QED  BY <2>1, <2>2
<1>4. terminate(pc) /\ UNCHANGED sinceAck
  BY DEF f_act5, f_act7
<1>5. clients' \in Seq(Records) /\ free' \in Seq(Nodes)
  BY <1>2, <1>4, Terminate DEF Typed, TypeOK
<1>6. Len(clients') \in Nat
  BY <1>5, LenProperties
<1>7. GivenBack
  BY <1>2, <1>4 DEF GivenBack
<1> QED  BY <1>2, <1>3, <1>4, <1>5, <1>6, <1>7 DEF Change, Typed, TypeOK

LEMMA TickStep ==
  ASSUME Typed, Tick
  PROVE  TypeOK' /\ Change
<1>1. /\ sigalrm_handler /\ UNCHANGED <<status, event, free, srvq, cliq>>
      /\ IF loc = "pause" THEN loc' = "scan" /\ pc' = 1 ELSE UNCHANGED <<loc, pc>>
  BY DEF Tick
<1>2. clients' \in Seq(Records) /\ Kept /\ sinceAck' \in [Peers -> 0..TTL + 1]
  BY <1>1, TickRecords DEF Typed, TypeOK
<1>3. Len(clients') = Len(clients) /\ Len(clients) \in Nat
  BY <1>2, LenProperties DEF Kept, Typed, TypeOK
<1>4. DOMAIN clients' = DOMAIN clients
  BY <1>2 DEF Kept
<1> QED  BY <1>1, <1>2, <1>3, <1>4 DEF Change, Typed, TypeOK

LEMMA ArriveStep ==
  ASSUME Typed, Arrive
  PROVE  TypeOK' /\ Change
<1>1. PICK p \in Peers, m \in Datagrams :
          /\ srvq' = Append(srvq, [src |-> p, msg |-> m])
          /\ cliq' = [q \in Peers |-> << >>]
          /\ UNCHANGED <<control, lists>>
  BY DEF Arrive
<1>2. [src |-> p, msg |-> m] \in [src : Peers, msg : Messages]
  BY DatagramsAssumption
<1>3. srvq' \in Seq([src : Peers, msg : Messages])
  BY <1>1, <1>2 DEF Typed, TypeOK
<1>4. cliq' \in [Peers -> Seq(Messages)]
  BY <1>1
<1> QED  BY <1>1, <1>3, <1>4 DEF Change, Kept, control, lists, Typed, TypeOK

\* Every step keeps the types and changes the lists in one of the three ways.
LEMMA NextStep ==
  ASSUME Typed, [Next]_vars
  PROVE  TypeOK' /\ Change
<1>1. CASE Main
  BY <1>1, ControlSteps, DropSteps, DiscoverStep, ListedStep, RewriteSteps, TerminateSteps
     DEF Main, WaitEvent, Handler
<1>2. CASE Tick \/ Die \/ Arrive
  BY <1>2, ControlSteps, TickStep, ArriveStep
<1>3. CASE UNCHANGED vars
  BY <1>3 DEF vars, Change, Kept, Typed, TypeOK
<1> QED  BY <1>1, <1>2, <1>3 DEF Next
-----------------------------------------------------------------------------
(* UniqueClients and AddressAccounting survive each kind of change *)

\* t is s without its element at i: old tells where each element came from.
Without(t, s, i, old) ==
    /\ i \in DOMAIN s
    /\ old \in [DOMAIN t -> DOMAIN s \ {i}]
    /\ \A j \in DOMAIN t : t[j] = s[old[j]]
    /\ \A j, k \in DOMAIN t : old[j] = old[k] => j = k
    /\ \A m \in DOMAIN s \ {i} : \E j \in DOMAIN t : old[j] = m

\* t is s with the element e added at n.
Extended(t, s, n, e) ==
    /\ n \notin DOMAIN s
    /\ DOMAIN t = DOMAIN s \cup {n}
    /\ t[n] = e
    /\ \A i \in DOMAIN s : t[i] = s[i]

LEMMA ShiftedWithout ==
  ASSUME NEW S, NEW s \in Seq(S), NEW T, NEW t \in Seq(T), NEW i \in 1..Len(s),
         Len(t) = Len(s) - 1,
         \A j \in 1..Len(s) - 1 : t[j] = IF j < i THEN s[j] ELSE s[j + 1]
  PROVE  \E old : Without(t, s, i, old)
<1> DEFINE old == [j \in DOMAIN t |-> IF j < i THEN j ELSE j + 1]
<1>1. /\ Len(s) \in Nat /\ DOMAIN s = 1..Len(s) /\ DOMAIN t = 1..Len(s) - 1
  BY LenProperties
<1>2. old \in [DOMAIN t -> DOMAIN s \ {i}]
  BY <1>1
<1>3. \A j \in DOMAIN t : t[j] = s[old[j]]
  BY <1>1
<1>4. \A j, k \in DOMAIN t : old[j] = old[k] => j = k
  BY <1>1
<1>5. ASSUME NEW m \in DOMAIN s \ {i}
      PROVE  \E j \in DOMAIN t : old[j] = m
  <2>1. CASE m < i
    BY <1>1, <2>1
  <2>2. CASE m > i
    <3>1. m - 1 \in DOMAIN t /\ old[m - 1] = m
      BY <1>1, <2>2
    <3> QED  BY <3>1
  <2> QED  BY <1>1, <2>1, <2>2
<1> HIDE DEF old
<1> QED  BY <1>1, <1>2, <1>3, <1>4, <1>5 DEF Without

LEMMA AppendExtended ==
  ASSUME NEW S, NEW s \in Seq(S), NEW e
  PROVE  Extended(Append(s, e), s, Len(s) + 1, e)
<1>1. Len(s) \in Nat /\ DOMAIN s = 1..Len(s)
  BY LenProperties
<1> QED  BY <1>1 DEF Extended

\* The lists after Taken.
LEMMA TakenLists ==
  ASSUME TypeOK, Taken
  PROVE  \E r \in Records : \E n, old :
            /\ Extended(clients', clients, n, r) /\ Without(free', free, 1, old)
            /\ r.pa = free[1] /\ \A i \in DOMAIN clients : clients[i].id # r.id
<1>1. PICK r \in Records : /\ clients' = Append(clients, r) /\ r.pa = Head(free)
                           /\ \A i \in DOMAIN clients : clients[i].id # r.id
  BY DEF Taken
<1>2. Extended(clients', clients, Len(clients) + 1, r)
  BY <1>1, AppendExtended DEF TypeOK
<1>3. Len(free) \in Nat \ {0} /\ Head(free) = free[1]
  BY EmptySeq DEF Taken, TypeOK
<1>4. /\ Tail(free) \in Seq(Nodes) /\ Len(Tail(free)) = Len(free) - 1
      /\ \A j \in 1..Len(Tail(free)) : Tail(free)[j] = free[j + 1]
  BY HeadTailProperties DEF Taken, TypeOK
<1>5. \E old : Without(Tail(free), free, 1, old)
  <2>1. 1 \in 1..Len(free)
    BY <1>3
  <2>2. \A j \in 1..Len(free) - 1 : Tail(free)[j] = IF j < 1 THEN free[j] ELSE free[j + 1]
    BY <1>3, <1>4
  <2> QED  BY <1>4, <2>1, <2>2, ShiftedWithout DEF TypeOK
<1> QED  BY <1>1, <1>2, <1>3, <1>5 DEF Taken

\* The lists after GivenBack.
LEMMA GivenBackLists ==
  ASSUME TypeOK, GivenBack
  PROVE  \E i, n, old : /\ Without(clients', clients, i, old)
                        /\ Extended(free', free, n, clients[i].pa)
<1>1. PICK i \in DOMAIN clients : terminate(i)
  BY DEF GivenBack
<1>2. Extended(free', free, Len(free) + 1, clients[i].pa)
  BY <1>1, AppendExtended DEF terminate, insert_addr_list, TypeOK
<1>3. clients \in Seq(Records) /\ i \in 1..Len(clients)
  BY LenProperties DEF TypeOK
<1> DEFINE rest == RemoveAt(clients, i)
<1>4. /\ rest \in Seq(Records) /\ Len(rest) = Len(clients) - 1
      /\ \A j \in 1..Len(clients) - 1 :
            rest[j] = IF j < i THEN clients[j] ELSE clients[j + 1]
  BY <1>3, RemoveAtProperties
<1>5. \E old : Without(rest, clients, i, old)
  <2> HIDE DEF rest
  <2> QED  BY <1>3, <1>4, ShiftedWithout
<1> QED  BY <1>1, <1>2, <1>5 DEF terminate, insert_addr_list

LEMMA UniqueStep ==
  ASSUME TypeOK, UniqueClients, Change
  PROVE  UniqueClients'
<1>1. CASE Kept
  BY <1>1 DEF Kept, UniqueClients
<1>2. CASE Taken
  <2>1. PICK r \in Records : \E n, old :
           /\ Extended(clients', clients, n, r)
           /\ \A i \in DOMAIN clients : clients[i].id # r.id
    BY <1>2, TakenLists
  <2> QED  BY <2>1 DEF UniqueClients, Extended
<1>3. CASE GivenBack
  <2>1. PICK i, n, old : Without(clients', clients, i, old)
    BY <1>3, GivenBackLists
  <2> QED  BY <2>1 DEF UniqueClients, Without
<1> QED  BY <1>1, <1>2, <1>3 DEF Change

LEMMA AccountingStep ==
  ASSUME TypeOK, AddressAccounting, Change
  PROVE  AddressAccounting'
<1>1. CASE Kept
  BY <1>1 DEF Kept, AddressAccounting, FreeOnce, HeldOnce, FreeNotHeld, NoneLost
<1>2. CASE Taken
  <2>1. PICK r \in Records : \E n, old :
           /\ Extended(clients', clients, n, r) /\ Without(free', free, 1, old)
           /\ r.pa = free[1]
    BY <1>2, TakenLists
  <2>2. FreeOnce'
    BY <2>1 DEF AddressAccounting, FreeOnce, Without
  <2>3. HeldOnce'
    BY <2>1 DEF AddressAccounting, HeldOnce, FreeNotHeld, Without, Extended
  <2>4. FreeNotHeld'
    BY <2>1 DEF AddressAccounting, FreeOnce, FreeNotHeld, Without, Extended
  <2>5. NoneLost'
    BY <2>1 DEF AddressAccounting, NoneLost, Nodes, Without, Extended
  <2> QED  BY <2>2, <2>3, <2>4, <2>5 DEF AddressAccounting
<1>3. CASE GivenBack
  <2>1. PICK i, n, old : /\ Without(clients', clients, i, old)
                         /\ Extended(free', free, n, clients[i].pa)
    BY <1>3, GivenBackLists
  <2>2. FreeOnce'
    BY <2>1 DEF AddressAccounting, FreeOnce, FreeNotHeld, Without, Extended
  <2>3. HeldOnce'
    BY <2>1 DEF AddressAccounting, HeldOnce, Without
  <2>4. FreeNotHeld'
    BY <2>1 DEF AddressAccounting, HeldOnce, FreeNotHeld, Without, Extended
  <2>5. NoneLost'
    BY <2>1 DEF AddressAccounting, NoneLost, Nodes, Without, Extended
  <2> QED  BY <2>2, <2>3, <2>4, <2>5 DEF AddressAccounting
<1> QED  BY <1>1, <1>2, <1>3 DEF Change
-----------------------------------------------------------------------------
(* The theorems *)

LEMMA InitState == Init => TypeOK /\ UniqueClients /\ AddressAccounting
<1> SUFFICES ASSUME Init PROVE TypeOK /\ UniqueClients /\ AddressAccounting
  OBVIOUS
<1>1. Len(Config) \in Nat
  BY ConfigAssumption, LenProperties
<1>2. free \in [1..Len(Config) -> Nodes] /\ \A i \in 1..Len(Config) : free[i] = i
  BY DEF Init, Nodes
<1>3. free \in Seq(Nodes)
  BY <1>1, <1>2, SeqDef
<1>4. clients = << >> /\ DOMAIN clients = {} /\ Len(clients) = 0
  BY DEF Init
<1>5. TypeOK
  BY <1>3, <1>4, TTLAssumption DEF Init, TypeOK
<1>6. UniqueClients
  BY <1>4 DEF UniqueClients
<1>7. AddressAccounting
  BY <1>2, <1>4 DEF AddressAccounting, FreeOnce, HeldOnce, FreeNotHeld, NoneLost, Nodes
<1> QED  BY <1>5, <1>6, <1>7

\* Whatever peers send and however ticks interleave, every variable keeps its
\* type and no peer has two records.  The two are proved together: the type
\* of the index search_client returns rests on there being at most one.
THEOREM TypeCorrect == Spec => [](TypeOK /\ UniqueClients)
<1>1. Init => Typed
  BY InitState DEF Typed
<1>2. Typed /\ [Next]_vars => Typed'
  BY NextStep, UniqueStep DEF Typed
<1> QED  BY <1>1, <1>2, PTL DEF Spec, Typed

\* However often a client repeats its DISCOVER, mydhcpd keeps one record for it.
THEOREM OneRecordPerPeer == Spec => []UniqueClients
BY TypeCorrect, PTL

\* No line of the config file is ever lost or held twice.
THEOREM AddressesAccounted == Spec => []AddressAccounting
<1>1. Init => AddressAccounting
  BY InitState
<1>2. Typed /\ AddressAccounting /\ [Next]_vars => AddressAccounting'
  BY NextStep, AccountingStep DEF Typed
<1>3. Spec => []Typed
  BY TypeCorrect, PTL DEF Typed
<1> QED  BY <1>1, <1>2, <1>3, PTL DEF Spec

\* With a config file that repeats no address, no two clients have the same
\* IP address at the same time.
THEOREM AddressesExclusive ==
  ASSUME ConfigDistinct
  PROVE  Spec => []NoSharedAddress
<1>1. Typed /\ AddressAccounting => NoSharedAddress
  <2> SUFFICES ASSUME Typed, AddressAccounting,
                      NEW i \in DOMAIN clients, NEW j \in DOMAIN clients,
                      Config[clients[i].pa].address = Config[clients[j].pa].address
               PROVE  i = j
    BY DEF NoSharedAddress
  <2>1. clients[i] \in Records /\ clients[j] \in Records
    BY LenProperties, ElementOfSeq DEF Typed, TypeOK
  <2>2. clients[i].pa = clients[j].pa
    BY <2>1, ConfigDistinct DEF ConfigDistinct, Records
  <2> QED  BY <2>2 DEF AddressAccounting, HeldOnce
<1>2. Spec => []Typed
  BY TypeCorrect, PTL DEF Typed
<1> QED  BY <1>1, <1>2, AddressesAccounted, PTL
=============================================================================
