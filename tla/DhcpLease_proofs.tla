--------------------------- MODULE DhcpLease_proofs ---------------------------
(***************************************************************************)
(* More theorems about the server among arbitrary peers: the event always  *)
(* fits the record it is dispatched on, and no lease is cut short.         *)
(***************************************************************************)
EXTENDS DhcpServer_proofs

Handlers == {"f_act1", "f_act3", "f_act4", "f_act5", "f_act6", "f_act7"}

\* The only record in INIT_STATE is the one just made, until it is dispatched.
NewOnly == \A i \in DOMAIN clients :
               clients[i].state = "INIT" => loc = "dispatch" /\ pc = i /\ event = "RECV_DISC"

\* The event in hand has a row.
RowReady == loc = "dispatch" => \E f \in Handlers : <<clients[pc].state, event, f>> \in ptab

EventInv == NewOnly /\ RowReady

\* The counter of a lease in use tells the ticks since its last ACK, and the
\* event USE_TOUT is only in hand for a counter that has run out.
CounterInStep == \A i \in DOMAIN clients :
    clients[i].state = "IN_USE" => clients[i].ttlcounter + sinceAck[clients[i].id] = TTL
TimedOut == loc = "dispatch" /\ event = "USE_TOUT" => clients[pc].ttlcounter < 0

LeaseInv == EventInv /\ CounterInStep /\ TimedOut
-----------------------------------------------------------------------------
(* What the steps do to the records *)

LEMMA ClientsShape ==
  ASSUME Typed
  PROVE  /\ Len(clients) \in Nat /\ DOMAIN clients = 1..Len(clients)
         /\ \A i \in DOMAIN clients : clients[i] \in Records
BY LenProperties, ElementOfSeq DEF Typed, TypeOK

\* The handlers that keep the record touch no other one.
LEMMA Rewrites ==
  ASSUME Typed, f_act1 \/ f_act3 \/ f_act4 \/ f_act6
  PROVE  /\ loc = "dispatch" /\ loc' = "recv"
         /\ pc \in DOMAIN clients /\ DOMAIN clients' = DOMAIN clients
         /\ clients'[pc].id = clients[pc].id /\ clients'[pc].pa = clients[pc].pa
         /\ \A j \in DOMAIN clients \ {pc} : clients'[j] = clients[j]
         /\ \/ /\ clients'[pc].state \in {"WAIT_REQU", "REQU_TOUT"}
               /\ sinceAck' = sinceAck
            \/ /\ clients'[pc].state = "IN_USE" /\ clients'[pc].ttlcounter = TTL
               /\ Acked(clients[pc].id)
<1>1. PICK f : Dispatched(f)
  BY DEF f_act1, f_act3, f_act4, f_act6
<1>2. loc = "dispatch" /\ loc' = "recv" /\ pc \in DOMAIN clients /\ clients[pc] \in Records
  BY <1>1, DispatchedType DEF Dispatched, At
<1>3. CASE f_act1
  BY <1>2, <1>3 DEF f_act1, Records
<1>4. CASE f_act3
  BY <1>2, <1>4 DEF f_act3, Records
<1>5. CASE f_act4
  BY <1>2, <1>5 DEF f_act4, Records
<1>6. CASE f_act6
  <2>1. clients[pc].state = "IN_USE"
    BY <1>6 DEF f_act6, Dispatched, ptab, ptab_Rows
  <2> QED  BY <1>2, <1>6, <2>1 DEF f_act6, Records
<1> QED  BY <1>2, <1>3, <1>4, <1>5, <1>6

\* The handlers that end the record keep all others, in their order.
LEMMA Ends ==
  ASSUME Typed, NEW i \in DOMAIN clients, terminate(i)
  PROVE  /\ \A j \in DOMAIN clients \ {i} : \E k \in DOMAIN clients' : clients'[k] = clients[j]
         /\ \A k \in DOMAIN clients' : \E j \in DOMAIN clients \ {i} : clients'[k] = clients[j]
<1>1. /\ clients' \in Seq(Records) /\ Len(clients') = Len(clients) - 1
      /\ \A k \in 1..Len(clients) - 1 :
            clients'[k] = IF k < i THEN clients[k] ELSE clients[k + 1]
  BY Terminate DEF Typed, TypeOK
<1>2. Len(clients) \in Nat /\ DOMAIN clients = 1..Len(clients)
  BY ClientsShape
<1>3. DOMAIN clients' = 1..Len(clients) - 1
  BY <1>1, LenProperties
<1>4. ASSUME NEW j \in DOMAIN clients \ {i}
      PROVE  \E k \in DOMAIN clients' : clients'[k] = clients[j]
  <2>1. CASE j < i
    <3>1. j \in DOMAIN clients' /\ clients'[j] = clients[j]
      BY <1>1, <1>2, <1>3, <2>1
    <3> QED  BY <3>1
  <2>2. CASE j > i
    <3>1. j - 1 \in DOMAIN clients' /\ clients'[j - 1] = clients[j - 1 + 1] /\ j - 1 + 1 = j
      BY <1>1, <1>2, <1>3, <2>2
    <3> QED  BY <3>1
  <2> QED  BY <1>2, <2>1, <2>2
<1>5. ASSUME NEW k \in DOMAIN clients'
      PROVE  \E j \in DOMAIN clients \ {i} : clients'[k] = clients[j]
  <2>1. CASE k < i
    BY <1>1, <1>2, <1>3, <2>1
  <2>2. CASE k >= i
    <3>1. k + 1 \in DOMAIN clients \ {i} /\ clients'[k] = clients[k + 1]
      BY <1>1, <1>2, <1>3, <2>2
    <3> QED  BY <3>1
  <2> QED  BY <1>2, <1>3, <2>1, <2>2
<1> QED  BY <1>4, <1>5

\* A tick only moves the counters, all of them.
LEMMA TickMoves ==
  ASSUME Typed, Tick
  PROVE  /\ DOMAIN clients' = DOMAIN clients /\ event' = event
         /\ loc = "dispatch" => UNCHANGED <<loc, pc>>
         /\ loc' = "dispatch" => loc = "dispatch"
         /\ \A i \in DOMAIN clients :
              /\ clients'[i].state = clients[i].state /\ clients'[i].id = clients[i].id
              /\ clients'[i].pa = clients[i].pa
              /\ clients'[i].ttlcounter = IF clients[i].ttlcounter < 0 THEN clients[i].ttlcounter
                                                                      ELSE clients[i].ttlcounter - 1
              /\ sinceAck'[clients[i].id] = IF sinceAck[clients[i].id] > TTL
                                            THEN sinceAck[clients[i].id]
                                            ELSE sinceAck[clients[i].id] + 1
<1>1. /\ sigalrm_handler /\ event' = event
      /\ IF loc = "pause" THEN loc' = "scan" /\ pc' = 1 ELSE UNCHANGED <<loc, pc>>
  BY DEF Tick
<1>2. \A i \in DOMAIN clients : clients[i] \in Records
  BY ClientsShape
<1>3. \A i \in DOMAIN clients : clients[i].id \in Peers
  BY <1>2 DEF Records
<1> QED  BY <1>1, <1>2, <1>3 DEF sigalrm_handler, Records

\* A listed client's datagram is dispatched on its record, or dropped: with
\* NewOnly no record is in INIT_STATE.
LEMMA ListedKeeps ==
  ASSUME Typed, NewOnly, RecvListed
  PROVE  /\ UNCHANGED lists /\ loc = "recv"
         /\ LET i == search_client(Sender)
            IN  /\ i \in DOMAIN clients /\ clients[i].id = Sender
                /\ clients[i].state # "INIT"
                /\ \/ loc' = "recv"
                   \/ /\ loc' = "dispatch" /\ pc' = i
                      /\ event' = EventOf(clients[i], Received) /\ event' # "CONTINUE"
<1>1. Receives /\ Sender \in Peers /\ loc = "recv"
  BY ReceiveType DEF RecvListed, Receives, At
<1>2. search_client(Sender) \in DOMAIN clients /\ clients[search_client(Sender)].id = Sender
  BY <1>1, SearchClient DEF RecvListed, Typed, TypeOK
<1>3. clients[search_client(Sender)].state # "INIT"
  BY <1>1, <1>2 DEF NewOnly
<1> QED  BY <1>1, <1>2, <1>3 DEF RecvListed, Goto, Return-----------------------------------------------------------------------------
(* The invariant *)

\* What can be done to a listed client's record has a row.
LEMMA ListedRow ==
  ASSUME NEW c \in Records, NEW m, c.state # "INIT", EventOf(c, m) # "CONTINUE"
  PROVE  /\ \E f \in Handlers : <<c.state, EventOf(c, m), f>> \in ptab
         /\ EventOf(c, m) # "USE_TOUT"
<1>1. c.state \in {"WAIT_REQU", "IN_USE", "REQU_TOUT"}
  BY DEF Records, ClientStates
<1>2. EventOf(c, m) \in IF c.state = "IN_USE"
                        THEN {"RECV_REQU_EXT", "RECV_RELE", "RECV_UNKN", "RECV_UNEX"}
                        ELSE {"RECV_REQU_ALLOC", "RECV_WRONG_REQU_ALLOC", "RECV_UNKN", "RECV_UNEX"}
  BY <1>1 DEF EventOf
<1>3. \A e \in {"RECV_REQU_EXT", "RECV_RELE", "RECV_UNKN", "RECV_UNEX"} :
         \E f \in Handlers : <<"IN_USE", e, f>> \in ptab
  BY DEF Handlers, ptab, ptab_Rows
<1>4. \A s \in {"WAIT_REQU", "REQU_TOUT"} :
         \A e \in {"RECV_REQU_ALLOC", "RECV_WRONG_REQU_ALLOC", "RECV_UNKN", "RECV_UNEX"} :
            \E f \in Handlers : <<s, e, f>> \in ptab
  BY DEF Handlers, ptab, ptab_Rows
<1> QED  BY <1>1, <1>2, <1>3, <1>4

LEMMA LeaseInit == Init => LeaseInv
<1> SUFFICES ASSUME Init PROVE LeaseInv
  OBVIOUS
<1>1. DOMAIN clients = {} /\ loc = "recv"
  BY DEF Init
<1> QED  BY <1>1 DEF LeaseInv, EventInv, NewOnly, RowReady, CounterInStep, TimedOut

LEMMA LeaseStep == Typed /\ LeaseInv /\ [Next]_vars => LeaseInv'
<1> SUFFICES ASSUME Typed, LeaseInv, [Next]_vars PROVE LeaseInv'
  OBVIOUS
<1> USE DEF LeaseInv, EventInv, NewOnly, RowReady, CounterInStep, TimedOut
<1>0. /\ \A i \in DOMAIN clients : clients[i] \in Records
      /\ Len(clients) \in Nat /\ DOMAIN clients = 1..Len(clients)
  BY ClientsShape
<1>1. CASE UNCHANGED <<clients, sinceAck>> /\ loc # "dispatch" /\ loc' # "dispatch"
  BY <1>1
<1>2. CASE UNCHANGED <<loc, pc, event, clients, sinceAck>>
  BY <1>2
<1>3. CASE ScanTimeout
  <2>1. /\ UNCHANGED <<clients, sinceAck>> /\ loc = "scan" /\ loc' = "dispatch" /\ pc' = pc
        /\ event' = IF clients[pc].state = "IN_USE" THEN "USE_TOUT" ELSE "RECV_TOUT"
        /\ clients[pc].ttlcounter < 0 /\ clients[pc].state # "INIT"
        /\ pc \in DOMAIN clients
    BY <1>0, <1>3 DEF ScanTimeout, At, Return, Expired, lists, Typed, TypeOK
  <2>2. clients[pc].state \in {"WAIT_REQU", "IN_USE", "REQU_TOUT"}
    BY <1>0, <2>1 DEF Records, ClientStates
  <2>3. \E f \in Handlers : <<clients[pc].state, event', f>> \in ptab
    BY <2>1, <2>2 DEF Handlers, ptab, ptab_Rows
  <2> QED  BY <2>1, <2>3
<1>4. CASE RecvDiscover
  <2> DEFINE n == Len(clients) + 1
  <2>1. /\ clients' = Append(clients, NewRecord) /\ sinceAck' = sinceAck
        /\ loc = "recv" /\ loc' = "dispatch" /\ pc' = n /\ event' = "RECV_DISC"
    BY <1>4 DEF RecvDiscover, Return, insert_client_list, Receives, At
  <2>2. /\ DOMAIN clients' = 1..n /\ clients'[n] = NewRecord
        /\ \A i \in DOMAIN clients : clients'[i] = clients[i]
    BY <1>0, <2>1, LenProperties DEF Typed, TypeOK
  <2>3. NewRecord.state = "INIT"
    BY DEF NewRecord
  <2>4. <<"INIT", "RECV_DISC", "f_act1">> \in ptab /\ "f_act1" \in Handlers
    BY DEF ptab, ptab_Rows, Handlers
  <2>5. DOMAIN clients' = DOMAIN clients \cup {n}
    BY <1>0, <2>2
  <2> HIDE DEF n
  <2> QED  BY <2>1, <2>2, <2>3, <2>4, <2>5
<1>5. CASE RecvListed
  <2> DEFINE i == search_client(Sender)
             e == EventOf(clients[i], Received)
  <2>1. /\ UNCHANGED <<clients, sinceAck>> /\ loc = "recv"
        /\ i \in DOMAIN clients /\ clients[i].state # "INIT"
        /\ \/ loc' = "recv"
           \/ loc' = "dispatch" /\ pc' = i /\ event' = e /\ e # "CONTINUE"
    BY <1>5, ListedKeeps DEF lists
  <2>2. e # "CONTINUE" => /\ \E f \in Handlers : <<clients[i].state, e, f>> \in ptab
                          /\ e # "USE_TOUT"
    BY <1>0, <2>1, ListedRow
  <2> HIDE DEF i, e
  <2> QED  BY <2>1, <2>2
<1>6. CASE f_act1 \/ f_act3 \/ f_act4 \/ f_act6
  <2>1. /\ loc = "dispatch" /\ loc' = "recv"
        /\ pc \in DOMAIN clients /\ DOMAIN clients' = DOMAIN clients
        /\ clients'[pc].id = clients[pc].id
        /\ \A j \in DOMAIN clients \ {pc} : clients'[j] = clients[j]
        /\ \/ /\ clients'[pc].state \in {"WAIT_REQU", "REQU_TOUT"}
              /\ sinceAck' = sinceAck
           \/ /\ clients'[pc].state = "IN_USE" /\ clients'[pc].ttlcounter = TTL
              /\ sinceAck' = [sinceAck EXCEPT ![clients[pc].id] = 0]
    BY <1>6, Rewrites DEF Acked
  <2>2. \A j \in DOMAIN clients' : clients'[j].state # "INIT"
    BY <2>1
  <2>3. \A j \in DOMAIN clients \ {pc} : clients[j].id # clients[pc].id
    BY <2>1 DEF Typed, UniqueClients
  <2>4. \A j \in DOMAIN clients : clients[j].id \in Peers
    BY <1>0 DEF Records
  <2>5. \A j \in DOMAIN clients \ {pc} : sinceAck'[clients[j].id] = sinceAck[clients[j].id]
    BY <2>1, <2>3, <2>4 DEF Typed, TypeOK
  <2>6. clients'[pc].state = "IN_USE" => sinceAck'[clients[pc].id] = 0
    BY <2>1, <2>4 DEF Typed, TypeOK
  <2>7. CounterInStep'
    BY <2>1, <2>5, <2>6, TTLAssumption
  <2> QED  BY <2>1, <2>2, <2>7
<1>7. CASE f_act5 \/ f_act7
  <2>1. PICK f \in {"f_act5", "f_act7"} : Dispatched(f) /\ terminate(pc) /\ sinceAck' = sinceAck
    BY <1>7 DEF f_act5, f_act7
  <2>2. /\ loc = "dispatch" /\ loc' = "recv" /\ pc \in DOMAIN clients
        /\ clients[pc].state # "INIT"
    BY <2>1, DispatchedType DEF Dispatched, At, ptab, ptab_Rows
  <2>3. \A k \in DOMAIN clients' : \E j \in DOMAIN clients \ {pc} : clients'[k] = clients[j]
    BY <2>1, <2>2, Ends
  <2> QED  BY <2>1, <2>2, <2>3
<1>8. CASE Tick
  <2>1. /\ DOMAIN clients' = DOMAIN clients /\ event' = event
        /\ loc = "dispatch" => UNCHANGED <<loc, pc>>
        /\ loc' = "dispatch" => loc = "dispatch"
        /\ \A i \in DOMAIN clients :
             /\ clients'[i].state = clients[i].state /\ clients'[i].id = clients[i].id
             /\ clients'[i].ttlcounter = IF clients[i].ttlcounter < 0 THEN clients[i].ttlcounter
                                                                     ELSE clients[i].ttlcounter - 1
             /\ sinceAck'[clients[i].id] = IF sinceAck[clients[i].id] > TTL
                                           THEN sinceAck[clients[i].id]
                                           ELSE sinceAck[clients[i].id] + 1
    BY <1>8, TickMoves
  <2>2. \A i \in DOMAIN clients : clients[i].ttlcounter \in -1..TTL
                                  /\ sinceAck[clients[i].id] \in 0..TTL + 1
    BY <1>0 DEF Records, Typed, TypeOK
  <2>3. EventInv'
    <3>1. loc = "dispatch" => pc \in DOMAIN clients
      BY DEF Typed, TypeOK
    <3>2. NewOnly'
      BY <2>1
    <3>3. RowReady'
      BY <2>1, <3>1
    <3> QED  BY <3>2, <3>3
  <2>4. CounterInStep'
    <3> SUFFICES ASSUME NEW i \in DOMAIN clients, clients[i].state = "IN_USE"
                 PROVE  clients'[i].ttlcounter + sinceAck'[clients[i].id] = TTL
      BY <2>1
    <3>1. clients[i].ttlcounter + sinceAck[clients[i].id] = TTL
      OBVIOUS
    <3> QED  BY <2>1, <2>2, <3>1, TTLAssumption
  <2>5. TimedOut'
    BY <2>1, <2>2 DEF Typed, TypeOK
  <2> QED  BY <2>3, <2>4, <2>5
<1>9. \/ UNCHANGED <<clients, sinceAck>> /\ loc # "dispatch" /\ loc' # "dispatch"
      \/ UNCHANGED <<loc, pc, event, clients, sinceAck>>
      \/ ScanTimeout \/ RecvDiscover \/ RecvListed \/ Handler \/ Tick
  <2>1. CASE RecvEmpty \/ Pause \/ ScanNext \/ ScanEnd \/ RecvStranger \/ RecvDiscoverNoIP
    BY <2>1 DEF RecvEmpty, Pause, ScanNext, ScanEnd, RecvStranger, RecvDiscoverNoIP,
                Receives, At, Goto, lists
  <2>2. CASE Die \/ Arrive \/ UNCHANGED vars
    BY <2>2 DEF Die, Arrive, vars, lists, control
  <2> QED  BY <2>1, <2>2 DEF Next, Main, WaitEvent
<1> QED  BY <1>1, <1>2, <1>3, <1>4, <1>5, <1>6, <1>7, <1>8, <1>9 DEF Handler
-----------------------------------------------------------------------------
(* The theorems *)

LEMMA LeaseAlways == Spec => [](Typed /\ LeaseInv)
<1>1. Spec => []Typed
  BY TypeCorrect, PTL DEF Typed
<1> QED  BY <1>1, LeaseInit, LeaseStep, PTL DEF Spec

\* main finds a row of ptab for every event, whatever peers send and however
\* ticks interleave: it never takes the exit(1) behind the loop over ptab.
THEOREM EventsHaveRows == Spec => []EveryEventHasRow
<1>1. LeaseInv => EveryEventHasRow
  BY DEF LeaseInv, EventInv, RowReady, Handlers, EveryEventHasRow, At
<1> QED  BY <1>1, LeaseAlways, PTL

\* wait_event never meets a record in INIT_STATE, the case that the comment
\* of mydhcpd.c:376 hopes not to see.
THEOREM NoneInitOnReceive == Spec => []NoInitOnReceive
<1>1. LeaseInv => NoInitOnReceive
  BY DEF LeaseInv, EventInv, NewOnly, NoInitOnReceive, At
<1> QED  BY <1>1, LeaseAlways, PTL-----------------------------------------------------------------------------
(* Leases *)

\* Only f_act5 and f_act7 end a record, and only the one at pc.
LEMMA RecordsStay ==
  ASSUME Typed, LeaseInv, [Next]_vars, ~f_act5, ~f_act7, NEW i \in DOMAIN clients
  PROVE  i \in DOMAIN clients' /\ clients'[i].id = clients[i].id
<1>1. CASE RecvDiscover
  <2>1. clients' = Append(clients, NewRecord)
    BY <1>1 DEF RecvDiscover, insert_client_list
  <2> QED  BY <2>1, ClientsShape, LenProperties
<1>2. CASE RecvListed
  BY <1>2, ListedKeeps DEF lists, LeaseInv, EventInv
<1>3. CASE f_act1 \/ f_act3 \/ f_act4 \/ f_act6
  BY <1>3, Rewrites
<1>4. CASE Tick
  BY <1>4, TickMoves
<1>5. CASE UNCHANGED clients
  BY <1>5
<1> QED  BY <1>1, <1>2, <1>3, <1>4, <1>5
         DEF Next, Main, WaitEvent, Handler, RecvEmpty, Pause, RecvStranger, RecvDiscoverNoIP,
             ScanTimeout, ScanNext, ScanEnd, Die, Arrive, lists, vars

\* A record is found under its own id only.
LEMMA FoundById ==
  ASSUME Typed, NEW p \in Peers
  PROVE  \A i \in DOMAIN clients : i \in Found(p) <=> clients[i].id = p
<1>1. \A i \in DOMAIN clients : clients[i].id \in Peers
  BY ClientsShape DEF Records
<1> QED  BY <1>1 DEF Found, Peers

\* The step that ends a lease.
LEMMA LeaseEnds ==
  ASSUME Typed, LeaseInv, [Next]_vars, Typed', NEW p \in Peers,
         NEW i \in Found(p), clients[i].state = "IN_USE", Found(p)' = {}
  PROVE  event \in {"RECV_RELE", "RECV_UNKN", "RECV_UNEX"} \/ sinceAck[p] > TTL
<1>1. i \in DOMAIN clients /\ clients[i].id = p
  BY FoundById DEF Found
<1>2. \A k \in DOMAIN clients' : clients'[k].id.ip # p.ip \/ clients'[k].id.port # p.port
  BY DEF Found
<1>3. f_act5 \/ f_act7
  BY <1>1, <1>2, RecordsStay
<1>4. PICK f \in {"f_act5", "f_act7"} : Dispatched(f) /\ terminate(pc)
  BY <1>3 DEF f_act5, f_act7
<1>5. pc \in DOMAIN clients /\ loc = "dispatch"
  BY <1>4, DispatchedType DEF Dispatched, At
<1>6. i = pc
  BY <1>1, <1>2, <1>4, <1>5, Ends
<1>7. <<"IN_USE", event, f>> \in ptab
  BY <1>4, <1>6 DEF Dispatched
<1>8. event \in {"RECV_RELE", "USE_TOUT", "RECV_UNKN", "RECV_UNEX"}
  BY <1>4, <1>7 DEF ptab, ptab_Rows
<1>9. CASE event = "USE_TOUT"
  <2>1. clients[i].ttlcounter < 0 /\ clients[i].ttlcounter + sinceAck[p] = TTL
    BY <1>1, <1>5, <1>6, <1>9 DEF LeaseInv, CounterInStep, TimedOut
  <2>2. clients[i].ttlcounter \in -1..TTL /\ sinceAck[p] \in 0..TTL + 1
    BY <1>1, ClientsShape DEF Records, Typed, TypeOK
  <2> QED  BY <2>1, <2>2, TTLAssumption
<1> QED  BY <1>8, <1>9

\* A lease in use ends at its client's RELEASE, on a message out of protocol,
\* or when more than TTL ticks have passed since the last ACK.
THEOREM LeasesNotCutShort == Spec => LeaseNotCutShort
<1>1. Typed /\ LeaseInv /\ Typed' /\ [Next]_vars =>
        [ \A p \in Peers :
            (\E i \in Found(p) : clients[i].state = "IN_USE") /\ Found(p)' = {} =>
               event \in {"RECV_RELE", "RECV_UNKN", "RECV_UNEX"} \/ sinceAck[p] > TTL ]_vars
  BY LeaseEnds
<1> QED  BY <1>1, LeaseAlways, PTL DEF Spec, LeaseNotCutShort
-----------------------------------------------------------------------------
(* Whose record a step changes *)

Owner == IF loc = "dispatch" THEN clients[pc].id ELSE Sender

\* Record d is all that c was to its peer.
SameLease(c, d) == d.id = c.id /\ d.state = c.state /\ d.pa = c.pa

\* Everybody's records but the owner's survive, and no others appear.
LEMMA OthersStay ==
  ASSUME Typed, LeaseInv, [Next]_vars
  PROVE  /\ \A i \in DOMAIN clients : clients[i].id # Owner =>
                \E k \in DOMAIN clients' : SameLease(clients[i], clients'[k])
         /\ \A k \in DOMAIN clients' : clients'[k].id # Owner =>
                \E i \in DOMAIN clients : SameLease(clients[i], clients'[k])
<1> USE DEF SameLease
<1>1. CASE RecvDiscover
  <2>1. clients' = Append(clients, NewRecord) /\ loc = "recv"
    BY <1>1 DEF RecvDiscover, insert_client_list, Receives, At
  <2>2. NewRecord.id = Owner
    BY <2>1 DEF NewRecord, Owner
  <2>3. /\ DOMAIN clients' = 1..Len(clients) + 1 /\ clients'[Len(clients) + 1] = NewRecord
        /\ \A i \in DOMAIN clients : clients'[i] = clients[i]
        /\ Len(clients) \in Nat /\ DOMAIN clients = 1..Len(clients)
    BY <2>1, ClientsShape, LenProperties DEF Typed, TypeOK
  <2>4. DOMAIN clients' = DOMAIN clients \cup {Len(clients) + 1}
    BY <2>3
  <2> QED  BY <2>2, <2>3, <2>4
<1>2. CASE f_act5 \/ f_act7
  <2>1. PICK f : Dispatched(f) /\ terminate(pc)
    BY <1>2 DEF f_act5, f_act7
  <2>2. pc \in DOMAIN clients /\ Owner = clients[pc].id
    BY <2>1, DispatchedType DEF Dispatched, At, Owner
  <2> QED  BY <2>1, <2>2, Ends
<1>3. CASE f_act1 \/ f_act3 \/ f_act4 \/ f_act6
  <2>1. /\ pc \in DOMAIN clients /\ Owner = clients[pc].id /\ clients'[pc].id = clients[pc].id
        /\ DOMAIN clients' = DOMAIN clients
        /\ \A j \in DOMAIN clients \ {pc} : clients'[j] = clients[j]
    BY <1>3, Rewrites DEF Owner
  <2> QED  BY <2>1
<1>4. CASE Tick
  BY <1>4, TickMoves
<1>5. CASE RecvListed
  BY <1>5, ListedKeeps DEF lists, LeaseInv, EventInv
<1>6. CASE UNCHANGED clients
  BY <1>6
<1> QED  BY <1>1, <1>2, <1>3, <1>4, <1>5, <1>6
         DEF Next, Main, WaitEvent, Handler, RecvEmpty, Pause, RecvStranger, RecvDiscoverNoIP,
             ScanTimeout, ScanNext, ScanEnd, Die, Arrive, lists, vars

\* A message is dispatched on its sender's record.
LEMMA SendersRecord ==
  ASSUME Typed, LeaseInv, [Next]_vars, At("recv"), loc' = "dispatch"
  PROVE  clients'[pc'].id = Sender
<1>1. RecvDiscover \/ RecvListed
  BY DEF Next, Main, WaitEvent, Handler, RecvEmpty, Pause, RecvStranger, RecvDiscoverNoIP,
         ScanTimeout, ScanNext, ScanEnd, Die, Arrive, Tick, control, vars, At, Goto,
         f_act1, f_act3, f_act4, f_act5, f_act6, f_act7, Dispatched
<1>2. CASE RecvDiscover
  <2>1. clients' = Append(clients, NewRecord) /\ pc' = Len(clients) + 1
    BY <1>2 DEF RecvDiscover, insert_client_list, Return
  <2> QED  BY <2>1, ClientsShape, LenProperties DEF NewRecord, Typed, TypeOK
<1>3. CASE RecvListed
  BY <1>3, ListedKeeps DEF lists, LeaseInv, EventInv
<1> QED  BY <1>1, <1>2, <1>3

\* So nothing that is held for another peer changes.
LEMMA OthersKeep ==
  ASSUME Typed, LeaseInv, [Next]_vars, Typed', NEW p \in Peers, p # Owner
  PROVE  Held(p)' = Held(p)
<1>1. \A i \in DOMAIN clients : i \in Found(p) <=> clients[i].id = p
  BY FoundById
<1>2. \A k \in DOMAIN clients' : k \in Found(p)' <=> clients'[k].id = p
  <2>1. \A k \in DOMAIN clients' : clients'[k] \in Records
    BY LenProperties, ElementOfSeq DEF Typed, TypeOK
  <2>2. \A k \in DOMAIN clients' : clients'[k].id \in Peers
    BY <2>1 DEF Records
  <2> QED  BY <2>2 DEF Found, Peers
<1>3. Found(p) \subseteq DOMAIN clients /\ Found(p)' \subseteq DOMAIN clients'
  BY DEF Found
<1>4. \A i \in Found(p) : \E k \in Found(p)' : SameLease(clients[i], clients'[k])
  BY <1>1, <1>2, <1>3, OthersStay DEF SameLease
<1>5. \A k \in Found(p)' : \E i \in Found(p) : SameLease(clients[i], clients'[k])
  BY <1>1, <1>2, <1>3, OthersStay DEF SameLease
<1>6. Held(p) = {[state |-> clients[i].state, pa |-> clients[i].pa] : i \in Found(p)}
  BY DEF Held
<1>7. Held(p)' = {[state |-> clients'[k].state, pa |-> clients'[k].pa] : k \in Found(p)'}
  BY DEF Held
<1> QED  BY <1>4, <1>5, <1>6, <1>7 DEF SameLease

\* A step changes the lease of nobody but its owner: main never acts through
\* a pc that wait_event's own list operations have made stale.
THEOREM OwnersRecordOnly == Spec => OnlyOwnersRecord
<1>1. Typed /\ LeaseInv /\ Typed' /\ [Next]_vars =>
        [ /\ \A p \in Peers :
                Held(p)' # Held(p) => p = IF loc = "dispatch" THEN clients[pc].id ELSE Sender
          /\ At("recv") /\ loc' = "dispatch" => clients'[pc'].id = Sender ]_vars
  BY OthersKeep, SendersRecord DEF Owner
<1> QED  BY <1>1, LeaseAlways, PTL DEF Spec, OnlyOwnersRecord
===============================================================================
