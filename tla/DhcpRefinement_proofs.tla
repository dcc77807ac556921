------------------------ MODULE DhcpRefinement_proofs ------------------------
(***************************************************************************)
(* The server among arbitrary peers implements LeasePool, for every config *)
(* file, ttl, set of peers, buffer size and datagrams.                     *)
(***************************************************************************)
EXTENDS DhcpLease_proofs

\* The pool as the records show it.
Mirror ==
    /\ lineBar  = [p \in Peers |-> lineBar[p]]
    /\ phaseBar = [p \in Peers |-> phaseBar[p]]
    /\ \A i \in DOMAIN clients : /\ clients[i].id \in Peers
                                 /\ lineBar[clients[i].id] = clients[i].pa
                                 /\ phaseBar[clients[i].id] = PhaseOf[clients[i].state]
    /\ \A p \in Peers : (\A i \in DOMAIN clients : clients[i].id # p) =>
                            lineBar[p] = 0 /\ phaseBar[p] = "none"

LEMMA MirrorNow == Typed => Mirror
<1> SUFFICES ASSUME Typed PROVE Mirror
  OBVIOUS
<1>1. \A i \in DOMAIN clients : clients[i].id \in Peers /\ i # 0
  BY ClientsShape DEF Records
<1>2. ASSUME NEW p \in Peers
      PROVE  /\ search_client(p) = 0 => \A i \in DOMAIN clients : clients[i].id # p
             /\ search_client(p) # 0 => /\ search_client(p) \in DOMAIN clients
                                        /\ clients[search_client(p)].id = p
  BY SearchClient DEF Typed, TypeOK
<1>3. \A i \in DOMAIN clients : search_client(clients[i].id) = i
  BY <1>1, <1>2 DEF Typed, UniqueClients
<1>4. \A p \in Peers : (\A i \in DOMAIN clients : clients[i].id # p) => search_client(p) = 0
  BY <1>2
<1>5. /\ lineBar  = [p \in Peers |-> lineBar[p]]
      /\ phaseBar = [p \in Peers |-> phaseBar[p]]
  BY DEF lineBar, phaseBar
<1>6. \A i \in DOMAIN clients : /\ lineBar[clients[i].id] = clients[i].pa
                                /\ phaseBar[clients[i].id] = PhaseOf[clients[i].state]
  BY <1>1, <1>3 DEF lineBar, phaseBar
<1>7. \A p \in Peers : (\A i \in DOMAIN clients : clients[i].id # p) =>
                            lineBar[p] = 0 /\ phaseBar[p] = "none"
  BY <1>4 DEF lineBar, phaseBar
<1> QED  BY <1>1, <1>5, <1>6, <1>7 DEF Mirror

LEMMA MirrorNext == Typed' => Mirror'
BY MirrorNow, PTL
-----------------------------------------------------------------------------
(* Steps of the server as steps of the pool *)

Settled == Typed /\ LeaseInv /\ AddressAccounting

\* Only the owner's line and phase change.
LEMMA OwnerMoves ==
  ASSUME Settled, [Next]_vars, Mirror, Mirror', Owner \in Peers
  PROVE  /\ lineBar'  = [lineBar  EXCEPT ![Owner] = lineBar'[Owner]]
         /\ phaseBar' = [phaseBar EXCEPT ![Owner] = phaseBar'[Owner]]
<1>1. ASSUME NEW p \in Peers, p # Owner
      PROVE  lineBar'[p] = lineBar[p] /\ phaseBar'[p] = phaseBar[p]
  <2>1. CASE \E i \in DOMAIN clients : clients[i].id = p
    <3>1. PICK i \in DOMAIN clients : clients[i].id = p
      BY <2>1
    <3>2. PICK k \in DOMAIN clients' : SameLease(clients[i], clients'[k])
      BY <1>1, <3>1, OthersStay DEF Settled
    <3> QED  BY <3>1, <3>2 DEF Mirror, SameLease
  <2>2. CASE \A i \in DOMAIN clients : clients[i].id # p
    <3>1. \A k \in DOMAIN clients' : clients'[k].id # p
      BY <1>1, <2>2, OthersStay DEF Settled, SameLease
    <3> QED  BY <2>2, <3>1 DEF Mirror
  <2> QED  BY <2>1, <2>2
<1> QED  BY <1>1 DEF Mirror

\* Steps that leave every record its line and its phase.
LEMMA PoolStutters ==
  ASSUME Mirror, Mirror', DOMAIN clients' = DOMAIN clients,
         \A i \in DOMAIN clients : /\ clients'[i].id = clients[i].id
                                   /\ clients'[i].pa = clients[i].pa
                                   /\ PhaseOf[clients'[i].state] = PhaseOf[clients[i].state]
  PROVE  lineBar' = lineBar /\ phaseBar' = phaseBar
<1>1. ASSUME NEW p \in Peers
      PROVE  lineBar'[p] = lineBar[p] /\ phaseBar'[p] = phaseBar[p]
  <2>1. CASE \E i \in DOMAIN clients : clients[i].id = p
    <3>1. PICK i \in DOMAIN clients : clients[i].id = p
      BY <2>1
    <3> QED  BY <3>1 DEF Mirror
  <2>2. CASE \A i \in DOMAIN clients : clients[i].id # p
    BY <2>2 DEF Mirror
  <2> QED  BY <2>1, <2>2
<1> QED  BY <1>1 DEF Mirror

LEMMA OfferStep ==
  ASSUME Settled, RecvDiscover, Mirror, Mirror'
  PROVE  Pool!Offer(Sender)
<1>1. /\ Receives /\ Sender \in Peers /\ search_client(Sender) = 0 /\ free # << >>
      /\ clients' = Append(clients, NewRecord) /\ Owner = Sender
  BY ReceiveType DEF Settled, RecvDiscover, insert_client_list, Owner, Receives, At
<1>2. \A i \in DOMAIN clients : clients[i].id # Sender
  BY <1>1, SearchClient DEF Settled, Typed, TypeOK
<1>3. lineBar[Sender] = 0 /\ phaseBar[Sender] = "none"
  BY <1>1, <1>2 DEF Mirror
<1>4. LET n == Len(clients) + 1 IN n \in DOMAIN clients' /\ clients'[n] = NewRecord
  BY <1>1, ClientsShape, LenProperties DEF Settled, Typed, TypeOK
<1>5. lineBar'[Sender] = Head(free) /\ phaseBar'[Sender] = "offered"
  BY <1>4 DEF Mirror, NewRecord, PhaseOf
<1>6. Head(free) = free[1] /\ 1 \in DOMAIN free /\ free[1] \in Nodes
  BY <1>1, HeadTailProperties, LenProperties, ElementOfSeq DEF Settled, Typed, TypeOK
<1>7. \A q \in Peers : lineBar[q] # Head(free)
  <2>1. 0 \notin Nodes
    BY DEF Nodes
  <2> QED  BY <1>6, <2>1 DEF Mirror, Settled, AddressAccounting, FreeNotHeld
<1>8. /\ lineBar'  = [lineBar  EXCEPT ![Sender] = Head(free)]
      /\ phaseBar' = [phaseBar EXCEPT ![Sender] = "offered"]
  BY <1>1, <1>5, OwnerMoves DEF Next, Main, WaitEvent
<1> QED  BY <1>3, <1>6, <1>7, <1>8 DEF Pool!Offer, Pool!Become

\* f_act3 and f_act4: the owner's phase moves on.
LEMMA PhaseStep ==
  ASSUME Settled, f_act3 \/ f_act4, Mirror, Mirror'
  PROVE  Pool!Grant(Owner) \/ Pool!Reoffer(Owner)
<1>1. /\ pc \in DOMAIN clients /\ Owner = clients[pc].id /\ DOMAIN clients' = DOMAIN clients
      /\ clients'[pc].id = clients[pc].id /\ clients'[pc].pa = clients[pc].pa
  BY Rewrites DEF Settled, Owner
<1>2. /\ lineBar[Owner] = clients[pc].pa /\ lineBar'[Owner] = clients[pc].pa
      /\ phaseBar[Owner] = PhaseOf[clients[pc].state]
      /\ phaseBar'[Owner] = PhaseOf[clients'[pc].state]
      /\ Owner \in Peers
  BY <1>1 DEF Mirror
<1>3. /\ lineBar'  = [lineBar  EXCEPT ![Owner] = lineBar'[Owner]]
      /\ phaseBar' = [phaseBar EXCEPT ![Owner] = phaseBar'[Owner]]
  BY <1>2, OwnerMoves DEF Next, Main, Handler
<1>4. lineBar' = lineBar
  BY <1>2, <1>3 DEF Mirror
<1>5. CASE f_act3
  <2>1. clients[pc].state \in {"WAIT_REQU", "REQU_TOUT"}
    BY <1>5 DEF f_act3, Dispatched, ptab, ptab_Rows
  <2>2. clients'[pc].state = "IN_USE"
    BY <1>1, <1>5, ClientsShape DEF f_act3, Settled, Records
  <2> QED  BY <1>2, <1>3, <1>4, <2>1, <2>2 DEF PhaseOf, Pool!Grant, Pool!Become
<1>6. CASE f_act4
  <2>1. clients[pc].state = "WAIT_REQU"
    BY <1>6 DEF f_act4, Dispatched, ptab, ptab_Rows
  <2>2. clients'[pc].state = "REQU_TOUT"
    BY <1>1, <1>6, ClientsShape DEF f_act4, Settled, Records
  <2> QED  BY <1>2, <1>3, <1>4, <2>1, <2>2 DEF PhaseOf, Pool!Reoffer, Pool!Become
<1> QED  BY <1>5, <1>6

LEMMA DropStep ==
  ASSUME Settled, f_act5 \/ f_act7, Mirror, Mirror'
  PROVE  Owner \in Peers /\ Pool!Drop(Owner)
<1>1. PICK f : Dispatched(f) /\ terminate(pc)
  BY DEF f_act5, f_act7
<1>2. pc \in DOMAIN clients /\ Owner = clients[pc].id
  BY <1>1, DispatchedType DEF Settled, Dispatched, At, Owner
<1>3. Owner \in Peers /\ phaseBar[Owner] = PhaseOf[clients[pc].state]
  BY <1>2 DEF Mirror
<1>4. clients[pc].state \in ClientStates
  BY <1>2, ClientsShape DEF Settled, Records
<1>5. phaseBar[Owner] # "none"
  BY <1>3, <1>4 DEF PhaseOf, ClientStates
<1>6. \A k \in DOMAIN clients' : clients'[k].id # Owner
  BY <1>1, <1>2, Ends DEF Settled, Typed, UniqueClients
<1>7. lineBar'[Owner] = 0 /\ phaseBar'[Owner] = "none"
  BY <1>3, <1>6 DEF Mirror
<1>8. /\ lineBar'  = [lineBar  EXCEPT ![Owner] = 0]
      /\ phaseBar' = [phaseBar EXCEPT ![Owner] = "none"]
  BY <1>3, <1>7, OwnerMoves DEF Next, Main, Handler
<1> QED  BY <1>3, <1>5, <1>8 DEF Pool!Drop, Pool!Become, Pool!NoLine

\* Every other step.
LEMMA OtherSteps ==
  ASSUME Settled, [Next]_vars, ~RecvDiscover, ~Handler \/ f_act1 \/ f_act6, Mirror, Mirror'
  PROVE  lineBar' = lineBar /\ phaseBar' = phaseBar
<1>1. CASE f_act1 \/ f_act6
  <2>1. /\ pc \in DOMAIN clients /\ DOMAIN clients' = DOMAIN clients
        /\ clients'[pc].id = clients[pc].id /\ clients'[pc].pa = clients[pc].pa
        /\ \A j \in DOMAIN clients \ {pc} : clients'[j] = clients[j]
    BY <1>1, Rewrites DEF Settled
  <2>2. PhaseOf[clients'[pc].state] = PhaseOf[clients[pc].state]
    <3>1. CASE f_act1
      <4>1. clients[pc].state = "INIT"
        BY <3>1 DEF f_act1, Dispatched, ptab, ptab_Rows
      <4>2. clients'[pc].state = "WAIT_REQU"
        BY <2>1, <3>1, ClientsShape DEF f_act1, Settled, Records
      <4> QED  BY <4>1, <4>2 DEF PhaseOf
    <3>2. CASE f_act6
      BY <2>1, <3>2, ClientsShape DEF f_act6, Settled, Records
    <3> QED  BY <1>1, <3>1, <3>2
  <2> QED  BY <2>1, <2>2, PoolStutters
<1>2. CASE Tick
  BY <1>2, TickMoves, PoolStutters DEF Settled
<1>3. CASE RecvListed
  BY <1>3, ListedKeeps, PoolStutters DEF lists, Settled, LeaseInv, EventInv
<1>4. CASE UNCHANGED clients
  BY <1>4, PoolStutters
<1> QED  BY <1>1, <1>2, <1>3, <1>4
         DEF Next, Main, WaitEvent, RecvEmpty, Pause, RecvStranger, RecvDiscoverNoIP,
             ScanTimeout, ScanNext, ScanEnd, Die, Arrive, lists, vars
LEMMA PoolInit == Init => Pool!Init
<1> SUFFICES ASSUME Init PROVE Pool!Init
  OBVIOUS
<1>1. Mirror /\ DOMAIN clients = {}
  BY InitState, MirrorNow DEF Typed, Init
<1> QED  BY <1>1 DEF Mirror, Pool!Init, Pool!NoLine

\* A step of the server is one of the pool, or leaves it alone.
LEMMA PoolStep ==
  ASSUME Settled, Typed', [Next]_vars
  PROVE  [Pool!Next]_(Pool!vars)
<1>1. Mirror /\ Mirror'
  BY MirrorNow, MirrorNext DEF Settled
<1>2. CASE RecvDiscover
  BY <1>1, <1>2, OfferStep, ReceiveType DEF Pool!Next, RecvDiscover, Settled
<1>3. CASE f_act3 \/ f_act4
  <2>1. Owner \in Peers
    BY <1>1, <1>3, Rewrites DEF Mirror, Owner, Settled
  <2> QED  BY <1>1, <1>3, <2>1, PhaseStep DEF Pool!Next
<1>4. CASE f_act5 \/ f_act7
  BY <1>1, <1>4, DropStep DEF Pool!Next
<1>5. CASE ~RecvDiscover /\ (~Handler \/ f_act1 \/ f_act6)
  BY <1>1, <1>5, OtherSteps DEF Pool!vars
<1> QED  BY <1>2, <1>3, <1>4, <1>5 DEF Handler
-----------------------------------------------------------------------------
\* Whatever peers send and however ticks fall, the list and timer machinery of
\* mydhcpd.c does nothing but offer, offer again, grant and take back lines,
\* each line to one peer at a time.
THEOREM ServerImplementsPool == Spec => ImplementsLeasePool
<1>1. Spec => []Settled
  BY LeaseAlways, AddressesAccounted, PTL DEF Settled
<1>2. Settled => Typed
  BY DEF Settled
<1> QED  BY <1>1, <1>2, PoolInit, PoolStep, PTL DEF Spec, ImplementsLeasePool, Pool!Spec
=============================================================================
