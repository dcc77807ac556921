----------------------------- MODULE Dhcp_proofs -----------------------------
(***************************************************************************)
(* The server and its clients agree (Dhcp!SystemSpec): for every number of *)
(* clients, every config file, every size of the receive buffers and every *)
(* ttl, although datagrams are lost and overtake each other.  What the     *)
(* server's own steps do to its lists is taken from the proofs about       *)
(* DhcpServer; their constant Datagrams plays no part here.                *)
(***************************************************************************)
EXTENDS Dhcp, DhcpReplies_proofs, DhcpRefinement_proofs

-----------------------------------------------------------------------------
(* The invariant *)

\* States of a client that has accepted an OFFER, and of one that has not.
Late   == Client!Acking \cup {"IN_USE"}
Before == {"OFF", "WAIT_OFFER", "OFFER_TOUT"}

\* What a line of the config file says, and the messages that promise it.
Terms      == [address : Addrs, netmask : Addrs]
IsLease(m) == m.type \in {"OFFER", "ACK"} /\ m.code = 0
Names(m, a) == m.address = a.address /\ m.netmask = a.netmask /\ m.ttl <= TTL

\* The datagrams of p, of type t, that the server has not read.
From(p, t) == {k \in DOMAIN srvq : srvq[k].src = p /\ srvq[k].msg.type = t}

NoRecord(p) == \A i \in DOMAIN clients : clients[i].id # p
Fresh(p)    == NoRecord(p) /\ \A k \in DOMAIN cliq[p] : ~IsLease(cliq[p][k])
OnlyOne(p)  == \A i, j \in From(p, "DISCOVER") : i = j

\* Whatever speaks of a lease of p says a: its record, the messages on their
\* way to it, the buffer it builds its requests from, and those requests.
Agreed(p, a) ==
    /\ \A i \in DOMAIN clients : clients[i].id = p => Config[clients[i].pa] = a
    /\ \A k \in DOMAIN cliq[p] : IsLease(cliq[p][k]) => Names(cliq[p][k], a)
    /\ cstate[p] \in Late => Names(recvd[p], a)
    /\ \A k \in From(p, "REQUEST") : Names(srvq[k].msg, a)

\* Until it has accepted an OFFER a client sends nothing but DISCOVERs, so its
\* record is not in use.
Asking(p) ==
    cstate[p] \in Before =>
        /\ \A k \in DOMAIN srvq : srvq[k].src = p => srvq[k].msg.type = "DISCOVER"
        /\ \A i \in DOMAIN clients : clients[i].id = p => clients[i].state # "IN_USE"

\* A client that will accept an OFFER has sent one DISCOVER only; as long as
\* the server has not read it there is nothing to accept.
FirstOffer(p) ==
    /\ cstate[p] = "OFF" => Fresh(p) /\ \A k \in DOMAIN srvq : srvq[k].src # p
    /\ cstate[p] = "WAIT_OFFER" => /\ OnlyOne(p)
                                   /\ From(p, "DISCOVER") # {} => Fresh(p)

\* So there is one lease in question, and no DISCOVER will open another record.
Accepted(p) == cstate[p] \in Late \/ From(p, "REQUEST") # {}
OneLease(p) ==
    /\ Accepted(p) => From(p, "DISCOVER") = {}
    /\ cstate[p] = "WAIT_OFFER" \/ Accepted(p) => \E a \in Terms : Agreed(p, a)

PeerInv(p) == Asking(p) /\ FirstOffer(p) /\ OneLease(p)

\* The event that is being dispatched was right when it was read, and still is.
Dispatching ==
    loc = "dispatch" => /\ event # "RECV_WRONG_REQU_ALLOC"
                        /\ event = "RECV_REQU_ALLOC" => cstate[clients[pc].id] \notin Before

CStates == Client!Running \cup {"OFF", "EXITED"}

SystemTyped == /\ Typed
               /\ cstate \in [Peers -> CStates]
               /\ recvd \in [Peers -> Messages]

AgreeInv == /\ SystemTyped
            /\ \A p \in Peers : PeerInv(p)
            /\ Dispatching

-----------------------------------------------------------------------------
(* What a step leaves as it is, for one peer *)

\* p gets no new record, and its record is not in use all of a sudden.
RecordsKept(p) ==
    \A i \in DOMAIN clients' : clients'[i].id = p =>
        \E j \in DOMAIN clients :
            /\ clients[j].id = p /\ clients'[i].pa = clients[j].pa
            /\ clients'[i].state = "IN_USE" => clients[j].state = "IN_USE" \/ cstate[p] \notin Before

\* Nothing is promised to p but what its record holds.
PromisesKept(p) ==
    \A k \in DOMAIN cliq'[p] : IsLease(cliq'[p][k]) =>
        \/ \E j \in DOMAIN cliq[p] : cliq'[p][k] = cliq[p][j]
        \/ \E i \in DOMAIN clients : /\ clients[i].id = p
                                     /\ Names(cliq'[p][k], Config[clients[i].pa])

\* The server has no datagram of p that it did not have.
NothingNew(p) ==
    /\ \A k \in DOMAIN srvq' : srvq'[k].src = p => \E j \in DOMAIN srvq : srvq[j] = srvq'[k]
    /\ OnlyOne(p) => OnlyOne(p)'

LEMMA StillAgreed ==
  ASSUME NEW p \in Peers, NEW a, Agreed(p, a), RecordsKept(p), PromisesKept(p),
         cstate'[p] \in Late => Names(recvd'[p], a),
         \A k \in From(p, "REQUEST")' : Names(srvq'[k].msg, a)
  PROVE  Agreed(p, a)'
<1>1. \A i \in DOMAIN clients' : clients'[i].id = p => Config[clients'[i].pa] = a
  BY DEF Agreed, RecordsKept
<1>2. \A k \in DOMAIN cliq'[p] : IsLease(cliq'[p][k]) => Names(cliq'[p][k], a)
  BY DEF Agreed, PromisesKept
<1> QED  BY <1>1, <1>2 DEF Agreed

LEMMA StillFresh ==
  ASSUME NEW p \in Peers, Fresh(p), RecordsKept(p), PromisesKept(p)
  PROVE  Fresh(p)'
BY DEF Fresh, NoRecord, RecordsKept, PromisesKept

\* A peer about whom nothing is new.
LEMMA Bystander ==
  ASSUME NEW p \in Peers, PeerInv(p), RecordsKept(p), PromisesKept(p), NothingNew(p),
         cstate'[p] = cstate[p], recvd'[p] = recvd[p]
  PROVE  PeerInv(p)'
<1>1. \A t : From(p, t)' # {} => From(p, t) # {}
  BY DEF From, NothingNew
<1>2. Asking(p)'
  BY DEF PeerInv, Asking, RecordsKept, NothingNew
<1>3. FirstOffer(p)'
  <2>1. cstate'[p] = "OFF" => Fresh(p)' /\ \A k \in DOMAIN srvq' : srvq'[k].src # p
    BY StillFresh DEF PeerInv, FirstOffer, NothingNew
  <2>2. cstate'[p] = "WAIT_OFFER" => OnlyOne(p)'
    BY DEF PeerInv, FirstOffer, NothingNew
  <2>3. cstate'[p] = "WAIT_OFFER" /\ From(p, "DISCOVER")' # {} => Fresh(p)'
    BY <1>1, StillFresh DEF PeerInv, FirstOffer
  <2> QED  BY <2>1, <2>2, <2>3 DEF FirstOffer
<1>4. OneLease(p)'
  <2>1. Accepted(p)' => Accepted(p)
    BY <1>1 DEF Accepted
  <2>2. Accepted(p)' => From(p, "DISCOVER")' = {}
    BY <1>1, <2>1 DEF PeerInv, OneLease
  <2>3. ASSUME cstate'[p] = "WAIT_OFFER" \/ Accepted(p)'
        PROVE  \E a \in Terms : Agreed(p, a)'
    <3>1. PICK a \in Terms : Agreed(p, a)
      BY <2>1, <2>3 DEF PeerInv, OneLease
    <3>2. \A k \in From(p, "REQUEST")' : Names(srvq'[k].msg, a)
      BY <3>1 DEF From, NothingNew, Agreed
    <3>3. cstate'[p] \in Late => Names(recvd'[p], a)
      BY <3>1 DEF Agreed
    <3> QED  BY <3>1, <3>2, <3>3, StillAgreed
  <2> QED  BY <2>2, <2>3 DEF OneLease
<1> QED  BY <1>2, <1>3, <1>4 DEF PeerInv

\* A client that ends, with a RELEASE or without.
LEMMA Leaving ==
  ASSUME NEW p \in Peers, PeerInv(p), RecordsKept(p), PromisesKept(p),
         \A k \in DOMAIN srvq' : srvq'[k].src = p =>
            srvq'[k].msg.type = "RELEASE" \/ \E j \in DOMAIN srvq : srvq[j] = srvq'[k],
         cstate'[p] = "EXITED"
  PROVE  PeerInv(p)'
<1>1. \A t \in {"DISCOVER", "REQUEST"} : From(p, t)' # {} => From(p, t) # {}
  BY DEF From
<1>2. cstate'[p] \notin Before \cup Late
  BY DEF Before, Late, Client!Acking
<1>3. Asking(p)' /\ FirstOffer(p)'
  BY <1>2 DEF Asking, FirstOffer, Before
<1>4. Accepted(p)' => From(p, "REQUEST")' # {} /\ From(p, "REQUEST") # {} /\ Accepted(p)
  BY <1>1, <1>2 DEF Accepted
<1>5. Accepted(p)' => From(p, "DISCOVER")' = {}
  BY <1>1, <1>4 DEF PeerInv, OneLease
<1>6. ASSUME Accepted(p)'
      PROVE  \E a \in Terms : Agreed(p, a)'
  <2>1. PICK a \in Terms : Agreed(p, a)
    BY <1>4, <1>6 DEF PeerInv, OneLease
  <2>2. \A k \in From(p, "REQUEST")' : Names(srvq'[k].msg, a)
    BY <2>1 DEF From, Agreed
  <2> QED  BY <1>2, <2>1, <2>2, StillAgreed
<1> QED  BY <1>2, <1>3, <1>5, <1>6 DEF PeerInv, OneLease, Before

-----------------------------------------------------------------------------
(* Sending *)

\* r is q, and perhaps m at n: old tells where each of the others was.
Moved(r, q, m, n, old) ==
    /\ \A j \in DOMAIN r : j # n => old[j] \in DOMAIN q /\ r[j] = q[old[j]]
    /\ n \in DOMAIN r => r[n] = m
    /\ \A i, j \in DOMAIN r : i # n /\ j # n /\ old[i] = old[j] => i = j

\* A message that is sent gets lost, or gets a place; the others only move up.
LEMMA Delivered ==
  ASSUME NEW S, NEW q \in Seq(S), NEW m \in S, NEW r \in Transmit(q, m)
  PROVE  r \in Seq(S) /\ \E n, old : Moved(r, q, m, n, old)
<1>0. Len(q) \in Nat /\ DOMAIN q = 1..Len(q)
  BY LenProperties
<1>1. CASE r = q
  <2> DEFINE old == [j \in DOMAIN q |-> j]
  <2>1. 0 \notin DOMAIN r
    BY <1>0, <1>1
  <2>2. \A j \in DOMAIN r : old[j] \in DOMAIN q /\ r[j] = q[old[j]]
    BY <1>1
  <2>3. \A i, j \in DOMAIN r : old[i] = old[j] => i = j
    BY <1>1
  <2> HIDE DEF old
  <2>4. Moved(r, q, m, 0, old)
    BY <2>1, <2>2, <2>3 DEF Moved
  <2> QED  BY <1>1, <2>4
<1>2. ASSUME NEW i \in 1..Len(q) + 1, r = InsertAt(q, i, m)
      PROVE  r \in Seq(S) /\ \E n, old : Moved(r, q, m, n, old)
  <2> DEFINE old == [j \in DOMAIN r |-> IF j < i THEN j ELSE j - 1]
  <2>1. r \in Seq(S)
    BY <1>2, InsertAtType
  <2>2. i \in DOMAIN r /\ r[i] = m /\ RemoveAt(r, i) = q
    BY <1>2, InsertThenRemove
  <2>3. Len(r) \in Nat /\ DOMAIN r = 1..Len(r)
    BY <2>1, LenProperties
  <2>4. /\ Len(q) = Len(r) - 1
        /\ \A j \in 1..Len(r) - 1 : q[j] = IF j < i THEN r[j] ELSE r[j + 1]
    BY <2>1, <2>2, <2>3, RemoveAtProperties
  <2>5. ASSUME NEW j \in DOMAIN r, j # i
        PROVE  old[j] \in DOMAIN q /\ r[j] = q[old[j]]
    <3>1. CASE j < i
      <4>1. old[j] = j /\ j \in 1..Len(r) - 1
        BY <2>2, <2>3, <2>5, <3>1
      <4> QED  BY <1>0, <2>4, <3>1, <4>1
    <3>2. CASE ~(j < i)
      <4>1. old[j] = j - 1 /\ j - 1 \in 1..Len(r) - 1 /\ ~(j - 1 < i)
        BY <2>2, <2>3, <2>5, <3>2
      <4>2. q[j - 1] = r[(j - 1) + 1] /\ (j - 1) + 1 = j
        BY <2>3, <2>4, <4>1
      <4> QED  BY <1>0, <2>4, <4>1, <4>2
    <3> QED  BY <3>1, <3>2
  <2>6. \A k, j \in DOMAIN r : k # i /\ j # i /\ old[k] = old[j] => k = j
    BY <2>2, <2>3
  <2> HIDE DEF old
  <2>7. Moved(r, q, m, i, old)
    BY <2>2, <2>5, <2>6 DEF Moved
  <2> QED  BY <2>1, <2>7
<1> QED  BY <1>1, <1>2 DEF Transmit

Datagram == [src : Peers, msg : Messages]

\* One datagram m of p may have been added.
OneNew(p, m) ==
    \A k \in DOMAIN srvq' : srvq'[k].src = p =>
        srvq'[k].msg = m \/ \E j \in DOMAIN srvq : srvq[j] = srvq'[k]

LEMMA ClientSends ==
  ASSUME srvq \in Seq(Datagram), NEW p \in Peers, NEW m \in Messages,
         srvq' \in Transmit(srvq, [src |-> p, msg |-> m])
  PROVE  /\ srvq' \in Seq(Datagram)
         /\ OneNew(p, m)
         /\ (\A k \in DOMAIN srvq : srvq[k].src # p) => OnlyOne(p)'
         /\ \A q \in Peers \ {p} : NothingNew(q)
<1> DEFINE d == [src |-> p, msg |-> m]
<1>1. d \in Datagram
  BY DEF Datagram
<1>2. srvq' \in Seq(Datagram) /\ \E n, old : Moved(srvq', srvq, d, n, old)
  BY <1>1, Delivered
<1>3. PICK n, old :
            /\ \A j \in DOMAIN srvq' : j # n => old[j] \in DOMAIN srvq /\ srvq'[j] = srvq[old[j]]
            /\ n \in DOMAIN srvq' => srvq'[n] = d
            /\ \A i, j \in DOMAIN srvq' : i # n /\ j # n /\ old[i] = old[j] => i = j
  BY <1>2 DEF Moved
<1>4. OneNew(p, m)
  BY <1>3 DEF OneNew
<1>5. ASSUME \A k \in DOMAIN srvq : srvq[k].src # p
      PROVE  OnlyOne(p)'
  BY <1>3, <1>5 DEF OnlyOne, From
<1>6. ASSUME NEW q \in Peers \ {p}
      PROVE  NothingNew(q)
  <2>1. \A k \in DOMAIN srvq' : srvq'[k].src = q =>
           k # n /\ old[k] \in DOMAIN srvq /\ srvq'[k] = srvq[old[k]]
    BY <1>3
  <2>2. ASSUME OnlyOne(q), NEW i \in From(q, "DISCOVER")', NEW j \in From(q, "DISCOVER")'
        PROVE  i = j
    <3>1. /\ i # n /\ old[i] \in From(q, "DISCOVER")
          /\ j # n /\ old[j] \in From(q, "DISCOVER")
          /\ i \in DOMAIN srvq' /\ j \in DOMAIN srvq'
      BY <2>1 DEF From
    <3>2. old[i] = old[j]
      BY <2>2, <3>1 DEF OnlyOne
    <3> QED  BY <1>3, <3>1, <3>2
  <2> QED  BY <2>1, <2>2 DEF NothingNew, OnlyOne
<1> QED  BY <1>2, <1>4, <1>5, <1>6

\* The server's only way to change its own buffer.
LEMMA Reading ==
  ASSUME srvq \in Seq(Datagram), NEW p \in Peers,
         srvq' = srvq \/ (srvq # << >> /\ srvq' = Tail(srvq))
  PROVE  NothingNew(p)
<1>1. CASE srvq' = srvq
  BY <1>1 DEF NothingNew, OnlyOne, From
<1>2. CASE srvq # << >> /\ srvq' = Tail(srvq)
  <2>0. Len(srvq) \in Nat /\ DOMAIN srvq = 1..Len(srvq)
    BY LenProperties
  <2>1. /\ srvq' \in Seq(Datagram) /\ Len(srvq') = Len(srvq) - 1
        /\ \A k \in 1..Len(srvq') : srvq'[k] = srvq[k + 1]
    BY <1>2, HeadTailProperties
  <2>2. DOMAIN srvq' = 1..Len(srvq) - 1
    BY <2>1, LenProperties
  <2>3. \A k \in DOMAIN srvq' : k + 1 \in DOMAIN srvq /\ srvq'[k] = srvq[k + 1]
    BY <2>0, <2>1, <2>2
  <2>4. ASSUME OnlyOne(p), NEW i \in From(p, "DISCOVER")', NEW j \in From(p, "DISCOVER")'
        PROVE  i = j
    <3>1. i + 1 \in From(p, "DISCOVER") /\ j + 1 \in From(p, "DISCOVER")
      BY <2>3 DEF From
    <3>2. i + 1 = j + 1
      BY <2>4, <3>1 DEF OnlyOne
    <3>3. i \in Nat /\ j \in Nat
      BY <2>0, <2>2 DEF From
    <3> QED  BY <3>2, <3>3
  <2> QED  BY <2>3, <2>4 DEF NothingNew, OnlyOne
<1> QED  BY <1>1, <1>2

\* Likewise for a client, whose promises grow less.
LEMMA Hearing ==
  ASSUME cliq \in [Peers -> Seq(Messages)], NEW p \in Peers,
         cliq'[p] = cliq[p] \/ (cliq[p] # << >> /\ cliq'[p] = Tail(cliq[p]))
  PROVE  PromisesKept(p)
<1>1. CASE cliq'[p] = cliq[p]
  BY <1>1 DEF PromisesKept
<1>2. CASE cliq[p] # << >> /\ cliq'[p] = Tail(cliq[p])
  <2> DEFINE q == cliq[p]
             r == Tail(cliq[p])
  <2>0. q \in Seq(Messages)
    OBVIOUS
  <2>1. Len(q) \in Nat /\ DOMAIN q = 1..Len(q)
    BY <2>0, LenProperties
  <2>2. /\ r \in Seq(Messages) /\ Len(r) = Len(q) - 1
        /\ \A k \in 1..Len(r) : r[k] = q[k + 1]
    BY <1>2, <2>0, HeadTailProperties
  <2>3. DOMAIN r = 1..Len(q) - 1
    BY <2>2, LenProperties
  <2>4. \A k \in DOMAIN r : k + 1 \in DOMAIN q /\ r[k] = q[k + 1]
    BY <2>1, <2>2, <2>3
  <2> HIDE DEF q, r
  <2>5. cliq'[p] = r /\ cliq[p] = q
    BY <1>2 DEF q, r
  <2> QED  BY <2>4, <2>5 DEF PromisesKept
<1> QED  BY <1>1, <1>2

\* What the server sends to r promises what the record of r holds, or nothing.
LEMMA ServerSends ==
  ASSUME cliq \in [Peers -> Seq(Messages)], NEW r \in Peers, NEW m \in Messages,
         send_message(r, m),
         IsLease(m) => \E i \in DOMAIN clients : /\ clients[i].id = r
                                                 /\ Names(m, Config[clients[i].pa]),
         NEW p \in Peers
  PROVE  PromisesKept(p)
<1>1. PICK q \in Transmit(cliq[r], m) : cliq' = [cliq EXCEPT ![r] = q]
  BY DEF send_message
<1>2. CASE p # r
  <2>1. cliq'[p] = cliq[p]
    BY <1>1, <1>2
  <2> QED  BY <2>1 DEF PromisesKept
<1>3. CASE p = r
  <2>1. cliq'[p] = q
    BY <1>1, <1>3
  <2>2. PICK n, old : /\ \A j \in DOMAIN q : j # n => old[j] \in DOMAIN cliq[r] /\ q[j] = cliq[r][old[j]]
                      /\ n \in DOMAIN q => q[n] = m
    <3>1. cliq[r] \in Seq(Messages)
      OBVIOUS
    <3>2. \E n, old : Moved(q, cliq[r], m, n, old)
      BY <1>1, <3>1, Delivered
    <3> QED  BY <3>2 DEF Moved
  <2>3. ASSUME NEW k \in DOMAIN q, IsLease(q[k])
        PROVE  \/ \E j \in DOMAIN cliq[r] : q[k] = cliq[r][j]
               \/ \E i \in DOMAIN clients : clients[i].id = r /\ Names(q[k], Config[clients[i].pa])
    <3>1. CASE k = n
      BY <2>2, <2>3, <3>1
    <3>2. CASE k # n
      BY <2>2, <3>2
    <3> QED  BY <3>1, <3>2
  <2> QED  BY <1>3, <2>1, <2>3 DEF PromisesKept
<1> QED  BY <1>2, <1>3

-----------------------------------------------------------------------------
(* The server's steps *)

LEMMA ServerTypes ==
  ASSUME SystemTyped
  PROVE  /\ srvq \in Seq(Datagram) /\ cliq \in [Peers -> Seq(Messages)]
         /\ clients \in Seq(Records) /\ free \in Seq(Nodes)
         /\ Len(clients) \in Nat /\ DOMAIN clients = 1..Len(clients)
         /\ \A i \in DOMAIN clients : clients[i] \in Records /\ clients[i].id \in Peers
                                      /\ Config[clients[i].pa] \in Terms
<1>1. /\ srvq \in Seq(Datagram) /\ cliq \in [Peers -> Seq(Messages)]
      /\ clients \in Seq(Records) /\ free \in Seq(Nodes)
  BY DEF SystemTyped, Typed, TypeOK, Datagram
<1>2. Len(clients) \in Nat /\ DOMAIN clients = 1..Len(clients)
  BY <1>1, LenProperties
<1>3. ASSUME NEW i \in DOMAIN clients
      PROVE  /\ clients[i] \in Records /\ clients[i].id \in Peers
             /\ Config[clients[i].pa] \in Terms
  <2>1. clients[i] \in Records
    BY <1>1, <1>2, <1>3, ElementOfSeq
  <2>2. clients[i].id \in Peers /\ clients[i].pa \in 1..Len(Config)
    BY <2>1 DEF Records, Nodes
  <2> QED  BY <2>1, <2>2, ConfigAssumption, ElementOfSeq DEF Terms
<1> QED  BY <1>1, <1>2, <1>3

\* htons keeps at most what there is.
LEMMA WireTTLBound == WireTTL <= TTL
<1>1. TTL \in Nat /\ WireModulus \in Nat \ {0}
  BY TTLAssumption, WireModulusAssumption
<1>2. CASE TTL < WireModulus
  <2>1. TTL % WireModulus = TTL
    BY <1>1, <1>2
  <2> QED  BY <1>1, <2>1 DEF WireTTL
<1>3. CASE ~(TTL < WireModulus)
  <2>1. TTL % WireModulus < WireModulus /\ TTL % WireModulus \in Nat
    BY <1>1
  <2> QED  BY <1>1, <1>3, <2>1 DEF WireTTL
<1> QED  BY <1>2, <1>3

\* A record that goes away is nobody's new record.
LEMMA RecordEnds ==
  ASSUME SystemTyped, NEW i \in DOMAIN clients, terminate(i), NEW p \in Peers
  PROVE  RecordsKept(p)
<1>0. /\ clients \in Seq(Records) /\ free \in Seq(Nodes)
      /\ Len(clients) \in Nat /\ DOMAIN clients = 1..Len(clients)
  BY ServerTypes
<1>1. /\ clients' \in Seq(Records) /\ Len(clients') = Len(clients) - 1
      /\ \A j \in 1..Len(clients) - 1 :
            clients'[j] = IF j < i THEN clients[j] ELSE clients[j + 1]
  BY <1>0, Terminate
<1>2. DOMAIN clients' = 1..Len(clients) - 1
  BY <1>1, LenProperties
<1>3. ASSUME NEW j \in DOMAIN clients'
      PROVE  \E k \in DOMAIN clients : clients'[j] = clients[k]
  <2>1. j \in DOMAIN clients /\ j + 1 \in DOMAIN clients
    BY <1>0, <1>2
  <2> QED  BY <1>1, <1>2, <2>1
<1> QED  BY <1>3 DEF RecordsKept

\* The steps after which every peer is a bystander.
PeersKept == \A p \in Peers : RecordsKept(p) /\ PromisesKept(p) /\ NothingNew(p)

LEMMA ControlKeeps ==
  ASSUME SystemTyped, RecvEmpty \/ Pause \/ ScanTimeout \/ ScanNext \/ ScanEnd \/ Die
  PROVE  PeersKept
<1>1. UNCHANGED <<clients, srvq, cliq>>
  BY DEF RecvEmpty, Pause, ScanTimeout, ScanNext, ScanEnd, Die, lists
<1> QED  BY <1>1, ServerTypes, Reading, Hearing DEF PeersKept, RecordsKept

LEMMA TickKeeps ==
  ASSUME SystemTyped, Tick
  PROVE  PeersKept
<1>1. sigalrm_handler /\ UNCHANGED <<srvq, cliq>>
  BY DEF Tick
<1>2. /\ DOMAIN clients' = DOMAIN clients
      /\ \A i \in DOMAIN clients : /\ clients'[i].id = clients[i].id
                                   /\ clients'[i].pa = clients[i].pa
                                   /\ clients'[i].state = clients[i].state
  <2>1. \A i \in DOMAIN clients : clients[i] \in Records
    BY ServerTypes
  <2> QED  BY <1>1, <2>1 DEF sigalrm_handler, Records
<1>3. \A p \in Peers : RecordsKept(p)
  BY <1>2 DEF RecordsKept
<1> QED  BY <1>1, <1>3, ServerTypes, Reading, Hearing DEF PeersKept

LEMMA DropKeeps ==
  ASSUME SystemTyped, RecvStranger \/ RecvDiscoverNoIP \/ RecvListed
  PROVE  PeersKept
<1>1. /\ srvq # << >> /\ srvq' = Tail(srvq) /\ Receives
      /\ Sender \in Peers /\ Received \in Messages
  BY ReceiveType DEF RecvStranger, RecvDiscoverNoIP, RecvListed, Receives, SystemTyped
<1>2. \A p \in Peers : NothingNew(p)
  BY <1>1, ServerTypes, Reading
<1>3. \A p \in Peers : RecordsKept(p)
  <2>1. CASE UNCHANGED clients
    BY <2>1 DEF RecordsKept
  <2>2. CASE RecvListed /\ ~UNCHANGED clients
    <3>1. terminate(search_client(Sender)) /\ search_client(Sender) # 0
      BY <2>2 DEF RecvListed, lists
    <3>2. search_client(Sender) \in DOMAIN clients
      BY <1>1, <3>1, SearchClient DEF SystemTyped, Typed, TypeOK
    <3> QED  BY <3>1, <3>2, RecordEnds
  <2> QED  BY <2>1, <2>2 DEF RecvStranger, RecvDiscoverNoIP, lists
<1>4. \A p \in Peers : PromisesKept(p)
  <2>1. CASE RecvStranger \/ RecvListed
    <3>1. cliq' = cliq
      BY <2>1 DEF RecvStranger, RecvListed
    <3> QED  BY <3>1, ServerTypes, Hearing
  <2>2. CASE RecvDiscoverNoIP
    <3> DEFINE m == Msg("OFFER", 1, 0, Zero, Zero)
    <3>1. m \in Messages /\ ~IsLease(m)
      BY ZeroAssumption DEF Msg, Messages, MsgTypes, IsLease
    <3>2. send_message(Sender, m)
      BY <2>2 DEF RecvDiscoverNoIP, f_act2
    <3> HIDE DEF m
    <3> QED  BY <1>1, <3>1, <3>2, ServerTypes, ServerSends
  <2> QED  BY <2>1, <2>2
<1> QED  BY <1>2, <1>3, <1>4 DEF PeersKept

\* A handler answers with what the record says.
LEMMA ReplyKeeps ==
  ASSUME SystemTyped, pc \in DOMAIN clients, NEW t \in MsgTypes, NEW code \in Nat,
         NEW ttl \in Nat, Reply(t, code, ttl), code = 0 => ttl <= TTL, NEW p \in Peers
  PROVE  PromisesKept(p)
<1> DEFINE m == LeaseMsg(t, code, ttl, clients[pc])
           r == clients[pc].id
<1>1. clients[pc] \in Records /\ r \in Peers
  BY ServerTypes
<1>2. m \in Messages
  BY <1>1, LeaseMsgType
<1>3. send_message(r, m)
  BY DEF Reply
<1>4. IsLease(m) => Names(m, Config[clients[pc].pa])
  BY DEF IsLease, Names, LeaseMsg, Msg
<1> HIDE DEF m
<1>5. IsLease(m) => \E i \in DOMAIN clients : clients[i].id = r /\ Names(m, Config[clients[i].pa])
  BY <1>4
<1> HIDE DEF r
<1> QED  BY <1>1, <1>2, <1>3, <1>5, ServerTypes, ServerSends

\* The record being dispatched is in state s, and no other has changed.
Rewritten(s) == /\ DOMAIN clients' = DOMAIN clients
                /\ \A i \in DOMAIN clients \ {pc} : clients'[i] = clients[i]
                /\ clients'[pc].id = clients[pc].id /\ clients'[pc].pa = clients[pc].pa
                /\ clients'[pc].state = s

\* The handlers: none of them opens a record, and only an accepted REQUEST puts
\* one in use.
LEMMA HandlerKeeps ==
  ASSUME AgreeInv, Handler
  PROVE  PeersKept
<1>0. SystemTyped /\ Typed /\ Dispatching
  BY DEF AgreeInv, SystemTyped
<1>1. PICK f : Dispatched(f) /\ <<clients[pc].state, event, f>> \in ptab
  BY DEF Handler, f_act1, f_act3, f_act4, f_act5, f_act6, f_act7, Dispatched
<1>2. pc \in DOMAIN clients /\ clients[pc] \in Records /\ srvq' = srvq
  BY <1>0, <1>1, DispatchedType
<1>3. \A p \in Peers : NothingNew(p)
  BY <1>0, <1>2, ServerTypes, Reading
<1>4. \A p \in Peers : PromisesKept(p)
  <2>1. CASE f_act1 \/ f_act4
    <3>1. Reply("OFFER", 0, WireTTL)
      BY <2>1 DEF f_act1, f_act4
    <3> QED  BY <1>0, <1>2, <3>1, ReplyKeeps, Durations, WireTTLBound DEF MsgTypes
  <2>2. CASE f_act3 \/ f_act6
    <3>1. Reply("ACK", 0, WireTTL)
      BY <2>2 DEF f_act3, f_act6
    <3> QED  BY <1>0, <1>2, <3>1, ReplyKeeps, Durations, WireTTLBound DEF MsgTypes
  <2>3. CASE f_act7
    <3>1. Reply("ACK", 4, 0)
      BY <2>3 DEF f_act7
    <3> QED  BY <1>0, <1>2, <3>1, ReplyKeeps DEF MsgTypes
  <2>4. CASE f_act5
    <3>1. cliq' = cliq
      BY <2>4 DEF f_act5
    <3> QED  BY <1>0, <3>1, ServerTypes, Hearing
  <2> QED  BY <2>1, <2>2, <2>3, <2>4 DEF Handler
<1>5. ASSUME NEW s, Rewritten(s), s = "IN_USE" => \/ clients[pc].state = "IN_USE"
                                                  \/ cstate[clients[pc].id] \notin Before,
             NEW p \in Peers
      PROVE  RecordsKept(p)
  BY <1>2, <1>5 DEF RecordsKept, Rewritten
<1>6. ASSUME NEW p \in Peers
      PROVE  RecordsKept(p)
  <2>1. CASE f_act1
    <3>1. Rewritten("WAIT_REQU")
      BY <1>2, <2>1 DEF f_act1, Rewritten, Records
    <3> QED  BY <1>5, <3>1
  <2>2. CASE f_act3
    <3>1. loc = "dispatch" /\ event = "RECV_REQU_ALLOC"
      BY <2>2 DEF f_act3, Dispatched, At, ptab, ptab_Rows
    <3>2. Rewritten("IN_USE")
      BY <1>2, <2>2 DEF f_act3, Rewritten, Records
    <3> QED  BY <1>0, <1>5, <3>1, <3>2 DEF Dispatching
  <2>3. CASE f_act4
    <3>1. Rewritten("REQU_TOUT")
      BY <1>2, <2>3 DEF f_act4, Rewritten, Records
    <3> QED  BY <1>5, <3>1
  <2>4. CASE f_act5 \/ f_act7
    <3>1. terminate(pc)
      BY <2>4 DEF f_act5, f_act7
    <3> QED  BY <1>0, <1>2, <3>1, RecordEnds
  <2>5. CASE f_act6
    <3>1. clients[pc].state = "IN_USE"
      BY <2>5 DEF f_act6, Dispatched, ptab, ptab_Rows
    <3>2. Rewritten(clients[pc].state)
      BY <1>2, <2>5 DEF f_act6, Rewritten, Records
    <3> QED  BY <1>5, <3>1, <3>2
  <2> QED  BY <2>1, <2>2, <2>3, <2>4, <2>5 DEF Handler
<1> QED  BY <1>3, <1>4, <1>6 DEF PeersKept

\* A DISCOVER of p opens a record: then p has no other, and will accept the
\* line that the record holds, if any.
LEMMA DiscoverKeeps ==
  ASSUME AgreeInv, RecvDiscover, UNCHANGED clientVars, NEW p \in Peers
  PROVE  PeerInv(p)'
<1> DEFINE c == NewRecord
<1>0. SystemTyped /\ Typed /\ PeerInv(p)
  BY DEF AgreeInv, SystemTyped
<1>1. /\ Receives /\ srvq # << >> /\ srvq' = Tail(srvq) /\ cliq' = cliq
      /\ Sender \in Peers /\ Received.type = "DISCOVER"
      /\ clients' = Append(clients, c) /\ search_client(Sender) = 0 /\ free # << >>
  BY <1>0, ReceiveType DEF RecvDiscover, Receives, insert_client_list
<1>2. UNCHANGED <<cstate, recvd>>
  BY DEF clientVars
<1>3. NothingNew(p) /\ PromisesKept(p)
  BY <1>0, <1>1, ServerTypes, Reading, Hearing
<1>4. /\ clients \in Seq(Records) /\ Len(clients) \in Nat /\ DOMAIN clients = 1..Len(clients)
      /\ srvq \in Seq(Datagram)
  BY <1>0, ServerTypes
<1>5. c \in Records /\ c.id = Sender /\ c.state = "INIT" /\ c.pa \in Nodes
  <2>1. Head(free) \in Nodes
    BY <1>0, <1>1, HeadTailProperties, ServerTypes
  <2> QED  BY <1>1, <2>1, Durations, TTLAssumption DEF NewRecord, Records, ClientStates
<1> HIDE DEF c
<1>6. /\ DOMAIN clients' = 1..(Len(clients) + 1)
      /\ \A j \in DOMAIN clients : clients'[j] = clients[j]
      /\ clients'[Len(clients) + 1] = c
  BY <1>1, <1>4, <1>5, AppendProperties, LenProperties
<1>7. CASE p # Sender
  <2>1. RecordsKept(p)
    BY <1>4, <1>5, <1>6, <1>7 DEF RecordsKept
  <2> QED  BY <1>0, <1>2, <1>3, <2>1, Bystander
<1>8. CASE p = Sender
  <2>1. NoRecord(p)
    BY <1>0, <1>1, <1>8, SearchClient DEF NoRecord, Typed, TypeOK
  <2>2. \A j \in DOMAIN clients' : clients'[j].id = p => clients'[j] = c
    BY <1>4, <1>6, <2>1 DEF NoRecord
  <2>3. Len(srvq) \in Nat \ {0} /\ DOMAIN srvq = 1..Len(srvq) /\ Head(srvq) = srvq[1]
    <3>1. Len(srvq) \in Nat /\ DOMAIN srvq = 1..Len(srvq)
      BY <1>4, LenProperties
    <3>2. Len(srvq) # 0
      BY <1>1, <1>4, EmptySeq
    <3>3. Head(srvq) = srvq[1]
      BY <1>1, <1>4, HeadTailProperties
    <3> QED  BY <3>1, <3>2, <3>3
  <2>4. 1 \in From(p, "DISCOVER")
    BY <1>1, <1>8, <2>3 DEF From, Sender, Received
  <2>5. /\ From(p, "REQUEST") = {} /\ cstate[p] \notin Late /\ cstate[p] # "OFF"
        /\ cstate[p] = "WAIT_OFFER" => OnlyOne(p) /\ Fresh(p)
    BY <1>0, <2>4 DEF PeerInv, OneLease, Accepted, FirstOffer, From
  <2>6. From(p, "REQUEST")' = {}
    BY <1>3, <2>5 DEF NothingNew, From
  <2>7. OnlyOne(p) => From(p, "DISCOVER")' = {}
    <3> SUFFICES ASSUME OnlyOne(p), NEW k \in From(p, "DISCOVER")'
                 PROVE  FALSE
      OBVIOUS
    <3>1. k \in DOMAIN srvq' /\ srvq'[k].src = p /\ srvq'[k].msg.type = "DISCOVER"
      BY DEF From
    <3>2. /\ srvq' \in Seq(Datagram) /\ Len(srvq') = Len(srvq) - 1
          /\ \A j \in 1..Len(srvq') : srvq'[j] = srvq[j + 1]
      BY <1>1, <1>4, HeadTailProperties
    <3>3. DOMAIN srvq' = 1..Len(srvq) - 1
      BY <3>2, LenProperties
    <3>4. k + 1 \in DOMAIN srvq /\ srvq'[k] = srvq[k + 1] /\ k + 1 # 1
      BY <2>3, <3>1, <3>2, <3>3
    <3>5. k + 1 \in From(p, "DISCOVER")
      BY <3>1, <3>4 DEF From
    <3> QED  BY <2>4, <3>4, <3>5 DEF OnlyOne
  <2>8. Asking(p)'
    BY <1>0, <1>2, <1>3, <1>5, <2>2 DEF PeerInv, Asking, NothingNew
  <2>9. FirstOffer(p)'
    BY <1>2, <1>3, <2>5, <2>7 DEF FirstOffer, NothingNew
  <2>10. OneLease(p)'
    <3>1. ~Accepted(p)'
      BY <1>2, <2>5, <2>6 DEF Accepted
    <3>2. PICK a \in Terms : a = Config[c.pa]
      BY <1>5, ConfigAssumption, ElementOfSeq DEF Nodes, Terms
    <3>3. ASSUME cstate'[p] = "WAIT_OFFER"
          PROVE  Agreed(p, a)'
      <4>1. \A k \in DOMAIN cliq'[p] : ~IsLease(cliq'[p][k])
        BY <1>1, <1>2, <2>5, <3>3 DEF Fresh
      <4>2. \A j \in DOMAIN clients' : clients'[j].id = p => Config[clients'[j].pa] = a
        BY <2>2, <3>2
      <4>3. cstate'[p] \notin Late
        BY <1>2, <2>5
      <4> QED  BY <2>6, <4>1, <4>2, <4>3 DEF Agreed
    <3> QED  BY <3>1, <3>2, <3>3 DEF OneLease
  <2> QED  BY <2>8, <2>9, <2>10 DEF PeerInv
<1> QED  BY <1>7, <1>8

\* A REQUEST is read from a client that has accepted what its record holds.
LEMMA ListedDispatch ==
  ASSUME AgreeInv, RecvListed, UNCHANGED cstate
  PROVE  Dispatching'
<1> DEFINE i == search_client(Sender)
           e == EventOf(clients[i], Received)
<1>1. /\ SystemTyped /\ Typed /\ Receives /\ srvq # << >>
      /\ Sender \in Peers /\ Received \in Messages /\ PeerInv(Sender)
  BY ReceiveType DEF AgreeInv, SystemTyped, RecvListed, Receives
<1>2. i \in DOMAIN clients /\ clients[i].id = Sender
  BY <1>1, SearchClient DEF RecvListed, Typed, TypeOK
<1>3. \/ loc' = "recv"
      \/ loc' = "dispatch" /\ pc' = i /\ event' = e /\ clients' = clients
  BY DEF RecvListed, Goto, Return, lists
<1>4. e \in {"RECV_WRONG_REQU_ALLOC", "RECV_REQU_ALLOC"} =>
         /\ Received.type = "REQUEST"
         /\ e = "RECV_WRONG_REQU_ALLOC" => ~MatchesOffer(clients[i], Received)
  BY DEF EventOf
<1> HIDE DEF i, e
<1>5. ASSUME Received.type = "REQUEST"
      PROVE  cstate[Sender] \notin Before /\ MatchesOffer(clients[i], Received)
  <2>1. 1 \in DOMAIN srvq /\ srvq[1].src = Sender /\ srvq[1].msg = Received
    <3>1. srvq \in Seq(Datagram)
      BY <1>1, ServerTypes
    <3>2. Len(srvq) \in Nat /\ DOMAIN srvq = 1..Len(srvq) /\ Len(srvq) # 0
      BY <1>1, <3>1, LenProperties, EmptySeq
    <3>3. Head(srvq) = srvq[1]
      BY <1>1, <3>1, HeadTailProperties
    <3> QED  BY <3>2, <3>3 DEF Sender, Received
  <2>2. 1 \in From(Sender, "REQUEST")
    BY <1>5, <2>1 DEF From
  <2>3. cstate[Sender] \notin Before
    BY <1>1, <1>5, <2>1 DEF PeerInv, Asking
  <2>4. PICK a \in Terms : Agreed(Sender, a)
    BY <1>1, <2>2 DEF PeerInv, OneLease, Accepted
  <2>5. Config[clients[i].pa] = a /\ Names(Received, a)
    BY <1>2, <2>1, <2>2, <2>4 DEF Agreed
  <2> QED  BY <2>3, <2>5 DEF MatchesOffer, Names
<1> QED  BY <1>2, <1>3, <1>4, <1>5 DEF Dispatching

LEMMA ServerDispatch ==
  ASSUME AgreeInv, Main \/ Tick \/ Die, UNCHANGED clientVars
  PROVE  Dispatching'
<1>0. /\ SystemTyped /\ Typed /\ TypeOK /\ Dispatching /\ cstate' = cstate
      /\ loc = "dispatch" => pc \in DOMAIN clients
  BY DEF AgreeInv, SystemTyped, clientVars, Typed, TypeOK
<1>1. CASE loc' # "dispatch"
  BY <1>1 DEF Dispatching
<1>2. CASE RecvListed
  BY <1>0, <1>2, ListedDispatch
<1>3. CASE RecvDiscover \/ ScanTimeout
  <2>1. event' \in {"RECV_DISC", "USE_TOUT", "RECV_TOUT"}
    BY <1>3 DEF RecvDiscover, ScanTimeout, Return
  <2> QED  BY <2>1 DEF Dispatching
<1>4. CASE Tick
  <2>1. /\ loc' = "dispatch" => loc = "dispatch" /\ pc' = pc
        /\ event' = event /\ sigalrm_handler
    BY <1>4 DEF Tick
  <2>2. \A i \in DOMAIN clients : clients'[i].id = clients[i].id
    <3>1. \A i \in DOMAIN clients : clients[i] \in Records
      BY <1>0, ServerTypes
    <3> QED  BY <2>1, <3>1 DEF sigalrm_handler, Records
  <2> QED  BY <1>0, <2>1, <2>2 DEF Dispatching
<1>5. CASE Die
  <2>1. UNCHANGED <<loc, pc, event, clients>>
    BY <1>5 DEF Die, lists
  <2> QED  BY <1>0, <2>1 DEF Dispatching
<1>6. CASE RecvEmpty \/ Pause \/ RecvStranger \/ RecvDiscoverNoIP \/ ScanNext \/ ScanEnd
  <2>1. loc' # "dispatch"
    BY <1>6 DEF RecvEmpty, Pause, RecvStranger, RecvDiscoverNoIP, ScanNext, ScanEnd, Goto, At
  <2> QED  BY <1>1, <2>1
<1>7. CASE Handler
  <2>1. loc' = "recv"
    BY <1>7 DEF Handler, f_act1, f_act3, f_act4, f_act5, f_act6, f_act7, Dispatched, Goto
  <2> QED  BY <1>1, <2>1
<1> QED  BY <1>2, <1>3, <1>4, <1>5, <1>6, <1>7 DEF Main, WaitEvent

\* A step of the server.
LEMMA ServerAgrees ==
  ASSUME AgreeInv, ServerStep
  PROVE  AgreeInv'
<1>0. SystemTyped /\ Typed /\ (Main \/ Tick \/ Die) /\ UNCHANGED clientVars
  BY DEF AgreeInv, SystemTyped, ServerStep
<1>1. SystemTyped'
  <2>1. TypeOK' /\ Change
    BY <1>0, NextStep DEF Next
  <2>2. UniqueClients'
    BY <1>0, <2>1, UniqueStep DEF Typed
  <2> QED  BY <1>0, <2>1, <2>2 DEF SystemTyped, Typed, clientVars
<1>2. Dispatching'
  BY <1>0, ServerDispatch
<1>3. ASSUME NEW p \in Peers
      PROVE  PeerInv(p)'
  <2>1. CASE RecvDiscover
    BY <1>0, <2>1, DiscoverKeeps
  <2>2. CASE PeersKept
    <3>1. cstate'[p] = cstate[p] /\ recvd'[p] = recvd[p] /\ PeerInv(p)
      BY <1>0 DEF clientVars, AgreeInv
    <3> QED  BY <2>2, <3>1, Bystander DEF PeersKept
  <2>3. RecvDiscover \/ PeersKept
    BY <1>0, ControlKeeps, TickKeeps, DropKeeps, HandlerKeeps DEF Main, WaitEvent
  <2> QED  BY <2>1, <2>2, <2>3
<1> QED  BY <1>1, <1>2, <1>3 DEF AgreeInv

-----------------------------------------------------------------------------
(* The clients' steps *)

LEMMA ClientRows ==
  /\ DOMAIN Client!Rows = {"f_act1", "f_act2", "f_act3", "f_act4", "f_act5", "f_act6",
                           "f_act7", "f_act8"}
  /\ Client!Rows["f_act1"] = {<<"WAIT_OFFER", "RECV_OFFER_OK">>}
  /\ Client!Rows["f_act2"] = {<<"WAIT_OFFER", "RECV_TOUT">>, <<"OFFER_TOUT", "RECV_OFFER_OK">>}
  /\ Client!Rows["f_act4"] = Client!Acking \X {"RECV_ACK_OK"}
  /\ Client!Rows["f_act5"] = {<<"WAIT_ACK", "RECV_TOUT">>}
  /\ Client!Rows["f_act6"] = {<<"IN_USE", "HALF_TTL_PASS">>}
  /\ Client!Rows["f_act7"] = {<<"WAIT_ACK_EXT", "RECV_TOUT">>}
BY DEF Client!Rows, Client!Table

Posts(p, m) == srvq' \in Transmit(srvq, [src |-> p, msg |-> m])

\* The clients' copy of the network is the server's.
LEMMA SameNetwork ==
  /\ Client!Peers = Peers
  /\ \A q, m : Client!Transmit(q, m) = Transmit(q, m)
  /\ \A t, c, l, a, n : Client!Msg(t, c, l, a, n) = Msg(t, c, l, a, n)
BY DEF Client!Peers, Peers, Client!Transmit, Transmit, Client!InsertAt, InsertAt, Client!Msg, Msg

\* What a client does, m being in receive_dh.
Quits(p)      == /\ Client!Enter(p, "EXITED")
                 /\ \/ srvq' = srvq
                    \/ \E m \in Messages : m.type = "RELEASE" /\ Posts(p, m)
Repeats(p)    == /\ cstate[p] \in {"WAIT_OFFER", "OFFER_TOUT"}
                 /\ Client!Enter(p, "OFFER_TOUT")
                 /\ Posts(p, Client!Discover)
Accepts(p, m) == /\ cstate[p] = "WAIT_OFFER"
                 /\ Client!Enter(p, "WAIT_ACK")
                 /\ Posts(p, Client!Request(2, m))
Uses(p)       == /\ cstate[p] \in Client!Acking
                 /\ Client!Enter(p, "IN_USE")
                 /\ srvq' = srvq
Asks(p, m)    == /\ cstate[p] \in Late
                 /\ \E s \in Late : Client!Enter(p, s)
                 /\ \E code \in {2, 3} : Posts(p, Client!Request(code, m))
Ignores(p, e) == /\ UNCHANGED <<cstate, srvq>>
                 /\ \A f \in DOMAIN Client!Rows : <<cstate[p], e>> \notin Client!Rows[f]

LEMMA Handles ==
  ASSUME NEW p \in Peers, NEW e, NEW m \in Messages, Client!Handle(p, e, m)
  PROVE  \/ Quits(p) \/ Repeats(p) \/ Ignores(p, e)
         \/ e = "RECV_OFFER_OK" /\ Accepts(p, m)
         \/ e = "RECV_ACK_OK" /\ Uses(p)
         \/ e \in {"RECV_TOUT", "HALF_TTL_PASS"} /\ Asks(p, m)
<1> USE SameNetwork DEF Posts, Client!Send, Client!send_message
<1> DEFINE On(f) == <<cstate[p], e>> \in Client!Rows[f]
<1>1. CASE On("f_act1") /\ Client!f_act1(p, m)
  BY <1>1, ClientRows DEF Accepts, Client!f_act1
<1>2. CASE On("f_act2") /\ Client!f_act2(p)
  BY <1>2, ClientRows DEF Repeats, Client!f_act2
<1>3. CASE Client!f_act3(p)
  BY <1>3 DEF Quits, Client!f_act3
<1>4. CASE On("f_act4") /\ Client!f_act4(p, m)
  BY <1>4, ClientRows DEF Uses, Client!f_act4
<1>5. CASE On("f_act5") /\ Client!f_act5(p, m)
  BY <1>5, ClientRows DEF Asks, Client!f_act5, Late, Client!Acking
<1>6. CASE On("f_act6") /\ Client!f_act6(p, m)
  BY <1>6, ClientRows DEF Asks, Client!f_act6, Late, Client!Acking
<1>7. CASE On("f_act7") /\ Client!f_act7(p, m)
  BY <1>7, ClientRows DEF Asks, Client!f_act7, Late, Client!Acking
<1>8. CASE Client!f_act8(p, m)
  <2> DEFINE r == Msg("RELEASE", 0, 0, m.address, Zero)
  <2>1. r \in Messages /\ r.type = "RELEASE"
    BY ZeroAssumption DEF Msg, Messages, MsgTypes
  <2>2. Client!Enter(p, "EXITED") /\ Posts(p, r)
    BY <1>8 DEF Client!f_act8
  <2> HIDE DEF r
  <2> QED  BY <2>1, <2>2 DEF Quits
<1>9. CASE ~(\E f \in DOMAIN Client!Rows : On(f)) /\ UNCHANGED <<cstate, srvq>>
  BY <1>9 DEF Ignores
<1> QED  BY <1>1, <1>2, <1>3, <1>4, <1>5, <1>6, <1>7, <1>8, <1>9 DEF Client!Handle

\* What is accepted is what it seems, and a waiting client has a row for
\* whatever it receives.
LEMMA Accepting ==
  ASSUME NEW s \in Client!Running \ {"IN_USE"}, NEW m
  PROVE  /\ \E f \in DOMAIN Client!Rows : <<s, Client!EventOf(s, m)>> \in Client!Rows[f]
         /\ Client!EventOf(s, m) \in {"RECV_OFFER_OK", "RECV_ACK_OK"} => IsLease(m)
         /\ Client!EventOf(s, m) \notin {"RECV_TOUT", "HALF_TTL_PASS"}
<1>1. s \in Client!Offering \/ s \in Client!Acking
  BY DEF Client!Running, Client!Offering, Client!Acking
<1>2. Client!EventOf(s, m) \in {"RECV_OFFER_OK", "RECV_ACK_OK"} => IsLease(m)
  BY <1>1 DEF Client!EventOf, IsLease, Client!Offering, Client!Acking
<1>3. Client!Rows["f_act3"] =
          (Client!Offering \X {"RECV_OFFER_NG", "RECV_UNKN", "RECV_UNEX"})
          \cup (Client!Acking \X {"RECV_ACK_NG", "RECV_UNKN", "RECV_UNEX"})
          \cup ({"OFFER_TOUT", "ACK_TOUT", "ACK_EXT_TOUT"} \X {"RECV_TOUT"})
  BY DEF Client!Rows, Client!Table
<1>4. CASE s \in Client!Offering
  <2>1. Client!EventOf(s, m) \in {"RECV_OFFER_OK", "RECV_OFFER_NG", "RECV_UNKN", "RECV_UNEX"}
    BY <1>4 DEF Client!EventOf, Client!Offering, Client!Acking
  <2>2. CASE Client!EventOf(s, m) = "RECV_OFFER_OK"
    <3>1. \/ <<s, Client!EventOf(s, m)>> \in Client!Rows["f_act1"]
          \/ <<s, Client!EventOf(s, m)>> \in Client!Rows["f_act2"]
      BY <1>4, <2>2, ClientRows DEF Client!Offering
    <3> QED  BY <1>2, <2>2, <3>1, ClientRows
  <2>3. CASE Client!EventOf(s, m) # "RECV_OFFER_OK"
    <3>1. <<s, Client!EventOf(s, m)>> \in Client!Rows["f_act3"]
      BY <1>3, <1>4, <2>1, <2>3
    <3> QED  BY <1>2, <2>1, <2>3, <3>1, ClientRows
  <2> QED  BY <2>2, <2>3
<1>5. CASE s \in Client!Acking
  <2>1. Client!EventOf(s, m) \in {"RECV_ACK_OK", "RECV_ACK_NG", "RECV_UNKN", "RECV_UNEX"}
    BY <1>5 DEF Client!EventOf, Client!Offering, Client!Acking
  <2>2. \/ <<s, Client!EventOf(s, m)>> \in Client!Rows["f_act3"]
        \/ <<s, Client!EventOf(s, m)>> \in Client!Rows["f_act4"]
    BY <1>3, <1>5, <2>1, ClientRows
  <2> QED  BY <1>2, <2>1, <2>2, ClientRows
<1> QED  BY <1>1, <1>4, <1>5

\* main's first message.
Starts(p) == /\ cstate[p] = "OFF"
             /\ Client!Enter(p, "WAIT_OFFER")
             /\ Posts(p, Client!Discover)

\* A datagram is read into receive_dh.
Hears(p) == /\ cliq[p] # << >>
            /\ cliq' = [cliq EXCEPT ![p] = Tail(cliq[p])]
            /\ recvd' = [recvd EXCEPT ![p] = Head(cliq[p])]

Acts(p) ==
    \/ /\ UNCHANGED <<recvd, cliq>>
       /\ \/ Starts(p) \/ Repeats(p) \/ Asks(p, recvd[p]) \/ Quits(p)
          \/ UNCHANGED <<cstate, srvq>>
    \/ /\ Hears(p)
       /\ \/ Repeats(p) \/ Quits(p)
          \/ IsLease(Head(cliq[p])) /\ (Accepts(p, Head(cliq[p])) \/ Uses(p))

LEMMA ClientActs ==
  ASSUME SystemTyped, Client!ClientNext
  PROVE  \E p \in Peers : Acts(p)
<1>1. PICK p \in Peers : \/ Client!Start(p) \/ Client!Block(p) \/ Client!Recv(p)
                         \/ Client!Timeout(p) \/ Client!identify_signal(p)
                         \/ Client!Sighup(p) \/ Client!Sigalrm(p) \/ Client!Crash(p)
  BY SameNetwork DEF Client!ClientNext, Client!Thread
<1>2. recvd[p] \in Messages /\ cliq[p] \in Seq(Messages)
  BY ServerTypes DEF SystemTyped
<1>3. CASE Client!Start(p)
  BY <1>3, SameNetwork DEF Client!Start, Client!Send, Client!send_message, Acts, Starts, Posts
<1>4. CASE Client!Block(p) \/ Client!Sighup(p) \/ Client!Sigalrm(p)
  BY <1>4 DEF Client!Block, Client!Sighup, Client!Sigalrm, Acts
<1>5. CASE Client!Crash(p)
  BY <1>5 DEF Client!Crash, Acts, Quits
<1>6. CASE Client!Timeout(p) \/ Client!identify_signal(p)
  <2>1. PICK e \in {"RECV_TOUT", "RECV_SIGHUP", "HALF_TTL_PASS"} :
           Client!Handle(p, e, recvd[p]) /\ UNCHANGED <<recvd, cliq>>
    BY <1>6 DEF Client!Timeout, Client!identify_signal
  <2>2. \/ Quits(p) \/ Repeats(p) \/ Ignores(p, e) \/ Asks(p, recvd[p])
    BY <1>2, <2>1, Handles
  <2> QED  BY <2>1, <2>2 DEF Acts, Ignores
<1>7. CASE Client!Recv(p)
  <2> DEFINE m == Head(cliq[p])
             e == Client!EventOf(cstate[p], m)
  <2>1. /\ Hears(p) /\ cstate[p] \in Client!Running \ {"IN_USE"}
        /\ Client!Handle(p, e, m)
    BY <1>7 DEF Client!Recv, Client!InSelect, Client!Up, Hears
  <2>2. m \in Messages
    BY <1>2, <2>1, HeadTailProperties DEF Hears
  <2>3. /\ \E f \in DOMAIN Client!Rows : <<cstate[p], e>> \in Client!Rows[f]
        /\ e \in {"RECV_OFFER_OK", "RECV_ACK_OK"} => IsLease(m)
        /\ e \notin {"RECV_TOUT", "HALF_TTL_PASS"}
    BY <2>1, Accepting
  <2> HIDE DEF e, m
  <2>4. \/ Quits(p) \/ Repeats(p) \/ Ignores(p, e)
        \/ e = "RECV_OFFER_OK" /\ Accepts(p, m)
        \/ e = "RECV_ACK_OK" /\ Uses(p)
    BY <2>1, <2>2, <2>3, Handles
  <2>5. ~Ignores(p, e)
    BY <2>3 DEF Ignores
  <2>6. Repeats(p) \/ Quits(p) \/ (IsLease(m) /\ (Accepts(p, m) \/ Uses(p)))
    BY <2>3, <2>4, <2>5
  <2> QED  BY <2>1, <2>6 DEF Acts, m
<1> QED  BY <1>1, <1>3, <1>4, <1>5, <1>6, <1>7

\* Whom it does not concern.
LEMMA ActsAlone ==
  ASSUME SystemTyped, NEW p \in Peers, Acts(p)
  PROVE  /\ \E s \in CStates : cstate' = [cstate EXCEPT ![p] = s]
         /\ cstate'[p] \in Before => cstate[p] \in Before
         /\ recvd' \in [Peers -> Messages] /\ cliq' \in [Peers -> Seq(Messages)]
         /\ srvq' \in Seq(Datagram)
         /\ PromisesKept(p)
         /\ \A q \in Peers \ {p} : /\ recvd'[q] = recvd[q] /\ cliq'[q] = cliq[q]
                                   /\ NothingNew(q)
<1>1. /\ cstate \in [Peers -> CStates] /\ recvd \in [Peers -> Messages]
      /\ cliq \in [Peers -> Seq(Messages)] /\ srvq \in Seq(Datagram)
      /\ cliq[p] \in Seq(Messages) /\ recvd[p] \in Messages
  BY ServerTypes DEF SystemTyped
<1>2. /\ \E s \in CStates : cstate' = [cstate EXCEPT ![p] = s]
      /\ cstate'[p] \in Before => cstate[p] \in Before
  <2>1. cstate = [cstate EXCEPT ![p] = cstate[p]] /\ cstate[p] \in CStates
    BY <1>1
  <2>2. \/ cstate' = cstate
        \/ \E s \in {"WAIT_OFFER", "OFFER_TOUT"} : cstate[p] \in Before /\ Client!Enter(p, s)
        \/ \E s \in Late \cup {"WAIT_ACK", "IN_USE", "EXITED"} : Client!Enter(p, s)
    BY DEF Acts, Starts, Repeats, Asks, Quits, Accepts, Uses, Before
  <2>3. Late \cup {"WAIT_ACK", "IN_USE", "EXITED"} \subseteq CStates \ Before
    BY DEF Late, Client!Acking, CStates, Client!Running, Before
  <2>4. {"WAIT_OFFER", "OFFER_TOUT"} \subseteq CStates
    BY DEF CStates, Client!Running
  <2> QED  BY <1>1, <2>1, <2>2, <2>3, <2>4 DEF Client!Enter
<1>3. /\ recvd' \in [Peers -> Messages] /\ cliq' \in [Peers -> Seq(Messages)]
      /\ \A q \in Peers \ {p} : recvd'[q] = recvd[q] /\ cliq'[q] = cliq[q]
      /\ cliq'[p] = cliq[p] \/ (cliq[p] # << >> /\ cliq'[p] = Tail(cliq[p]))
  <2>1. CASE UNCHANGED <<recvd, cliq>>
    BY <1>1, <2>1
  <2>2. CASE Hears(p)
    <3>1. Head(cliq[p]) \in Messages /\ Tail(cliq[p]) \in Seq(Messages)
      BY <1>1, <2>2, HeadTailProperties DEF Hears
    <3> QED  BY <1>1, <2>2, <3>1 DEF Hears
  <2> QED  BY <2>1, <2>2 DEF Acts
<1>4. PromisesKept(p)
  BY <1>1, <1>3, Hearing
<1>5. srvq' = srvq \/ \E m \in Messages : Posts(p, m)
  <2>1. Client!Discover \in Messages
    BY SameNetwork, ZeroAssumption DEF Client!Discover, Msg, Messages, MsgTypes
  <2>2. ASSUME NEW m \in Messages, NEW code \in {2, 3}
        PROVE  Client!Request(code, m) \in Messages
    BY SameNetwork DEF Client!Request, Msg, Messages, MsgTypes
  <2>3. Hears(p) => Head(cliq[p]) \in Messages
    BY <1>1, HeadTailProperties DEF Hears
  <2>4. ASSUME NEW m \in Messages, Accepts(p, m) \/ Asks(p, m)
        PROVE  \E r \in Messages : Posts(p, r)
    BY <2>2, <2>4 DEF Accepts, Asks
  <2>5. Starts(p) \/ Repeats(p) \/ Quits(p) \/ Uses(p) =>
           srvq' = srvq \/ \E m \in Messages : Posts(p, m)
    BY <2>1 DEF Starts, Repeats, Quits, Uses
  <2> QED  BY <1>1, <2>3, <2>4, <2>5 DEF Acts
<1>6. srvq' \in Seq(Datagram) /\ \A q \in Peers \ {p} : NothingNew(q)
  <2>1. CASE srvq' = srvq
    BY <1>1, <2>1, Reading
  <2>2. CASE \E m \in Messages : Posts(p, m)
    BY <1>1, <2>2, ClientSends DEF Posts
  <2> QED  BY <1>5, <2>1, <2>2
<1> QED  BY <1>2, <1>3, <1>4, <1>6

\* Of the server's records the client's steps change nothing.
LEMMA Untouched ==
  ASSUME UNCHANGED clients, NEW p \in Peers
  PROVE  RecordsKept(p)
BY DEF RecordsKept

\* A client's own step, p being the client.
LEMMA ActorAgrees ==
  ASSUME AgreeInv, NEW p \in Peers, Acts(p), UNCHANGED clients
  PROVE  PeerInv(p)'
<1>0. SystemTyped /\ PeerInv(p)
  BY DEF AgreeInv
<1>1. RecordsKept(p) /\ PromisesKept(p)
  BY <1>0, Untouched, ActsAlone
<1>2. /\ cstate \in [Peers -> CStates] /\ recvd \in [Peers -> Messages]
      /\ cliq \in [Peers -> Seq(Messages)] /\ srvq \in Seq(Datagram)
      /\ cliq[p] \in Seq(Messages) /\ recvd[p] \in Messages
  BY <1>0, ServerTypes DEF SystemTyped
<1>3. Client!Discover \in Messages /\ Client!Discover.type = "DISCOVER"
  BY SameNetwork, ZeroAssumption DEF Client!Discover, Msg, Messages, MsgTypes
<1>4. ASSUME NEW m \in Messages, NEW code \in {2, 3}, NEW a
      PROVE  /\ Client!Request(code, m) \in Messages
             /\ Client!Request(code, m).type = "REQUEST"
             /\ Names(m, a) => Names(Client!Request(code, m), a)
  BY SameNetwork DEF Client!Request, Msg, Messages, MsgTypes, Names
<1>5. ASSUME NEW s, Client!Enter(p, s)
      PROVE  cstate'[p] = s
  BY <1>2, <1>5 DEF Client!Enter
<1>6. CASE UNCHANGED <<cstate, srvq, recvd>>
  <2>1. NothingNew(p)
    BY <1>2, <1>6, Reading
  <2> QED  BY <1>0, <1>1, <1>6, <2>1, Bystander
<1>7. CASE Quits(p)
  <2>1. cstate'[p] = "EXITED"
    BY <1>5, <1>7 DEF Quits
  <2>2. \A k \in DOMAIN srvq' : srvq'[k].src = p =>
            srvq'[k].msg.type = "RELEASE" \/ \E j \in DOMAIN srvq : srvq[j] = srvq'[k]
    <3>1. CASE srvq' = srvq
      BY <3>1
    <3>2. CASE \E m \in Messages : m.type = "RELEASE" /\ Posts(p, m)
      BY <1>2, <3>2, ClientSends DEF Posts, OneNew
    <3> QED  BY <1>7, <3>1, <3>2 DEF Quits
  <2> QED  BY <1>0, <1>1, <2>1, <2>2, Leaving
<1>8. CASE Starts(p) /\ UNCHANGED <<recvd, cliq>>
  <2>1. cstate[p] = "OFF" /\ cstate'[p] = "WAIT_OFFER"
    BY <1>5, <1>8 DEF Starts
  <2>2. Fresh(p) /\ \A k \in DOMAIN srvq : srvq[k].src # p
    BY <1>0, <2>1 DEF PeerInv, FirstOffer
  <2>3. OnlyOne(p)' /\ \A k \in DOMAIN srvq' : srvq'[k].src = p => srvq'[k].msg = Client!Discover
    BY <1>2, <1>3, <1>8, <2>2, ClientSends DEF Starts, Posts, OneNew
  <2>4. From(p, "REQUEST")' = {}
    BY <1>3, <2>3 DEF From
  <2>5. Fresh(p)'
    BY <1>1, <2>2, StillFresh
  <2>6. NoRecord(p)' /\ \A k \in DOMAIN cliq'[p] : ~IsLease(cliq'[p][k])
    BY <2>5 DEF Fresh
  <2>7. Asking(p)'
    BY <1>3, <2>3, <2>6 DEF Asking, NoRecord
  <2>8. FirstOffer(p)'
    BY <2>1, <2>3, <2>5 DEF FirstOffer
  <2>9. ~(cstate'[p] \in Late)
    BY <2>1 DEF Late, Client!Acking
  <2>10. PICK a \in Terms : TRUE
    <3>1. [address |-> Zero, netmask |-> Zero] \in Terms
      BY ZeroAssumption DEF Terms
    <3> QED  BY <3>1
  <2>11. Agreed(p, a)'
    BY <2>4, <2>6, <2>9 DEF Agreed, NoRecord
  <2> QED  BY <2>4, <2>7, <2>8, <2>9, <2>11 DEF PeerInv, OneLease, Accepted
<1>9. CASE Repeats(p)
  <2>1. cstate[p] \in Before /\ cstate'[p] = "OFFER_TOUT"
    BY <1>5, <1>9 DEF Repeats, Before
  <2>2. OneNew(p, Client!Discover)
    BY <1>2, <1>3, <1>9, ClientSends DEF Repeats, Posts
  <2>3. \A k \in DOMAIN srvq' : srvq'[k].src = p => srvq'[k].msg.type = "DISCOVER"
    BY <1>0, <1>3, <2>1, <2>2 DEF PeerInv, Asking, OneNew
  <2>4. From(p, "REQUEST")' = {}
    BY <2>3 DEF From
  <2>5. Asking(p)'
    BY <1>0, <1>1, <2>1, <2>3 DEF PeerInv, Asking, RecordsKept
  <2>6. cstate'[p] \notin Late
    BY <2>1 DEF Late, Client!Acking
  <2> QED  BY <2>1, <2>4, <2>5, <2>6 DEF PeerInv, FirstOffer, OneLease, Accepted
<1>10. ASSUME NEW m \in Messages, Accepts(p, m), IsLease(m), Hears(p), m = Head(cliq[p])
       PROVE  PeerInv(p)'
  <2>1. cstate[p] = "WAIT_OFFER" /\ cstate'[p] = "WAIT_ACK" /\ recvd'[p] = m
    BY <1>2, <1>5, <1>10 DEF Accepts, Hears
  <2>2. cliq[p][1] = m /\ 1 \in DOMAIN cliq[p]
    <3>1. Len(cliq[p]) \in Nat /\ DOMAIN cliq[p] = 1..Len(cliq[p]) /\ Len(cliq[p]) # 0
      BY <1>2, <1>10, LenProperties, EmptySeq DEF Hears
    <3>2. Head(cliq[p]) = cliq[p][1]
      BY <1>2, <1>10, HeadTailProperties DEF Hears
    <3> QED  BY <1>10, <3>1, <3>2
  <2>3. From(p, "DISCOVER") = {}
    BY <1>0, <1>10, <2>1, <2>2 DEF PeerInv, FirstOffer, Fresh
  <2>4. PICK a \in Terms : Agreed(p, a)
    BY <1>0, <2>1 DEF PeerInv, OneLease
  <2>5. Names(m, a)
    BY <1>10, <2>2, <2>4 DEF Agreed
  <2> DEFINE r == Client!Request(2, m)
  <2>6. r \in Messages /\ r.type = "REQUEST" /\ Names(r, a)
    BY <1>4, <2>5
  <2>7. Posts(p, r)
    BY <1>10 DEF Accepts
  <2> HIDE DEF r
  <2>8. OneNew(p, r)
    BY <1>2, <2>6, <2>7, ClientSends DEF Posts
  <2>9. From(p, "DISCOVER")' = {}
    BY <2>3, <2>6, <2>8 DEF From, OneNew
  <2>10. \A k \in From(p, "REQUEST")' : Names(srvq'[k].msg, a)
    BY <2>4, <2>6, <2>8 DEF From, OneNew, Agreed
  <2>11. Agreed(p, a)'
    BY <1>1, <2>1, <2>4, <2>5, <2>10, StillAgreed
  <2> QED  BY <2>1, <2>9, <2>11 DEF PeerInv, Asking, FirstOffer, OneLease, Before
<1>11. ASSUME NEW m \in Messages, Uses(p), IsLease(m), Hears(p), m = Head(cliq[p])
       PROVE  PeerInv(p)'
  <2>1. cstate[p] \in Late /\ cstate'[p] = "IN_USE" /\ recvd'[p] = m /\ srvq' = srvq
    BY <1>2, <1>5, <1>11 DEF Uses, Hears, Late
  <2>2. cliq[p][1] = m /\ 1 \in DOMAIN cliq[p]
    <3>1. Len(cliq[p]) \in Nat /\ DOMAIN cliq[p] = 1..Len(cliq[p]) /\ Len(cliq[p]) # 0
      BY <1>2, <1>11, LenProperties, EmptySeq DEF Hears
    <3>2. Head(cliq[p]) = cliq[p][1]
      BY <1>2, <1>11, HeadTailProperties DEF Hears
    <3> QED  BY <1>11, <3>1, <3>2
  <2>3. From(p, "DISCOVER") = {}
    BY <1>0, <2>1 DEF PeerInv, OneLease, Accepted
  <2>4. PICK a \in Terms : Agreed(p, a)
    BY <1>0, <2>1 DEF PeerInv, OneLease, Accepted
  <2>5. Names(m, a)
    BY <1>11, <2>2, <2>4 DEF Agreed
  <2>6. \A k \in From(p, "REQUEST")' : Names(srvq'[k].msg, a)
    BY <2>1, <2>4 DEF From, Agreed
  <2>7. Agreed(p, a)'
    BY <1>1, <2>1, <2>4, <2>5, <2>6, StillAgreed
  <2>8. From(p, "DISCOVER")' = {}
    BY <2>1, <2>3 DEF From
  <2> QED  BY <2>1, <2>7, <2>8 DEF PeerInv, Asking, FirstOffer, OneLease, Before
<1>12. CASE Asks(p, recvd[p]) /\ UNCHANGED <<recvd, cliq>>
  <2>1. cstate[p] \in Late /\ cstate'[p] \in Late
    BY <1>5, <1>12 DEF Asks
  <2>2. From(p, "DISCOVER") = {}
    BY <1>0, <2>1 DEF PeerInv, OneLease, Accepted
  <2>3. PICK a \in Terms : Agreed(p, a)
    BY <1>0, <2>1 DEF PeerInv, OneLease, Accepted
  <2>4. Names(recvd[p], a)
    BY <2>1, <2>3 DEF Agreed
  <2>5. PICK code \in {2, 3} : Posts(p, Client!Request(code, recvd[p]))
    BY <1>12 DEF Asks
  <2> DEFINE r == Client!Request(code, recvd[p])
  <2>6. r \in Messages /\ r.type = "REQUEST" /\ Names(r, a)
    BY <1>2, <1>4, <2>4
  <2>7. PICK d : d = r
    OBVIOUS
  <2> HIDE DEF r
  <2>8. OneNew(p, d)
    BY <1>2, <2>5, <2>6, <2>7, ClientSends DEF Posts, r
  <2>9. From(p, "DISCOVER")' = {}
    BY <2>2, <2>6, <2>7, <2>8 DEF From, OneNew
  <2>10. \A k \in From(p, "REQUEST")' : Names(srvq'[k].msg, a)
    BY <2>3, <2>6, <2>7, <2>8 DEF From, OneNew, Agreed
  <2>11. Agreed(p, a)'
    BY <1>1, <1>12, <2>3, <2>4, <2>10, StillAgreed
  <2>12. cstate'[p] \notin Before
    BY <2>1 DEF Late, Before, Client!Acking
  <2> QED  BY <2>9, <2>11, <2>12 DEF PeerInv, Asking, FirstOffer, OneLease, Before
<1>13. Hears(p) => Head(cliq[p]) \in Messages
  BY <1>2, HeadTailProperties DEF Hears
<1> QED  BY <1>6, <1>7, <1>8, <1>9, <1>10, <1>11, <1>12, <1>13 DEF Acts

\* A step of a client.
LEMMA ClientAgrees ==
  ASSUME AgreeInv, ClientStep
  PROVE  AgreeInv'
<1>0. /\ SystemTyped /\ Typed /\ TypeOK /\ Dispatching /\ Client!ClientNext
      /\ UNCHANGED <<control, lists>>
  BY DEF AgreeInv, SystemTyped, Typed, ClientStep
<1>1. PICK p \in Peers : Acts(p)
  BY <1>0, ClientActs
<1>2. UNCHANGED <<clients, free, sinceAck, status, loc, pc, event>>
  BY <1>0 DEF control, lists
<1>3. PICK s \in CStates : cstate' = [cstate EXCEPT ![p] = s]
  BY <1>0, <1>1, ActsAlone
<1>4. /\ cstate \in [Peers -> CStates] /\ cstate' \in [Peers -> CStates]
      /\ \A q \in Peers \ {p} : cstate'[q] = cstate[q]
  BY <1>0, <1>3 DEF SystemTyped
<1>5. SystemTyped'
  <2>1. /\ recvd' \in [Peers -> Messages] /\ cliq' \in [Peers -> Seq(Messages)]
        /\ srvq' \in Seq(Datagram)
    BY <1>0, <1>1, ActsAlone
  <2>2. TypeOK'
    BY <1>0, <2>1 DEF TypeOK, Datagram, control, lists
  <2>3. UniqueClients'
    BY <1>0, <1>2 DEF Typed, UniqueClients
  <2> QED  BY <1>4, <2>1, <2>2, <2>3 DEF SystemTyped, Typed
<1>6. Dispatching'
  <2>1. \A q \in Peers : cstate'[q] \in Before => cstate[q] \in Before
    BY <1>0, <1>1, <1>4, ActsAlone
  <2>2. loc = "dispatch" => pc \in DOMAIN clients /\ clients[pc].id \in Peers
    BY <1>0, ServerTypes DEF TypeOK
  <2> QED  BY <1>0, <1>2, <2>1, <2>2 DEF Dispatching
<1>7. PeerInv(p)'
  BY <1>1, <1>2, ActorAgrees
<1>8. ASSUME NEW q \in Peers \ {p}
      PROVE  PeerInv(q)'
  <2>1. /\ NothingNew(q) /\ recvd'[q] = recvd[q] /\ cliq'[q] = cliq[q]
        /\ cstate'[q] = cstate[q] /\ PeerInv(q)
    BY <1>0, <1>1, <1>4, ActsAlone DEF AgreeInv
  <2>2. PromisesKept(q)
    BY <2>1 DEF PromisesKept
  <2> QED  BY <1>2, <2>1, <2>2, Untouched, Bystander
<1> QED  BY <1>5, <1>6, <1>7, <1>8 DEF AgreeInv

-----------------------------------------------------------------------------
(* The theorems *)

LEMMA AgreeStep ==
  ASSUME AgreeInv, [SystemNext]_allVars
  PROVE  AgreeInv'
<1>1. CASE SystemNext
  BY <1>1, ServerAgrees, ClientAgrees DEF SystemNext
<1>2. CASE UNCHANGED allVars
  <2>1. UNCHANGED vars /\ UNCHANGED <<cstate, recvd>> /\ SystemTyped
    BY <1>2 DEF allVars, clientVars, AgreeInv
  <2>2. TypeOK' /\ UniqueClients'
    BY <2>1 DEF SystemTyped, Typed, TypeOK, UniqueClients, vars
  <2>3. SystemTyped' /\ Dispatching'
    BY <2>1, <2>2 DEF AgreeInv, SystemTyped, Typed, Dispatching, vars
  <2>4. ASSUME NEW p \in Peers
        PROVE  PeerInv(p)'
    <3>1. UNCHANGED <<clients, srvq, cliq>> /\ PeerInv(p)
      BY <2>1 DEF AgreeInv, vars
    <3>2. RecordsKept(p) /\ PromisesKept(p) /\ NothingNew(p)
      BY <2>1, <3>1, Untouched, ServerTypes, Hearing, Reading
    <3> QED  BY <2>1, <3>1, <3>2, Bystander
  <2> QED  BY <2>3, <2>4 DEF AgreeInv
<1> QED  BY <1>1, <1>2

LEMMA AgreeInit == SystemInit => AgreeInv
<1> SUFFICES ASSUME SystemInit PROVE AgreeInv
  OBVIOUS
<1>1. Typed
  BY InitState DEF SystemInit, Typed
<1>2. /\ clients = << >> /\ srvq = << >> /\ cliq = [p \in Peers |-> << >>] /\ loc = "recv"
      /\ cstate = [p \in Peers |-> "OFF"] /\ recvd = [p \in Peers |-> Client!NoMsg]
  BY SameNetwork DEF SystemInit, Init, Client!ClientInit
<1>3. Client!NoMsg \in Messages
  BY SameNetwork, ZeroAssumption DEF Client!NoMsg, Msg, Messages, MsgTypes
<1>4. SystemTyped
  BY <1>1, <1>2, <1>3 DEF SystemTyped, CStates
<1>5. Dispatching
  BY <1>2 DEF Dispatching
<1>6. DOMAIN clients = {} /\ DOMAIN srvq = {} /\ \A p \in Peers : DOMAIN cliq[p] = {}
  BY <1>2
<1>7. ASSUME NEW p \in Peers
      PROVE  PeerInv(p)
  <2>1. cstate[p] = "OFF" /\ cstate[p] \notin Late
    BY <1>2 DEF Late, Client!Acking
  <2>2. Asking(p) /\ FirstOffer(p)
    BY <1>6, <2>1 DEF Asking, FirstOffer, Fresh, NoRecord
  <2>3. ~Accepted(p)
    BY <1>6, <2>1 DEF Accepted, From
  <2> QED  BY <2>1, <2>2, <2>3 DEF PeerInv, OneLease
<1> QED  BY <1>4, <1>5, <1>7 DEF AgreeInv

LEMMA AgreeAlways == SystemSpec => []AgreeInv
BY AgreeInit, AgreeStep, PTL DEF SystemSpec

\* Whatever is lost, repeated or overtaken, the record that mydhcpd counts as
\* in use is that of a client, if it still runs, that has asked for its address
\* and is about to use or using it.
THEOREM ServerAndClientAgree == SystemSpec => []ServerClientAgree
<1>1. AgreeInv => ServerClientAgree
  <2> SUFFICES ASSUME AgreeInv, NEW i \in DOMAIN clients, NEW p, p = clients[i].id,
                      clients[i].state = "IN_USE", cstate[p] # "EXITED"
               PROVE  /\ cstate[p] \in Client!Acking \cup {"IN_USE"}
                      /\ recvd[p].address = Config[clients[i].pa].address
    BY DEF ServerClientAgree
  <2>1. p \in Peers /\ cstate[p] \in CStates
    BY ServerTypes DEF AgreeInv, SystemTyped
  <2>2. PeerInv(p)
    BY <2>1 DEF AgreeInv
  <2>3. cstate[p] \in Late
    BY <2>1, <2>2 DEF PeerInv, Asking, Before, Late, CStates, Client!Running, Client!Acking
  <2>4. PICK a \in Terms : Agreed(p, a)
    BY <2>2, <2>3 DEF PeerInv, OneLease, Accepted
  <2> QED  BY <2>3, <2>4 DEF Agreed, Names, Late
<1> QED  BY <1>1, AgreeAlways, PTL

\* No mydhcpc ever asks for an address other than the one its record holds, so
\* f_act7 refuses none of them, although requests are repeated and overtaken and
\* a repeated DISCOVER makes the server withdraw one offer and make another.
THEOREM NoRequestRefused == SystemSpec => []NoWrongRequest
<1>1. AgreeInv => NoWrongRequest
  BY DEF AgreeInv, Dispatching, NoWrongRequest, At
<1> QED  BY <1>1, AgreeAlways, PTL

-----------------------------------------------------------------------------
(* The server among its clients *)

\* A step of the system is one of the server, or leaves the server alone.
LEMMA SystemSteps ==
  ASSUME [SystemNext]_allVars
  PROVE  [Next]_vars \/ UNCHANGED <<control, lists>>
BY DEF SystemNext, ServerStep, ClientStep, Next, allVars, vars, control, lists

LEMMA SettledStep ==
  ASSUME AgreeInv, Settled, [SystemNext]_allVars
  PROVE  (LeaseInv /\ AddressAccounting)'
<1>1. CASE [Next]_vars
  BY <1>1, NextStep, LeaseStep, AccountingStep DEF Settled, Typed
<1>2. CASE UNCHANGED <<control, lists>>
  <2>1. AddressAccounting'
    BY <1>2 DEF lists, Settled, AddressAccounting, FreeOnce, HeldOnce, FreeNotHeld, NoneLost
  <2>2. LeaseInv'
    BY <1>2 DEF control, lists, Settled, LeaseInv, EventInv, NewOnly, RowReady, CounterInStep,
                TimedOut
  <2> QED  BY <2>1, <2>2
<1> QED  BY <1>1, <1>2, SystemSteps

\* What the server keeps to among arbitrary peers it keeps to among its clients.
LEMMA SettledAlways == SystemSpec => []Settled
<1>1. SystemInit => LeaseInv /\ AddressAccounting
  BY InitState, LeaseInit DEF SystemInit
<1>2. AgreeInv => Typed
  BY DEF AgreeInv, SystemTyped
<1> QED  BY <1>1, <1>2, SettledStep, AgreeAlways, PTL DEF SystemSpec, Settled

\* A client's step takes at most datagrams away from what the server has sent.
LEMMA OnlyServerReplies ==
  ASSUME AgreeInv, ClientStep, NEW p \in Peers
  PROVE  ~(Len(cliq'[p]) > Len(cliq[p]))
<1>1. PICK q \in Peers : Acts(q)
  BY ClientActs DEF AgreeInv, ClientStep
<1>2. cliq' = cliq \/ (cliq[q] # << >> /\ cliq' = [cliq EXCEPT ![q] = Tail(cliq[q])])
  BY <1>1 DEF Acts, Hears
<1>3. cliq \in [Peers -> Seq(Messages)] /\ cliq[p] \in Seq(Messages)
  BY ServerTypes DEF AgreeInv
<1>4. Len(cliq[p]) \in Nat
  BY <1>3, LenProperties
<1>5. CASE cliq'[p] = cliq[p]
  BY <1>4, <1>5
<1>6. CASE cliq[p] # << >> /\ cliq'[p] = Tail(cliq[p])
  <2>1. Len(Tail(cliq[p])) = Len(cliq[p]) - 1
    BY <1>3, <1>6, HeadTailProperties
  <2> QED  BY <1>4, <1>6, <2>1
<1> QED  BY <1>2, <1>3, <1>5, <1>6

\* With real clients, too, every event has a row and no line of the config file
\* is lost; leases are not cut short, nobody's record is changed in another's
\* name, and every reply is backed by a record.
THEOREM ServerKeepsItsWord ==
  SystemSpec => /\ [](EveryEventHasRow /\ NoInitOnReceive /\ AddressAccounting)
                /\ LeaseNotCutShort /\ OnlyOwnersRecord /\ RepliesMatchLease
<1>1. Settled => EveryEventHasRow /\ NoInitOnReceive /\ AddressAccounting
  BY DEF Settled, LeaseInv, EventInv, RowReady, Handlers, EveryEventHasRow, NewOnly,
         NoInitOnReceive, At
<1>2. ASSUME Settled, Settled', AgreeInv, [SystemNext]_allVars
      PROVE  /\ [ \A p \in Peers :
                    (\E i \in Found(p) : clients[i].state = "IN_USE") /\ Found(p)' = {} =>
                       event \in {"RECV_RELE", "RECV_UNKN", "RECV_UNEX"} \/ sinceAck[p] > TTL ]_vars
             /\ [ /\ \A p \in Peers : Held(p)' # Held(p) =>
                          p = IF loc = "dispatch" THEN clients[pc].id ELSE Sender
                  /\ At("recv") /\ loc' = "dispatch" => clients'[pc'].id = Sender ]_vars
             /\ [ \A p \in Peers : Len(cliq'[p]) > Len(cliq[p]) =>
                    \E k \in DOMAIN cliq'[p] : /\ RemoveAt(cliq'[p], k) = cliq[p]
                                               /\ Backed(cliq[p][k], p)' ]_vars
  <2>0. Typed /\ Typed' /\ LeaseInv
    BY <1>2 DEF Settled
  <2>1. CASE [Next]_vars
    <3>1. \A p \in Peers :
             (\E i \in Found(p) : clients[i].state = "IN_USE") /\ Found(p)' = {} =>
                event \in {"RECV_RELE", "RECV_UNKN", "RECV_UNEX"} \/ sinceAck[p] > TTL
      BY <2>0, <2>1, LeaseEnds
    <3>2. /\ \A p \in Peers : Held(p)' # Held(p) =>
                    p = IF loc = "dispatch" THEN clients[pc].id ELSE Sender
          /\ At("recv") /\ loc' = "dispatch" => clients'[pc'].id = Sender
      BY <2>0, <2>1, OthersKeep, SendersRecord DEF Owner
    <3>3. \A p \in Peers : Len(cliq'[p]) > Len(cliq[p]) =>
             \E k \in DOMAIN cliq'[p] : RemoveAt(cliq'[p], k) = cliq[p] /\ Backed(cliq[p][k], p)'
      BY <2>0, <2>1, Silent, KeptReply, RefusedReply
    <3> QED  BY <3>1, <3>2, <3>3
  <2>2. CASE ClientStep
    <3>1. UNCHANGED <<clients, loc>>
      BY <2>2 DEF ClientStep, control, lists
    <3>2. \A p \in Peers : Found(p)' = Found(p) /\ Held(p)' = Held(p)
      BY <3>1 DEF Found, Held
    <3>3. \A p \in Peers : ~(Len(cliq'[p]) > Len(cliq[p]))
      BY <1>2, <2>2, OnlyServerReplies
    <3>4. ~(At("recv") /\ loc' = "dispatch")
      BY <3>1 DEF At
    <3> QED  BY <3>2, <3>3, <3>4
  <2>3. ServerStep \/ UNCHANGED allVars => [Next]_vars
    BY DEF ServerStep, Next, allVars
  <2> QED  BY <1>2, <2>1, <2>2, <2>3 DEF SystemNext
<1> QED  BY <1>1, <1>2, SettledAlways, AgreeAlways, PTL
         DEF SystemSpec, LeaseNotCutShort, OnlyOwnersRecord, RepliesMatchLease

\* Server, network and clients together implement the pool of lines: whatever is
\* lost, repeated or overtaken, and whenever clients crash, lines are only
\* offered, offered again, granted and taken back.
THEOREM SystemImplementsPool == SystemSpec => ImplementsLeasePool
<1>1. SystemInit => Pool!Init
  BY PoolInit DEF SystemInit
<1>2. ASSUME Settled, Typed', [SystemNext]_allVars
      PROVE  [Pool!Next]_(Pool!vars)
  <2>1. CASE [Next]_vars
    BY <1>2, <2>1, PoolStep
  <2>2. CASE UNCHANGED <<control, lists>>
    <3>1. Mirror /\ Mirror' /\ clients' = clients
      BY <1>2, <2>2, MirrorNow, MirrorNext DEF Settled, lists
    <3> QED  BY <3>1, PoolStutters DEF Pool!vars
  <2> QED  BY <1>2, <2>1, <2>2, SystemSteps
<1>3. Settled => Typed
  BY DEF Settled
<1> QED  BY <1>1, <1>2, <1>3, SettledAlways, PTL DEF SystemSpec, ImplementsLeasePool, Pool!Spec

\* If the config file repeats no address, two clients that use their addresses,
\* and that the server has not forgotten, never use the same one.
THEOREM LeasesDistinct ==
  ASSUME ConfigDistinct
  PROVE  SystemSpec => []DistinctLeases
<1>1. AgreeInv /\ AddressAccounting => DistinctLeases
  <2> SUFFICES ASSUME AgreeInv, AddressAccounting,
                      NEW i \in DOMAIN clients, NEW j \in DOMAIN clients,
                      cstate[clients[i].id] \in Client!Leasing,
                      cstate[clients[j].id] \in Client!Leasing,
                      recvd[clients[i].id].address = recvd[clients[j].id].address
               PROVE  i = j
    BY DEF DistinctLeases
  <2>1. \A k \in {i, j} : recvd[clients[k].id].address = Config[clients[k].pa].address
    <3> SUFFICES ASSUME NEW k \in {i, j}
                 PROVE  recvd[clients[k].id].address = Config[clients[k].pa].address
      OBVIOUS
    <3>1. k \in DOMAIN clients /\ clients[k].id \in Peers /\ cstate[clients[k].id] \in Late
      BY ServerTypes DEF AgreeInv, SystemTyped, Client!Leasing, Client!Acking, Late
    <3>2. PICK a \in Terms : Agreed(clients[k].id, a)
      BY <3>1 DEF AgreeInv, PeerInv, OneLease, Accepted
    <3> QED  BY <3>1, <3>2 DEF Agreed, Names
  <2>2. clients[i] \in Records /\ clients[j] \in Records
    BY LenProperties, ElementOfSeq DEF AgreeInv, SystemTyped, Typed, TypeOK
  <2>3. clients[i].pa = clients[j].pa
    BY <2>1, <2>2, ConfigDistinct DEF ConfigDistinct, Records
  <2> QED  BY <2>3 DEF AddressAccounting, HeldOnce
<1> QED  BY <1>1, AgreeAlways, SettledAlways, PTL DEF Settled

-----------------------------------------------------------------------------
(* Renewals *)

\* Every lease on its way to a client lasts for two seconds or more.
Long(m)   == m.type = "ACK" /\ m.code = 0 => m.ttl >= 2
LongLeases == \A p \in Peers : \A k \in DOMAIN cliq[p] : Long(cliq[p][k])

TimerTyped == armed \in [Peers -> BOOLEAN] /\ alrm \in [Peers -> BOOLEAN]

TimerInv == TimerTyped /\ LongLeases /\ RenewalPending

\* The server promises what is left of its ttl on the wire.
LEMMA ServerPromises ==
  ASSUME SystemTyped, Main, WireTTL >= 2
  PROVE  \/ cliq' = cliq
         \/ \E p \in Peers, m \in Messages : send_message(p, m) /\ Long(m)
<1>1. CASE RecvEmpty \/ Pause \/ RecvStranger \/ RecvDiscover \/ RecvListed
              \/ ScanTimeout \/ ScanNext \/ ScanEnd \/ f_act5
  BY <1>1 DEF RecvEmpty, Pause, RecvStranger, RecvDiscover, RecvListed, ScanTimeout, ScanNext,
              ScanEnd, f_act5
<1>2. CASE RecvDiscoverNoIP
  <2> DEFINE m == Msg("OFFER", 1, 0, Zero, Zero)
  <2>1. m \in Messages /\ Long(m)
    BY ZeroAssumption DEF Msg, Messages, MsgTypes, Long
  <2>2. Sender \in Peers
    BY <1>2, ReceiveType DEF RecvDiscoverNoIP, Receives, SystemTyped
  <2>3. send_message(Sender, m)
    BY <1>2 DEF RecvDiscoverNoIP, f_act2
  <2> HIDE DEF m
  <2> QED  BY <2>1, <2>2, <2>3
<1>3. CASE f_act1 \/ f_act3 \/ f_act4 \/ f_act6 \/ f_act7
  <2> DEFINE m(t, c, l) == LeaseMsg(t, c, l, clients[pc])
             p == clients[pc].id
  <2>1. clients[pc] \in Records /\ p \in Peers
    <3>1. \E f : Dispatched(f)
      BY <1>3 DEF f_act1, f_act3, f_act4, f_act6, f_act7
    <3>2. clients[pc] \in Records
      BY <3>1, DispatchedType DEF SystemTyped
    <3> QED  BY <3>2 DEF Records
  <2>2. PICK t \in {"OFFER", "ACK"}, c \in {0, 4}, l \in {0, WireTTL} :
            Reply(t, c, l) /\ (t = "ACK" /\ c = 0 => l = WireTTL)
    BY <1>3 DEF f_act1, f_act3, f_act4, f_act6, f_act7
  <2>3. m(t, c, l) \in Messages
    BY <2>1, LeaseMsgType, Durations DEF MsgTypes
  <2>4. Long(m(t, c, l))
    BY <2>2 DEF Long, LeaseMsg, Msg
  <2>5. send_message(p, m(t, c, l))
    BY <2>2 DEF Reply
  <2> HIDE DEF m, p
  <2> QED  BY <2>1, <2>3, <2>4, <2>5
<1> QED  BY <1>1, <1>2, <1>3 DEF Main, WaitEvent, Handler

LEMMA StaysLong ==
  ASSUME cliq \in [Peers -> Seq(Messages)], LongLeases, NEW p \in Peers, NEW m \in Messages,
         send_message(p, m), Long(m)
  PROVE  LongLeases'
<1>1. PICK q \in Transmit(cliq[p], m) : cliq' = [cliq EXCEPT ![p] = q]
  BY DEF send_message
<1>2. cliq[p] \in Seq(Messages)
  OBVIOUS
<1>3. \A k \in DOMAIN q : Long(q[k])
  <2>1. PICK n, old : Moved(q, cliq[p], m, n, old)
    BY <1>1, <1>2, Delivered
  <2>2. \A k \in DOMAIN q : q[k] = m \/ \E j \in DOMAIN cliq[p] : q[k] = cliq[p][j]
    BY <2>1 DEF Moved
  <2>3. \A j \in DOMAIN cliq[p] : Long(cliq[p][j])
    BY DEF LongLeases
  <2> QED  BY <2>2, <2>3
<1>4. \A r \in Peers : cliq'[r] = IF r = p THEN q ELSE cliq[r]
  BY <1>1
<1> QED  BY <1>3, <1>4 DEF LongLeases

LEMMA TimerServer ==
  ASSUME SystemTyped, TimerInv, WireTTL >= 2, ServerStep
  PROVE  TimerInv'
<1>1. UNCHANGED <<cstate, armed, alrm>>
  BY DEF ServerStep, clientVars
<1>2. LongLeases'
  <2>1. \/ cliq' = cliq
        \/ \E p \in Peers, m \in Messages : send_message(p, m) /\ Long(m)
    <3>1. CASE Main
      BY <3>1, ServerPromises
    <3>2. CASE Tick \/ Die
      BY <3>2 DEF Tick, Die
    <3> QED  BY <3>1, <3>2 DEF ServerStep
  <2>2. CASE cliq' = cliq
    BY <2>2 DEF TimerInv, LongLeases
  <2>3. CASE \E p \in Peers, m \in Messages : send_message(p, m) /\ Long(m)
    BY <2>3, StaysLong, ServerTypes DEF TimerInv
  <2> QED  BY <2>1, <2>2, <2>3
<1>3. TimerTyped' /\ RenewalPending'
  BY <1>1 DEF TimerInv, TimerTyped, RenewalPending, Client!RenewalPending
<1> QED  BY <1>2, <1>3 DEF TimerInv

\* An event ends IN_USE_STATE, or starts it with the timer of the ACK, or has no row.
LEMMA TimerHandle ==
  ASSUME NEW p \in Peers, NEW e, NEW m, Client!Handle(p, e, m)
  PROVE  \/ \E s : s # "IN_USE" /\ Client!Enter(p, s) /\ armed' = armed
         \/ /\ e = "RECV_ACK_OK" /\ Client!Enter(p, "IN_USE")
            /\ armed' = [armed EXCEPT ![p] = m.ttl \div 2 > 0]
         \/ /\ \A f \in DOMAIN Client!Rows : <<cstate[p], e>> \notin Client!Rows[f]
            /\ UNCHANGED <<cstate, armed>>
<1> DEFINE On(f) == <<cstate[p], e>> \in Client!Rows[f]
<1>1. On("f_act4") => e = "RECV_ACK_OK"
  BY ClientRows
<1> QED  BY <1>1 DEF Client!Handle, Client!f_act1, Client!f_act2, Client!f_act3, Client!f_act4,
                 Client!f_act5, Client!f_act6, Client!f_act7, Client!f_act8, Client!Send,
                 Client!set_timer

\* The signals have their rows in IN_USE_STATE.
LEMMA SignalRows ==
  ASSUME NEW e \in {"RECV_SIGHUP", "HALF_TTL_PASS"}
  PROVE  \E f \in DOMAIN Client!Rows : <<"IN_USE", e>> \in Client!Rows[f]
<1>1. Client!Rows["f_act8"] = {<<"IN_USE", "RECV_SIGHUP">>}
  BY DEF Client!Rows, Client!Table
<1> QED  BY <1>1, ClientRows

LEMMA TimerActor ==
  ASSUME SystemTyped, TimerInv, NEW p \in Peers,
         \/ Client!Start(p) \/ Client!Block(p) \/ Client!Recv(p) \/ Client!Timeout(p)
         \/ Client!identify_signal(p) \/ Client!Sighup(p) \/ Client!Sigalrm(p)
         \/ Client!Crash(p)
  PROVE  /\ \E b \in BOOLEAN : armed' = [armed EXCEPT ![p] = b]
         /\ \E b \in BOOLEAN : alrm' = [alrm EXCEPT ![p] = b]
         /\ \E s : cstate' = [cstate EXCEPT ![p] = s]
         /\ cstate'[p] = "IN_USE" => armed'[p] \/ alrm'[p]
<1>1. /\ cstate \in [Peers -> CStates] /\ armed \in [Peers -> BOOLEAN]
      /\ alrm \in [Peers -> BOOLEAN]
      /\ cstate[p] = "IN_USE" => armed[p] \/ alrm[p]
  BY SameNetwork DEF SystemTyped, TimerInv, TimerTyped, RenewalPending, Client!RenewalPending
<1>2. /\ armed = [armed EXCEPT ![p] = armed[p]] /\ alrm = [alrm EXCEPT ![p] = alrm[p]]
      /\ cstate = [cstate EXCEPT ![p] = cstate[p]] /\ armed[p] \in BOOLEAN /\ alrm[p] \in BOOLEAN
  BY <1>1
<1>3. CASE Client!Start(p) \/ Client!Crash(p)
  <2>1. PICK s \in {"WAIT_OFFER", "EXITED"} : /\ cstate' = [cstate EXCEPT ![p] = s]
                                              /\ UNCHANGED <<armed, alrm>>
    BY <1>3 DEF Client!Start, Client!Crash, Client!Send, Client!Enter
  <2>2. cstate'[p] = s /\ s # "IN_USE"
    BY <1>1, <2>1
  <2> QED  BY <1>2, <2>1, <2>2
<1>4. CASE Client!Block(p) \/ Client!Sighup(p)
  <2>1. UNCHANGED <<cstate, armed, alrm>>
    BY <1>4 DEF Client!Block, Client!Sighup
  <2> QED  BY <1>1, <1>2, <2>1
<1>5. CASE Client!Sigalrm(p)
  <2>1. /\ armed' = [armed EXCEPT ![p] = FALSE] /\ alrm' = [alrm EXCEPT ![p] = TRUE]
        /\ cstate' = cstate
    BY <1>5 DEF Client!Sigalrm
  <2>2. alrm'[p]
    BY <1>1, <2>1
  <2> QED  BY <1>2, <2>1, <2>2
<1>6. CASE Client!Recv(p)
  <2> DEFINE m == Head(cliq[p])
             e == Client!EventOf(cstate[p], m)
  <2>1. /\ cstate[p] \in Client!Running \ {"IN_USE"} /\ cliq[p] # << >>
        /\ Client!Handle(p, e, m) /\ alrm' = alrm
    BY <1>6 DEF Client!Recv, Client!InSelect, Client!Up
  <2>2. m \in Messages /\ m = cliq[p][1] /\ 1 \in DOMAIN cliq[p]
    <3>1. cliq[p] \in Seq(Messages)
      BY ServerTypes
    <3>2. Len(cliq[p]) \in Nat /\ DOMAIN cliq[p] = 1..Len(cliq[p]) /\ Len(cliq[p]) # 0
      BY <2>1, <3>1, LenProperties, EmptySeq
    <3> QED  BY <2>1, <3>1, <3>2, HeadTailProperties
  <2>3. /\ \E f \in DOMAIN Client!Rows : <<cstate[p], e>> \in Client!Rows[f]
        /\ e = "RECV_ACK_OK" => m.type = "ACK" /\ m.code = 0
    <3>1. e = "RECV_ACK_OK" => m.type = "ACK" /\ m.code = 0
      BY <2>1 DEF Client!EventOf, Client!Running, Client!Offering, Client!Acking
    <3> QED  BY <2>1, <3>1, Accepting
  <2>4. e = "RECV_ACK_OK" => m.ttl \div 2 > 0
    <3>1. m.ttl \in Nat
      BY <2>2 DEF Messages
    <3>2. Long(m)
      BY <2>2 DEF TimerInv, LongLeases
    <3> QED  BY <2>3, <3>1, <3>2 DEF Long
  <2> HIDE DEF m, e
  <2>5. \/ \E s : s # "IN_USE" /\ Client!Enter(p, s) /\ armed' = armed
        \/ Client!Enter(p, "IN_USE") /\ armed' = [armed EXCEPT ![p] = TRUE]
    <3>1. CASE e = "RECV_ACK_OK"
      <4>1. (m.ttl \div 2 > 0) <=> TRUE
        BY <2>4, <3>1
      <4> QED  BY <2>1, <2>3, <4>1, TimerHandle
    <3>2. CASE e # "RECV_ACK_OK"
      BY <2>1, <2>3, <3>2, TimerHandle
    <3> QED  BY <3>1, <3>2
  <2>6. CASE Client!Enter(p, "IN_USE") /\ armed' = [armed EXCEPT ![p] = TRUE]
    <3>1. armed'[p]
      BY <1>1, <2>6
    <3> QED  BY <1>2, <2>1, <2>6, <3>1 DEF Client!Enter
  <2>7. CASE \E s : s # "IN_USE" /\ Client!Enter(p, s) /\ armed' = armed
    <3>1. PICK s : s # "IN_USE" /\ cstate' = [cstate EXCEPT ![p] = s] /\ armed' = armed
      BY <2>7 DEF Client!Enter
    <3>2. cstate'[p] # "IN_USE"
      BY <1>1, <3>1
    <3> QED  BY <1>2, <2>1, <3>1, <3>2
  <2> QED  BY <2>5, <2>6, <2>7
<1>7. CASE Client!Timeout(p) \/ Client!identify_signal(p)
  <2>1. PICK e \in {"RECV_TOUT", "RECV_SIGHUP", "HALF_TTL_PASS"} :
           /\ Client!Handle(p, e, recvd[p])
           /\ e = "RECV_TOUT" => cstate[p] # "IN_USE"
           /\ \E b \in BOOLEAN : alrm' = [alrm EXCEPT ![p] = b]
    <3>1. alrm' = alrm \/ alrm' = [alrm EXCEPT ![p] = FALSE]
      BY <1>7 DEF Client!Timeout, Client!identify_signal
    <3>2. \E b \in BOOLEAN : alrm' = [alrm EXCEPT ![p] = b]
      BY <1>2, <3>1
    <3> QED  BY <1>7, <3>2 DEF Client!Timeout, Client!InSelect, Client!identify_signal
  <2>2. \/ \E s : s # "IN_USE" /\ Client!Enter(p, s) /\ armed' = armed
        \/ /\ \A f \in DOMAIN Client!Rows : <<cstate[p], e>> \notin Client!Rows[f]
           /\ UNCHANGED <<cstate, armed>>
    BY <2>1, TimerHandle
  <2>3. PICK s : s # "IN_USE" /\ cstate' = [cstate EXCEPT ![p] = s] /\ armed' = armed
    <3>1. cstate[p] = "IN_USE" =>
              \E f \in DOMAIN Client!Rows : <<cstate[p], e>> \in Client!Rows[f]
      BY <2>1, SignalRows
    <3> QED  BY <1>2, <2>2, <3>1 DEF Client!Enter
  <2>4. cstate'[p] # "IN_USE"
    BY <1>1, <2>3
  <2> QED  BY <1>2, <2>1, <2>3, <2>4
<1> QED  BY <1>3, <1>4, <1>5, <1>6, <1>7

LEMMA TimerClient ==
  ASSUME SystemTyped, TimerInv, ClientStep
  PROVE  TimerInv'
<1>1. PICK p \in Peers : \/ Client!Start(p) \/ Client!Block(p) \/ Client!Recv(p)
                         \/ Client!Timeout(p) \/ Client!identify_signal(p)
                         \/ Client!Sighup(p) \/ Client!Sigalrm(p) \/ Client!Crash(p)
  BY SameNetwork DEF ClientStep, Client!ClientNext, Client!Thread
<1>2. /\ \E b \in BOOLEAN : armed' = [armed EXCEPT ![p] = b]
      /\ \E b \in BOOLEAN : alrm' = [alrm EXCEPT ![p] = b]
      /\ \E s : cstate' = [cstate EXCEPT ![p] = s]
      /\ cstate'[p] = "IN_USE" => armed'[p] \/ alrm'[p]
  BY <1>1, TimerActor
<1>3. TimerTyped'
  BY <1>2 DEF TimerInv, TimerTyped
<1>4. RenewalPending'
  <2>1. ASSUME NEW q \in Peers \ {p}, cstate'[q] = "IN_USE"
        PROVE  armed'[q] \/ alrm'[q]
    <3>1. cstate'[q] = cstate[q]
      BY <1>2 DEF SystemTyped
    <3>2. (armed'[q] <=> armed[q]) /\ (alrm'[q] <=> alrm[q])
      BY <1>2 DEF TimerInv, TimerTyped
    <3> QED  BY <2>1, <3>1, <3>2, SameNetwork DEF TimerInv, RenewalPending, Client!RenewalPending
  <2> QED  BY <1>2, <2>1, SameNetwork DEF RenewalPending, Client!RenewalPending
<1>5. LongLeases'
  <2>1. cliq' = cliq \/ (cliq[p] # << >> /\ cliq' = [cliq EXCEPT ![p] = Tail(cliq[p])])
    BY <1>1 DEF Client!Start, Client!Block, Client!Recv, Client!Timeout, Client!identify_signal,
                Client!Sighup, Client!Sigalrm, Client!Crash
  <2>2. CASE cliq' = cliq
    BY <2>2 DEF TimerInv, LongLeases
  <2>3. CASE cliq[p] # << >> /\ cliq' = [cliq EXCEPT ![p] = Tail(cliq[p])]
    <3>1. cliq[p] \in Seq(Messages) /\ cliq \in [Peers -> Seq(Messages)]
      BY ServerTypes
    <3>2. /\ Tail(cliq[p]) \in Seq(Messages) /\ Len(Tail(cliq[p])) = Len(cliq[p]) - 1
          /\ \A k \in 1..Len(Tail(cliq[p])) : Tail(cliq[p])[k] = cliq[p][k + 1]
      BY <2>3, <3>1, HeadTailProperties
    <3>3. /\ Len(cliq[p]) \in Nat /\ DOMAIN cliq[p] = 1..Len(cliq[p])
          /\ DOMAIN Tail(cliq[p]) = 1..Len(cliq[p]) - 1
      BY <3>1, <3>2, LenProperties
    <3>4. \A k \in DOMAIN Tail(cliq[p]) : \E j \in DOMAIN cliq[p] : Tail(cliq[p])[k] = cliq[p][j]
      <4>1. \A k \in DOMAIN Tail(cliq[p]) : k + 1 \in DOMAIN cliq[p]
        BY <3>3
      <4> QED  BY <3>2, <3>3, <4>1
    <3>5. \A q \in Peers : cliq'[q] = IF q = p THEN Tail(cliq[p]) ELSE cliq[q]
      BY <2>3, <3>1
    <3>6. \A q \in Peers : \A k \in DOMAIN cliq'[q] :
             \E j \in DOMAIN cliq[q] : cliq'[q][k] = cliq[q][j]
      BY <3>4, <3>5
    <3> QED  BY <3>6 DEF TimerInv, LongLeases
  <2> QED  BY <2>1, <2>2, <2>3
<1> QED  BY <1>3, <1>4, <1>5 DEF TimerInv

\* If what is left of the server's ttl on the wire is two seconds or more, every
\* client in IN_USE_STATE has its timer running or its SIGALRM noted, whatever
\* is lost, repeated or overtaken.  (The run dhcp_shortest_lease has a ttl of one.)
THEOREM RenewalsPending ==
  ASSUME WireTTL >= 2
  PROVE  SystemSpec => []RenewalPending
<1>1. SystemInit => TimerInv
  <2> SUFFICES ASSUME SystemInit PROVE TimerInv
    OBVIOUS
  <2>1. /\ cliq = [p \in Peers |-> << >>] /\ cstate = [p \in Peers |-> "OFF"]
        /\ armed = [p \in Peers |-> FALSE] /\ alrm = [p \in Peers |-> FALSE]
    BY SameNetwork DEF SystemInit, Init, Client!ClientInit
  <2> QED  BY <2>1, SameNetwork
           DEF TimerInv, TimerTyped, LongLeases, RenewalPending, Client!RenewalPending
<1>2. ASSUME AgreeInv, TimerInv, [SystemNext]_allVars
      PROVE  TimerInv'
  <2>1. SystemTyped
    BY <1>2 DEF AgreeInv
  <2>2. CASE UNCHANGED allVars
    BY <1>2, <2>2 DEF allVars, vars, clientVars, TimerInv, TimerTyped, LongLeases,
                      RenewalPending, Client!RenewalPending
  <2> QED  BY <1>2, <2>1, <2>2, TimerServer, TimerClient DEF SystemNext
<1>3. TimerInv => RenewalPending
  BY DEF TimerInv
<1> QED  BY <1>1, <1>2, <1>3, AgreeAlways, PTL DEF SystemSpec
=============================================================================
