----------------------------- MODULE DhcpServer -----------------------------
(***************************************************************************)
(* The address server, mydhcpd.c: one thread that alternates between       *)
(* wait_event and the handlers of ptab, and one asynchronous actor, the    *)
(* SIGALRM handler that decrements every listed client's ttlcounter.       *)
(*                                                                         *)
(*  clients   the list at client_head, oldest first (insertion at TAIL)    *)
(*  free      the list at addr_head: nodes, i.e. lines of the config file; *)
(*            a struct addr is its line number, not its address, because   *)
(*            nothing stops two lines from naming the same address         *)
(*  loc, pc   the thread's position and the global pc as an index into     *)
(*            clients (0: no record)                                       *)
(*  event     the event wait_event returned, while loc = "dispatch"        *)
(*  srvq,cliq the receive buffers of the server's and the clients' sockets *)
(*  sinceAck  history: ticks since ACK(ok) was last sent to each peer      *)
(*                                                                         *)
(* Every handler sends first and changes the record afterwards; a tick     *)
(* between the two commutes with the handler, so a handler is one step.    *)
(***************************************************************************)
EXTENDS DhcpMessages, Integers

CONSTANTS
    Config,     \* the address lines of the config file, in order
    TTL,        \* its first line
    WireModulus \* 2^16: htons keeps 16 bits of ttl

ASSUME ConfigAssumption == Config \in Seq([address : Addrs, netmask : Addrs])
ASSUME TTLAssumption == TTL \in Nat
ASSUME WireModulusAssumption == WireModulus \in Nat \ {0}

VARIABLES status, loc, pc, event, clients, free, sinceAck, srvq, cliq

control == <<status, loc, pc, event>>
lists   == <<clients, free, sinceAck>>
vars    == <<status, loc, pc, event, clients, free, sinceAck, srvq, cliq>>

Nodes   == 1..Len(Config)
HalfTTL == TTL \div 2
WireTTL == TTL % WireModulus

ClientStates == {"INIT", "WAIT_REQU", "IN_USE", "REQU_TOUT"}
Events == {"RECV_DISC", "RECV_REQU_ALLOC", "RECV_WRONG_REQU_ALLOC", "RECV_TOUT",
           "RECV_UNKN", "RECV_UNEX", "RECV_REQU_EXT", "RECV_RELE", "USE_TOUT"}

\* ptab; its row 18 {INIT_STATE, NO_IP_EVENT, f_act2} is RecvDiscoverNoIP.
ptab_Rows == { <<"INIT",      "RECV_DISC",             "f_act1">>,
               <<"WAIT_REQU", "RECV_REQU_ALLOC",       "f_act3">>,
               <<"WAIT_REQU", "RECV_TOUT",             "f_act4">>,
               <<"WAIT_REQU", "RECV_WRONG_REQU_ALLOC", "f_act7">>,
               <<"WAIT_REQU", "RECV_UNKN",             "f_act5">>,
               <<"WAIT_REQU", "RECV_UNEX",             "f_act5">>,
               <<"IN_USE",    "RECV_REQU_EXT",         "f_act6">>,
               <<"IN_USE",    "RECV_RELE",             "f_act5">>,
               <<"IN_USE",    "USE_TOUT",              "f_act5">>,
               <<"IN_USE",    "RECV_UNKN",             "f_act5">>,
               <<"IN_USE",    "RECV_UNEX",             "f_act5">>,
               <<"REQU_TOUT", "RECV_REQU_ALLOC",       "f_act3">>,
               <<"REQU_TOUT", "RECV_WRONG_REQU_ALLOC", "f_act7">>,
               <<"REQU_TOUT", "RECV_TOUT",             "f_act5">>,
               <<"REQU_TOUT", "RECV_UNKN",             "f_act5">>,
               <<"REQU_TOUT", "RECV_UNEX",             "f_act5">> }

\* Faults: a missing row; the offer repeated for ever; an expired lease
\* offered again instead of ended.
ptab_NoLastTimeout == ptab_Rows \ {<<"REQU_TOUT", "RECV_TOUT", "f_act5">>}
ptab_OfferForever  == ptab_NoLastTimeout \cup {<<"REQU_TOUT", "RECV_TOUT", "f_act4">>}
ptab_Reoffer       == (ptab_Rows \ {<<"IN_USE", "USE_TOUT", "f_act5">>})
                          \cup {<<"IN_USE", "USE_TOUT", "f_act4">>}

ptab == ptab_Rows

Init ==
    /\ status = "running" /\ loc = "recv" /\ pc = 0 /\ event = "CONTINUE"
    /\ clients = << >>
    /\ free = [i \in Nodes |-> i]
    /\ sinceAck = [p \in Peers |-> TTL + 1]
    /\ srvq = << >>
    /\ cliq = [p \in Peers |-> << >>]
-----------------------------------------------------------------------------
(* Helpers *)

\* Fault: the port is not compared.
Found_AnyPort(p) == {i \in DOMAIN clients : clients[i].id.ip = p.ip}

\* The records of peer p, by index; at most one (UniqueClients).
Found(p) == {i \in DOMAIN clients : clients[i].id.ip = p.ip /\ clients[i].id.port = p.port}

\* Fault: the search starts behind the first record.
search_client_SkipFirst(p) ==
    LET later == Found(p) \ {1}
    IN  IF later = {} THEN 0 ELSE CHOOSE i \in later : \A j \in later : i <= j

\* search_client: the first such record, 0 for NULL.
search_client(p) ==
    LET found == Found(p)
    IN  IF found = {} THEN 0 ELSE CHOOSE i \in found : \A j \in found : i <= j

At(l) == status = "running" /\ loc = l

\* Resume the thread at l, with no event pending.
Goto(l) == /\ loc' = l /\ pc' = 0 /\ event' = "CONTINUE"
           /\ UNCHANGED status

\* wait_event returns e for the record at index i, and main looks it up.
Return(e, i) == /\ loc' = "dispatch" /\ pc' = i /\ event' = e
                /\ UNCHANGED status

send_message(p, m) == \E q \in Transmit(cliq[p], m) : cliq' = [cliq EXCEPT ![p] = q]

\* A message that carries the lease of record c.
LeaseMsg(type, code, ttl, c) ==
    Msg(type, code, ttl, Config[c.pa].address, Config[c.pa].netmask)

\* The list operations of the code, all called for the TAIL (insert_*) or for
\* the first element (del_addr_from_list).
insert_addr_list(n)   == free' = Append(free, n)
del_addr_from_list    == free' = Tail(free)
insert_client_list(c) == clients' = Append(clients, c)

\* Fault: the address is not given back.
terminate_Leak(i) == clients' = RemoveAt(clients, i) /\ UNCHANGED free

\* Unlink the record at index i and give its address back, at the tail.
terminate(i) == /\ clients' = RemoveAt(clients, i)
                /\ insert_addr_list(clients[i].pa)

Acked(p) == sinceAck' = [sinceAck EXCEPT ![p] = 0]
-----------------------------------------------------------------------------
(* wait_event *)

\* recvfrom(MSG_DONTWAIT) finds nothing.  A tick between this EAGAIN and
\* pause() is spent: pause then waits for the next one.
RecvEmpty == /\ At("recv") /\ srvq = << >>
             /\ Goto("eagain")
             /\ UNCHANGED <<lists, srvq, cliq>>

Pause == /\ At("eagain")
         /\ Goto("pause")
         /\ UNCHANGED <<lists, srvq, cliq>>

\* The datagram at the head of the buffer, and whom it came from.
Sender   == Head(srvq).src
Received == Head(srvq).msg

Receives == At("recv") /\ srvq # << >> /\ srvq' = Tail(srvq)

\* Only DISCOVER opens a record.
RecvStranger ==
    /\ Receives
    /\ search_client(Sender) = 0
    /\ Received.type # "DISCOVER"
    /\ Goto("recv")
    /\ UNCHANGED <<lists, cliq>>

\* The refusal; the record made for it is freed again, and was never listed.
f_act2(p) == send_message(p, Msg("OFFER", 1, 0, Zero, Zero))

\* NO_IP_EVENT: no free address for a new client.
RecvDiscoverNoIP ==
    /\ Receives
    /\ search_client(Sender) = 0
    /\ Received.type = "DISCOVER"
    /\ free = << >>
    /\ f_act2(Sender)
    /\ Goto("recv")
    /\ UNCHANGED lists

\* The record of a new client, which takes the first free address.
NewRecord == [id |-> Sender, state |-> "INIT", ttlcounter |-> HalfTTL, pa |-> Head(free)]

\* Fault: no del_addr_from_list.
RecvDiscover_KeepFree ==
    /\ Receives
    /\ search_client(Sender) = 0
    /\ Received.type = "DISCOVER"
    /\ free # << >>
    /\ insert_client_list(NewRecord)
    /\ Return("RECV_DISC", Len(clients) + 1)
    /\ UNCHANGED <<free, sinceAck, cliq>>

RecvDiscover ==
    /\ Receives
    /\ search_client(Sender) = 0
    /\ Received.type = "DISCOVER"
    /\ free # << >>
    /\ insert_client_list(NewRecord)
    /\ del_addr_from_list
    /\ Return("RECV_DISC", Len(clients) + 1)
    /\ UNCHANGED <<sinceAck, cliq>>

\* A REQUEST(allocate) must name the address and netmask that were offered
\* and ask for no more time than the server grants.
MatchesOffer(c, m) == /\ m.address = Config[c.pa].address
                      /\ m.netmask = Config[c.pa].netmask
                      /\ m.ttl <= TTL

\* The event a message means for a listed client, state by state.
EventOf(c, m) ==
    CASE m.type = "UNKNOWN" -> "RECV_UNKN"
      [] m.type = "REQUEST" /\ c.state = "IN_USE" ->
            IF m.code = 3 THEN "RECV_REQU_EXT" ELSE "RECV_UNEX"
      [] m.type = "REQUEST" /\ c.state # "IN_USE" ->
            IF m.code # 2 THEN "RECV_UNEX"
            ELSE IF MatchesOffer(c, m) THEN "RECV_REQU_ALLOC"
            ELSE "RECV_WRONG_REQU_ALLOC"
      [] m.type = "RELEASE" /\ c.state = "IN_USE" ->
            IF m.address = Config[c.pa].address THEN "RECV_RELE" ELSE "CONTINUE"
      [] OTHER -> "RECV_UNEX"

\* A listed client's message: dispatched, or dropped (a RELEASE of another
\* address).  A record still in INIT_STATE would be terminated on the spot.
RecvListed ==
    /\ Receives
    /\ search_client(Sender) # 0
    /\ LET i == search_client(Sender)
           e == EventOf(clients[i], Received)
       IN  IF clients[i].state = "INIT" THEN
               terminate(i) /\ Goto("recv") /\ UNCHANGED <<sinceAck, cliq>>
           ELSE /\ IF e = "CONTINUE" THEN Goto("recv") ELSE Return(e, i)
                /\ UNCHANGED <<lists, cliq>>
-----------------------------------------------------------------------------
(* The scan for expired records after pause(), at most one per wake-up *)

Expired(c) == c.ttlcounter < 0 /\ c.state # "INIT"

ScanTimeout ==
    /\ At("scan") /\ pc <= Len(clients)
    /\ Expired(clients[pc])
    /\ Return(IF clients[pc].state = "IN_USE" THEN "USE_TOUT" ELSE "RECV_TOUT", pc)
    /\ UNCHANGED <<lists, srvq, cliq>>

ScanNext ==
    /\ At("scan") /\ pc <= Len(clients)
    /\ ~Expired(clients[pc])
    /\ pc' = pc + 1
    /\ UNCHANGED <<status, loc, event, lists, srvq, cliq>>

ScanEnd ==
    /\ At("scan") /\ pc > Len(clients)
    /\ Goto("recv")
    /\ UNCHANGED <<lists, srvq, cliq>>
-----------------------------------------------------------------------------
(* The handlers *)

\* main's loop over ptab has found handler f for the record at pc.
Dispatched(f) == /\ At("dispatch")
                 /\ <<clients[pc].state, event, f>> \in ptab
                 /\ Goto("recv")
                 /\ UNCHANGED srvq

Reply(type, code, ttl) ==
    send_message(clients[pc].id, LeaseMsg(type, code, ttl, clients[pc]))

\* Fault: the state change is forgotten.
f_act1_StayInit == /\ Dispatched("f_act1")
                   /\ Reply("OFFER", 0, WireTTL)
                   /\ UNCHANGED lists

\* OFFER to a new client.
f_act1 == /\ Dispatched("f_act1")
          /\ Reply("OFFER", 0, WireTTL)
          /\ clients' = [clients EXCEPT ![pc].state = "WAIT_REQU"]
          /\ UNCHANGED <<free, sinceAck>>

\* The offer was accepted: ACK, and the lease starts.
f_act3 == /\ Dispatched("f_act3")
          /\ Reply("ACK", 0, WireTTL)
          /\ clients' = [clients EXCEPT ![pc].state = "IN_USE", ![pc].ttlcounter = TTL]
          /\ Acked(clients[pc].id)
          /\ UNCHANGED free

\* Faults: half the ttl is added to the whole; the offer counts as a lease.
f_act4_TooLong == /\ Dispatched("f_act4")
                  /\ Reply("OFFER", 0, WireTTL)
                  /\ clients' = [clients EXCEPT ![pc].state = "REQU_TOUT",
                                                ![pc].ttlcounter = TTL + HalfTTL]
                  /\ UNCHANGED <<free, sinceAck>>

f_act4_InUse == /\ Dispatched("f_act4")
                /\ Reply("OFFER", 0, WireTTL)
                /\ clients' = [clients EXCEPT ![pc].state = "IN_USE", ![pc].ttlcounter = HalfTTL]
                /\ UNCHANGED <<free, sinceAck>>

\* No answer to the first OFFER: send it again.
f_act4 == /\ Dispatched("f_act4")
          /\ Reply("OFFER", 0, WireTTL)
          /\ clients' = [clients EXCEPT ![pc].state = "REQU_TOUT", ![pc].ttlcounter = HalfTTL]
          /\ UNCHANGED <<free, sinceAck>>

\* Released, expired, or out of protocol.
f_act5 == /\ Dispatched("f_act5")
          /\ terminate(pc)
          /\ UNCHANGED <<sinceAck, cliq>>

\* Fault: the extension is acknowledged but the counter keeps running.
f_act6_NoReset == /\ Dispatched("f_act6")
                  /\ Reply("ACK", 0, WireTTL)
                  /\ Acked(clients[pc].id)
                  /\ UNCHANGED <<clients, free>>

\* The lease is extended.
f_act6 == /\ Dispatched("f_act6")
          /\ Reply("ACK", 0, WireTTL)
          /\ clients' = [clients EXCEPT ![pc].ttlcounter = TTL]
          /\ Acked(clients[pc].id)
          /\ UNCHANGED free

\* Fault: the client is refused but not forgotten.
f_act7_Keep == /\ Dispatched("f_act7")
               /\ Reply("ACK", 4, 0)
               /\ UNCHANGED lists

\* The request does not match the offer: refuse it and forget the client.
f_act7 == /\ Dispatched("f_act7")
          /\ Reply("ACK", 4, 0)
          /\ terminate(pc)
          /\ UNCHANGED sinceAck
-----------------------------------------------------------------------------
(* sigalrm_handler.  Only the sign of ttlcounter is tested once it is       *)
(* negative, so the model stops at -1; sinceAck stops at TTL + 1.           *)
sigalrm_handler ==
    /\ clients' = [i \in DOMAIN clients |->
                     [clients[i] EXCEPT !.ttlcounter = IF @ < 0 THEN @ ELSE @ - 1]]
    /\ sinceAck' = [p \in Peers |-> IF sinceAck[p] > TTL THEN sinceAck[p] ELSE sinceAck[p] + 1]

\* Fault: the scan starts behind the first record.
Tick_SkipFirst ==
    /\ status = "running"
    /\ sigalrm_handler
    /\ IF loc = "pause" THEN loc' = "scan" /\ pc' = 2 ELSE UNCHANGED <<loc, pc>>
    /\ UNCHANGED <<status, event, free, srvq, cliq>>

\* SIGALRM, once a second whatever the thread is doing; it ends pause().
Tick ==
    /\ status = "running"
    /\ sigalrm_handler
    /\ IF loc = "pause" THEN loc' = "scan" /\ pc' = 1 ELSE UNCHANGED <<loc, pc>>
    /\ UNCHANGED <<status, event, free, srvq, cliq>>

(***************************************************************************)
(* The process ends, at any moment: an error of recvfrom or sendto, malloc *)
(* failing, no row of ptab for an event, print_message reading its unset   *)
(* buf for an unknown type, the handler following the unset fp of a record *)
(* being linked in (mydhcpd.c:117-118), or the default action of SIGALRM   *)
(* if the unset sa_flags hold SA_RESETHAND.                                *)
(***************************************************************************)
Die == /\ status = "running"
       /\ status' = "dead"
       /\ UNCHANGED <<loc, pc, event, lists, srvq, cliq>>

WaitEvent == \/ RecvEmpty \/ Pause
             \/ RecvStranger \/ RecvDiscoverNoIP \/ RecvDiscover \/ RecvListed
             \/ ScanTimeout \/ ScanNext \/ ScanEnd

Handler == f_act1 \/ f_act3 \/ f_act4 \/ f_act5 \/ f_act6 \/ f_act7

\* One step of the thread.
Main == WaitEvent \/ Handler
-----------------------------------------------------------------------------
(* What must hold.  The invariants speak of every reachable state, so of   *)
(* every interleaving of the thread with SIGALRM.                          *)

Records == [id : Peers, state : ClientStates, ttlcounter : -1..TTL, pa : Nodes]

\* Every variable has the type its comment gives it.
TypeOK ==
    /\ status \in {"running", "dead"}
    /\ loc \in {"recv", "eagain", "pause", "scan", "dispatch"}
    /\ event \in Events \cup {"CONTINUE"}
    /\ clients \in Seq(Records)
    /\ free \in Seq(Nodes)
    /\ pc \in 0..Len(clients) + 1
    /\ loc = "scan" => pc > 0
    /\ loc = "dispatch" => pc \in DOMAIN clients
    /\ sinceAck \in [Peers -> 0..TTL + 1]
    /\ srvq \in Seq([src : Peers, msg : Messages])
    /\ cliq \in [Peers -> Seq(Messages)]

FreeOnce    == \A i, j \in DOMAIN free : free[i] = free[j] => i = j
HeldOnce    == \A i, j \in DOMAIN clients : clients[i].pa = clients[j].pa => i = j
FreeNotHeld == \A i \in DOMAIN free, j \in DOMAIN clients : free[i] # clients[j].pa
NoneLost    == \A n \in Nodes : \/ \E i \in DOMAIN free : free[i] = n
                                \/ \E j \in DOMAIN clients : clients[j].pa = n

\* However records come and go (del_addr_from_list, terminate), every line of
\* the config file is in exactly one place: once in the free list or in
\* exactly one client's pa.
AddressAccounting == FreeOnce /\ HeldOnce /\ FreeNotHeld /\ NoneLost

ConfigDistinct == \A m, n \in Nodes : Config[m].address = Config[n].address => m = n

\* No two listed clients have the same IP address, if the config file does
\* not repeat one (main stores every line it reads, mydhcpd.c:509-525).
NoSharedAddress ==
    \A i, j \in DOMAIN clients :
        Config[clients[i].pa].address = Config[clients[j].pa].address => i = j

\* A peer never has two records: wait_event only makes one when
\* search_client finds none.
UniqueClients == \A i, j \in DOMAIN clients : clients[i].id = clients[j].id => i = j

\* main finds a row of ptab for whatever wait_event returns, so it never
\* takes the exit(1) of "A unexpected event was happened".
EveryEventHasRow ==
    At("dispatch") => \E f \in {"f_act1", "f_act3", "f_act4", "f_act5", "f_act6", "f_act7"} :
                          <<clients[pc].state, event, f>> \in ptab

\* wait_event never meets a listed client in INIT_STATE ("should basically
\* not happen", the comment of mydhcpd.c:376).
NoInitOnReceive == At("recv") => \A i \in DOMAIN clients : clients[i].state # "INIT"

\* What the server holds for p: a set of at most one record.
Held(p) == {[state |-> clients[i].state, pa |-> clients[i].pa] : i \in Found(p)}

\* A step changes the lease of nobody but the peer whose message is being
\* received or the owner of the record being dispatched, and a message is
\* dispatched on its sender's record.
OnlyOwnersRecord ==
    [][ /\ \A p \in Peers :
              Held(p)' # Held(p) => p = IF loc = "dispatch" THEN clients[pc].id ELSE Sender
        /\ At("recv") /\ loc' = "dispatch" => clients'[pc'].id = Sender ]_vars

\* A lease in use ends at its client's RELEASE, on a message out of protocol,
\* or when more than TTL ticks have passed since the last ACK(ok): an
\* extension (f_act6) really restarts the clock.
LeaseNotCutShort ==
    [][ \A p \in Peers :
          (\E i \in Found(p) : clients[i].state = "IN_USE") /\ Found(p)' = {} =>
             event \in {"RECV_RELE", "RECV_UNKN", "RECV_UNEX"} \/ sinceAck[p] > TTL ]_vars

\* The server's state backs message m to peer p: an offer is of an address
\* set aside for p; an acknowledged lease is p's and will be kept for at
\* least the time promised; after a refusal nothing is kept.
Backed(m, p) ==
    CASE m.type = "OFFER" /\ m.code = 0 ->
            \E i \in Found(p) : /\ clients[i].state \in {"WAIT_REQU", "REQU_TOUT"}
                                /\ Config[clients[i].pa].address = m.address
      [] m.type = "ACK" /\ m.code = 0 ->
            \E i \in Found(p) : /\ clients[i].state = "IN_USE"
                                /\ clients[i].ttlcounter >= m.ttl
                                /\ Config[clients[i].pa].address = m.address
      [] OTHER -> Found(p) = {}

\* Whatever a handler sends, it leaves the record in the state the message
\* announces.
RepliesMatchLease ==
    [][ \A p \in Peers : Len(cliq'[p]) > Len(cliq[p]) =>
          \E k \in DOMAIN cliq'[p] : /\ RemoveAt(cliq'[p], k) = cliq[p]
                                     /\ Backed(cliq[p][k], p)' ]_vars

Overdue(p) == status = "running" /\ \E i \in Found(p) : Expired(clients[i])

\* As long as the thread keeps getting to pause(), an expired record does not
\* stay expired, although one scan acts on only one record.
ExpiredReclaimed == \A p \in Peers : []<>(loc = "pause") => [](Overdue(p) => <>~Overdue(p))
=============================================================================
