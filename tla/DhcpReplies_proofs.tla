------------------------- MODULE DhcpReplies_proofs -------------------------
(***************************************************************************)
(* What the server sends is what it keeps: every message is backed by the  *)
(* record that its handler leaves (DhcpServerOpen!Spec).                   *)
(***************************************************************************)
EXTENDS DhcpLease_proofs

\* A message that was inserted can be taken out again.
LEMMA InsertThenRemove ==
  ASSUME NEW S, NEW q \in Seq(S), NEW i \in 1..Len(q) + 1, NEW e \in S
  PROVE  LET r == InsertAt(q, i, e)
         IN  i \in DOMAIN r /\ r[i] = e /\ RemoveAt(r, i) = q
<1> DEFINE L == SubSeq(q, 1, i - 1)
           R == SubSeq(q, i, Len(q))
           A == L \o <<e>>
           r == InsertAt(q, i, e)
<1>0. Len(q) \in Nat
  BY LenProperties
<1>1. L \in Seq(S) /\ Len(L) = i - 1 /\ \A j \in 1..i - 1 : L[j] = q[j]
  <2>1. \A j \in 1..i - 1 : q[j] \in S
    BY <1>0, ElementOfSeq
  <2> QED  BY <1>0, <2>1, SubSeqProperties
<1>2. /\ R \in Seq(S) /\ Len(R) = Len(q) - i + 1
      /\ \A j \in 1..Len(q) - i + 1 : R[j] = q[i + j - 1]
  <2>1. \A j \in i..Len(q) : q[j] \in S
    BY <1>0, ElementOfSeq
  <2> QED  BY <1>0, <2>1, SubSeqProperties
<1>3. r = A \o R
  BY DEF InsertAt
<1>4. <<e>> \in Seq(S) /\ Len(<<e>>) = 1 /\ <<e>>[1] = e
  OBVIOUS
<1> HIDE DEF L, R
<1>5. /\ A \in Seq(S) /\ Len(A) = i /\ A[i] = e
      /\ \A j \in 1..i - 1 : A[j] = q[j]
  <2>1. /\ A \in Seq(S) /\ Len(A) = (i - 1) + 1
        /\ \A j \in 1..(i - 1) + 1 : A[j] = IF j <= i - 1 THEN L[j] ELSE <<e>>[j - (i - 1)]
    BY <1>1, <1>4, ConcatProperties
  <2>2. A[i] = <<e>>[1]
    BY <1>0, <2>1
  <2>3. Len(A) = i /\ \A j \in 1..i - 1 : A[j] = q[j]
    BY <1>0, <1>1, <2>1
  <2> QED  BY <1>4, <2>1, <2>2, <2>3
<1> HIDE DEF A
<1>6. /\ A \o R \in Seq(S) /\ Len(A \o R) = Len(q) + 1
      /\ \A j \in 1..Len(q) + 1 : (A \o R)[j] = IF j <= i THEN A[j] ELSE R[j - i]
  BY <1>0, <1>2, <1>5, ConcatProperties
<1>7. /\ r \in Seq(S) /\ Len(r) = Len(q) + 1
      /\ \A j \in 1..Len(q) + 1 : r[j] = IF j <= i THEN A[j] ELSE R[j - i]
  BY <1>3, <1>6
<1> HIDE DEF r
<1>8. /\ r[i] = e /\ \A j \in 1..i - 1 : r[j] = q[j]
      /\ \A j \in i..Len(q) : r[j + 1] = q[j]
  <2>1. r[i] = e /\ \A j \in 1..i - 1 : r[j] = q[j]
    BY <1>0, <1>5, <1>7
  <2>2. ASSUME NEW j \in i..Len(q) PROVE r[j + 1] = q[j]
    <3>1. r[j + 1] = R[j + 1 - i]
      BY <1>0, <1>7
    <3>2. R[j + 1 - i] = q[i + (j + 1 - i) - 1]
      BY <1>0, <1>2
    <3> QED  BY <1>0, <3>1, <3>2
  <2> QED  BY <2>1, <2>2
<1>9. i \in 1..Len(r) /\ i \in DOMAIN r
  BY <1>0, <1>7, LenProperties
<1>10. /\ RemoveAt(r, i) \in Seq(S) /\ Len(RemoveAt(r, i)) = Len(q)
       /\ \A j \in 1..Len(q) : RemoveAt(r, i)[j] = IF j < i THEN r[j] ELSE r[j + 1]
  <2>1. /\ RemoveAt(r, i) \in Seq(S) /\ Len(RemoveAt(r, i)) = Len(r) - 1
        /\ \A j \in 1..Len(r) - 1 : RemoveAt(r, i)[j] = IF j < i THEN r[j] ELSE r[j + 1]
    BY <1>7, <1>9, RemoveAtProperties
  <2>2. Len(r) - 1 = Len(q)
    BY <1>0, <1>7
  <2> QED  BY <2>1, <2>2
<1>11. \A j \in 1..Len(q) : RemoveAt(r, i)[j] = q[j]
  BY <1>0, <1>8, <1>10
<1>12. RemoveAt(r, i) = q
  BY <1>10, <1>11, SeqEqual
<1> QED  BY <1>8, <1>9, <1>12 DEF r

\* If a message to p shows in the buffers, it is the one that was sent.
LEMMA SentOne ==
  ASSUME Typed, NEW r \in Peers, NEW m \in Messages, send_message(r, m),
         NEW p \in Peers, Len(cliq'[p]) > Len(cliq[p])
  PROVE  /\ p = r
         /\ \E k \in DOMAIN cliq'[p] : RemoveAt(cliq'[p], k) = cliq[p] /\ cliq'[p][k] = m
<1>1. PICK q \in Transmit(cliq[r], m) : cliq' = [cliq EXCEPT ![r] = q]
  BY DEF send_message
<1>2. /\ cliq \in [Peers -> Seq(Messages)]
      /\ \A s \in Peers : cliq[s] \in Seq(Messages) /\ Len(cliq[s]) \in Nat
  BY LenProperties DEF Typed, TypeOK
<1>3. p = r
  BY <1>1, <1>2
<1>4. cliq'[p] = q /\ q # cliq[p]
  BY <1>1, <1>2, <1>3
<1>5. PICK k \in 1..Len(cliq[p]) + 1 : q = InsertAt(cliq[p], k, m)
  BY <1>1, <1>3, <1>4 DEF Transmit
<1>6. k \in DOMAIN q /\ q[k] = m /\ RemoveAt(q, k) = cliq[p]
  BY <1>2, <1>5, InsertThenRemove
<1> QED  BY <1>3, <1>4, <1>6

\* Only five steps send.
LEMMA Silent ==
  ASSUME Typed, [Next]_vars, ~RecvDiscoverNoIP, ~f_act1, ~f_act3, ~f_act4, ~f_act6, ~f_act7,
         NEW p \in Peers
  PROVE  ~(Len(cliq'[p]) > Len(cliq[p]))
<1>1. \A s \in Peers : Len(cliq[s]) \in Nat
  BY LenProperties DEF Typed, TypeOK
<1>2. CASE Arrive
  <2>1. Len(cliq'[p]) = 0
    BY <1>2 DEF Arrive
  <2> QED  BY <1>1, <2>1
<1>3. CASE UNCHANGED cliq
  BY <1>1, <1>3
<1> QED  BY <1>2, <1>3
         DEF Next, Main, WaitEvent, Handler, RecvEmpty, Pause, RecvStranger, RecvDiscover, RecvListed,
             ScanTimeout, ScanNext, ScanEnd, f_act5, Tick, Die, lists, vars

\* A handler that replies to the owner of a record it keeps.
LEMMA KeptReply ==
  ASSUME Typed, Typed', f_act1 \/ f_act3 \/ f_act4 \/ f_act6,
         NEW p \in Peers, Len(cliq'[p]) > Len(cliq[p])
  PROVE  \E k \in DOMAIN cliq'[p] : RemoveAt(cliq'[p], k) = cliq[p] /\ Backed(cliq[p][k], p)'
<1> DEFINE c == clients[pc]
           d == clients'[pc]
<1>1. /\ pc \in DOMAIN clients' /\ c \in Records
      /\ d.id = c.id /\ d.pa = c.pa /\ c.id \in Peers
  <2>1. c \in Records
    BY Rewrites, ClientsShape
  <2> QED  BY <2>1, Rewrites DEF Records
<1>2. p = c.id => pc \in Found(p)'
  BY <1>1 DEF Found
<1>3. WireTTL \in Nat /\ WireTTL <= TTL /\ HalfTTL \in 0..TTL
  BY Durations, TTLAssumption, WireModulusAssumption DEF WireTTL
<1>4. CASE f_act1 \/ f_act4
  <2> DEFINE m == LeaseMsg("OFFER", 0, WireTTL, c)
  <2>1. send_message(c.id, m) /\ m \in Messages
    BY <1>1, <1>3, <1>4, LeaseMsgType DEF f_act1, f_act4, Reply, MsgTypes
  <2>2. PICK k \in DOMAIN cliq'[p] : RemoveAt(cliq'[p], k) = cliq[p] /\ cliq'[p][k] = m
    BY <1>1, <2>1, SentOne
  <2>3. p = c.id
    BY <1>1, <2>1, SentOne
  <2>4. d.state \in {"WAIT_REQU", "REQU_TOUT"}
    BY <1>1, <1>4, Rewrites, ClientsShape DEF f_act1, f_act4, Records
  <2>5. m.type = "OFFER" /\ m.code = 0 /\ m.address = Config[d.pa].address
    BY <1>1 DEF LeaseMsg, Msg
  <2> HIDE DEF m
  <2>6. Backed(cliq[p][k], p)'
    BY <1>2, <2>2, <2>3, <2>4, <2>5 DEF Backed
  <2> QED  BY <2>2, <2>6
<1>5. CASE f_act3 \/ f_act6
  <2> DEFINE m == LeaseMsg("ACK", 0, WireTTL, c)
  <2>1. send_message(c.id, m) /\ m \in Messages
    BY <1>1, <1>3, <1>5, LeaseMsgType DEF f_act3, f_act6, Reply, MsgTypes
  <2>2. PICK k \in DOMAIN cliq'[p] : RemoveAt(cliq'[p], k) = cliq[p] /\ cliq'[p][k] = m
    BY <1>1, <2>1, SentOne
  <2>3. p = c.id
    BY <1>1, <2>1, SentOne
  <2>4. d.state = "IN_USE" /\ d.ttlcounter = TTL
    <3>1. CASE f_act3
      BY <1>1, <3>1, Rewrites, ClientsShape DEF f_act3, Records
    <3>2. CASE f_act6
      <4>1. c.state = "IN_USE"
        BY <3>2 DEF f_act6, Dispatched, ptab, ptab_Rows
      <4> QED  BY <1>1, <3>2, <4>1, Rewrites, ClientsShape DEF f_act6, Records
    <3> QED  BY <1>5, <3>1, <3>2
  <2>5. m.type = "ACK" /\ m.code = 0 /\ m.address = Config[d.pa].address /\ m.ttl = WireTTL
    BY <1>1 DEF LeaseMsg, Msg
  <2> HIDE DEF m
  <2>6. d.ttlcounter >= m.ttl
    BY <1>3, <2>4, <2>5, TTLAssumption
  <2>7. Backed(cliq[p][k], p)'
    BY <1>2, <2>2, <2>3, <2>4, <2>5, <2>6 DEF Backed
  <2> QED  BY <2>2, <2>7
<1> QED  BY <1>4, <1>5

\* A refusal: nothing is kept.
LEMMA RefusedReply ==
  ASSUME Typed, Typed', RecvDiscoverNoIP \/ f_act7,
         NEW p \in Peers, Len(cliq'[p]) > Len(cliq[p])
  PROVE  \E k \in DOMAIN cliq'[p] : RemoveAt(cliq'[p], k) = cliq[p] /\ Backed(cliq[p][k], p)'
<1>1. CASE RecvDiscoverNoIP
  <2> DEFINE m == Msg("OFFER", 1, 0, Zero, Zero)
  <2>1. /\ Receives /\ Sender \in Peers /\ search_client(Sender) = 0
        /\ send_message(Sender, m) /\ clients' = clients
    BY <1>1, ReceiveType DEF RecvDiscoverNoIP, f_act2, lists
  <2>2. m \in Messages
    BY ZeroAssumption DEF Msg, Messages, MsgTypes
  <2>3. PICK k \in DOMAIN cliq'[p] : RemoveAt(cliq'[p], k) = cliq[p] /\ cliq'[p][k] = m
    BY <2>1, <2>2, SentOne
  <2>4. p = Sender
    BY <2>1, <2>2, SentOne
  <2>5. \A i \in DOMAIN clients : clients[i].id # p
    BY <2>1, <2>4, SearchClient DEF Typed, TypeOK
  <2>6. Found(p)' = {}
    <3>1. \A i \in DOMAIN clients : i \notin Found(p)
      BY <2>5, FoundById
    <3> QED  BY <2>1, <3>1 DEF Found
  <2>7. m.type = "OFFER" /\ m.code = 1
    BY DEF Msg
  <2> HIDE DEF m
  <2>8. Backed(cliq[p][k], p)'
    BY <2>3, <2>6, <2>7 DEF Backed
  <2> QED  BY <2>3, <2>8
<1>2. CASE f_act7
  <2> DEFINE c == clients[pc]
             m == LeaseMsg("ACK", 4, 0, c)
  <2>1. /\ pc \in DOMAIN clients /\ c \in Records /\ terminate(pc) /\ send_message(c.id, m)
    BY <1>2, DispatchedType DEF f_act7, Reply
  <2>2. c.id \in Peers /\ m \in Messages
    BY <2>1, LeaseMsgType DEF Records, MsgTypes
  <2>3. PICK k \in DOMAIN cliq'[p] : RemoveAt(cliq'[p], k) = cliq[p] /\ cliq'[p][k] = m
    BY <2>1, <2>2, SentOne
  <2>4. p = c.id
    BY <2>1, <2>2, SentOne
  <2>5. \A i \in DOMAIN clients' : clients'[i].id # p
    BY <2>1, <2>4, Ends DEF Typed, UniqueClients
  <2>6. Found(p)' = {}
    <3>1. \A i \in DOMAIN clients' : clients'[i] \in Records
      BY LenProperties, ElementOfSeq DEF Typed, TypeOK
    <3>2. \A i \in DOMAIN clients' : clients'[i].id \in Peers
      BY <3>1 DEF Records
    <3> QED  BY <2>5, <3>2 DEF Found, Peers
  <2>7. m.type = "ACK" /\ m.code = 4
    BY DEF LeaseMsg, Msg
  <2> HIDE DEF m, c
  <2>8. Backed(cliq[p][k], p)'
    BY <2>3, <2>6, <2>7 DEF Backed
  <2> QED  BY <2>3, <2>8
<1> QED  BY <1>1, <1>2

\* Whatever a handler sends, it leaves the record in the state the message
\* announces: an offered address is set aside, an acknowledged lease lasts as
\* long as it says, a refused client is forgotten.
THEOREM RepliesAreBacked == Spec => RepliesMatchLease
<1>1. ASSUME Typed, Typed', [Next]_vars, NEW p \in Peers, Len(cliq'[p]) > Len(cliq[p])
      PROVE  \E k \in DOMAIN cliq'[p] : RemoveAt(cliq'[p], k) = cliq[p] /\ Backed(cliq[p][k], p)'
  BY <1>1, Silent, KeptReply, RefusedReply
<1>2. Typed /\ Typed' /\ [Next]_vars =>
        [ \A p \in Peers : Len(cliq'[p]) > Len(cliq[p]) =>
            \E k \in DOMAIN cliq'[p] : /\ RemoveAt(cliq'[p], k) = cliq[p]
                                       /\ Backed(cliq[p][k], p)' ]_vars
  BY <1>1
<1>3. Spec => []Typed
  BY LeaseAlways, PTL
<1> QED  BY <1>2, <1>3, PTL DEF Spec, RepliesMatchLease
=============================================================================
