------------------------------ MODULE Ftp_proofs ------------------------------
(***************************************************************************)
(* Theorems about one session of myftp (Ftp!Spec), for every window,       *)
(* number of commands, set of files and directories.                       *)
(***************************************************************************)
EXTENDS Ftp, SequenceTheorems, TLAPS

cmd == Client!cmd

-----------------------------------------------------------------------------
(* Packets, streams and files *)

\* The client's instance of FtpStream means what the server's means.
LEMMA SameStream ==
  /\ \A t, c, d, n : Client!Packet(t, c, d, n) = Packet(t, c, d, n)
  /\ \A q : Client!Take(q) = Take(q)
  /\ \A e, i, b : Client!Written(e, i, b) = Written(e, i, b)
  /\ \A b, i : Client!Portion(b, i) = Portion(b, i)
  /\ \A i, b : Client!After(i, b) = After(i, b)
  /\ \A ok : Client!Keeps(ok) = Keeps(ok)
  /\ \A e : Client!Created(e) = Created(e)
  /\ \A e : Client!Creates(e) = Creates(e)
  /\ \A e : Client!Readable(e) = Readable(e)
  /\ Client!Errors = Errors /\ Client!LAST = LAST
<1>1. \A t, c, d, n : Client!Packet(t, c, d, n) = Packet(t, c, d, n)
  BY DEF Client!Packet, Packet
<1>2. \A q : Client!Take(q) = Take(q)
  BY Zenon DEF Client!Take, Take, Client!Fragment, Fragment, Client!Packet, Packet
<1>3. \A e, i, b : Client!Written(e, i, b) = Written(e, i, b)
  BY Zenon DEF Client!Written, Written
<1>4. \A b, i : Client!Portion(b, i) = Portion(b, i)
  BY Zenon DEF Client!Portion, Portion, Client!LAST, LAST, Client!MIDDLE, MIDDLE
<1>5. \A i, b : Client!After(i, b) = After(i, b)
  BY Zenon DEF Client!After, After
<1>6. \A ok : Client!Keeps(ok) = Keeps(ok)
  BY Zenon DEF Client!Keeps, Keeps
<1>7. /\ \A e : Client!Created(e) = Created(e)
      /\ \A e : Client!Creates(e) = Creates(e)
      /\ \A e : Client!Readable(e) = Readable(e)
  BY Zenon DEF Client!Created, Created, Client!Creates, Creates, Client!Readable, Readable
<1>8. Client!Errors = Errors /\ Client!LAST = LAST
  BY DEF Client!Errors, Errors, Client!LAST, LAST
<1> QED  BY <1>1, <1>2, <1>3, <1>4, <1>5, <1>6, <1>7, <1>8

LEMMA PacketType ==
  ASSUME NEW t \in Types, NEW c \in 0..5, NEW d \in Payloads, NEW n \in 0..MaxCommands
  PROVE  Packet(t, c, d, n) \in Packets
BY DEF Packet, Packets

\* The head and the tail of a queue, by positions.
LEMMA HeadAndTail ==
  ASSUME NEW q \in Seq(Packets), q # << >>
  PROVE  /\ Len(q) \in Nat \ {0}
         /\ Head(q) = q[1] /\ Head(q) \in Packets
         /\ Tail(q) \in Seq(Packets) /\ Len(Tail(q)) = Len(q) - 1
         /\ \A j \in 1..Len(q) - 1 : Tail(q)[j] = q[j + 1]
BY HeadTailProperties, EmptySeq

LEMMA QueueType ==
  ASSUME NEW q \in Seq(Packets)
  PROVE  /\ Len(q) \in Nat /\ (q = << >> <=> Len(q) = 0)
         /\ \A j \in 1..Len(q) : q[j] \in Packets
BY LenProperties, ElementOfSeq, EmptySeq

\* What recv makes of a queue is a queue, and the packet itself unless it is cut.
LEMMA TakeProperties ==
  ASSUME NEW q \in Seq(Packets), q # << >>, NEW t \in Take(q)
  PROVE  /\ t.rest \in Seq(Packets) /\ Len(t.rest) <= Len(q)
         /\ t.data \in Payloads
         /\ t.data # Cut => t.data = Head(q).data /\ t.rest = Tail(q)
         /\ t.data = NoData => Head(q).data = NoData /\ t.rest = Tail(q)
<1>1. Head(q).data \in Payloads
  BY HeadAndTail DEF Packets
<1>2. CASE t = [data |-> Head(q).data, rest |-> Tail(q)]
  BY <1>1, <1>2, HeadAndTail
<1>3. CASE t = [data |-> Cut, rest |-> <<Fragment>> \o Tail(q)]
  <2>1. Fragment \in Packets
    <3>1. "FRAGMENT" \in Types /\ NoData \in Payloads /\ 0 \in 0..5 /\ 0 \in 0..MaxCommands
      BY MaxCommandsAssumption DEF Types, Payloads
    <3> QED  BY <3>1, PacketType DEF Fragment
  <2>2. <<Fragment>> \in Seq(Packets) /\ Len(<<Fragment>>) = 1
    BY <2>1
  <2>3. <<Fragment>> \o Tail(q) \in Seq(Packets) /\ Len(<<Fragment>> \o Tail(q)) = Len(q)
    BY <2>2, HeadAndTail, ConcatProperties
  <2>4. t.data = Cut /\ t.rest \in Seq(Packets) /\ Len(t.rest) = Len(q)
    BY <1>3, <2>3, Zenon
  <2>5. Len(q) \in Nat /\ Cut \in Payloads /\ Cut # NoData
    BY HeadAndTail, CutAssumption, NoDataAssumption DEF Payloads
  <2> QED  BY <2>4, <2>5
<1>4. \/ t = [data |-> Head(q).data, rest |-> Tail(q)]
      \/ t = [data |-> Cut, rest |-> <<Fragment>> \o Tail(q)]
  BY Zenon DEF Take
<1> QED  BY <1>2, <1>3, <1>4

\* Writing a block: what is written stays an entry, what was before it stays.
LEMMA WrittenProperties ==
  ASSUME NEW e \in Entries, NEW i \in 1..Len(e.body) + 1, NEW b \in Payloads
  PROVE  /\ Written(e, i, b) \in Entries /\ Written(e, i, b).kind = e.kind
         /\ Len(e.body) \in Nat /\ Len(Written(e, i, b).body) \in Nat
         /\ After(i, b) \in 1..Len(Written(e, i, b).body) + 1
         /\ Len(Written(e, i, b).body) >= Len(e.body)
         /\ \A k \in 1..i - 1 : Written(e, i, b).body[k] = e.body[k]
         /\ b # NoData => /\ Written(e, i, b).body[i] = b
                         /\ Len(Written(e, i, b).body) >= i
<1> DEFINE n == IF i > Len(e.body) THEN i ELSE Len(e.body)
           w == [k \in 1..n |-> IF k = i THEN b ELSE e.body[k]]
<1>1. e.body \in Seq(Names \cup Blocks) /\ Len(e.body) \in Nat
  BY LenProperties DEF Entries
<1>2. n \in Nat /\ i \in 1..n /\ n >= Len(e.body)
      /\ \A k \in 1..n : k # i => k \in 1..Len(e.body)
  BY <1>1
<1>3. CASE b = NoData
  BY <1>1, <1>3 DEF Written, After
<1>4. CASE b # NoData
  <2>1. \A k \in 1..Len(e.body) : e.body[k] \in Names \cup Blocks
    BY <1>1, ElementOfSeq
  <2>2. w \in [1..n -> Names \cup Blocks]
    BY <1>2, <1>4, <2>1 DEF Payloads
  <2>3. w \in Seq(Names \cup Blocks) /\ Len(w) = n
    BY <1>2, <2>2
  <2>4. Written(e, i, b) = [e EXCEPT !.body = w]
    BY <1>4 DEF Written
  <2> HIDE DEF w
  <2>5. Written(e, i, b) \in Entries /\ Written(e, i, b).kind = e.kind /\ Written(e, i, b).body = w
    BY <2>3, <2>4 DEF Entries
  <2> USE DEF w
  <2>6. w[i] = b /\ \A k \in 1..i - 1 : w[k] = e.body[k]
    BY <1>2
  <2> HIDE DEF w, n
  <2> QED  BY <1>1, <1>2, <1>4, <2>3, <2>5, <2>6 DEF After
<1> QED  BY <1>3, <1>4

Steps(body) == IF body = << >> THEN 1 ELSE Len(body)

LEMMA StepsType ==
  ASSUME NEW e \in Entries
  PROVE  /\ Len(e.body) \in Nat /\ Steps(e.body) \in Nat \ {0}
         /\ 1 \in 1..Len(e.body) + 1 /\ 1 \in 1..Steps(e.body)
<1>1. e.body \in Seq(Names \cup Blocks) /\ Len(e.body) \in Nat
      /\ (e.body = << >> <=> Len(e.body) = 0)
  BY LenProperties, EmptySeq DEF Entries
<1> QED  BY <1>1 DEF Steps

\* What send_file sends of a file, and when it ends.
LEMMA PortionProperties ==
  ASSUME NEW e \in Entries, NEW i \in 1..Steps(e.body)
  PROVE  /\ Portion(e.body, i).code \in {LAST, MIDDLE}
         /\ Portion(e.body, i).data \in Payloads
         /\ Portion(e.body, i).code = MIDDLE => i + 1 \in 1..Steps(e.body)
         /\ Portion(e.body, i).code = LAST <=> i = Steps(e.body)
         /\ e.body # << >> => Portion(e.body, i).data = e.body[i] /\ e.body[i] # NoData
         /\ e.body = << >> => Portion(e.body, i).data = NoData
         /\ Len(e.body) \in Nat /\ Steps(e.body) \in Nat \ {0}
<1>1. e.body \in Seq(Names \cup Blocks) /\ Len(e.body) \in Nat
      /\ (e.body = << >> <=> Len(e.body) = 0)
  BY LenProperties, EmptySeq DEF Entries
<1>2. \A k \in 1..Len(e.body) : e.body[k] \in Names \cup Blocks
  BY <1>1, ElementOfSeq
<1>3. CASE e.body = << >>
  BY <1>1, <1>3 DEF Portion, Steps, LAST, MIDDLE, Payloads
<1>4. CASE e.body # << >>
  BY <1>1, <1>2, <1>4, NoDataAssumption DEF Portion, Steps, LAST, MIDDLE, Payloads
<1> QED  BY <1>3, <1>4
-----------------------------------------------------------------------------
(* Types *)

\* The type invariant in three parts, with what the types of files rest on:
\* blocks are written one behind the other, and read only while there are any.
StreamOK ==
    /\ up \in Seq(Packets) /\ Len(up) <= Window + 1
    /\ down \in Seq(Packets) /\ Len(down) <= Window + 1
    /\ link \in {"open", "closed", "answered", "reset"} /\ clean \in BOOLEAN
    /\ script \in Seq(Commands) /\ Len(script) <= MaxCommands
    /\ link = "open" <=> cloc \notin Client!Gone

ClientOK ==
    /\ cloc \in {"prompt", "reply", "listing", "receiving", "sending", "lost"} \cup Client!Gone
    /\ cpos \in Nat /\ cfs \in [Names -> Entries]
    /\ cloc \in {"reply", "listing", "receiving", "sending"} => script # << >>
    /\ cloc = "receiving" => cpos \in 1..Len(cfs[cmd.dst].body) + 1
    /\ cloc = "sending"   => cpos \in 1..Steps(cfs[cmd.src].body)

ServerOK ==
    /\ sloc \in {"queued", "origin", "listing", "sending", "receiving", "lost", "exited"}
    /\ spos \in Nat /\ name \in Names \cup {NoData} /\ scwd \in Names
    /\ turn \in 0..MaxCommands /\ last \in Requests \cup {"OTHER"}
    /\ sfs \in [Names -> Entries]
    /\ sloc = "receiving" => name \in Names /\ spos \in 1..Len(sfs[name].body) + 1
    /\ sloc = "sending"   => name \in Names /\ spos \in 1..Steps(sfs[name].body)
    /\ \A n \in Names : sfs[n].kind = "odd" <=> ServerFiles[n].kind = "odd"

TypeInv == StreamOK /\ ClientOK /\ ServerOK

LEMMA TypeInit == Init => TypeInv
<1> SUFFICES ASSUME Init PROVE TypeInv
  OBVIOUS
<1>1. /\ << >> \in Seq(Packets) /\ << >> \in Seq(Commands) /\ Len(<< >>) = 0
  BY EmptySeq
<1>2. StreamOK
  BY <1>1, WindowAssumption, MaxCommandsAssumption
     DEF StreamOK, Init, Client!ClientInit, Client!Gone
<1>3. ClientOK
  BY ClientFilesAssumption DEF ClientOK, Init, Client!ClientInit
<1>4. ServerOK
  BY ServerFilesAssumption, MaxCommandsAssumption, HomeAssumption DEF ServerOK, Init, ServerInit
<1> QED  BY <1>2, <1>3, <1>4 DEF TypeInv

\* The command in hand.
LEMMA CmdType ==
  ASSUME script \in Seq(Commands), script # << >>
  PROVE  /\ Len(script) \in Nat \ {0}
         /\ cmd \in Commands /\ cmd.src \in Names /\ cmd.dst \in Names
         /\ cmd.op \in {"pwd", "cd", "dir", "get", "put"}
<1>1. Len(script) \in Nat \ {0} /\ cmd \in Commands
  BY EmptySeq, ElementOfSeq DEF cmd, Client!cmd
<1> QED  BY <1>1, CommandsAssumption

-----------------------------------------------------------------------------
(* What the client's steps do to the types *)

\* A packet more in a stream that has room for it.
LEMMA Queued ==
  ASSUME NEW q \in Seq(Packets), Len(q) < Window, NEW p \in Packets
  PROVE  /\ Append(q, p) \in Seq(Packets) /\ Append(q, p) # << >>
         /\ Len(Append(q, p)) = Len(q) + 1 /\ Len(Append(q, p)) <= Window + 1
         /\ \A j \in 1..Len(q) : Append(q, p)[j] = q[j]
         /\ Append(q, p)[Len(q) + 1] = p
<1>1. Len(q) \in Nat
  BY LenProperties
<1> QED  BY <1>1, AppendProperties, WindowAssumption

\* Every request is a packet, for a command that is now the one in hand.
LEMMA RequestEffect ==
  ASSUME StreamOK, NEW c, NEW t \in Requests, NEW d \in Payloads, Client!Request(c, t, d)
  PROVE  LET n == Len(script) + 1
             p == Packet(t, 0, d, n)
         IN  /\ c \in Commands /\ cloc = "prompt" /\ cloc' = "reply"
             /\ script' \in Seq(Commands) /\ script' # << >> /\ n \in 1..MaxCommands
             /\ Len(script') = n /\ cmd' = c
             /\ \A k \in 1..n - 1 : script'[k] = script[k]
             /\ up' = Append(up, p) /\ up' \in Seq(Packets)
             /\ up' # << >> /\ Len(up') = Len(up) + 1 /\ Len(up') <= Window + 1
             /\ \A j \in 1..Len(up) : up'[j] = up[j]
             /\ up'[Len(up')] = p
             /\ UNCHANGED <<down, link, clean, cpos, cfs>>
<1> DEFINE n == Len(script) + 1
           p == Packet(t, 0, d, n)
<1>1. /\ c \in Commands /\ cloc = "prompt" /\ cloc' = "reply"
      /\ Len(script) < MaxCommands /\ Len(up) < Window
      /\ script' = Append(script, c) /\ up' = Append(up, p)
      /\ UNCHANGED <<down, link, clean, cpos, cfs>>
  BY SameStream DEF Client!Request
<1>2. up \in Seq(Packets) /\ script \in Seq(Commands) /\ Len(script) \in Nat
  BY LenProperties DEF StreamOK
<1>3. n \in 1..MaxCommands
  BY <1>1, <1>2, MaxCommandsAssumption
<1>4. p \in Packets
  BY <1>3, PacketType, MaxCommandsAssumption DEF Types
<1>5. /\ up' \in Seq(Packets) /\ up' # << >>
      /\ Len(up') = Len(up) + 1 /\ Len(up') <= Window + 1
      /\ \A j \in 1..Len(up) : up'[j] = up[j]
      /\ up'[Len(up')] = p
  BY <1>1, <1>2, <1>4, Queued
<1>6. /\ script' \in Seq(Commands) /\ script' # << >> /\ Len(script') = n
      /\ \A k \in 1..n - 1 : script'[k] = script[k]
      /\ script'[n] = c
  BY <1>1, <1>2, AppendProperties
<1>7. cmd' = c
  BY <1>6 DEF cmd, Client!cmd
<1> QED  BY <1>1, <1>3, <1>5, <1>6, <1>7

\* Requests name their file by a path.
LEMMA RequestOf ==
  ASSUME NEW c \in Commands,
         Client!pwd_proc(c) \/ Client!cd_proc(c) \/ Client!dir_proc(c)
           \/ Client!get_proc(c) \/ Client!put_proc(c)
  PROVE  \E t \in Requests, d \in Payloads : Client!Request(c, t, d)
<1>1. c.src \in Payloads /\ c.dst \in Payloads /\ NoData \in Payloads
  BY CommandsAssumption DEF Payloads
<1>2. {"PWD", "CWD", "LIST", "RETR", "STOR"} \subseteq Requests
  BY DEF Requests
<1> QED  BY <1>1, <1>2 DEF Client!pwd_proc, Client!cd_proc, Client!dir_proc,
            Client!get_proc, Client!put_proc

\* A client that leaves takes what was under way to it along.
LEMMA LeaveTypes ==
  ASSUME StreamOK, ClientOK, NEW l \in Client!Gone, Client!Leave(l),
         up' \in Seq(Packets), Len(up') <= Window + 1,
         clean' \in BOOLEAN, UNCHANGED script
  PROVE  StreamOK' /\ ClientOK'
<1>1. << >> \in Seq(Packets) /\ Len(<< >>) = 0
  BY EmptySeq
<1> QED  BY <1>1, WindowAssumption DEF StreamOK, ClientOK, Client!Leave, Client!Gone

\* The client's files after one block more.
LEMMA ClientWrites ==
  ASSUME StreamOK, ClientOK, cloc = "receiving", NEW b \in Payloads,
         cfs' = [cfs EXCEPT ![cmd.dst] = Written(@, cpos, b)]
  PROVE  /\ cfs' \in [Names -> Entries]
         /\ cfs'[cmd.dst] = Written(cfs[cmd.dst], cpos, b)
         /\ After(cpos, b) \in 1..Len(cfs'[cmd.dst].body) + 1
         /\ After(cpos, b) \in Nat
<1>1. cmd.dst \in Names
  BY CmdType DEF StreamOK, ClientOK
<1>2. cfs[cmd.dst] \in Entries /\ cpos \in 1..Len(cfs[cmd.dst].body) + 1
  BY <1>1 DEF ClientOK
<1>3. cfs' \in [Names -> Entries] /\ cfs'[cmd.dst] = Written(cfs[cmd.dst], cpos, b)
  BY <1>1, <1>2, WrittenProperties DEF ClientOK
<1>4. /\ After(cpos, b) \in 1..Len(Written(cfs[cmd.dst], cpos, b).body) + 1
      /\ Len(Written(cfs[cmd.dst], cpos, b).body) \in Nat
  BY <1>2, WrittenProperties
<1> QED  BY <1>3, <1>4

\* A packet has been read, whole or not.
LEMMA ClientReads ==
  ASSUME StreamOK, down # << >>,
         down' = Tail(down) \/ \E t \in Take(down) : down' = t.rest,
         clean' \in BOOLEAN, UNCHANGED <<up, link, script>>,
         cloc \notin Client!Gone, cloc' \notin Client!Gone
  PROVE  StreamOK'
<1>1. down' \in Seq(Packets) /\ Len(down') <= Window + 1
  <2>1. down \in Seq(Packets) /\ Len(down) \in Nat /\ Len(down) <= Window + 1
    BY LenProperties DEF StreamOK
  <2>2. CASE down' = Tail(down)
    BY <2>1, <2>2, HeadAndTail, WindowAssumption
  <2>3. CASE \E t \in Take(down) : down' = t.rest
    <3>1. PICK t \in Take(down) : down' = t.rest
      BY <2>3
    <3>2. down' \in Seq(Packets) /\ Len(down') <= Len(down)
      BY <2>1, <3>1, TakeProperties
    <3>3. Len(down') \in Nat
      BY <3>2, LenProperties
    <3> QED  BY <2>1, <3>2, <3>3, WindowAssumption
  <2> QED  BY <2>2, <2>3
<1> QED  BY <1>1 DEF StreamOK

LEMMA ClientTypes ==
  ASSUME StreamOK, ClientOK, ClientStep \/ Client!ServerGone
  PROVE  StreamOK' /\ ClientOK'
<1> DEFINE talking == {"reply", "listing", "receiving"}
<1>0. \A ok \in BOOLEAN : Keeps(ok) => clean' \in BOOLEAN
  BY DEF Keeps, StreamOK
<1>1. ASSUME NEW c \in Commands,
             Client!pwd_proc(c) \/ Client!cd_proc(c) \/ Client!dir_proc(c)
               \/ Client!get_proc(c) \/ Client!put_proc(c)
      PROVE  StreamOK' /\ ClientOK'
  <2>1. PICK t \in Requests, d \in Payloads : Client!Request(c, t, d)
    BY <1>1, RequestOf
  <2>2. /\ cloc = "prompt" /\ cloc' = "reply" /\ script' \in Seq(Commands) /\ script' # << >>
        /\ Len(script') <= MaxCommands /\ up' \in Seq(Packets) /\ Len(up') <= Window + 1
        /\ UNCHANGED <<down, link, clean, cpos, cfs>>
    BY <2>1, RequestEffect, MaxCommandsAssumption
  <2> QED  BY <2>2 DEF StreamOK, ClientOK, Client!Gone
<1>2. ASSUME Client!quit_proc PROVE StreamOK' /\ ClientOK'
  <2>1. Packet("QUIT", 0, NoData, Len(script)) \in Packets
    <3>1. Len(script) \in 0..MaxCommands
      BY LenProperties, MaxCommandsAssumption DEF StreamOK
    <3> QED  BY <3>1, PacketType DEF Types, Requests, Payloads
  <2>2. up' = Append(up, Packet("QUIT", 0, NoData, Len(script))) /\ Len(up) < Window
        /\ Client!Leave("exited") /\ UNCHANGED <<script, clean>>
    BY <1>2, SameStream DEF Client!quit_proc
  <2>3. up' \in Seq(Packets) /\ Len(up') <= Window + 1
    BY <2>1, <2>2, Queued DEF StreamOK
  <2> QED  BY <2>2, <2>3, LeaveTypes DEF Client!Gone, StreamOK
<1>3. ASSUME Client!sigint_handler \/ Client!FreeUnset \/ Client!NullPayload
      PROVE  StreamOK' /\ ClientOK'
  BY <1>3, LeaveTypes DEF Client!sigint_handler, Client!FreeUnset, Client!NullPayload,
     StreamOK, Client!Gone
<1>4. ASSUME NEW l \in talking, Client!Refusal(l) PROVE StreamOK' /\ ClientOK'
  <2>1. /\ cloc = l /\ cloc' = "prompt" /\ cpos' = 0 /\ down # << >> /\ down' = Tail(down)
        /\ UNCHANGED <<up, link, script, clean, cfs>>
    BY <1>4 DEF Client!Refusal, Client!Hears, Client!To
  <2>2. StreamOK'
    BY <2>1, ClientReads DEF StreamOK, Client!Gone
  <2> QED  BY <2>1, <2>2 DEF ClientOK
<1>5. ASSUME Client!pwd_reply PROVE StreamOK' /\ ClientOK'
  <2>1. /\ cloc = "reply" /\ cloc' = "prompt" /\ cpos' = 0 /\ down # << >>
        /\ \E t \in Take(down) : down' = t.rest /\ Keeps(t.data # Cut)
        /\ UNCHANGED <<up, link, script, cfs>>
    BY <1>5, SameStream DEF Client!pwd_reply, Client!Hears, Client!To
  <2>2. StreamOK'
    BY <1>0, <2>1, ClientReads DEF Client!Gone
  <2> QED  BY <2>1, <2>2 DEF ClientOK
<1>6. ASSUME Client!cd_reply \/ Client!dir_reply PROVE StreamOK' /\ ClientOK'
  <2>1. /\ cloc = "reply" /\ cloc' \in {"prompt", "listing"} /\ cpos' = 0
        /\ down # << >> /\ down' = Tail(down)
        /\ UNCHANGED <<up, link, script, clean, cfs>>
    BY <1>6 DEF Client!cd_reply, Client!dir_reply, Client!Accepted, Client!Hears, Client!To
  <2>2. StreamOK'
    BY <2>1, ClientReads DEF StreamOK, Client!Gone
  <2> QED  BY <2>1, <2>2 DEF ClientOK

<1>7. ASSUME Client!get_reply PROVE StreamOK' /\ ClientOK'
  <2>1. /\ cloc = "reply" /\ down # << >> /\ down' = Tail(down)
        /\ UNCHANGED <<up, link, script>>
    BY <1>7 DEF Client!get_reply, Client!Accepted, Client!Hears
  <2>2. CASE Creates(cfs[cmd.dst])
    <3>1. /\ cloc' = "receiving" /\ cpos' = 1 /\ UNCHANGED clean
          /\ cfs' = [cfs EXCEPT ![cmd.dst] = Created(@)]
      BY <1>7, <2>2, SameStream DEF Client!get_reply, cmd
    <3>2. StreamOK'
      BY <2>1, <3>1, ClientReads DEF StreamOK, Client!Gone
    <3>3. cmd.dst \in Names
      BY <2>1, CmdType DEF StreamOK, ClientOK
    <3>4. Created(cfs[cmd.dst]) \in Entries
      BY <3>3 DEF ClientOK, Created, Entries, Kinds
    <3>5. cfs' \in [Names -> Entries] /\ cfs'[cmd.dst] \in Entries
      BY <3>1, <3>3, <3>4 DEF ClientOK
    <3>6. cmd' = cmd
      BY <2>1 DEF cmd, Client!cmd
    <3>7. cpos' \in 1..Len(cfs'[cmd'.dst].body) + 1
      BY <3>1, <3>5, <3>6, StepsType
    <3> QED  BY <2>1, <3>1, <3>2, <3>5, <3>7 DEF ClientOK
  <2>3. CASE ~Creates(cfs[cmd.dst])
    <3>1. cloc' = "prompt" /\ cpos' = 0 /\ Keeps(FALSE) /\ UNCHANGED cfs
      BY <1>7, <2>3, SameStream DEF Client!get_reply, Client!To, cmd
    <3>2. StreamOK'
      BY <1>0, <2>1, <3>1, ClientReads DEF Client!Gone
    <3> QED  BY <2>1, <3>1, <3>2 DEF ClientOK
  <2> QED  BY <2>2, <2>3
<1>8. ASSUME Client!put_reply PROVE StreamOK' /\ ClientOK'
  <2>1. /\ cloc = "reply" /\ cloc' = "sending" /\ cpos' = 1
        /\ down # << >> /\ down' = Tail(down)
        /\ UNCHANGED <<up, link, script, clean, cfs>>
    BY <1>8 DEF Client!put_reply, Client!Accepted, Client!Hears
  <2>2. StreamOK'
    BY <2>1, ClientReads DEF StreamOK, Client!Gone
  <2>3. cmd' = cmd /\ cfs[cmd.src] \in Entries
    BY <2>1, CmdType DEF StreamOK, ClientOK, cmd, Client!cmd
  <2>4. cpos' \in 1..Steps(cfs'[cmd'.src].body)
    BY <2>1, <2>3, StepsType
  <2> QED  BY <2>1, <2>2, <2>4 DEF ClientOK
<1>9. ASSUME Client!dir_line PROVE StreamOK' /\ ClientOK'
  <2>1. /\ cloc = "listing" /\ cloc' \in {"prompt", "listing"} /\ cpos' \in {0, 1, cpos}
        /\ down # << >> /\ \E t \in Take(down) : down' = t.rest /\ Keeps(t.data # Cut)
        /\ UNCHANGED <<up, link, script, cfs>>
    BY <1>9, SameStream DEF Client!dir_line, Client!Hears, Client!To
  <2>2. StreamOK'
    BY <1>0, <2>1, ClientReads DEF Client!Gone
  <2> QED  BY <2>1, <2>2 DEF ClientOK
<1>10. ASSUME Client!recv_file PROVE StreamOK' /\ ClientOK'
  <2>1. /\ cloc = "receiving" /\ down # << >> /\ UNCHANGED <<up, link, script>>
    BY <1>10 DEF Client!recv_file, Client!Hears
  <2>2. PICK t \in Take(down) :
           /\ down' = t.rest
           /\ \/ /\ Keeps(t.data # Cut)
                 /\ cfs' = [cfs EXCEPT ![cmd.dst] = Written(@, cpos, t.data)]
                 /\ \/ cloc' = "prompt" /\ cpos' = 0
                    \/ cpos' = After(cpos, t.data) /\ UNCHANGED cloc
              \/ Keeps(FALSE) /\ cloc' = "prompt" /\ cpos' = 0 /\ UNCHANGED cfs
    BY <1>10, SameStream DEF Client!recv_file, Client!To, cmd
  <2>3. StreamOK'
    BY <1>0, <2>1, <2>2, ClientReads DEF Client!Gone
  <2>4. t.data \in Payloads /\ cmd' = cmd
    BY <2>1, TakeProperties DEF StreamOK, cmd, Client!cmd
  <2>5. CASE cfs' = [cfs EXCEPT ![cmd.dst] = Written(@, cpos, t.data)]
    <3>1. /\ cfs' \in [Names -> Entries]
          /\ After(cpos, t.data) \in 1..Len(cfs'[cmd.dst].body) + 1
          /\ After(cpos, t.data) \in Nat
      BY <2>1, <2>4, <2>5, ClientWrites
    <3>2. CASE cloc' = "prompt" /\ cpos' = 0
      BY <2>1, <2>3, <3>1, <3>2 DEF ClientOK
    <3>3. CASE cpos' = After(cpos, t.data) /\ cloc' = cloc
      BY <2>1, <2>3, <2>4, <3>1, <3>3 DEF ClientOK
    <3>4. \/ cloc' = "prompt" /\ cpos' = 0
          \/ cpos' = After(cpos, t.data) /\ cloc' = cloc
      BY <2>2
    <3> QED  BY <3>2, <3>3, <3>4
  <2>6. CASE cloc' = "prompt" /\ cpos' = 0 /\ UNCHANGED cfs
    BY <2>1, <2>3, <2>6 DEF ClientOK
  <2> QED  BY <2>2, <2>5, <2>6
<1>11. ASSUME Client!send_file PROVE StreamOK' /\ ClientOK'
  <2>1. /\ cloc = "sending" /\ cmd' = cmd /\ UNCHANGED <<down, link, script, cfs>>
    BY <1>11 DEF Client!send_file, cmd, Client!cmd
  <2>2. /\ cfs[cmd.src] \in Entries /\ cpos \in 1..Steps(cfs[cmd.src].body)
        /\ Len(script) \in 0..MaxCommands
    BY <2>1, CmdType, MaxCommandsAssumption DEF StreamOK, ClientOK
  <2>3. CASE ~(cloc' = "prompt" /\ cpos' = 0 /\ Keeps(FALSE) /\ UNCHANGED up)
    <3> DEFINE p == Portion(cfs[cmd.src].body, cpos)
               d == Packet("DATA", p.code, p.data, Len(script))
    <3>1. /\ Len(up) < Window /\ up' = Append(up, d) /\ UNCHANGED clean
          /\ \/ p.code = LAST /\ cloc' = "prompt" /\ cpos' = 0
             \/ p.code # LAST /\ cpos' = cpos + 1 /\ UNCHANGED cloc
      BY <1>11, <2>3, SameStream DEF Client!send_file, Client!To, cmd
    <3>2. /\ p.code \in {LAST, MIDDLE} /\ p.data \in Payloads
          /\ p.code = MIDDLE => cpos + 1 \in 1..Steps(cfs[cmd.src].body)
      BY <2>2, PortionProperties
    <3>3. d \in Packets
      <4>1. "DATA" \in Types /\ p.code \in 0..5
        BY <3>2 DEF Types, LAST, MIDDLE
      <4> QED  BY <2>2, <3>2, <4>1, PacketType
    <3> HIDE DEF p, d
    <3>4. up' \in Seq(Packets) /\ Len(up') <= Window + 1
      BY <3>1, <3>3, Queued DEF StreamOK
    <3> QED  BY <2>1, <3>1, <3>2, <3>4 DEF StreamOK, ClientOK, Client!Gone
  <2>4. CASE cloc' = "prompt" /\ cpos' = 0 /\ Keeps(FALSE) /\ UNCHANGED up
    BY <1>0, <2>1, <2>4 DEF StreamOK, ClientOK, Client!Gone
  <2> QED  BY <2>3, <2>4
<1>12. ASSUME Client!Misread PROVE StreamOK' /\ ClientOK'
  <2>1. /\ cloc \in talking /\ cloc' = "lost" /\ cpos' = 0 /\ Keeps(FALSE)
        /\ UNCHANGED <<up, down, link, script, cfs>>
    BY <1>12, SameStream DEF Client!Misread
  <2> QED  BY <1>0, <2>1 DEF StreamOK, ClientOK, Client!Gone
<1>13. ASSUME Client!ServerGone PROVE StreamOK' /\ ClientOK'
  <2>1. Keeps(FALSE) /\ UNCHANGED <<up, script>>
    BY <1>13, SameStream DEF Client!ServerGone
  <2>2. CASE /\ cloc \in talking /\ cloc' = "lost" /\ cpos' = 0
             /\ UNCHANGED <<down, link, cfs>>
    BY <1>0, <2>1, <2>2 DEF StreamOK, ClientOK, Client!Gone
  <2>3. CASE Client!Leave("exited")
    <3>1. clean' \in BOOLEAN /\ "exited" \in Client!Gone /\ up' \in Seq(Packets)
          /\ Len(up') <= Window + 1
      BY <1>0, <2>1 DEF StreamOK, Client!Gone
    <3> QED  BY <2>1, <2>3, <3>1, LeaveTypes
  <2> QED  BY <1>13, <2>2, <2>3 DEF Client!ServerGone
<1>14. (\E c \in Commands : Client!pwd_proc(c) \/ Client!cd_proc(c) \/ Client!dir_proc(c)
          \/ Client!get_proc(c) \/ Client!put_proc(c)) => StreamOK' /\ ClientOK'
  BY <1>1
<1> QED  BY <1>2, <1>3, <1>4, <1>5, <1>6, <1>7, <1>8, <1>9, <1>10, <1>11, <1>12, <1>13, <1>14
         DEF ClientStep, Client!Ask, Client!Exchange

-----------------------------------------------------------------------------
(* What the server's steps do to the types *)

\* A packet more for the client, or none if it is gone; where it goes next.
LEMMA SendEffect ==
  ASSUME StreamOK, NEW t \in Types, NEW c \in 0..5, NEW d \in Payloads, NEW next,
         turn' \in 0..MaxCommands, Send(t, c, d, next)
  PROVE  /\ down' \in Seq(Packets) /\ Len(down') <= Window + 1
         /\ link' \in {"open", "closed", "answered", "reset"}
         /\ link' = "open" <=> link = "open"
         /\ sloc' \in {next, "exited"}
         /\ link = "open" =>
              /\ sloc' = next
              /\ Len(down') = Len(down) + 1 /\ down' # << >>
              /\ \A j \in 1..Len(down) : down'[j] = down[j]
              /\ down'[Len(down')] = Packet(t, c, d, turn')
<1> DEFINE p == Packet(t, c, d, turn')
<1>1. p \in Packets
  BY PacketType
<1>2. CASE /\ link = "open" /\ Len(down) < Window
           /\ down' = Append(down, p) /\ sloc' = next /\ UNCHANGED link
  <2>1. down \in Seq(Packets)
    BY DEF StreamOK
  <2> HIDE DEF p
  <2>2. /\ down' \in Seq(Packets) /\ down' # << >>
        /\ Len(down') = Len(down) + 1 /\ Len(down') <= Window + 1
        /\ \A j \in 1..Len(down) : down'[j] = down[j]
        /\ down'[Len(down) + 1] = p
    BY <1>1, <1>2, <2>1, Queued
  <2> QED  BY <1>2, <2>2 DEF StreamOK, p
<1>3. CASE link \in {"closed", "answered"} /\ sloc' = next /\ link' = "answered" /\ UNCHANGED down
  BY <1>3 DEF StreamOK
<1>4. CASE link = "reset" /\ sloc' = "exited" /\ UNCHANGED <<down, link>>
  BY <1>4 DEF StreamOK
<1> QED  BY <1>2, <1>3, <1>4 DEF Send

\* The request has been taken from the stream, or the last one is done again.
LEMMA HearsEffect ==
  ASSUME StreamOK, ServerOK, NEW t, NEW d, Hears(t, d)
  PROVE  /\ sloc = "origin" /\ last' = t
         /\ up' \in Seq(Packets) /\ Len(up') <= Window + 1
         /\ turn' \in 0..MaxCommands
         /\ d # Cut => \/ /\ up # << >> /\ up[1].type = t /\ d = up[1].data
                          /\ up' = Tail(up) /\ turn' = up[1].of
                       \/ AtEOF /\ last = t /\ d = NoData /\ UNCHANGED <<up, turn>>
<1>1. sloc = "origin" /\ last' = t
  BY DEF Hears
<1>2. CASE AtEOF /\ last = t /\ d = NoData /\ UNCHANGED <<up, turn>>
  BY <1>1, <1>2 DEF StreamOK, ServerOK
<1>3. CASE /\ up # << >> /\ Head(up).type = t /\ turn' = Head(up).of
           /\ \E x \in Take(up) : d = x.data /\ up' = x.rest
  <2>1. PICK x \in Take(up) : d = x.data /\ up' = x.rest
    BY <1>3
  <2>2. up \in Seq(Packets) /\ up # << >> /\ Len(up) \in Nat /\ Len(up) <= Window + 1
    BY <1>3, LenProperties DEF StreamOK
  <2>3. /\ up' \in Seq(Packets) /\ Len(up') <= Len(up) /\ Len(up') \in Nat
        /\ d # Cut => d = Head(up).data /\ up' = Tail(up)
    BY <2>1, <2>2, TakeProperties, LenProperties
  <2>4. Head(up) = up[1] /\ Head(up).of \in 0..MaxCommands
    BY <2>2, HeadAndTail DEF Packets
  <2> QED  BY <1>1, <1>3, <2>2, <2>3, <2>4, WindowAssumption
<1> QED  BY <1>2, <1>3 DEF Hears

\* A path names an entry; no path, none.
LEMMA EntryType ==
  ASSUME ServerOK, NEW d \in Names \cup {NoData}
  PROVE  /\ Entry(d) \in Entries
         /\ d \in Names  => Entry(d) = sfs[d]
         /\ d = NoData   => Entry(d).kind = "none"
         /\ Entry(d).kind \in {"file", "dir", "denied", "odd"} => d \in Names
<1>1. << >> \in Seq(Names \cup Blocks)
  BY EmptySeq
<1>2. d \in Names => d # NoData
  BY NoDataAssumption
<1> QED  BY <1>1, <1>2 DEF Entry, ServerOK, Entries, Kinds

\* The server's files after one block more.
LEMMA ServerWrites ==
  ASSUME ServerOK, sloc = "receiving", NEW b \in Payloads,
         sfs' = [sfs EXCEPT ![name] = Written(@, spos, b)]
  PROVE  /\ sfs' \in [Names -> Entries]
         /\ sfs'[name] = Written(sfs[name], spos, b)
         /\ After(spos, b) \in 1..Len(sfs'[name].body) + 1
         /\ After(spos, b) \in Nat
         /\ \A n \in Names : sfs'[n].kind = sfs[n].kind
<1>1. name \in Names /\ sfs[name] \in Entries /\ spos \in 1..Len(sfs[name].body) + 1
  BY DEF ServerOK
<1>2. /\ Written(sfs[name], spos, b) \in Entries
      /\ Written(sfs[name], spos, b).kind = sfs[name].kind
      /\ After(spos, b) \in 1..Len(Written(sfs[name], spos, b).body) + 1
      /\ Len(Written(sfs[name], spos, b).body) \in Nat
  BY <1>1, WrittenProperties
<1>3. sfs' \in [Names -> Entries] /\ sfs'[name] = Written(sfs[name], spos, b)
  BY <1>1, <1>2 DEF ServerOK
<1>4. \A n \in Names : sfs'[n].kind = sfs[n].kind
  BY <1>1, <1>2, <1>3 DEF ServerOK
<1> QED  BY <1>2, <1>3, <1>4

\* A procedure that answers and goes on to next, with a file at its first block.
LEMMA ProcTypes ==
  ASSUME StreamOK, ServerOK, NEW t \in Requests, NEW d \in Names \cup {NoData}, Hears(t, d),
         NEW s \in Types, NEW c \in 0..5, NEW b \in Payloads,
         NEW next \in {"origin", "listing", "sending", "receiving"}, Send(s, c, b, next),
         clean' \in BOOLEAN, UNCHANGED <<script, cloc>>, spos' \in {spos, 1}, scwd' \in Names,
         next \in {"sending", "receiving"} => d \in Names /\ spos' = 1 /\ name' = d,
         name' \in {name, d}, sfs' \in [Names -> Entries],
         \A n \in Names : sfs'[n].kind = "odd" <=> ServerFiles[n].kind = "odd"
  PROVE  StreamOK' /\ ServerOK'
<1>1. /\ up' \in Seq(Packets) /\ Len(up') <= Window + 1 /\ turn' \in 0..MaxCommands
      /\ last' = t
  BY HearsEffect
<1>2. /\ down' \in Seq(Packets) /\ Len(down') <= Window + 1
      /\ link' \in {"open", "closed", "answered", "reset"}
      /\ link' = "open" <=> link = "open"
      /\ sloc' \in {next, "exited"}
  BY <1>1, SendEffect
<1>3. StreamOK'
  BY <1>1, <1>2 DEF StreamOK
<1>4. /\ sloc' \in {"origin", "listing", "sending", "receiving", "exited"}
      /\ spos' \in Nat /\ name' \in Names \cup {NoData}
      /\ last' \in Requests \cup {"OTHER"}
  BY <1>1, <1>2 DEF ServerOK
<1>5. ASSUME sloc' \in {"sending", "receiving"}
      PROVE  /\ name' \in Names /\ spos' \in 1..Len(sfs'[name'].body) + 1
             /\ spos' \in 1..Steps(sfs'[name'].body)
  <2>1. d \in Names /\ spos' = 1 /\ name' = d /\ sfs'[d] \in Entries
    BY <1>2, <1>5
  <2> QED  BY <2>1, StepsType
<1> QED  BY <1>1, <1>3, <1>4, <1>5 DEF ServerOK

LEMMA ServerTypes ==
  ASSUME StreamOK, ServerOK, ServerStep, UNCHANGED cloc
  PROVE  StreamOK' /\ ServerOK'
<1>0. /\ \A ok \in BOOLEAN : Keeps(ok) => clean' \in BOOLEAN
      /\ clean \in BOOLEAN /\ sfs \in [Names -> Entries] /\ scwd \in Names
      /\ \A n \in Names : sfs[n].kind = "odd" <=> ServerFiles[n].kind = "odd"
  BY DEF Keeps, StreamOK, ServerOK
<1>a. /\ {"OK", "DATA", "CMD_ERR", "FILE_ERR", "UNKWN_ERR", "RETR"} \subseteq Types
          /\ {0, 1, 2, 5, LAST, MIDDLE} \subseteq 0..5
          /\ NoData \in Payloads /\ NoData \in Names \cup {NoData}
          /\ scwd \in Payloads
          /\ {"QUIT", "PWD", "CWD", "LIST", "RETR", "STOR"} \subseteq Requests
  BY <1>0 DEF Types, Requests, LAST, MIDDLE, Payloads
<1>1. ASSUME Accept PROVE StreamOK' /\ ServerOK'
  BY <1>1 DEF Accept, stream, StreamOK, ServerOK
<1>2. ASSUME quit_proc PROVE StreamOK' /\ ServerOK'
  <2>1. /\ up' \in Seq(Packets) /\ Len(up') <= Window + 1 /\ turn' \in 0..MaxCommands
        /\ last' = "QUIT"
    BY <1>2, HearsEffect DEF quit_proc
  <2>2. sloc' = "exited" /\ UNCHANGED <<down, link, script, clean, spos, name, scwd, sfs>>
    BY <1>2 DEF quit_proc
  <2> QED  BY <1>a, <2>1, <2>2 DEF StreamOK, ServerOK
<1>3. ASSUME pwd_proc PROVE StreamOK' /\ ServerOK'
  <2>1. /\ Hears("PWD", NoData) /\ Send("OK", 0, scwd, "origin")
        /\ UNCHANGED <<script, clean, spos, name, scwd, sfs>>
    BY <1>3 DEF pwd_proc
  <2> QED  BY <1>0, <1>a, <2>1, ProcTypes
<1>4. ASSUME cwd_proc PROVE StreamOK' /\ ServerOK'
  <2>1. PICK d \in Names \cup {NoData} :
           /\ Hears("CWD", d) /\ Keeps(d # Cut)
           /\ \E s \in Types, c \in 0..5 : Send(s, c, NoData, "origin")
           /\ scwd' = IF Entry(d).kind = "dir" THEN d ELSE scwd
           /\ UNCHANGED <<script, spos, name, sfs>>
    BY <1>4, <1>a DEF cwd_proc
  <2>2. PICK s \in Types, c \in 0..5 : Send(s, c, NoData, "origin")
    BY <2>1
  <2>3. scwd' \in Names
    BY <1>0, <2>1, EntryType
  <2> QED  BY <1>0, <1>a, <2>1, <2>2, <2>3, ProcTypes
<1>5. ASSUME list_proc PROVE StreamOK' /\ ServerOK'
  <2>1. PICK d \in Names \cup {NoData} :
           /\ Hears("LIST", d) /\ name' = d /\ spos' = 1
           /\ UNCHANGED <<script, scwd, sfs>>
           /\ \E ok \in BOOLEAN : Keeps(ok)
           /\ \/ \E s \in Types, c \in 0..5, next \in {"origin", "listing"} :
                    Send(s, c, NoData, next)
              \/ sloc' = "lost" /\ UNCHANGED <<down, link>>
    BY <1>5, <1>a DEF list_proc
  <2>2. clean' \in BOOLEAN
    BY <1>0, <2>1
  <2>3. CASE \E s \in Types, c \in 0..5, next \in {"origin", "listing"} :
                Send(s, c, NoData, next)
    <3>1. PICK s \in Types, c \in 0..5, next \in {"origin", "listing"} :
             Send(s, c, NoData, next)
      BY <2>3
    <3> QED  BY <1>0, <1>a, <2>1, <2>2, <3>1, ProcTypes
  <2>4. CASE sloc' = "lost" /\ UNCHANGED <<down, link>>
    <3>1. /\ up' \in Seq(Packets) /\ Len(up') <= Window + 1 /\ turn' \in 0..MaxCommands
          /\ last' = "LIST"
      BY <2>1, HearsEffect
    <3> QED  BY <1>a, <2>1, <2>2, <2>4, <3>1 DEF StreamOK, ServerOK
  <2> QED  BY <2>1, <2>3, <2>4
<1>6. ASSUME retr_proc PROVE StreamOK' /\ ServerOK'
  <2>1. PICK d \in Names \cup {NoData} :
           /\ Hears("RETR", d) /\ Keeps(d # Cut) /\ name' = d /\ spos' = 1
           /\ UNCHANGED <<script, scwd, sfs>>
           /\ \/ Opens(Entry(d)) /\ Send("OK", 1, NoData, "sending")
              \/ \E s \in Types, c \in 0..5 : Send(s, c, NoData, "origin")
    BY <1>6, <1>a DEF retr_proc
  <2>2. CASE Opens(Entry(d)) /\ Send("OK", 1, NoData, "sending")
    <3>1. d \in Names
      BY <2>2, EntryType DEF Opens
    <3> QED  BY <1>0, <1>a, <2>1, <2>2, <3>1, ProcTypes
  <2>3. CASE \E s \in Types, c \in 0..5 : Send(s, c, NoData, "origin")
    <3>1. PICK s \in Types, c \in 0..5 : Send(s, c, NoData, "origin")
      BY <2>3
    <3> QED  BY <1>0, <1>a, <2>1, <3>1, ProcTypes
  <2> QED  BY <2>1, <2>2, <2>3
<1>7. ASSUME stor_proc PROVE StreamOK' /\ ServerOK'
  <2>1. PICK d \in Names \cup {NoData} :
           /\ Hears("STOR", d) /\ Keeps(d # Cut) /\ name' = d /\ spos' = 1
           /\ UNCHANGED <<script, scwd>>
           /\ \/ /\ d # NoData /\ Creates(Entry(d)) /\ sfs' = [sfs EXCEPT ![d] = Created(@)]
                 /\ Send("OK", 2, NoData, "receiving")
              \/ UNCHANGED sfs /\ \E s \in Types, c \in 0..5 : Send(s, c, NoData, "origin")
    <3>1. PICK d \in Names \cup {NoData} :
            LET ok == d # NoData /\ Creates(Entry(d))
            IN  /\ Hears("STOR", d) /\ Keeps(d # Cut) /\ name' = d /\ spos' = 1
                /\ UNCHANGED <<script, scwd>>
                /\ sfs' = IF ok THEN [sfs EXCEPT ![d] = Created(@)] ELSE sfs
                /\ \/ ok /\ Send("OK", 2, NoData, "receiving")
                   \/ /\ ~ok
                      /\ \E s \in Types, c \in 0..5 : Send(s, c, NoData, "origin")
      BY <1>7, <1>a DEF stor_proc, Creates
    <3> QED  BY <3>1
  <2>2. CASE /\ d # NoData /\ Creates(Entry(d)) /\ sfs' = [sfs EXCEPT ![d] = Created(@)]
             /\ Send("OK", 2, NoData, "receiving")
    <3>1. d \in Names /\ sfs[d] \in Entries /\ sfs[d].kind \in {"file", "none"}
      BY <1>0, <2>2, EntryType DEF Creates
    <3>2. Created(sfs[d]) \in Entries /\ Created(sfs[d]).kind = "file"
      BY <3>1 DEF Created, Entries, Kinds
    <3>3. /\ sfs' \in [Names -> Entries]
          /\ \A n \in Names : sfs'[n].kind = "odd" <=> ServerFiles[n].kind = "odd"
      BY <1>0, <2>2, <3>1, <3>2
    <3> QED  BY <1>0, <1>a, <2>1, <2>2, <3>1, <3>3, ProcTypes
  <2>3. CASE UNCHANGED sfs /\ \E s \in Types, c \in 0..5 : Send(s, c, NoData, "origin")
    <3>1. PICK s \in Types, c \in 0..5 : Send(s, c, NoData, "origin")
      BY <2>3
    <3> QED  BY <1>0, <1>a, <2>1, <2>3, <3>1, ProcTypes
  <2> QED  BY <2>1, <2>2, <2>3
<1>8. ASSUME list_line PROVE StreamOK' /\ ServerOK'
  <2>1. /\ sloc = "listing" /\ turn' = turn
        /\ \E c \in {LAST, MIDDLE}, next \in {"origin", "listing"} : Send("DATA", c, name, next)
        /\ spos' \in {0, spos + 1}
        /\ UNCHANGED <<up, script, clean, name, last, scwd, sfs>>
    BY <1>8 DEF list_line
  <2>2. PICK c \in {LAST, MIDDLE}, next \in {"origin", "listing"} : Send("DATA", c, name, next)
    BY <2>1
  <2>3. name \in Payloads /\ turn' \in 0..MaxCommands /\ c \in 0..5
    BY <1>a, <2>1 DEF ServerOK, Payloads
  <2>4. /\ down' \in Seq(Packets) /\ Len(down') <= Window + 1
        /\ link' \in {"open", "closed", "answered", "reset"}
        /\ link' = "open" <=> link = "open"
        /\ sloc' \in {next, "exited"}
    BY <1>a, <2>2, <2>3, SendEffect
  <2> QED  BY <2>1, <2>4 DEF StreamOK, ServerOK
<1>9. ASSUME send_file PROVE StreamOK' /\ ServerOK'
  <2>1. /\ sloc = "sending" /\ turn' = turn
        /\ UNCHANGED <<up, script, name, last, scwd, sfs>>
    BY <1>9 DEF send_file
  <2>2. /\ name \in Names /\ Entry(name) = sfs[name] /\ sfs[name] \in Entries
        /\ spos \in 1..Steps(sfs[name].body) /\ turn' \in 0..MaxCommands
    BY <2>1, EntryType DEF ServerOK
  <2>3. CASE ~(sloc' = "origin" /\ spos' = 0 /\ Keeps(FALSE) /\ UNCHANGED <<down, link>>)
    <3> DEFINE p == Portion(sfs[name].body, spos)
    <3>1. /\ Send("DATA", p.code, p.data, IF p.code = LAST THEN "origin" ELSE "sending")
          /\ spos' = IF p.code = LAST THEN 0 ELSE spos + 1
          /\ UNCHANGED clean
      BY <1>9, <2>2, <2>3 DEF send_file
    <3>2. /\ p.code \in {LAST, MIDDLE} /\ p.data \in Payloads
          /\ p.code = MIDDLE => spos + 1 \in 1..Steps(sfs[name].body)
      BY <2>2, PortionProperties
    <3> HIDE DEF p
    <3>3. /\ down' \in Seq(Packets) /\ Len(down') <= Window + 1
          /\ link' \in {"open", "closed", "answered", "reset"}
          /\ link' = "open" <=> link = "open"
          /\ sloc' \in {IF p.code = LAST THEN "origin" ELSE "sending", "exited"}
      BY <1>a, <2>2, <3>1, <3>2, SendEffect
    <3> QED  BY <2>1, <3>1, <3>2, <3>3 DEF StreamOK, ServerOK
  <2>4. CASE sloc' = "origin" /\ spos' = 0 /\ Keeps(FALSE) /\ UNCHANGED <<down, link>>
    BY <1>0, <2>1, <2>4 DEF StreamOK, ServerOK
  <2> QED  BY <2>3, <2>4
<1>10. ASSUME recv_file PROVE StreamOK' /\ ServerOK'
  <2>1. PICK x \in Take(up) :
          /\ up' = x.rest
          /\ \/ /\ Keeps(x.data # Cut)
                /\ sfs' = [sfs EXCEPT ![name] = Written(@, spos, x.data)]
                /\ \/ sloc' = "origin" /\ spos' = 0
                   \/ spos' = After(spos, x.data) /\ UNCHANGED sloc
             \/ Keeps(FALSE) /\ sloc' = "origin" /\ spos' = 0 /\ UNCHANGED sfs
    BY <1>10 DEF recv_file, Back
  <2>2. /\ sloc = "receiving" /\ up # << >> /\ up \in Seq(Packets) /\ Len(up) \in Nat
        /\ UNCHANGED <<down, link, script, name, turn, last, scwd>>
    BY <1>10, LenProperties DEF recv_file, StreamOK
  <2>3. up' \in Seq(Packets) /\ Len(up') <= Len(up) /\ Len(up') \in Nat /\ x.data \in Payloads
    BY <2>1, <2>2, TakeProperties, LenProperties
  <2>4. Len(up') <= Window + 1
    BY <2>2, <2>3, WindowAssumption DEF StreamOK
  <2>5. StreamOK'
    BY <1>0, <2>1, <2>2, <2>3, <2>4 DEF StreamOK
  <2>6. CASE sfs' = [sfs EXCEPT ![name] = Written(@, spos, x.data)]
    <3>1. /\ sfs' \in [Names -> Entries]
          /\ After(spos, x.data) \in 1..Len(sfs'[name].body) + 1
          /\ After(spos, x.data) \in Nat
          /\ \A n \in Names : sfs'[n].kind = "odd" <=> ServerFiles[n].kind = "odd"
      BY <1>0, <2>2, <2>3, <2>6, ServerWrites
    <3>2. CASE sloc' = "origin" /\ spos' = 0
      BY <2>2, <2>5, <3>1, <3>2 DEF ServerOK
    <3>3. CASE spos' = After(spos, x.data) /\ sloc' = sloc
      BY <2>2, <2>5, <3>1, <3>3 DEF ServerOK
    <3>4. \/ sloc' = "origin" /\ spos' = 0
          \/ spos' = After(spos, x.data) /\ sloc' = sloc
      BY <2>1
    <3> QED  BY <3>2, <3>3, <3>4
  <2>7. CASE sloc' = "origin" /\ spos' = 0 /\ UNCHANGED sfs
    BY <2>2, <2>5, <2>7 DEF ServerOK
  <2> QED  BY <2>1, <2>6, <2>7
<1>11. ASSUME recv_file_eof PROVE StreamOK' /\ ServerOK'
  <2>1. /\ sloc = "receiving" /\ sloc' = "origin" /\ spos' = 0 /\ Keeps(FALSE)
        /\ UNCHANGED <<up, down, link, script, name, turn, last, scwd>>
        /\ UNCHANGED sfs \/ sfs' = [sfs EXCEPT ![name] = Written(@, spos, Cut)]
    BY <1>11 DEF recv_file_eof, Back
  <2>2. /\ sfs' \in [Names -> Entries]
        /\ \A n \in Names : sfs'[n].kind = "odd" <=> ServerFiles[n].kind = "odd"
    <3>1. Cut \in Payloads
      BY CutAssumption DEF Payloads
    <3> QED  BY <1>0, <2>1, <3>1, ServerWrites
  <2> QED  BY <1>0, <2>1, <2>2 DEF StreamOK, ServerOK
<1>12. ASSUME unknown_type PROVE StreamOK' /\ ServerOK'
  <2>1. /\ up # << >> /\ up \in Seq(Packets) /\ Len(up) \in Nat /\ Len(up) <= Window + 1
        /\ last' = "OTHER" /\ turn' = Head(up).of
        /\ up' \in {Tail(up), <<Fragment>> \o Tail(up)}
        /\ Head(up).data = NoData => up' = Tail(up)
        /\ UNCHANGED <<down, link, script, clean, sloc, spos, name, scwd, sfs>>
    BY <1>12, LenProperties DEF unknown_type, StreamOK
  <2>2. PICK x \in Take(up) : up' = x.rest
    <3>1. \/ up' = Tail(up)
          \/ Head(up).data # NoData /\ up' = <<Fragment>> \o Tail(up)
      BY <2>1
    <3>2. CASE up' = Tail(up)
      <4>1. [data |-> Head(up).data, rest |-> Tail(up)] \in Take(up)
        BY Zenon DEF Take
      <4> QED  BY <3>2, <4>1
    <3>3. CASE Head(up).data # NoData /\ up' = <<Fragment>> \o Tail(up)
      <4>1. [data |-> Cut, rest |-> <<Fragment>> \o Tail(up)] \in Take(up)
        BY <3>3, Zenon DEF Take
      <4> QED  BY <3>3, <4>1
    <3> QED  BY <3>1, <3>2, <3>3
  <2>3. /\ up' \in Seq(Packets) /\ Len(up') <= Len(up) /\ Len(up') \in Nat
        /\ Head(up).of \in 0..MaxCommands
    BY <2>1, <2>2, TakeProperties, HeadAndTail, LenProperties DEF Packets
  <2>4. Len(up') <= Window + 1
    BY <2>1, <2>3, WindowAssumption
  <2>5. sloc = "origin"
    BY <1>12 DEF unknown_type
  <2> QED  BY <2>1, <2>3, <2>4, <2>5 DEF StreamOK, ServerOK
<1>13. ASSUME recv_error \/ ResetArrives \/ ServerDies \/ Misread PROVE StreamOK' /\ ServerOK'
  <2>1. clean' \in BOOLEAN
    BY <1>0, <1>13 DEF recv_error, ResetArrives, ServerDies, Misread, stream
  <2>2. /\ UNCHANGED <<up, down, script, spos, name, turn, last, scwd, sfs>>
        /\ sloc' \in {sloc, "exited", "lost"}
        /\ link' = link \/ (link = "answered" /\ link' = "reset")
    BY <1>13 DEF recv_error, ResetArrives, ServerDies, Misread, stream, serverVars
  <2> QED  BY <2>1, <2>2 DEF StreamOK, ServerOK
<1> QED  BY <1>1, <1>2, <1>3, <1>4, <1>5, <1>6, <1>7, <1>8, <1>9, <1>10, <1>11, <1>12, <1>13
         DEF ServerStep, Serve

LEMMA TypeStep == TypeInv /\ [Next]_vars => TypeInv'
<1> SUFFICES ASSUME TypeInv, [Next]_vars PROVE TypeInv'
  OBVIOUS
<1>1. CASE (ClientStep \/ Client!ServerGone) /\ UNCHANGED serverVars
  <2>1. StreamOK' /\ ClientOK'
    BY <1>1, ClientTypes DEF TypeInv
  <2>2. ServerOK'
    BY <1>1 DEF TypeInv, ServerOK, serverVars
  <2> QED  BY <2>1, <2>2 DEF TypeInv
<1>2. CASE ServerStep /\ UNCHANGED clientVars
  <2>1. StreamOK' /\ ServerOK'
    BY <1>2, ServerTypes DEF TypeInv, clientVars
  <2>2. UNCHANGED script
    BY <1>2 DEF ServerStep, Serve, Accept, quit_proc, pwd_proc, cwd_proc, list_proc, retr_proc,
       stor_proc, list_line, send_file, recv_file, unknown_type, recv_error, recv_file_eof,
       Misread, ResetArrives, ServerDies, stream
  <2>3. ClientOK'
    BY <1>2, <2>2 DEF TypeInv, ClientOK, clientVars, cmd, Client!cmd
  <2> QED  BY <2>1, <2>3 DEF TypeInv
<1>3. CASE UNCHANGED vars
  BY <1>3 DEF TypeInv, StreamOK, ClientOK, ServerOK, vars, stream, serverVars, clientVars,
     cmd, Client!cmd
<1> QED  BY <1>1, <1>2, <1>3 DEF Next

\* Whatever is in the stream and whoever is gone, every variable keeps its
\* type: nothing is read behind the end of a file or written beyond its next
\* block, no packet has a code or a stamp it should not have, and neither
\* direction holds more than fits.
THEOREM TypeCorrect == Spec => []TypeOK
<1>1. TypeInv => TypeOK
  BY DEF TypeInv, StreamOK, ClientOK, ServerOK, TypeOK
<1> QED  BY <1>1, TypeInit, TypeStep, PTL DEF Spec
-----------------------------------------------------------------------------
(* The conversation, while nothing has gone wrong *)

IsData(p) == p.type = "DATA"
IsLast(p) == p.type = "DATA" /\ p.code = LAST

Verb   == [pwd |-> "PWD", cd |-> "CWD", dir |-> "LIST", get |-> "RETR", put |-> "STOR"]
Arg(c) == IF c.op = "pwd" THEN NoData ELSE IF c.op = "put" THEN c.dst ELSE c.src

\* The request for the command in hand.
Asks(p) == script # << >> /\ p = Packet(Verb[cmd.op], 0, Arg(cmd), Len(script))

\* What is on the way to the server: a request if it waits for one; the rest of
\* the file if it is in recv_file, with the next request behind the last
\* packet; nothing while it answers; nothing that is cut when it has ended.
UpShape ==
    /\ sloc # "lost"
    /\ sloc = "exited" => \A j \in 1..Len(up) : up[j].type # "FRAGMENT"
    /\ sloc \in {"queued", "origin"} =>
         Len(up) <= 1 /\ \A j \in 1..Len(up) : up[j].type = "QUIT" \/ Asks(up[j])
    /\ sloc \in {"listing", "sending"} => up = << >>
    /\ sloc = "receiving" =>
         \A j \in 1..Len(up) :
            IF IsData(up[j])
            THEN /\ up[j].of = turn
                 /\ j < Len(up) => (IsLast(up[j]) <=> ~IsData(up[j + 1]))
            ELSE /\ up[j].type = "QUIT" \/ Asks(up[j])
                 /\ j = Len(up) /\ j > 1

\* p is the last packet of the answer to the command in hand.
Ends(p) == p.type \in Errors \/ cmd.op \in {"pwd", "cd", "put"} \/ IsLast(p)

\* The client is at the prompt; a put may still be on its way.
Idle == /\ down = << >>
        /\ \/ sloc \in {"queued", "origin"} /\ up = << >>
           \/ sloc = "receiving" /\ turn = Len(script) /\ up # << >> /\ IsLast(up[Len(up)])

\* It has asked and the server has not answered yet.
Asked == /\ down = << >> /\ up # << >> /\ Asks(up[Len(up)])
         /\ sloc \in {"queued", "origin", "receiving"}
         /\ sloc = "receiving" => turn < Len(script)

\* What is on the way to the client belongs to its command, and ends where the
\* server has ended.
Answered ==
    /\ up = << >> /\ turn = Len(script)
    /\ \A j \in 1..Len(down) :
         /\ down[j].of = Len(script)
         /\ IsData(down[j]) <=> cloc # "reply" \/ j > 1
         /\ Ends(down[j]) => j = Len(down)
    /\ cloc = "reply" => down # << >>
    /\ \/ /\ \/ sloc = "listing" /\ cmd.op = "dir"
             \/ sloc = "sending" /\ cmd.op = "get"
          /\ \A j \in 1..Len(down) : ~Ends(down[j])
       \/ /\ sloc = "origin" /\ down # << >> /\ Ends(down[Len(down)])
          /\ cmd.op = "put" => down[1].type \in Errors
       \/ /\ sloc = "receiving" /\ cmd.op = "put" /\ cloc = "reply"
          /\ Len(down) = 1 /\ down[1].type \notin Errors /\ spos = 1
    /\ cmd.op = "cd" /\ down[1].type \notin Errors /\ ServerFiles[cmd.src].kind # "odd"
         => scwd = cmd.src

\* The server takes a file of which the last packet is still to be sent.
Sending == /\ down = << >> /\ sloc = "receiving" /\ turn = Len(script) /\ cmd.op = "put"
           /\ \A j \in 1..Len(up) : IsData(up[j]) /\ ~IsLast(up[j])

Conversation == link = "open" =>
    /\ cloc # "lost" /\ sloc \notin {"lost", "exited"}
    /\ cloc = "prompt" => Idle
    /\ cloc = "reply" => Asked \/ Answered
    /\ cloc = "listing" => Answered /\ cmd.op = "dir"
    /\ cloc = "receiving" => Answered /\ cmd.op = "get"
    /\ cloc = "sending" => Sending

\* Packet p has the i-th portion of the file body s.
Carries(p, s, i) == /\ i \in 1..Steps(s)
                    /\ p.code = Portion(s, i).code /\ p.data = Portion(s, i).data

\* Two files agree on their first n blocks.
Same(b, s, n) == n <= Len(b) /\ n <= Len(s) /\ \A k \in 1..n : b[k] = s[k]

\* A get is under way.  The server has agreed, and the client has read so many
\* packets since (-1: not yet the agreement itself).
Getting == /\ link = "open" /\ cloc \in {"reply", "receiving"} /\ cmd.op = "get"
           /\ cloc = "reply" => down # << >> /\ down[1].type \notin Errors
Read == IF cloc = "reply" THEN -1 ELSE cpos - 1

\* What is between the two copies of a file is on the way.
GetInv == Getting =>
    LET s == sfs[cmd.src].body
    IN  /\ \A j \in 1..Len(down) : Read + j > 0 => Carries(down[j], s, Read + j)
        /\ sloc = "sending" => name = cmd.src /\ spos = Read + Len(down) + 1
        /\ cloc = "receiving" => Same(cfs[cmd.dst].body, s, cpos - 1)

PutInv == sloc = "receiving" =>
    LET s == cfs[script[turn].src].body
    IN  /\ turn \in 1..Len(script) /\ script[turn].op = "put" /\ name = script[turn].dst
        /\ \A j \in 1..Len(up) : IsData(up[j]) => Carries(up[j], s, spos + j - 1)
        /\ link = "open" /\ cloc = "sending" => cpos = spos + Len(up)
        /\ Same(sfs[name].body, s, spos - 1)

Clean == UpShape /\ Conversation /\ GetInv /\ PutInv

Inv == TypeInv /\ (clean => Clean)

\* Writing the portion that is next continues the copy, and the last one ends it.
LEMMA WritesPortion ==
  ASSUME NEW b \in Entries, NEW s \in Entries, NEW i \in 1..Len(b.body) + 1, NEW p,
         Carries(p, s.body, i), Same(b.body, s.body, i - 1)
  PROVE  LET w == Written(b, i, p.data).body
         IN  /\ p.code # LAST => Same(w, s.body, i) /\ After(i, p.data) = i + 1
             /\ p.code = LAST => IsPrefix(s.body, w)
<1> DEFINE w == Written(b, i, p.data).body
           n == Len(s.body)
<1>1. /\ n \in Nat /\ i \in Nat \ {0} /\ i \in 1..Steps(s.body)
      /\ p.data = Portion(s.body, i).data /\ p.code = Portion(s.body, i).code
      /\ p.code # LAST => i + 1 \in 1..Steps(s.body)
      /\ p.code = LAST => i = Steps(s.body)
      /\ p.data \in Payloads
      /\ Len(b.body) \in Nat
  BY StepsType, PortionProperties DEF Carries
<1>2. /\ Len(w) \in Nat
      /\ \A k \in 1..i - 1 : w[k] = s.body[k]
      /\ p.data # NoData => w[i] = p.data /\ Len(w) >= i
  BY <1>1, WrittenProperties DEF Same
<1>3. CASE s.body = << >>
  <2>1. n = 0 /\ Steps(s.body) = 1 /\ p.code = LAST
    BY <1>1, <1>3, EmptySeq DEF Steps
  <2>2. SubSeq(s.body, 1, n) = SubSeq(w, 1, n)
    BY <1>3, <2>1
  <2> QED  BY <1>2, <2>1, <2>2 DEF IsPrefix
<1>4. CASE s.body # << >>
  <2>1. /\ Steps(s.body) = n /\ p.data = s.body[i] /\ p.data # NoData
    BY <1>1, <1>4, PortionProperties DEF Steps
  <2>2. \A k \in 1..i : w[k] = s.body[k]
    <3> TAKE k \in 1..i
    <3> HIDE DEF w
    <3>1. k = i \/ k \in 1..i - 1
      BY <1>1
    <3> QED  BY <1>2, <2>1, <3>1
  <2> HIDE DEF w
  <2>3. p.code # LAST => Same(w, s.body, i) /\ After(i, p.data) = i + 1
    BY <1>1, <1>2, <2>1, <2>2 DEF Same, After
  <2>4. ASSUME p.code = LAST PROVE IsPrefix(s.body, w)
    <3>1. i = n
      BY <1>1, <2>1, <2>4
    <3>2. SubSeq(s.body, 1, n) = SubSeq(w, 1, n)
      BY <1>1, <2>2, <3>1
    <3> QED  BY <1>1, <1>2, <2>1, <3>1, <3>2 DEF IsPrefix
  <2> QED  BY <2>3, <2>4 DEF w
<1> QED  BY <1>3, <1>4

LEMMA Streams ==
  ASSUME TypeInv
  PROVE  /\ up \in Seq(Packets) /\ Len(up) \in Nat /\ (up = << >> <=> Len(up) = 0)
         /\ down \in Seq(Packets) /\ Len(down) \in Nat /\ (down = << >> <=> Len(down) = 0)
         /\ script \in Seq(Commands) /\ Len(script) \in Nat
BY QueueType, LenProperties DEF TypeInv, StreamOK

LEMMA CleanInit == Init => Clean
<1> SUFFICES ASSUME Init PROVE Clean
  OBVIOUS
<1>1. Len(<< >>) = 0 /\ up = << >> /\ down = << >> /\ sloc = "queued" /\ cloc = "prompt"
  BY EmptySeq DEF Init, ServerInit, Client!ClientInit
<1> QED  BY <1>1 DEF Clean, UpShape, Conversation, Idle, GetInv, Getting, PutInv

-----------------------------------------------------------------------------
(* The client's steps, while nothing goes wrong *)

\* Only the DATA of a put can be in front of what the client sends at the prompt.
LEMMA AtPrompt ==
  ASSUME TypeInv, Clean, cloc = "prompt"
  PROVE  /\ link = "open" /\ Idle
         /\ sloc = "receiving" => \A j \in 1..Len(up) : IsData(up[j])
<1>1. link = "open" /\ Idle
  BY DEF TypeInv, StreamOK, Clean, Conversation, Client!Gone
<1>2. ASSUME sloc = "receiving", NEW j \in 1..Len(up), ~IsData(up[j]) PROVE FALSE
  <2>1. j = Len(up)
    BY <1>2 DEF Clean, UpShape
  <2> QED  BY <1>1, <1>2, <2>1 DEF Idle, IsLast, IsData
<1> QED  BY <1>1, <1>2

\* A request or QUIT behind what is on its way at the prompt.
LEMMA ShapeGrows ==
  ASSUME TypeInv, Clean, cloc = "prompt", UNCHANGED <<sloc, turn>>,
         Len(up') = Len(up) + 1, \A j \in 1..Len(up) : up'[j] = up[j],
         NEW p \in Packets, up'[Len(up) + 1] = p, p.type = "QUIT" \/ Asks(p)',
         ~IsData(p)
  PROVE  UpShape'
<1>1. link = "open" /\ Idle /\ Len(up) \in Nat /\ (up = << >> <=> Len(up) = 0)
  BY AtPrompt, Streams
<1>2. CASE sloc \in {"queued", "origin"}
  BY <1>1, <1>2 DEF Idle, UpShape
<1>3. CASE sloc = "receiving"
  <2>1. Len(up) > 0 /\ IsLast(up[Len(up)])
    BY <1>1, <1>3 DEF Idle
  <2>2. \A j \in 1..Len(up) : /\ IsData(up[j]) /\ up[j].of = turn
                              /\ j < Len(up) => (IsLast(up[j]) <=> ~IsData(up[j + 1]))
    BY <1>3, AtPrompt DEF Clean, UpShape
  <2>3. \A j \in 1..Len(up) : /\ IsData(up'[j]) /\ up'[j].of = turn
                              /\ IsLast(up'[j]) <=> ~IsData(up'[j + 1])
    <3> TAKE j \in 1..Len(up)
    <3>1. CASE j = Len(up)
      BY <1>1, <2>1, <2>2, <3>1
    <3>2. CASE j < Len(up)
      <4>1. j + 1 \in 1..Len(up)
        BY <1>1, <3>2
      <4> QED  BY <2>2, <3>2, <4>1
    <3> QED  BY <1>1, <3>1, <3>2
  <2>4. \A j \in 1..Len(up') : j \in 1..Len(up) \/ (j = Len(up') /\ j > 1 /\ up'[j] = p)
    BY <1>1, <2>1
  <2> QED  BY <1>1, <1>3, <2>3, <2>4 DEF UpShape
<1> QED  BY <1>1, <1>2, <1>3 DEF Idle

LEMMA CleanRequest ==
  ASSUME TypeInv, Clean, UNCHANGED serverVars, NEW c \in Commands,
         Client!pwd_proc(c) \/ Client!cd_proc(c) \/ Client!dir_proc(c)
           \/ Client!get_proc(c) \/ Client!put_proc(c)
  PROVE  Clean'
<1>1. Client!Request(c, Verb[c.op], Arg(c))
  BY DEF Client!pwd_proc, Client!cd_proc, Client!dir_proc, Client!get_proc, Client!put_proc,
         Verb, Arg
<1>2. Verb[c.op] \in Requests /\ Verb[c.op] # "DATA" /\ Arg(c) \in Payloads
  BY CommandsAssumption DEF Verb, Arg, Requests, Payloads
<1>3. PICK p : p = Packet(Verb[c.op], 0, Arg(c), Len(script) + 1)
  OBVIOUS
<1>4. /\ cloc = "prompt" /\ cloc' = "reply"
      /\ script' # << >> /\ Len(script) + 1 \in 1..MaxCommands
      /\ Len(script') = Len(script) + 1 /\ cmd' = c
      /\ \A k \in 1..Len(script) + 1 - 1 : script'[k] = script[k]
      /\ up' \in Seq(Packets) /\ up' # << >> /\ Len(up') = Len(up) + 1
      /\ \A j \in 1..Len(up) : up'[j] = up[j]
      /\ up'[Len(up')] = p
      /\ UNCHANGED <<down, link, clean, cpos, cfs>>
  BY <1>1, <1>2, <1>3, RequestEffect DEF TypeInv
<1>5. p \in Packets /\ p.type = Verb[c.op] /\ ~IsData(p)
  <2>1. Verb[c.op] \in Types /\ 0 \in 0..5 /\ Len(script) + 1 \in 0..MaxCommands
    BY <1>2, <1>4, MaxCommandsAssumption DEF Types
  <2> QED  BY <1>2, <1>3, <2>1, PacketType DEF Packet, IsData
<1>6. Asks(p)'
  BY <1>3, <1>4 DEF Asks, Arg
<1>7. UNCHANGED <<sloc, spos, name, turn, scwd, sfs>>
  BY DEF serverVars
<1>8. /\ link = "open" /\ Idle /\ Len(up) \in Nat /\ Len(script) \in Nat
      /\ sloc \in {"queued", "origin"} \/ (sloc = "receiving" /\ turn = Len(script))
  BY <1>4, AtPrompt, Streams DEF Idle
<1>9. UpShape'
  <2>1. up'[Len(up) + 1] = p
    BY <1>4
  <2> QED  BY <1>4, <1>5, <1>6, <1>7, <2>1, ShapeGrows
<1>10. Asked'
  <2>1. Asks(up[Len(up)])'
    BY <1>4, <1>6 DEF Asks
  <2>2. down' = << >> /\ sloc' \in {"queued", "origin", "receiving"}
    BY <1>4, <1>7, <1>8 DEF Idle
  <2>3. sloc' = "receiving" => turn' < Len(script')
    BY <1>4, <1>7, <1>8
  <2> QED  BY <1>4, <2>1, <2>2, <2>3 DEF Asked
<1>11. Conversation'
  BY <1>4, <1>7, <1>8, <1>10 DEF Conversation
<1>12. GetInv'
  BY <1>4, <1>8 DEF GetInv, Getting, Idle
<1>13. PutInv'
  <2>1. CASE sloc = "receiving"
    <3>1. /\ turn \in 1..Len(script) /\ script[turn].op = "put" /\ name = script[turn].dst
          /\ \A j \in 1..Len(up) : IsData(up[j]) => Carries(up[j], cfs[script[turn].src].body, spos + j - 1)
          /\ Same(sfs[name].body, cfs[script[turn].src].body, spos - 1)
      BY <2>1 DEF Clean, PutInv
    <3>2. script'[turn] = script[turn] /\ turn \in 1..Len(script')
      BY <1>4, <1>8, <3>1
    <3>3. \A j \in 1..Len(up') : IsData(up'[j]) => j \in 1..Len(up)
      BY <1>4, <1>5, <1>8
    <3> QED  BY <1>4, <1>7, <3>1, <3>2, <3>3 DEF PutInv
  <2>2. CASE sloc # "receiving"
    BY <1>7, <2>2 DEF PutInv
  <2> QED  BY <2>1, <2>2
<1> QED  BY <1>9, <1>11, <1>12, <1>13 DEF Clean

\* The client leaves: only what is on its way to the server still counts.
LEMMA CleanLeave ==
  ASSUME TypeInv, Clean, UNCHANGED <<serverVars, script, cfs>>, link' # "open",
         \/ UNCHANGED up
         \/ Client!quit_proc
  PROVE  Clean'
<1>1. Conversation' /\ GetInv'
  BY DEF Conversation, GetInv, Getting
<1>2. UNCHANGED <<sloc, spos, name, turn, scwd, sfs, cmd>>
  BY DEF serverVars, cmd, Client!cmd
<1>3. CASE UNCHANGED up
  BY <1>1, <1>2, <1>3 DEF Clean, UpShape, PutInv, Asks, Arg
<1>4. CASE Client!quit_proc
  <2> DEFINE p == Packet("QUIT", 0, NoData, Len(script))
  <2>1. cloc = "prompt" /\ Len(up) < Window /\ up' = Append(up, p)
    BY <1>4, SameStream DEF Client!quit_proc
  <2>2. p \in Packets /\ p.type = "QUIT"
    <3>1. Len(script) \in 0..MaxCommands
      BY Streams, MaxCommandsAssumption DEF TypeInv, StreamOK
    <3> QED  BY <3>1, PacketType DEF Types, Requests, Payloads, Packet
  <2> HIDE DEF p
  <2>3. /\ Len(up) \in Nat /\ Len(up') = Len(up) + 1
        /\ \A j \in 1..Len(up) : up'[j] = up[j]
        /\ up'[Len(up) + 1] = p
    BY <2>1, <2>2, Streams, Queued
  <2>4. UpShape'
    BY <1>2, <2>1, <2>2, <2>3, ShapeGrows DEF IsData
  <2>5. PutInv'
    <3>1. \A j \in 1..Len(up') : IsData(up'[j]) => j \in 1..Len(up) /\ up'[j] = up[j]
      BY <2>2, <2>3 DEF IsData
    <3> QED  BY <1>2, <3>1 DEF Clean, PutInv
  <2> QED  BY <1>1, <2>4, <2>5 DEF Clean
<1> QED  BY <1>3, <1>4

\* The client reads from the answer to its command.
LEMMA Talking ==
  ASSUME TypeInv, Clean, cloc \in {"reply", "listing", "receiving"}, down # << >>
  PROVE  /\ link = "open" /\ Answered /\ up = << >> /\ script # << >>
         /\ Len(down) \in Nat \ {0} /\ Head(down) = down[1] /\ down[1] \in Packets
         /\ Tail(down) \in Seq(Packets) /\ Len(Tail(down)) = Len(down) - 1
         /\ \A j \in 1..Len(down) - 1 : Tail(down)[j] = down[j + 1]
<1>1. link = "open" /\ script # << >>
  BY DEF TypeInv, StreamOK, ClientOK, Client!Gone
<1>2. Answered
  BY <1>1 DEF Clean, Conversation, Asked
<1>3. up = << >>
  BY <1>2 DEF Answered
<1> QED  BY <1>1, <1>2, <1>3, Streams, HeadAndTail

\* The last packet of an answer has been read, and the client is at the prompt.
LEMMA AnswerEnds ==
  ASSUME TypeInv, Clean, UNCHANGED <<serverVars, up, link, script>>,
         cloc \in {"reply", "listing", "receiving"}, cloc' = "prompt",
         down # << >>, down' = Tail(down), Ends(down[1]),
         cmd.op = "put" => down[1].type \in Errors
  PROVE  Clean'
<1>1. UNCHANGED <<sloc, spos, name, turn, scwd, sfs>>
  BY DEF serverVars
<1>2. link = "open" /\ Answered /\ up = << >> /\ Len(down) \in Nat \ {0}
      /\ Tail(down) \in Seq(Packets) /\ Len(Tail(down)) = Len(down) - 1
  BY Talking
<1>3. Len(down) = 1
  <2>1. 1 \in 1..Len(down)
    BY <1>2
  <2> QED  BY <1>2, <2>1 DEF Answered
<1>4. down' = << >>
  BY <1>2, <1>3, QueueType
<1>5. sloc = "origin"
  BY <1>2, <1>3 DEF Answered
<1>6. Len(<< >>) = 0
  BY EmptySeq
<1>7. UpShape'
  BY <1>1, <1>2, <1>5, <1>6 DEF UpShape
<1>8. Conversation'
  BY <1>1, <1>2, <1>4, <1>5 DEF Conversation, Idle
<1> QED  BY <1>1, <1>5, <1>7, <1>8 DEF Clean, GetInv, Getting, PutInv

\* A packet of an answer has been read, and more of it follows.
LEMMA AnswerGoesOn ==
  ASSUME TypeInv, Clean, UNCHANGED <<serverVars, up, link, script>>,
         cloc \in {"reply", "listing", "receiving"},
         \/ cmd.op = "dir" /\ cloc' = "listing"
         \/ cmd.op = "get" /\ cloc' = "receiving",
         down # << >>, down' = Tail(down), ~Ends(down[1])
  PROVE  UpShape' /\ Conversation' /\ PutInv'
<1>1. UNCHANGED <<sloc, spos, name, turn, scwd, sfs, cmd>>
  BY DEF serverVars, cmd, Client!cmd
<1>2. link = "open" /\ Answered /\ up = << >> /\ Len(down) \in Nat \ {0}
      /\ Len(down') = Len(down) - 1
      /\ \A j \in 1..Len(down') : down'[j] = down[j + 1]
  BY Talking
<1>3. sloc \in {"listing", "sending", "origin"}
  BY <1>2 DEF Answered
<1>4. Len(<< >>) = 0
  BY EmptySeq
<1>5. UpShape'
  BY <1>1, <1>2, <1>3, <1>4 DEF UpShape
<1>6. Answered'
  <2>1. \A j \in 1..Len(down') : j + 1 \in 1..Len(down) /\ j + 1 > 1 /\ down'[j] = down[j + 1]
    BY <1>2
  <2>2. \A j \in 1..Len(down') :
           /\ down'[j].of = Len(script') /\ IsData(down'[j])
           /\ Ends(down[j])' => j = Len(down')
    <3> TAKE j \in 1..Len(down')
    <3>1. /\ down[j + 1].of = Len(script) /\ IsData(down[j + 1])
          /\ Ends(down[j + 1]) => j + 1 = Len(down)
      BY <1>2, <2>1 DEF Answered
    <3>2. Ends(down[j])' => Ends(down[j + 1])
      BY <1>1, <2>1 DEF Ends
    <3>3. down'[j].of = Len(script') /\ IsData(down'[j])
      BY <2>1, <3>1
    <3>4. ASSUME Ends(down[j])' PROVE j = Len(down')
      <4>1. j + 1 = Len(down)
        BY <3>1, <3>2, <3>4
      <4>2. j \in Int
        BY <1>2
      <4>3. Len(down') = Len(down) - 1
        BY <1>2
      <4> QED  BY <4>1, <4>2, <4>3
    <3> QED  BY <3>3, <3>4
  <2>3. CASE \/ sloc = "listing" /\ cmd.op = "dir"
             \/ sloc = "sending" /\ cmd.op = "get"
    <3>1. \A j \in 1..Len(down) : ~Ends(down[j])
      BY <1>2, <2>3 DEF Answered, Ends
    <3>2. \A j \in 1..Len(down') : ~Ends(down[j])'
      BY <1>1, <2>1, <3>1 DEF Ends
    <3> QED  BY <1>1, <1>2, <2>2, <2>3, <3>2 DEF Answered
  <2>4. CASE sloc = "origin"
    <3>1. Ends(down[Len(down)])
      BY <1>2, <2>4 DEF Answered
    <3>2. Len(down') # 0 /\ down'[Len(down')] = down[Len(down)]
      BY <1>2, <3>1
    <3>3. Ends(down[Len(down)])'
      BY <1>1, <3>1, <3>2 DEF Ends
    <3>4. down' # << >>
      BY <1>4, <3>2
    <3> QED  BY <1>1, <1>2, <2>2, <2>4, <3>3, <3>4 DEF Answered
  <2> QED  BY <1>2, <2>3, <2>4 DEF Answered
<1>7. Conversation'
  BY <1>1, <1>2, <1>3, <1>6 DEF Conversation
<1> QED  BY <1>1, <1>3, <1>5, <1>7 DEF PutInv

\* The same for get: what has been read of the server's file is written.
LEMMA GetGoesOn ==
  ASSUME TypeInv, Clean, UNCHANGED <<serverVars, up, link, script>>,
         cmd.op = "get", cloc \in {"reply", "receiving"}, cloc' = "receiving",
         down # << >>, down' = Tail(down), ~Ends(down[1]),
         cpos' = Read + 2, cpos' \in Nat,
         Same(cfs'[cmd.dst].body, sfs[cmd.src].body, cpos' - 1)
  PROVE  GetInv'
<1>1. UNCHANGED <<sloc, spos, name, sfs, cmd>>
  BY DEF serverVars, cmd, Client!cmd
<1>2. link = "open" /\ Answered /\ Len(down) \in Nat \ {0}
      /\ Len(down') = Len(down) - 1
      /\ \A j \in 1..Len(down') : down'[j] = down[j + 1]
  BY Talking
<1>3. Getting
  BY <1>2 DEF Getting, Ends
<1>4. /\ \A j \in 1..Len(down) : Read + j > 0 => Carries(down[j], sfs[cmd.src].body, Read + j)
      /\ sloc = "sending" => name = cmd.src /\ spos = Read + Len(down) + 1
  BY <1>3 DEF Clean, GetInv
<1>5. Read' = Read + 1 /\ Read \in Int
  <2>1. cpos \in Nat
    BY DEF TypeInv, ClientOK
  <2>2. Read \in Int
    BY <2>1 DEF Read
  <2>3. Read' = cpos' - 1
    BY DEF Read
  <2> QED  BY <2>2, <2>3
<1>6. ASSUME NEW j \in 1..Len(down'), Read' + j > 0
      PROVE  Carries(down'[j], sfs[cmd.src].body, Read' + j)
  <2>1. Len(down') = Len(down) - 1 /\ Len(down) \in Int
    BY <1>2
  <2>2. j + 1 \in 1..Len(down)
    BY <2>1
  <2>3. Read' + j = Read + (j + 1)
    BY <1>5, <2>1
  <2>4. Carries(down[j + 1], sfs[cmd.src].body, Read + (j + 1))
    BY <1>4, <1>6, <2>2, <2>3
  <2> QED  BY <1>2, <2>3, <2>4
<1>7. ASSUME sloc = "sending" PROVE name = cmd.src /\ spos = Read' + Len(down') + 1
  BY <1>2, <1>4, <1>5, <1>7
<1> QED  BY <1>1, <1>6, <1>7 DEF GetInv

LEMMA CleanSendFile ==
  ASSUME TypeInv, Clean, clean', Client!send_file, UNCHANGED serverVars
  PROVE  Clean'
<1> DEFINE body == cfs[cmd.src].body
           p == Portion(body, cpos)
           d == Packet("DATA", p.code, p.data, Len(script))
<1>1. /\ cloc = "sending" /\ Len(up) < Window /\ up' = Append(up, d)
      /\ UNCHANGED <<down, link, script, cfs>>
      /\ \/ p.code = LAST /\ cloc' = "prompt" /\ cpos' = 0
         \/ p.code # LAST /\ cpos' = cpos + 1 /\ UNCHANGED cloc
  BY SameStream DEF Client!send_file, Client!To, cmd, Keeps
<1>2. UNCHANGED <<sloc, spos, name, turn, scwd, sfs, cmd>>
  BY <1>1 DEF serverVars, cmd, Client!cmd
<1>3. /\ link = "open" /\ script # << >> /\ Sending
      /\ cfs[cmd.src] \in Entries /\ cpos \in 1..Steps(body)
      /\ Len(script) \in 0..MaxCommands
  <2>1. link = "open" /\ script # << >> /\ script \in Seq(Commands)
    BY <1>1 DEF TypeInv, StreamOK, ClientOK, Client!Gone
  <2> QED  BY <1>1, <2>1, CmdType, MaxCommandsAssumption
           DEF TypeInv, StreamOK, ClientOK, Clean, Conversation
<1>4. p.code \in {LAST, MIDDLE} /\ p.data \in Payloads
  BY <1>3, PortionProperties
<1>5. PICK x \in Packets : x = d
  <2>1. "DATA" \in Types /\ p.code \in 0..5
    BY <1>4 DEF Types, LAST, MIDDLE
  <2> QED  BY <1>3, <1>4, <2>1, PacketType
<1>6. x.type = "DATA" /\ x.code = p.code /\ x.data = p.data /\ x.of = Len(script)
  BY <1>5 DEF Packet
<1>7. IsData(x) /\ (IsLast(x) <=> p.code = LAST) /\ Carries(x, body, cpos)
  BY <1>3, <1>6 DEF IsData, IsLast, Carries
<1> HIDE DEF d, p
<1>8. /\ Len(up) \in Nat /\ Len(up') = Len(up) + 1 /\ up' # << >>
      /\ \A j \in 1..Len(up) : up'[j] = up[j]
      /\ up'[Len(up')] = x
  BY <1>1, <1>5, Streams, Queued
<1>9. /\ sloc = "receiving" /\ turn = Len(script) /\ cmd.op = "put" /\ down = << >>
      /\ \A j \in 1..Len(up) : IsData(up[j]) /\ ~IsLast(up[j])
  BY <1>3 DEF Sending
<1>10. /\ \A j \in 1..Len(up) : /\ IsData(up'[j]) /\ ~IsLast(up'[j]) /\ up'[j].of = turn
       /\ \A j \in 1..Len(up') : j \in 1..Len(up) \/ j = Len(up')
  BY <1>8, <1>9 DEF Clean, UpShape
<1>11. \A j \in 1..Len(up') : IsData(up'[j]) /\ up'[j].of = turn
  BY <1>6, <1>7, <1>8, <1>9, <1>10
<1>12. UpShape'
  <2>1. \A j \in 1..Len(up') : j < Len(up') => ~IsLast(up'[j]) /\ IsData(up'[j + 1])
    <3> TAKE j \in 1..Len(up')
    <3> HAVE j < Len(up')
    <3>1. j \in 1..Len(up) /\ j + 1 \in 1..Len(up')
      BY <1>8, <1>10
    <3> QED  BY <1>10, <1>11, <3>1
  <2> QED  BY <1>2, <1>9, <1>11, <2>1 DEF UpShape
<1>13. Conversation'
  <2>1. CASE p.code = LAST
    <3>1. Idle'
      BY <1>1, <1>2, <1>7, <1>8, <1>9, <2>1 DEF Idle
    <3> QED  BY <1>1, <1>2, <1>9, <2>1, <3>1 DEF Conversation
  <2>2. CASE p.code # LAST
    <3>1. \A j \in 1..Len(up') : ~IsLast(up'[j])
      BY <1>7, <1>8, <1>10, <2>2
    <3>2. Sending'
      BY <1>1, <1>2, <1>9, <1>11, <3>1 DEF Sending
    <3> QED  BY <1>1, <1>2, <1>9, <2>2, <3>2 DEF Conversation
  <2> QED  BY <2>1, <2>2
<1>14. PutInv'
  <2>1. script[turn] = cmd /\ turn \in 1..Len(script)
    BY <1>3, <1>9, CmdType DEF cmd, Client!cmd, TypeInv, StreamOK
  <2>2. /\ name = cmd.dst
        /\ \A j \in 1..Len(up) : Carries(up[j], body, spos + j - 1)
        /\ cpos = spos + Len(up)
        /\ Same(sfs[name].body, body, spos - 1)
    BY <1>1, <1>3, <1>9, <2>1 DEF Clean, PutInv
  <2>3. spos + Len(up') - 1 = cpos /\ (cloc' = "sending" => cpos' = spos + Len(up'))
    <3>1. spos \in Nat
      BY DEF TypeInv, ServerOK
    <3> QED  BY <1>1, <1>8, <2>2, <3>1
  <2>4. \A j \in 1..Len(up') : Carries(up'[j], body, spos + j - 1)
    <3> TAKE j \in 1..Len(up')
    <3>1. CASE j \in 1..Len(up)
      BY <1>8, <2>2, <3>1
    <3>2. CASE j = Len(up')
      BY <1>7, <1>8, <2>3, <3>2
    <3> QED  BY <1>10, <3>1, <3>2
  <2> QED  BY <1>1, <1>2, <1>9, <2>1, <2>2, <2>3, <2>4 DEF PutInv
<1>15. GetInv'
  BY <1>1, <1>9 DEF GetInv, Getting
<1> QED  BY <1>12, <1>13, <1>14, <1>15 DEF Clean

\* The client reads one packet of the file that it gets.
LEMMA ClientReceives ==
  ASSUME TypeInv, Clean, clean', Client!recv_file
  PROVE  /\ cloc = "receiving" /\ cmd.op = "get" /\ down # << >> /\ down' = Tail(down)
         /\ IsData(down[1]) /\ UNCHANGED <<up, link, script>>
         /\ sfs[cmd.src] \in Entries /\ cfs[cmd.dst] \in Entries
         /\ cpos \in 1..Len(cfs[cmd.dst].body) + 1
         /\ Carries(down[1], sfs[cmd.src].body, cpos)
         /\ Same(cfs[cmd.dst].body, sfs[cmd.src].body, cpos - 1)
         /\ cfs'[cmd.dst] = Written(cfs[cmd.dst], cpos, down[1].data)
         /\ \/ down[1].code = LAST /\ cloc' = "prompt"
            \/ down[1].code # LAST /\ cloc' = "receiving" /\ cpos' = After(cpos, down[1].data)
<1>1. /\ cloc = "receiving" /\ down # << >> /\ UNCHANGED <<up, link, script>>
  BY DEF Client!recv_file, Client!Hears
<1>2. PICK t \in Take(down) :
         /\ down' = t.rest /\ t.data # Cut
         /\ cfs' = [cfs EXCEPT ![cmd.dst] = Written(@, cpos, t.data)]
         /\ \/ Head(down).code = LAST /\ cloc' = "prompt" /\ cpos' = 0
            \/ Head(down).code # LAST /\ cpos' = After(cpos, t.data) /\ UNCHANGED cloc
  BY SameStream DEF Client!recv_file, Client!To, cmd, Keeps
<1>3. /\ link = "open" /\ Answered /\ script # << >> /\ 1 \in 1..Len(down)
      /\ Head(down) = down[1] /\ cmd.op = "get"
  BY <1>1, Talking DEF Clean, Conversation
<1>4. t.data = down[1].data /\ down' = Tail(down) /\ t.data \in Payloads
  BY <1>1, <1>2, <1>3, TakeProperties, Streams
<1>5. IsData(down[1])
  BY <1>1, <1>3 DEF Answered
<1>6. sfs[cmd.src] \in Entries /\ cfs[cmd.dst] \in Entries
      /\ cpos \in 1..Len(cfs[cmd.dst].body) + 1
  BY <1>1, <1>3, CmdType DEF TypeInv, StreamOK, ClientOK, ServerOK
<1>7. /\ Carries(down[1], sfs[cmd.src].body, cpos)
      /\ Same(cfs[cmd.dst].body, sfs[cmd.src].body, cpos - 1)
  <2>1. Getting /\ Read + 1 = cpos /\ Read + 1 > 0
    <3>1. Len(cfs[cmd.dst].body) \in Nat
      BY <1>6, StepsType
    <3> QED  BY <1>1, <1>3, <1>6, <3>1 DEF Getting, Read
  <2> QED  BY <1>1, <1>3, <2>1 DEF Clean, GetInv
<1>8. cfs'[cmd.dst] = Written(cfs[cmd.dst], cpos, down[1].data)
  BY <1>1, <1>2, <1>4, ClientWrites DEF TypeInv
<1> QED  BY <1>1, <1>2, <1>3, <1>4, <1>5, <1>6, <1>7, <1>8

LEMMA CleanRecvFile ==
  ASSUME TypeInv, Clean, clean', Client!recv_file, UNCHANGED serverVars
  PROVE  Clean'
<1>1. /\ cloc = "receiving" /\ cmd.op = "get" /\ down # << >> /\ down' = Tail(down)
      /\ IsData(down[1]) /\ UNCHANGED <<up, link, script>>
      /\ \/ down[1].code = LAST /\ cloc' = "prompt"
         \/ down[1].code # LAST /\ cloc' = "receiving" /\ cpos' = After(cpos, down[1].data)
  BY ClientReceives
<1>2. CASE down[1].code = LAST /\ cloc' = "prompt"
  <2>1. Ends(down[1])
    BY <1>1, <1>2 DEF Ends, IsLast, IsData
  <2> QED  BY <1>1, <1>2, <2>1, AnswerEnds
<1>3. CASE down[1].code # LAST /\ cloc' = "receiving" /\ cpos' = After(cpos, down[1].data)
  <2>1. ~Ends(down[1])
    BY <1>1, <1>3 DEF Ends, IsLast, IsData, Errors
  <2>2. /\ Same(cfs'[cmd.dst].body, sfs[cmd.src].body, cpos)
        /\ After(cpos, down[1].data) = cpos + 1
    BY <1>3, ClientReceives, WritesPortion
  <2>3. cpos' = Read + 2 /\ cpos' \in Nat /\ cpos' - 1 = cpos
    BY <1>1, <1>3, <2>2 DEF Read, TypeInv, ClientOK
  <2>4. Same(cfs'[cmd.dst].body, sfs[cmd.src].body, cpos' - 1)
    BY <2>2, <2>3
  <2>5. GetInv'
    BY <1>1, <1>3, <2>1, <2>3, <2>4, GetGoesOn
  <2>6. UpShape' /\ Conversation' /\ PutInv'
    BY <1>1, <1>3, <2>1, AnswerGoesOn
  <2> QED  BY <2>5, <2>6 DEF Clean
<1> QED  BY <1>1, <1>2, <1>3

LEMMA CleanClient ==
  ASSUME TypeInv, Clean, clean', ClientStep \/ Client!ServerGone, UNCHANGED serverVars
  PROVE  Clean'
<1> DEFINE talking == {"reply", "listing", "receiving"}
<1>1. ASSUME NEW c \in Commands,
             Client!pwd_proc(c) \/ Client!cd_proc(c) \/ Client!dir_proc(c)
               \/ Client!get_proc(c) \/ Client!put_proc(c)
      PROVE  Clean'
  BY <1>1, CleanRequest
<1>2. ASSUME \/ Client!quit_proc \/ Client!sigint_handler \/ Client!FreeUnset \/ Client!NullPayload
      PROVE  Clean'
  <2>1. UNCHANGED <<script, cfs>> /\ link' # "open"
    BY <1>2 DEF Client!quit_proc, Client!sigint_handler, Client!FreeUnset, Client!NullPayload,
       Client!Leave
  <2>2. Client!quit_proc \/ UNCHANGED up
    BY <1>2 DEF Client!sigint_handler, Client!FreeUnset, Client!NullPayload
  <2> QED  BY <2>1, <2>2, CleanLeave
<1>3. ASSUME Client!Misread \/ Client!ServerGone PROVE FALSE
  BY <1>3 DEF Client!Misread, Client!ServerGone, Client!Keeps
<1>4. ASSUME NEW l \in talking, Client!Refusal(l) PROVE Clean'
  <2>1. /\ cloc \in talking /\ cloc' = "prompt" /\ down # << >> /\ down' = Tail(down)
        /\ Head(down).type \in Errors /\ UNCHANGED <<up, link, script>>
    BY <1>4, SameStream DEF Client!Refusal, Client!Hears, Client!Refused, Client!To
  <2>2. Ends(down[1]) /\ down[1].type \in Errors
    BY <2>1, Talking DEF Ends
  <2> QED  BY <2>1, <2>2, AnswerEnds
<1>5. ASSUME Client!pwd_reply PROVE Clean'
  <2>1. /\ cloc = "reply" /\ cloc' = "prompt" /\ down # << >> /\ cmd.op = "pwd"
        /\ \E t \in Take(down) : down' = t.rest /\ t.data # Cut
        /\ UNCHANGED <<up, link, script>>
    BY <1>5, SameStream DEF Client!pwd_reply, Client!Hears, Client!To, cmd, Keeps
  <2>2. down' = Tail(down)
    BY <2>1, TakeProperties, Streams
  <2> QED  BY <2>1, <2>2, AnswerEnds DEF Ends
<1>6. ASSUME NEW o, Client!Accepted(o)
      PROVE  /\ cloc = "reply" /\ down # << >> /\ down' = Tail(down) /\ cmd.op = o
             /\ down[1].type \notin Errors /\ ~IsData(down[1]) /\ link = "open" /\ Answered
             /\ up = << >> /\ script # << >> /\ Len(down) \in Nat \ {0}
  <2>1. /\ cloc = "reply" /\ down # << >> /\ down' = Tail(down) /\ cmd.op = o
        /\ Head(down).type \notin Errors
    BY <1>6, SameStream DEF Client!Accepted, Client!Hears, Client!Refused, cmd
  <2>2. /\ link = "open" /\ Answered /\ up = << >> /\ script # << >>
        /\ Len(down) \in Nat \ {0} /\ Head(down) = down[1]
    BY <2>1, Talking
  <2>3. 1 \in 1..Len(down)
    BY <2>2
  <2> QED  BY <2>1, <2>2, <2>3 DEF Answered
<1>7. ASSUME Client!cd_reply PROVE Clean'
  <2>1. Client!Accepted("cd") /\ cloc' = "prompt" /\ UNCHANGED <<up, link, script>>
    BY <1>7 DEF Client!cd_reply, Client!To
  <2> QED  BY <1>6, <2>1, AnswerEnds DEF Ends
<1>8. ASSUME Client!dir_reply PROVE Clean'
  <2>1. Client!Accepted("dir") /\ cloc' = "listing" /\ UNCHANGED <<up, link, script>>
    BY <1>8 DEF Client!dir_reply, Client!To
  <2>2. /\ cloc = "reply" /\ down # << >> /\ down' = Tail(down) /\ cmd.op = "dir"
        /\ down[1].type \notin Errors /\ ~IsData(down[1])
    BY <1>6, <2>1
  <2>3. ~Ends(down[1])
    BY <2>2 DEF Ends, IsLast, IsData
  <2>4. UpShape' /\ Conversation' /\ PutInv'
    BY <2>1, <2>2, <2>3, AnswerGoesOn
  <2>5. cmd' = cmd
    BY <2>1 DEF cmd, Client!cmd
  <2>6. GetInv'
    BY <2>2, <2>5 DEF GetInv, Getting
  <2> QED  BY <2>4, <2>6 DEF Clean
<1>9. ASSUME Client!get_reply PROVE Clean'
  <2>1. /\ Client!Accepted("get") /\ cloc' = "receiving" /\ cpos' = 1
        /\ cfs' = [cfs EXCEPT ![cmd.dst] = Created(@)]
        /\ UNCHANGED <<up, link, script>>
    BY <1>9, SameStream DEF Client!get_reply, cmd, Keeps
  <2>2. /\ cloc = "reply" /\ down # << >> /\ down' = Tail(down) /\ cmd.op = "get"
        /\ down[1].type \notin Errors /\ ~IsData(down[1]) /\ script # << >>
    BY <1>6, <2>1
  <2>3. ~Ends(down[1])
    BY <2>2 DEF Ends, IsLast, IsData
  <2>4. UpShape' /\ Conversation' /\ PutInv'
    BY <2>1, <2>2, <2>3, AnswerGoesOn
  <2>5. cpos' = Read + 2 /\ cpos' \in Nat
    BY <2>1, <2>2 DEF Read
  <2>6. Same(cfs'[cmd.dst].body, sfs[cmd.src].body, cpos' - 1)
    <3>1. sfs[cmd.src] \in Entries /\ cfs[cmd.dst] \in Entries /\ cmd.dst \in Names
      BY <2>2, CmdType DEF TypeInv, StreamOK, ClientOK, ServerOK
    <3>2. cfs'[cmd.dst].body = cfs[cmd.dst].body
      BY <2>1, <3>1 DEF Created, TypeInv, ClientOK, Entries
    <3>3. Len(sfs[cmd.src].body) \in Nat /\ Len(cfs'[cmd.dst].body) \in Nat
      BY <3>1, <3>2, StepsType
    <3> QED  BY <2>1, <3>3 DEF Same
  <2>7. GetInv'
    BY <2>1, <2>2, <2>3, <2>5, <2>6, GetGoesOn
  <2> QED  BY <2>4, <2>7 DEF Clean
<1>10. ASSUME Client!put_reply PROVE Clean'
  <2>1. /\ Client!Accepted("put") /\ cloc' = "sending" /\ cpos' = 1
        /\ UNCHANGED <<up, link, script, cfs>>
    BY <1>10 DEF Client!put_reply
  <2>2. /\ cloc = "reply" /\ down # << >> /\ down' = Tail(down) /\ cmd.op = "put"
        /\ down[1].type \notin Errors /\ Answered /\ up = << >> /\ script # << >>
    BY <1>6, <2>1
  <2>3. sloc = "receiving" /\ turn = Len(script) /\ Len(down) = 1 /\ spos = 1
    BY <2>2 DEF Answered
  <2>4. UNCHANGED <<sloc, spos, name, turn, scwd, sfs, cmd>> /\ Len(<< >>) = 0
    BY <2>1, EmptySeq DEF serverVars, cmd, Client!cmd
  <2>5. down' = << >>
    <3>1. Tail(down) \in Seq(Packets) /\ Len(Tail(down)) = 0
      BY <2>2, <2>3, Talking
    <3> QED  BY <2>2, <3>1, QueueType
  <2>6. UpShape'
    BY <2>1, <2>2, <2>3, <2>4 DEF UpShape
  <2>7. Sending'
    BY <2>1, <2>2, <2>3, <2>4, <2>5 DEF Sending
  <2>8. Conversation'
    BY <2>1, <2>3, <2>4, <2>7 DEF Conversation
  <2>9. GetInv'
    BY <2>1 DEF GetInv, Getting
  <2>10. PutInv'
    BY <2>1, <2>2, <2>3, <2>4 DEF Clean, PutInv
  <2> QED  BY <2>6, <2>8, <2>9, <2>10 DEF Clean
<1>11. ASSUME Client!dir_line PROVE Clean'
  <2>1. /\ cloc = "listing" /\ down # << >> /\ Head(down).type \notin Errors
        /\ \E t \in Take(down) : down' = t.rest /\ t.data # Cut
        /\ \/ Head(down).code = LAST /\ cloc' = "prompt"
           \/ Head(down).code # LAST /\ UNCHANGED cloc
        /\ UNCHANGED <<up, link, script>>
    BY <1>11, SameStream DEF Client!dir_line, Client!Hears, Client!Refused, Client!To, Keeps
  <2>2. down' = Tail(down)
    BY <2>1, TakeProperties, Streams
  <2>3. /\ link = "open" /\ Answered /\ Len(down) \in Nat \ {0}
        /\ Head(down) = down[1] /\ cmd.op = "dir"
    BY <2>1, Talking DEF Clean, Conversation
  <2>4. IsData(down[1])
    <3>1. 1 \in 1..Len(down)
      BY <2>3
    <3> QED  BY <2>1, <2>3, <3>1 DEF Answered
  <2>5. CASE Head(down).code = LAST /\ cloc' = "prompt"
    <3>1. Ends(down[1])
      BY <2>3, <2>4, <2>5 DEF Ends, IsLast, IsData
    <3> QED  BY <2>1, <2>2, <2>3, <2>5, <3>1, AnswerEnds
  <2>6. CASE Head(down).code # LAST /\ UNCHANGED cloc
    <3>1. ~Ends(down[1])
      BY <2>1, <2>3, <2>6 DEF Ends, IsLast
    <3>2. UpShape' /\ Conversation' /\ PutInv'
      BY <2>1, <2>2, <2>3, <2>6, <3>1, AnswerGoesOn
    <3>3. GetInv'
      BY <2>1, <2>6 DEF GetInv, Getting
    <3> QED  BY <3>2, <3>3 DEF Clean
  <2> QED  BY <2>1, <2>5, <2>6
<1>12. (\E c \in Commands : Client!pwd_proc(c) \/ Client!cd_proc(c) \/ Client!dir_proc(c)
          \/ Client!get_proc(c) \/ Client!put_proc(c)) => Clean'
  BY <1>1
<1> QED  BY <1>2, <1>3, <1>4, <1>5, <1>7, <1>8, <1>9, <1>10, <1>11, <1>12,
            CleanRecvFile, CleanSendFile
         DEF ClientStep, Client!Ask, Client!Exchange

-----------------------------------------------------------------------------
(* The server's steps, while nothing goes wrong *)

\* Each command has its request.
LEMMA VerbOf ==
  ASSUME script \in Seq(Commands), script # << >>
  PROVE  /\ Verb[cmd.op] \in Requests \ {"QUIT"}
         /\ Verb[cmd.op] = "PWD"  <=> cmd.op = "pwd"
         /\ Verb[cmd.op] = "CWD"  <=> cmd.op = "cd"
         /\ Verb[cmd.op] = "LIST" <=> cmd.op = "dir"
         /\ Verb[cmd.op] = "RETR" <=> cmd.op = "get"
         /\ Verb[cmd.op] = "STOR" <=> cmd.op = "put"
         /\ cmd.op \in {"pwd", "cd", "dir", "get", "put"}
         /\ Len(script) \in Nat \ {0} /\ cmd.src \in Names /\ cmd.dst \in Names
BY CmdType DEF Verb, Requests

\* No packet on its way to the server is cut.
LEMMA Whole ==
  ASSUME TypeInv, Clean
  PROVE  \A j \in 1..Len(up) : up[j].type # "FRAGMENT"
<1> TAKE j \in 1..Len(up)
<1>1. CASE IsData(up[j]) \/ up[j].type = "QUIT"
  BY <1>1 DEF IsData
<1>2. CASE Asks(up[j])
  <2>1. script # << >> /\ up[j].type = Verb[cmd.op]
    BY <1>2 DEF Asks, Packet
  <2>2. up[j].type \in Requests
    BY <2>1, VerbOf, Streams
  <2> QED  BY <2>2 DEF Requests
<1>3. CASE up = << >>
  BY <1>3, EmptySeq
<1>4. sloc \in {"queued", "origin", "listing", "sending", "receiving", "exited"}
  BY DEF TypeInv, ServerOK, Clean, UpShape
<1> QED  BY <1>1, <1>2, <1>3, <1>4 DEF Clean, UpShape

\* Where the server waits for a request there is at most one packet.
LEMMA HeardOne ==
  ASSUME TypeInv, Clean, NEW t, NEW d, d # Cut, Hears(t, d)
  PROVE  /\ sloc = "origin" /\ up' = << >>
         /\ \/ link # "open" /\ d = NoData
            \/ /\ up[1].type = t /\ d = up[1].data /\ turn' = up[1].of
               /\ up # << >> /\ Len(up) = 1 /\ 1 \in 1..Len(up)
<1>1. /\ sloc = "origin"
      /\ \/ /\ up # << >> /\ up[1].type = t /\ d = up[1].data
            /\ up' = Tail(up) /\ turn' = up[1].of
         \/ AtEOF /\ d = NoData /\ UNCHANGED up
  BY HearsEffect DEF TypeInv
<1>2. CASE AtEOF /\ d = NoData /\ UNCHANGED up
  BY <1>1, <1>2 DEF AtEOF
<1>3. CASE /\ up # << >> /\ up[1].type = t /\ d = up[1].data
           /\ up' = Tail(up) /\ turn' = up[1].of
  <2>1. /\ Len(up) = 1 /\ 1 \in 1..Len(up) /\ Len(Tail(up)) = 0 /\ Tail(up) \in Seq(Packets)
    <3>1. Len(up) <= 1
      BY <1>1 DEF Clean, UpShape
    <3>2. Len(up) \in Nat \ {0} /\ Len(Tail(up)) = Len(up) - 1 /\ Tail(up) \in Seq(Packets)
      BY <1>3, Streams, HeadAndTail
    <3> QED  BY <3>1, <3>2
  <2>2. up' = << >>
    BY <1>3, <2>1, QueueType
  <2> QED  BY <1>1, <1>3, <2>1, <2>2
<1> QED  BY <1>1, <1>2, <1>3

\* What it hears there is the request for the command in hand, unless the
\* client is gone.
LEMMA Heard ==
  ASSUME TypeInv, Clean, NEW t \in Requests \ {"QUIT"}, NEW d, d # Cut, Hears(t, d)
  PROVE  /\ sloc = "origin" /\ up' = << >>
         /\ \/ link # "open" /\ d = NoData
            \/ /\ t = Verb[cmd.op] /\ d = Arg(cmd)
               /\ script # << >> /\ turn' = Len(script)
         /\ link = "open" => cloc = "reply" /\ down = << >>
<1>1. /\ sloc = "origin" /\ up' = << >>
      /\ \/ link # "open" /\ d = NoData
         \/ /\ up[1].type = t /\ d = up[1].data /\ turn' = up[1].of
            /\ up # << >> /\ 1 \in 1..Len(up)
  BY HeardOne
<1>2. CASE /\ up[1].type = t /\ d = up[1].data /\ turn' = up[1].of
           /\ up # << >> /\ 1 \in 1..Len(up)
  <2>1. Asks(up[1])
    BY <1>1, <1>2 DEF Clean, UpShape
  <2>2. script # << >> /\ t = Verb[cmd.op] /\ d = Arg(cmd) /\ turn' = Len(script)
    BY <1>2, <2>1 DEF Asks, Packet
  <2>3. ASSUME link = "open" PROVE cloc = "reply" /\ down = << >>
    <3>1. cloc \in {"prompt", "reply", "listing", "receiving", "sending"}
      BY <2>3 DEF TypeInv, StreamOK, ClientOK, Clean, Conversation
    <3> QED  BY <1>1, <1>2, <2>3, <3>1 DEF Clean, Conversation, Idle, Answered, Asked, Sending
  <2> QED  BY <1>1, <2>2, <2>3
<1> QED  BY <1>1, <1>2

\* One answer to the request just heard.
LEMMA Replied ==
  ASSUME TypeInv, Clean, UNCHANGED <<clientVars, script>>,
         NEW t \in Requests \ {"QUIT"}, NEW d, d # Cut, Hears(t, d),
         NEW s \in Types, s # "DATA", NEW c \in 0..5, NEW b \in Payloads,
         NEW next \in {"origin", "listing", "sending", "receiving"}, Send(s, c, b, next),
         next = "origin"    => s \in Errors \/ t \in {"PWD", "CWD"},
         next = "listing"   => t = "LIST" /\ s \notin Errors,
         next = "sending"   => t = "RETR" /\ s \notin Errors,
         next = "receiving" => t = "STOR" /\ s \notin Errors /\ spos' = 1,
         t = "CWD" => s \in Errors \/ scwd' = d \/ ServerFiles[d].kind = "odd"
  PROVE  /\ UpShape' /\ Conversation'
         /\ t # "RETR" \/ s \in Errors => GetInv'
         /\ next # "receiving" => PutInv'
<1>1. UNCHANGED <<cloc, cpos, cfs, cmd>> /\ Len(<< >>) = 0
  BY EmptySeq DEF clientVars, cmd, Client!cmd
<1>2. /\ sloc = "origin" /\ up' = << >>
      /\ link = "open" => /\ cloc = "reply" /\ down = << >> /\ script # << >>
                          /\ t = Verb[cmd.op] /\ d = Arg(cmd) /\ turn' = Len(script)
  BY Heard
<1>3. /\ link' = "open" <=> link = "open"
      /\ sloc' \in {next, "exited"}
      /\ link = "open" => /\ sloc' = next /\ Len(down') = Len(down) + 1 /\ down' # << >>
                          /\ down'[Len(down')] = Packet(s, c, b, turn')
  <2>1. turn' \in 0..MaxCommands
    BY HearsEffect DEF TypeInv
  <2> QED  BY <2>1, SendEffect DEF TypeInv
<1>4. UpShape'
  BY <1>1, <1>2, <1>3 DEF UpShape
<1>5. Conversation' /\ (t # "RETR" \/ s \in Errors => GetInv')
  <2>1. CASE link # "open"
    BY <1>3, <2>1 DEF Conversation, GetInv, Getting
  <2>2. CASE link = "open"
    <3>1. /\ cmd.op = "pwd" <=> t = "PWD"
          /\ cmd.op = "cd"  <=> t = "CWD"
          /\ cmd.op = "dir" <=> t = "LIST"
          /\ cmd.op = "get" <=> t = "RETR"
          /\ cmd.op = "put" <=> t = "STOR"
      BY <1>2, <2>2, VerbOf, Streams
    <3>2. /\ Len(down') = 1 /\ down' # << >> /\ sloc' = next
          /\ down'[1].type = s /\ down'[1].of = Len(script)
      <4>1. Len(down') = 1
        BY <1>1, <1>2, <1>3, <2>2
      <4>2. down'[1] = Packet(s, c, b, turn')
        BY <1>3, <2>2, <4>1
      <4> QED  BY <1>2, <1>3, <2>2, <4>1, <4>2 DEF Packet
    <3>3. Ends(down[1])' <=> s \in Errors \/ t \in {"PWD", "CWD", "STOR"}
      BY <1>1, <3>1, <3>2 DEF Ends, IsLast
    <3>4. cmd.op = "cd" /\ s \notin Errors /\ ServerFiles[cmd.src].kind # "odd" => scwd' = cmd.src
      BY <1>2, <2>2, <3>1 DEF Arg
    <3>5. \A j \in 1..Len(down') : /\ j = 1 /\ down'[j].of = Len(script')
                                   /\ ~IsData(down'[j])
      BY <3>2 DEF IsData
    <3>6. Answered'
      BY <1>1, <1>2, <2>2, <3>1, <3>2, <3>3, <3>4, <3>5 DEF Answered
    <3>7. Conversation'
      BY <1>1, <1>2, <1>3, <2>2, <3>2, <3>6 DEF Conversation
    <3>8. t # "RETR" \/ s \in Errors => GetInv'
      BY <1>1, <1>2, <2>2, <3>1, <3>2 DEF GetInv, Getting
    <3> QED  BY <3>7, <3>8
  <2> QED  BY <2>1, <2>2
<1>6. next # "receiving" => PutInv'
  BY <1>3 DEF PutInv
<1> QED  BY <1>4, <1>5, <1>6

\* Whoever answers has heard everything.
LEMMA Answering ==
  ASSUME TypeInv, Clean, sloc \in {"listing", "sending"}, link = "open"
  PROVE  /\ Answered /\ cloc \in {"reply", "listing", "receiving"}
         /\ script # << >> /\ Len(script) \in Nat \ {0}
         /\ sloc = "listing" => cmd.op = "dir"
         /\ sloc = "sending" => cmd.op = "get"
         /\ \A j \in 1..Len(down) : ~Ends(down[j])
<1>1. cloc \in {"prompt", "reply", "listing", "receiving", "sending"}
  BY DEF TypeInv, StreamOK, ClientOK, Clean, Conversation
<1>2. Answered /\ cloc \in {"reply", "listing", "receiving"}
  BY <1>1 DEF Clean, Conversation, Idle, Asked, Sending
<1>3. script # << >>
  BY <1>2 DEF TypeInv, ClientOK
<1> QED  BY <1>2, <1>3, VerbOf, Streams DEF Answered

\* One packet more of an answer that has a DATA packet at its end.
LEMMA AnswerGrows ==
  ASSUME TypeInv, Clean, UNCHANGED <<clientVars, script, up, turn, scwd>>,
         sloc \in {"listing", "sending"}, NEW c \in {LAST, MIDDLE}, NEW b \in Payloads,
         Send("DATA", c, b, IF c = LAST THEN "origin" ELSE sloc)
  PROVE  UpShape' /\ Conversation' /\ PutInv'
<1>1. UNCHANGED <<cloc, cpos, cfs, cmd>> /\ Len(<< >>) = 0
  BY EmptySeq DEF clientVars, cmd, Client!cmd
<1>2. /\ link' = "open" <=> link = "open"
      /\ sloc' \in {IF c = LAST THEN "origin" ELSE sloc, "exited"}
      /\ link = "open" => /\ sloc' = IF c = LAST THEN "origin" ELSE sloc
                          /\ Len(down') = Len(down) + 1 /\ down' # << >>
                          /\ \A j \in 1..Len(down) : down'[j] = down[j]
                          /\ down'[Len(down')] = Packet("DATA", c, b, turn')
  <2>1. turn' \in 0..MaxCommands /\ "DATA" \in Types /\ c \in 0..5
    BY DEF TypeInv, ServerOK, Types, LAST, MIDDLE
  <2> QED  BY <2>1, SendEffect DEF TypeInv
<1>3. up' = << >>
  BY DEF Clean, UpShape
<1>4. UpShape'
  BY <1>1, <1>2, <1>3 DEF UpShape
<1>5. Conversation'
  <2>1. CASE link # "open"
    BY <1>2, <2>1 DEF Conversation
  <2>2. CASE link = "open"
    <3>1. /\ Answered /\ cloc \in {"reply", "listing", "receiving"}
          /\ sloc = "listing" => cmd.op = "dir"
          /\ sloc = "sending" => cmd.op = "get"
          /\ \A j \in 1..Len(down) : ~Ends(down[j])
          /\ Len(down) \in Nat /\ (down = << >> <=> Len(down) = 0)
      BY <2>2, Answering, Streams
    <3>2. /\ Len(down') = Len(down) + 1 /\ down' # << >>
          /\ \A j \in 1..Len(down) : down'[j] = down[j]
          /\ \A j \in 1..Len(down') : j \in 1..Len(down) \/ j = Len(down')
          /\ down'[Len(down')].type = "DATA" /\ down'[Len(down')].code = c
          /\ down'[Len(down')].of = turn
          /\ sloc' = IF c = LAST THEN "origin" ELSE sloc
      BY <1>2, <2>2, <3>1 DEF Packet
    <3>3. Ends(down[Len(down)])' <=> c = LAST
      BY <1>1, <3>1, <3>2 DEF Ends, IsLast, Errors
    <3>4. \A j \in 1..Len(down') : Ends(down[j])' => j = Len(down') /\ c = LAST
      <4> TAKE j \in 1..Len(down')
      <4>1. CASE j \in 1..Len(down)
        BY <1>1, <3>1, <3>2, <4>1 DEF Ends
      <4>2. CASE j = Len(down')
        BY <3>3, <4>2
      <4> QED  BY <3>2, <4>1, <4>2
    <3>5. \A j \in 1..Len(down') :
             /\ down'[j].of = Len(script')
             /\ IsData(down'[j]) <=> cloc' # "reply" \/ j > 1
      <4> TAKE j \in 1..Len(down')
      <4>1. CASE j \in 1..Len(down)
        BY <1>1, <3>1, <3>2, <4>1 DEF Answered
      <4>2. CASE j = Len(down')
        <5>1. cloc = "reply" => Len(down) > 0
          BY <3>1 DEF Answered
        <5> QED  BY <1>1, <3>1, <3>2, <4>2, <5>1 DEF Answered, IsData
      <4> QED  BY <3>2, <4>1, <4>2
    <3>6. Answered'
      BY <1>1, <1>3, <3>1, <3>2, <3>3, <3>4, <3>5 DEF Answered
    <3> QED  BY <1>1, <1>2, <2>2, <3>1, <3>2, <3>6 DEF Clean, Conversation
  <2> QED  BY <2>1, <2>2
<1>6. PutInv'
  BY <1>2 DEF PutInv
<1> QED  BY <1>4, <1>5, <1>6

\* The server reads one packet of the file that it is taking.
LEMMA ServerReads ==
  ASSUME TypeInv, Clean, clean', recv_file
  PROVE  /\ sloc = "receiving" /\ Len(up) \in Nat \ {0} /\ IsData(up[1]) /\ up[1].of = turn
         /\ Len(up') = Len(up) - 1 /\ (up' = << >> <=> Len(up) = 1)
         /\ \A j \in 1..Len(up') : j + 1 \in 1..Len(up) /\ up'[j] = up[j + 1]
         /\ Head(up) = up[1] /\ up' = Tail(up) /\ up[1].data \in Payloads
         /\ sfs' = [sfs EXCEPT ![name] = Written(@, spos, up[1].data)]
         /\ \/ up[1].code = LAST /\ sloc' = "origin"
            \/ up[1].code # LAST /\ sloc' = "receiving" /\ spos' = After(spos, up[1].data)
         /\ UNCHANGED <<down, link, script, name, turn, last, scwd>>
<1>1. /\ sloc = "receiving" /\ up # << >>
      /\ UNCHANGED <<down, link, script, name, turn, last, scwd>>
  BY DEF recv_file
<1>2. PICK x \in Take(up) :
         /\ up' = x.rest /\ x.data # Cut
         /\ sfs' = [sfs EXCEPT ![name] = Written(@, spos, x.data)]
         /\ \/ Head(up).code = LAST /\ sloc' = "origin"
            \/ Head(up).code # LAST /\ sloc' = sloc /\ spos' = After(spos, x.data)
  BY DEF recv_file, Keeps, Back
<1>3. /\ Len(up) \in Nat \ {0} /\ Head(up) = up[1] /\ Head(up) \in Packets
      /\ Len(Tail(up)) = Len(up) - 1 /\ Tail(up) \in Seq(Packets)
      /\ \A j \in 1..Len(up) - 1 : Tail(up)[j] = up[j + 1]
  BY <1>1, Streams, HeadAndTail
<1>4. x.data = up[1].data /\ up' = Tail(up) /\ x.data \in Payloads
  BY <1>1, <1>2, <1>3, TakeProperties, Streams
<1>5. IsData(up[1]) /\ up[1].of = turn
  <2>1. 1 \in 1..Len(up)
    BY <1>3
  <2> QED  BY <1>1, <2>1 DEF Clean, UpShape
<1>6. Len(up') = Len(up) - 1 /\ Len(up) \in Int /\ (up' = << >> <=> Len(up') = 0)
  <2>1. up' \in Seq(Packets) /\ Len(up') = Len(up) - 1
    BY <1>3, <1>4
  <2>2. up' = << >> <=> Len(up') = 0
    BY <2>1, QueueType
  <2> QED  BY <1>3, <2>1, <2>2
<1>7. \A j \in 1..Len(up') : j \in 1..Len(up) - 1 /\ j + 1 \in 1..Len(up)
  BY <1>6
<1>8. \A j \in 1..Len(up') : up'[j] = up[j + 1]
  BY <1>3, <1>4, <1>7
<1> QED  BY <1>1, <1>2, <1>3, <1>4, <1>5, <1>6, <1>7, <1>8

\* What it reads is the next portion of the file on the client's side.
LEMMA ServerTakes ==
  ASSUME TypeInv, Clean, clean', recv_file
  PROVE  LET c == script[turn]
         IN  /\ turn \in 1..Len(script) /\ c.op = "put" /\ name = c.dst
             /\ cfs[c.src] \in Entries /\ sfs[name] \in Entries
             /\ spos \in 1..Len(sfs[name].body) + 1
             /\ \A j \in 1..Len(up) : IsData(up[j]) => Carries(up[j], cfs[c.src].body, spos + j - 1)
             /\ Carries(up[1], cfs[c.src].body, spos)
             /\ link = "open" /\ cloc = "sending" => cpos = spos + Len(up)
             /\ Same(sfs[name].body, cfs[c.src].body, spos - 1)
             /\ sfs'[name] = Written(sfs[name], spos, up[1].data)
<1> DEFINE c == script[turn]
<1>1. /\ sloc = "receiving" /\ Len(up) \in Nat \ {0} /\ IsData(up[1]) /\ up[1].data \in Payloads
      /\ sfs' = [sfs EXCEPT ![name] = Written(@, spos, up[1].data)]
  BY ServerReads
<1>2. /\ turn \in 1..Len(script) /\ c.op = "put" /\ name = c.dst
      /\ \A j \in 1..Len(up) : IsData(up[j]) => Carries(up[j], cfs[c.src].body, spos + j - 1)
      /\ link = "open" /\ cloc = "sending" => cpos = spos + Len(up)
      /\ Same(sfs[name].body, cfs[c.src].body, spos - 1)
  BY <1>1 DEF Clean, PutInv
<1>3. /\ cfs[c.src] \in Entries /\ name \in Names /\ sfs[name] \in Entries
      /\ spos \in 1..Len(sfs[name].body) + 1
  <2>1. c \in Commands
    BY <1>2, Streams, ElementOfSeq
  <2> QED  BY <1>1, <2>1, CommandsAssumption DEF TypeInv, ServerOK, ClientOK
<1>4. spos + 1 - 1 = spos /\ 1 \in 1..Len(up)
  BY <1>1 DEF TypeInv, ServerOK
<1>5. Carries(up[1], cfs[c.src].body, spos)
  BY <1>1, <1>2, <1>4
<1>6. sfs'[name] = Written(sfs[name], spos, up[1].data)
  BY <1>1, <1>3, ServerWrites DEF TypeInv
<1> QED  BY <1>2, <1>3, <1>5, <1>6

LEMMA CleanTakesFile ==
  ASSUME TypeInv, Clean, clean', recv_file, UNCHANGED clientVars
  PROVE  Clean'
<1>1. /\ sloc = "receiving" /\ Len(up) \in Nat \ {0} /\ IsData(up[1]) /\ up[1].of = turn
      /\ Len(up') = Len(up) - 1 /\ (up' = << >> <=> Len(up) = 1)
      /\ \A j \in 1..Len(up') : j + 1 \in 1..Len(up) /\ up'[j] = up[j + 1]
      /\ up[1].data \in Payloads
      /\ sfs' = [sfs EXCEPT ![name] = Written(@, spos, up[1].data)]
      /\ \/ up[1].code = LAST /\ sloc' = "origin"
         \/ up[1].code # LAST /\ sloc' = "receiving" /\ spos' = After(spos, up[1].data)
      /\ UNCHANGED <<down, link, script, name, turn, scwd>>
  BY ServerReads
<1>2. UNCHANGED <<cloc, cpos, cfs, cmd>>
  BY <1>1 DEF clientVars, cmd, Client!cmd
<1>3. \A j \in 1..Len(up) :
         IF IsData(up[j])
         THEN /\ up[j].of = turn
              /\ j < Len(up) => (IsLast(up[j]) <=> ~IsData(up[j + 1]))
         ELSE /\ up[j].type = "QUIT" \/ Asks(up[j])
              /\ j = Len(up) /\ j > 1
  BY <1>1 DEF Clean, UpShape
<1>4. IsLast(up[1]) <=> sloc' = "origin"
  BY <1>1 DEF IsLast, IsData
<1>5. 1 \in 1..Len(up) /\ 1 < Len(up) => (IsLast(up[1]) <=> ~IsData(up[2]))
  BY <1>1, <1>3
<1>6. Len(up) > 1 => up'[Len(up')] = up[Len(up)]
  <2>1. ASSUME Len(up) > 1 PROVE Len(up') \in 1..Len(up') /\ Len(up') + 1 = Len(up)
    BY <1>1, <2>1
  <2> QED  BY <1>1, <2>1
<1>7. UpShape'
  <2>1. CASE sloc' = "origin"
    <3>1. ASSUME NEW j \in 1..Len(up')
          PROVE  j = 1 /\ Len(up') = 1 /\ up'[j] = up[2]
                 /\ (up[2].type = "QUIT" \/ Asks(up[2]))
      <4>1. 1 < Len(up) /\ 2 \in 1..Len(up) /\ 1 \in 1..Len(up')
        BY <1>1
      <4>2. ~IsData(up[2])
        BY <1>4, <1>5, <2>1, <4>1
      <4>3. 2 = Len(up) /\ (up[2].type = "QUIT" \/ Asks(up[2]))
        BY <1>3, <4>1, <4>2
      <4>4. up'[1] = up[2]
        BY <1>1, <4>1
      <4>5. Len(up') = 1
        <5>1. Len(up') = Len(up) - 1
          BY <1>1
        <5> QED  BY <4>3, <5>1
      <4>6. j = 1
        BY <4>5
      <4> QED  BY <4>3, <4>4, <4>5, <4>6
    <3>2. \A j \in 1..Len(up') : up'[j].type = "QUIT" \/ Asks(up[j])'
      BY <1>1, <1>2, <3>1 DEF Asks, Arg
    <3>3. Len(up') <= 1
      <4>1. Len(up') \in Nat
        BY <1>1
      <4> QED  BY <3>1, <4>1
    <3> QED  BY <2>1, <3>2, <3>3 DEF UpShape
  <2>2. CASE sloc' = "receiving"
    <3>1. ASSUME NEW j \in 1..Len(up')
          PROVE  IF IsData(up'[j])
                 THEN /\ up'[j].of = turn
                      /\ j < Len(up') => (IsLast(up'[j]) <=> ~IsData(up'[j + 1]))
                 ELSE /\ up'[j].type = "QUIT" \/ Asks(up[j])'
                      /\ j = Len(up') /\ j > 1
      <4>1. j + 1 \in 1..Len(up) /\ up'[j] = up[j + 1] /\ j \in Nat \ {0}
            /\ (j < Len(up') <=> j + 1 < Len(up)) /\ (j = Len(up') <=> j + 1 = Len(up))
        BY <1>1
      <4>2. CASE IsData(up'[j])
        <5>1. j < Len(up') => j + 1 \in 1..Len(up') /\ up'[j + 1] = up[(j + 1) + 1]
          BY <1>1, <4>1
        <5> QED  BY <1>3, <4>1, <4>2, <5>1
      <4>3. CASE ~IsData(up'[j])
        <5>1. (up[j + 1].type = "QUIT" \/ Asks(up[j + 1])) /\ j + 1 = Len(up)
          BY <1>3, <4>1, <4>3
        <5>2. up'[j].type = "QUIT" \/ Asks(up[j])'
          BY <1>1, <1>2, <4>1, <5>1 DEF Asks, Arg
        <5>3. j # 1
          BY <1>4, <1>5, <2>2, <4>1, <4>3, <5>1
        <5> QED  BY <4>1, <4>3, <5>1, <5>2, <5>3
      <4> QED  BY <4>2, <4>3
    <3> QED  BY <1>1, <2>2, <3>1 DEF UpShape
  <2> QED  BY <1>1, <2>1, <2>2
<1>8. Conversation'
  <2>1. CASE link # "open"
    BY <1>1, <2>1 DEF Conversation
  <2>2. CASE link = "open"
    <3>1. up # << >> /\ cloc \in {"prompt", "reply", "sending"}
      <4>1. up # << >>
        BY <1>1, Streams
      <4>2. cloc \in {"prompt", "reply", "listing", "receiving", "sending"}
        BY <2>2 DEF TypeInv, StreamOK, ClientOK, Clean, Conversation
      <4> QED  BY <2>2, <4>1, <4>2 DEF Clean, Conversation, Answered
    <3>2. CASE cloc = "prompt"
      <4>1. Idle
        BY <2>2, <3>2 DEF Clean, Conversation
      <4>2. down = << >> /\ turn = Len(script) /\ IsLast(up[Len(up)])
        BY <1>1, <4>1 DEF Idle
      <4>3. CASE sloc' = "origin"
        <5>1. ASSUME Len(up) > 1 PROVE FALSE
          <6>1. ~IsData(up[2]) /\ 2 \in 1..Len(up)
            BY <1>1, <1>4, <1>5, <4>3, <5>1
          <6>2. 2 = Len(up)
            BY <1>3, <6>1
          <6> QED  BY <4>2, <6>1, <6>2 DEF IsLast, IsData
        <5>2. up' = << >>
          BY <1>1, <5>1
        <5> QED  BY <1>1, <1>2, <3>2, <4>2, <4>3, <5>2 DEF Conversation, Idle
      <4>4. CASE sloc' = "receiving"
        <5>1. Len(up) > 1
          BY <1>1, <1>4, <4>2, <4>4
        <5>2. up' # << >> /\ IsLast(up'[Len(up')])
          BY <1>1, <1>6, <4>2, <5>1
        <5> QED  BY <1>1, <1>2, <3>2, <4>2, <4>4, <5>2 DEF Conversation, Idle
      <4> QED  BY <1>1, <4>3, <4>4
    <3>3. CASE cloc = "reply"
      <4>1. Asked
        BY <2>2, <3>1, <3>3 DEF Clean, Conversation, Answered
      <4>2. ~IsData(up[Len(up)]) /\ Asks(up[Len(up)]) /\ script # << >>
        <5>1. Asks(up[Len(up)]) /\ script # << >>
          BY <4>1 DEF Asked, Asks
        <5>2. up[Len(up)].type \in Requests
          BY <5>1, VerbOf, Streams DEF Asks, Packet
        <5> QED  BY <5>1, <5>2 DEF IsData, Requests
      <4>3. Len(up) > 1
        BY <1>1, <4>2
      <4>4. up' # << >> /\ Asks(up[Len(up)])'
        BY <1>1, <1>2, <1>6, <4>2, <4>3 DEF Asks, Arg
      <4>5. Asked'
        BY <1>1, <4>1, <4>4 DEF Asked
      <4> QED  BY <1>1, <1>2, <3>3, <4>5 DEF Conversation
    <3>4. CASE cloc = "sending"
      <4>1. Sending
        BY <2>2, <3>4 DEF Clean, Conversation
      <4>2. ~IsLast(up[1]) /\ sloc' = "receiving"
        BY <1>1, <1>4, <4>1 DEF Sending
      <4>3. Sending'
        BY <1>1, <1>2, <4>1, <4>2 DEF Sending
      <4> QED  BY <1>1, <1>2, <3>4, <4>2, <4>3 DEF Conversation
    <3> QED  BY <3>1, <3>2, <3>3, <3>4
  <2> QED  BY <2>1, <2>2
<1>9. GetInv'
  <2>1. ASSUME Getting PROVE FALSE
    <3>1. Answered
      BY <2>1 DEF Getting, Clean, Conversation, Asked
    <3> QED  BY <1>1, <3>1, Streams DEF Answered
  <2>2. Getting' => Getting
    BY <1>1, <1>2 DEF Getting
  <2> QED  BY <2>1, <2>2 DEF GetInv
<1>10. PutInv'
  <2>1. CASE sloc' = "origin"
    BY <2>1 DEF PutInv
  <2>2. CASE sloc' = "receiving"
    <3> DEFINE c == script[turn]
               s == cfs[c.src]
    <3>1. /\ turn \in 1..Len(script) /\ c.op = "put" /\ name = c.dst
          /\ \A j \in 1..Len(up) : IsData(up[j]) => Carries(up[j], s.body, spos + j - 1)
          /\ link = "open" /\ cloc = "sending" => cpos = spos + Len(up)
      BY ServerTakes
    <3>2. spos \in Nat
      BY DEF TypeInv, ServerOK
    <3>3. up[1].code # LAST /\ spos' = After(spos, up[1].data)
      BY <1>1, <2>2
    <3>4. Same(sfs'[name].body, s.body, spos) /\ spos' = spos + 1
      BY <3>3, ServerTakes, WritesPortion
    <3> HIDE DEF s
    <3>5. \A j \in 1..Len(up') : IsData(up'[j]) => Carries(up'[j], s.body, spos' + j - 1)
      <4> TAKE j \in 1..Len(up')
      <4> HAVE IsData(up'[j])
      <4>1. j + 1 \in 1..Len(up) /\ up'[j] = up[j + 1] /\ j \in Int
        BY <1>1
      <4>2. spos + (j + 1) - 1 = spos' + j - 1
        BY <3>2, <3>4, <4>1
      <4> QED  BY <3>1, <4>1, <4>2
    <3>6. link = "open" /\ cloc = "sending" => cpos = spos' + Len(up')
      BY <1>1, <3>1, <3>2, <3>4
    <3>7. spos' - 1 = spos
      BY <3>2, <3>4
    <3> QED  BY <1>1, <1>2, <3>1, <3>4, <3>5, <3>6, <3>7 DEF PutInv, s
  <2> QED  BY <1>1, <2>1, <2>2
<1> QED  BY <1>7, <1>8, <1>9, <1>10 DEF Clean

\* pwd, cd and dir answer from "origin"; only get and put have a file to go with it.
LEMMA CleanProcs ==
  ASSUME TypeInv, Clean, clean', UNCHANGED clientVars,
         pwd_proc \/ cwd_proc \/ list_proc \/ retr_proc \/ stor_proc
  PROVE  Clean'
<1>0. /\ {"OK", "CMD_ERR", "FILE_ERR", "UNKWN_ERR", "RETR"} \subseteq Types \ {"DATA"}
      /\ {0, 1, 2, 5, LAST, MIDDLE} \subseteq 0..5
      /\ {"PWD", "CWD", "LIST", "RETR", "STOR"} \subseteq Requests \ {"QUIT"}
      /\ {"CMD_ERR", "FILE_ERR", "UNKWN_ERR"} = Errors
      /\ "OK" \notin Errors
      /\ NoData \in Payloads /\ NoData # Cut /\ scwd \in Payloads
      /\ ServerOK
  BY CutAssumption, NoDataAssumption
     DEF Types, Requests, LAST, MIDDLE, Payloads, Errors, TypeInv, ServerOK
<1>1. ASSUME pwd_proc PROVE Clean'
  <2>1. Hears("PWD", NoData) /\ Send("OK", 0, scwd, "origin") /\ UNCHANGED script
    BY <1>1 DEF pwd_proc
  <2> QED  BY <1>0, <2>1, Replied DEF Clean
<1>2. ASSUME cwd_proc PROVE Clean'
  <2>1. PICK d \in Names \cup {NoData} :
           /\ Hears("CWD", d) /\ d # Cut /\ UNCHANGED script
           /\ \/ /\ Entry(d).kind = "dir" /\ Send("OK", 0, NoData, "origin")
                 /\ scwd' = d
              \/ Send("FILE_ERR", 0, NoData, "origin")
              \/ Send("FILE_ERR", 1, NoData, "origin")
              \/ Send("CMD_ERR", 1, NoData, "origin")
              \/ /\ Entry(d).kind = "odd"
                 /\ \E c \in {LAST, MIDDLE} : Send("RETR", c, NoData, "origin")
    BY <1>2 DEF cwd_proc, Keeps
  <2>2. Entry(d).kind = "odd" => ServerFiles[d].kind = "odd"
    BY <1>0, EntryType DEF ServerOK
  <2>3. CASE Send("OK", 0, NoData, "origin") /\ scwd' = d
    BY <1>0, <2>1, <2>3, Replied DEF Clean
  <2>4. CASE \/ Send("FILE_ERR", 0, NoData, "origin")
             \/ Send("FILE_ERR", 1, NoData, "origin")
             \/ Send("CMD_ERR", 1, NoData, "origin")
    <3>1. PICK s \in Errors, c \in 0..5 : Send(s, c, NoData, "origin")
      BY <1>0, <2>4
    <3> QED  BY <1>0, <2>1, <3>1, Replied DEF Clean
  <2>5. CASE /\ ServerFiles[d].kind = "odd"
             /\ \E c \in {LAST, MIDDLE} : Send("RETR", c, NoData, "origin")
    <3>1. PICK c \in 0..5 : Send("RETR", c, NoData, "origin")
      BY <1>0, <2>5
    <3> QED  BY <1>0, <2>1, <2>5, <3>1, Replied DEF Clean
  <2> QED  BY <2>1, <2>2, <2>3, <2>4, <2>5
<1>3. ASSUME list_proc PROVE Clean'
  <2>1. PICK d \in Names \cup {NoData} :
           /\ Hears("LIST", d) /\ d # Cut /\ UNCHANGED script
           /\ \/ Send("FILE_ERR", 0, NoData, "origin")
              \/ Send("FILE_ERR", 1, NoData, "origin")
              \/ Send("OK", 1, NoData, "listing")
    BY <1>3 DEF list_proc, Keeps
  <2>2. CASE Send("OK", 1, NoData, "listing")
    BY <1>0, <2>1, <2>2, Replied DEF Clean
  <2>3. CASE Send("FILE_ERR", 0, NoData, "origin")
    BY <1>0, <2>1, <2>3, Replied DEF Clean
  <2>4. CASE Send("FILE_ERR", 1, NoData, "origin")
    BY <1>0, <2>1, <2>4, Replied DEF Clean
  <2> QED  BY <2>1, <2>2, <2>3, <2>4
<1>4. ASSUME retr_proc PROVE Clean'
  <2>1. PICK d \in Names \cup {NoData} :
           /\ Hears("RETR", d) /\ d # Cut /\ name' = d /\ spos' = 1
           /\ UNCHANGED <<script, sfs>>
           /\ \/ Opens(Entry(d)) /\ Send("OK", 1, NoData, "sending")
              \/ Send("FILE_ERR", 0, NoData, "origin")
              \/ Send("FILE_ERR", 1, NoData, "origin")
              \/ Send("UNKWN_ERR", 5, NoData, "origin")
    BY <1>4 DEF retr_proc, Keeps
  <2>2. CASE \/ Send("FILE_ERR", 0, NoData, "origin")
             \/ Send("FILE_ERR", 1, NoData, "origin")
             \/ Send("UNKWN_ERR", 5, NoData, "origin")
    <3>1. PICK s \in Errors, c \in 0..5 : Send(s, c, NoData, "origin")
      BY <1>0, <2>2
    <3> QED  BY <1>0, <2>1, <3>1, Replied DEF Clean
  <2>3. CASE Opens(Entry(d)) /\ Send("OK", 1, NoData, "sending")
    <3>1. UpShape' /\ Conversation' /\ PutInv'
      BY <1>0, <2>1, <2>3, Replied
    <3>2. ASSUME Getting' PROVE Clean'
      <4>1. link' = "open" /\ cmd' = cmd /\ cloc' = cloc /\ cpos' = cpos /\ cfs' = cfs
        BY <2>1, <3>2 DEF Getting, clientVars, cmd, Client!cmd
      <4>2. turn' \in 0..MaxCommands /\ "OK" \in Types /\ 1 \in 0..5 /\ NoData \in Payloads
        BY <1>0, <2>1, HearsEffect DEF TypeInv
      <4>3. link = "open" /\ Len(down') = Len(down) + 1
        BY <2>3, <4>1, <4>2, SendEffect DEF TypeInv
      <4>4. /\ d = Arg(cmd) /\ cloc = "reply" /\ down = << >> /\ "RETR" = Verb[cmd.op]
            /\ script # << >>
        BY <1>0, <2>1, <4>3, Heard
      <4>5. d = cmd.src
        BY <4>4, VerbOf, Streams DEF Arg
      <4>6. Len(down') = 1
        BY <4>3, <4>4, Streams
      <4>7. GetInv'
        BY <2>1, <4>1, <4>4, <4>5, <4>6 DEF GetInv, Read
      <4> QED  BY <3>1, <4>7 DEF Clean
    <3>3. CASE ~Getting'
      BY <3>1, <3>3 DEF Clean, GetInv
    <3> QED  BY <3>2, <3>3
  <2> QED  BY <2>1, <2>2, <2>3
<1>5. ASSUME stor_proc PROVE Clean'
  <2>1. PICK d \in Names \cup {NoData} :
           /\ Hears("STOR", d) /\ d # Cut /\ name' = d /\ spos' = 1
           /\ UNCHANGED script
           /\ \/ /\ d # NoData /\ Send("OK", 2, NoData, "receiving")
                 /\ sfs' = [sfs EXCEPT ![d] = Created(@)]
              \/ Send("FILE_ERR", 0, NoData, "origin")
              \/ Send("FILE_ERR", 1, NoData, "origin")
              \/ Send("CMD_ERR", 1, NoData, "origin")
              \/ Send("UNKWN_ERR", 5, NoData, "origin")
    BY <1>5 DEF stor_proc, Keeps
  <2>2. CASE \/ Send("FILE_ERR", 0, NoData, "origin")
             \/ Send("FILE_ERR", 1, NoData, "origin")
             \/ Send("CMD_ERR", 1, NoData, "origin")
             \/ Send("UNKWN_ERR", 5, NoData, "origin")
    <3>1. PICK s \in Errors, c \in 0..5 : Send(s, c, NoData, "origin")
      BY <1>0, <2>2
    <3> QED  BY <1>0, <2>1, <3>1, Replied DEF Clean
  <2>3. CASE /\ d # NoData /\ Send("OK", 2, NoData, "receiving")
             /\ sfs' = [sfs EXCEPT ![d] = Created(@)]
    <3>1. UpShape' /\ Conversation' /\ GetInv'
      BY <1>0, <2>1, <2>3, Replied
    <3>2. /\ up' = << >> /\ "STOR" = Verb[cmd.op] /\ d = Arg(cmd) /\ script # << >>
          /\ turn' = Len(script)
          /\ link = "open" => cloc = "reply"
      BY <1>0, <2>1, <2>3, Heard
    <3>3. /\ cmd.op = "put" /\ d = cmd.dst /\ cmd.src \in Names
          /\ turn' \in 1..Len(script) /\ script[turn'] = cmd
      <4>1. cmd.op = "put" /\ cmd.src \in Names /\ Len(script) \in Nat \ {0}
        BY <3>2, VerbOf, Streams
      <4>2. d = cmd.dst
        BY <3>2, <4>1 DEF Arg
      <4>3. script[turn'] = cmd
        BY <3>2 DEF cmd, Client!cmd
      <4> QED  BY <3>2, <4>1, <4>2, <4>3
    <3>4. Len(<< >>) = 0 /\ UNCHANGED <<cloc, cpos, cfs>>
      BY EmptySeq DEF clientVars
    <3>5. turn' \in 0..MaxCommands /\ "OK" \in Types /\ 2 \in 0..5 /\ NoData \in Payloads
      BY <1>0, <2>1, HearsEffect DEF TypeInv
    <3>6. link' = "open" <=> link = "open"
      BY <2>3, <3>5, SendEffect DEF TypeInv
    <3>7. Same(sfs'[name'].body, cfs[cmd.src].body, spos' - 1)
      <4>1. d \in Names /\ sfs[d] \in Entries /\ cfs[cmd.src] \in Entries
        BY <2>1, <2>3, <3>3 DEF TypeInv, ServerOK, ClientOK
      <4>2. sfs'[d].body = sfs[d].body
        BY <1>0, <2>3, <4>1 DEF Created, ServerOK, Entries
      <4> QED  BY <2>1, <4>1, <4>2, StepsType DEF Same
    <3>8. PutInv'
      <4>1. ~(link' = "open" /\ cloc' = "sending")
        BY <3>2, <3>4, <3>6
      <4>2. \A j \in 1..Len(up') : FALSE
        BY <3>2, <3>4
      <4>3. script'[turn'] = cmd /\ turn' \in 1..Len(script')
        BY <2>1, <3>3
      <4>4. cfs'[script'[turn'].src].body = cfs[cmd.src].body
        BY <3>4, <4>3
      <4> QED  BY <2>1, <3>3, <3>7, <4>1, <4>2, <4>3, <4>4 DEF PutInv
    <3> QED  BY <3>1, <3>8 DEF Clean
  <2> QED  BY <2>1, <2>2, <2>3
<1> QED  BY <1>1, <1>2, <1>3, <1>4, <1>5

LEMMA CleanAnswers ==
  ASSUME TypeInv, Clean, clean', UNCHANGED clientVars, list_line \/ send_file
  PROVE  Clean'
<1>1. ASSUME list_line PROVE Clean'
  <2>1. /\ sloc = "listing" /\ UNCHANGED <<up, script, turn, scwd, name>>
        /\ Send("DATA", IF spos = print_files(name) THEN LAST ELSE MIDDLE, name,
                IF spos = print_files(name) THEN "origin" ELSE "listing")
    BY <1>1 DEF list_line
  <2>2. name \in Payloads
    BY DEF TypeInv, ServerOK, Payloads
  <2>3. PICK c \in {LAST, MIDDLE} : Send("DATA", c, name, IF c = LAST THEN "origin" ELSE sloc)
    BY <2>1 DEF LAST, MIDDLE
  <2>4. UpShape' /\ Conversation' /\ PutInv'
    BY <2>1, <2>2, <2>3, AnswerGrows
  <2>5. ~Getting'
    <3>1. cmd' = cmd
      BY <2>1 DEF cmd, Client!cmd
    <3>2. "DATA" \in Types /\ LAST \in 0..5 /\ MIDDLE \in 0..5 /\ turn' \in 0..MaxCommands
      BY <2>1 DEF Types, LAST, MIDDLE, TypeInv, ServerOK
    <3>3. link' = "open" => link = "open"
      BY <2>2, <2>3, <3>2, SendEffect DEF TypeInv
    <3>4. link = "open" => cmd.op = "dir"
      BY <2>1, Answering
    <3> QED  BY <3>1, <3>3, <3>4 DEF Getting
  <2> QED  BY <2>4, <2>5 DEF Clean, GetInv
<1>2. ASSUME send_file PROVE Clean'
  <2> DEFINE e == Entry(name)
             p == Portion(e.body, spos)
  <2>1. /\ sloc = "sending" /\ UNCHANGED <<up, script, turn, scwd, name, sfs>>
        /\ Send("DATA", p.code, p.data, IF p.code = LAST THEN "origin" ELSE "sending")
        /\ p.code # LAST => spos' = spos + 1
    BY <1>2 DEF send_file, Keeps
  <2>2. /\ name \in Names /\ e = sfs[name] /\ e \in Entries /\ spos \in 1..Steps(e.body)
    BY <2>1, EntryType DEF TypeInv, ServerOK
  <2>3. p.code \in {LAST, MIDDLE} /\ p.data \in Payloads
    BY <2>2, PortionProperties
  <2>4. PICK c \in {LAST, MIDDLE}, b \in Payloads : c = p.code /\ b = p.data
    BY <2>3
  <2>5. Carries(Packet("DATA", c, b, turn'), e.body, spos)
    BY <2>2, <2>4 DEF Carries, Packet
  <2> HIDE DEF p
  <2>6. Send("DATA", c, b, IF c = LAST THEN "origin" ELSE sloc)
    BY <2>1, <2>4
  <2>7. UpShape' /\ Conversation' /\ PutInv'
    BY <2>1, <2>6, AnswerGrows
  <2>8. ASSUME Getting' PROVE GetInv'
    <3>1. /\ link' = "open" /\ UNCHANGED <<cmd, cloc, cpos, cfs>> /\ cmd.op = "get"
          /\ cloc \in {"reply", "receiving"}
          /\ cloc = "reply" => down'[1].type \notin Errors
      BY <2>1, <2>8 DEF Getting, clientVars, cmd, Client!cmd
    <3>2. turn' \in 0..MaxCommands /\ "DATA" \in Types /\ c \in 0..5
      BY <2>1 DEF Types, LAST, MIDDLE, TypeInv, ServerOK
    <3>3. /\ link = "open" /\ sloc' = IF c = LAST THEN "origin" ELSE sloc
          /\ Len(down') = Len(down) + 1
          /\ \A j \in 1..Len(down) : down'[j] = down[j]
          /\ down'[Len(down')] = Packet("DATA", c, b, turn')
      BY <2>6, <3>1, <3>2, SendEffect DEF TypeInv
    <3>4. Answered /\ Len(down) \in Nat /\ (down = << >> <=> Len(down) = 0)
      BY <2>1, <3>3, Answering, Streams
    <3>5. cloc = "reply" => down # << >> /\ down'[1] = down[1]
      BY <3>3, <3>4 DEF Answered
    <3>6. Getting
      BY <3>1, <3>3, <3>5 DEF Getting
    <3>7. /\ \A j \in 1..Len(down) : Read + j > 0 => Carries(down[j], sfs[cmd.src].body, Read + j)
          /\ name = cmd.src /\ spos = Read + Len(down) + 1
          /\ cloc = "receiving" => Same(cfs[cmd.dst].body, sfs[cmd.src].body, cpos - 1)
      BY <2>1, <3>6 DEF Clean, GetInv
    <3>8. Read' = Read /\ Read \in Int
      <4>1. cpos \in Nat
        BY DEF TypeInv, ClientOK
      <4> QED  BY <3>1, <4>1 DEF Read
    <3>9. spos = Read + Len(down')
      BY <3>3, <3>4, <3>7, <3>8
    <3>10. \A j \in 1..Len(down') : Read + j > 0 => Carries(down'[j], sfs[cmd.src].body, Read + j)
      <4> TAKE j \in 1..Len(down')
      <4> HAVE Read + j > 0
      <4>1. j \in 1..Len(down) \/ j = Len(down')
        BY <3>3, <3>4
      <4>2. CASE j \in 1..Len(down)
        BY <3>3, <3>7, <4>2
      <4>3. CASE j = Len(down')
        BY <2>2, <2>5, <3>3, <3>7, <3>9, <4>3
      <4> QED  BY <4>1, <4>2, <4>3
    <3>11. sloc' = "sending" => spos' = Read + Len(down') + 1
      BY <2>1, <2>4, <3>3, <3>9
    <3> QED  BY <2>1, <3>1, <3>7, <3>8, <3>10, <3>11 DEF GetInv
  <2> QED  BY <2>7, <2>8 DEF Clean, GetInv
<1> QED  BY <1>1, <1>2

\* While nothing goes wrong, the server leaves the conversation only when the
\* client has left it, and does not meet a packet it does not know.
LEMMA CleanServer ==
  ASSUME TypeInv, Clean, clean', ServerStep, UNCHANGED clientVars
  PROVE  Clean'
<1>1. UNCHANGED <<cloc, cpos, cfs>>
  BY DEF clientVars
<1>2. ASSUME Accept PROVE Clean'
  <2>1. /\ sloc = "queued" /\ sloc' = "origin"
        /\ UNCHANGED <<up, down, link, script, spos, name, turn, scwd, sfs, cmd>>
    BY <1>2 DEF Accept, stream, cmd, Client!cmd
  <2>2. UpShape'
    BY <2>1 DEF Clean, UpShape, Asks, Arg
  <2>3. Conversation'
    <3>1. Idle => Idle'
      BY <2>1 DEF Idle
    <3>2. Asked => Asked'
      BY <2>1 DEF Asked, Asks, Arg
    <3>3. ~Answered /\ ~Sending
      BY <2>1 DEF Answered, Sending
    <3> QED  BY <1>1, <2>1, <3>1, <3>2, <3>3 DEF Clean, Conversation
  <2>4. GetInv' /\ PutInv'
    <3>1. Getting' => Getting /\ Read' = Read
      BY <1>1, <2>1 DEF Getting, Read
    <3>2. ~Getting
      BY <2>1 DEF Getting, Clean, Conversation, Asked, Answered
    <3> QED  BY <2>1, <3>1, <3>2 DEF GetInv, PutInv
  <2> QED  BY <2>2, <2>3, <2>4 DEF Clean
<1>3. ASSUME quit_proc PROVE Clean'
  <2>1. Hears("QUIT", NoData) /\ sloc' = "exited" /\ UNCHANGED <<link, script>>
    BY <1>3 DEF quit_proc
  <2>2. /\ sloc = "origin" /\ up' = << >>
        /\ \/ link # "open"
           \/ up[1].type = "QUIT" /\ up # << >> /\ Len(up) = 1
    BY <2>1, HeardOne, NoDataAssumption, CutAssumption
  <2>3. ASSUME up[1].type = "QUIT", up # << >>, Len(up) = 1, link = "open" PROVE FALSE
    <3>1. cloc \in {"prompt", "reply", "listing", "receiving", "sending"}
      BY <2>3 DEF TypeInv, StreamOK, ClientOK, Clean, Conversation
    <3>2. Asked
      BY <2>2, <2>3, <3>1 DEF Clean, Conversation, Idle, Answered, Sending
    <3>3. Asks(up[1]) /\ script # << >>
      BY <2>3, <3>2 DEF Asked, Asks
    <3>4. up[1].type = Verb[cmd.op]
      BY <3>3 DEF Asks, Packet
    <3> QED  BY <2>3, <3>3, <3>4, VerbOf, Streams
  <2>4. UpShape'
    BY <2>1, <2>2, EmptySeq DEF UpShape
  <2> QED  BY <2>1, <2>2, <2>3, <2>4 DEF Clean, Conversation, GetInv, Getting, PutInv
<1>4. ASSUME unknown_type PROVE FALSE
  <2>1. sloc = "origin" /\ up # << >> /\ Head(up).type \notin Requests
    BY <1>4 DEF unknown_type
  <2>2. Head(up) = up[1] /\ 1 \in 1..Len(up)
    BY <2>1, Streams, HeadAndTail
  <2>3. up[1].type = "QUIT" \/ Asks(up[1])
    BY <2>1, <2>2 DEF Clean, UpShape
  <2>4. ASSUME Asks(up[1]) PROVE up[1].type \in Requests
    BY <2>4, VerbOf, Streams DEF Asks, Packet
  <2> QED  BY <2>1, <2>2, <2>3, <2>4 DEF Requests
<1>5. ASSUME recv_error \/ ResetArrives \/ ServerDies PROVE Clean'
  <2>1. /\ link' # "open" \/ (sloc' = "exited" /\ link # "open")
        /\ UNCHANGED <<up, script, spos, name, turn, scwd, sfs, cmd>>
        /\ sloc' \in {sloc, "exited"} /\ (link' = "open" => link = "open")
    BY <1>5 DEF recv_error, ResetArrives, ServerDies, Keeps, stream, serverVars, cmd, Client!cmd
  <2>2. UpShape'
    <3>1. \A j \in 1..Len(up) : up[j].type # "FRAGMENT"
      BY Whole
    <3> QED  BY <2>1, <3>1 DEF Clean, UpShape, Asks, Arg
  <2>3. PutInv'
    BY <1>1, <2>1 DEF Clean, PutInv
  <2> QED  BY <2>1, <2>2, <2>3 DEF Clean, Conversation, GetInv, Getting
<1>6. ASSUME recv_file_eof \/ Misread PROVE FALSE
  BY <1>6 DEF recv_file_eof, Misread, Keeps
<1> QED  BY <1>2, <1>3, <1>4, <1>5, <1>6, CleanProcs, CleanAnswers, CleanTakesFile
         DEF ServerStep, Serve

\* What has gone wrong stays so.
LEMMA StaysClean == Next /\ clean' => clean
<1> SUFFICES ASSUME Next, clean' PROVE clean
  OBVIOUS
<1>1. CASE ClientStep \/ Client!ServerGone
  BY <1>1 DEF ClientStep, Client!ServerGone, Client!Ask, Client!Exchange,
     Client!pwd_proc, Client!cd_proc, Client!dir_proc, Client!get_proc, Client!put_proc,
     Client!Request, Client!quit_proc, Client!sigint_handler, Client!Refusal,
     Client!pwd_reply, Client!cd_reply, Client!dir_reply, Client!get_reply,
     Client!put_reply, Client!FreeUnset, Client!NullPayload, Client!dir_line,
     Client!recv_file, Client!send_file, Client!Misread, Client!Keeps
<1>2. CASE ServerStep
  BY <1>2 DEF ServerStep, Serve, Accept, quit_proc, pwd_proc, cwd_proc, list_proc,
     retr_proc, stor_proc, list_line, send_file, recv_file, unknown_type, recv_error,
     recv_file_eof, Misread, ResetArrives, ServerDies, stream, Keeps
<1> QED  BY <1>1, <1>2 DEF Next

LEMMA InvStep == Inv /\ [Next]_vars => Inv'
<1> SUFFICES ASSUME Inv, [Next]_vars PROVE Inv'
  OBVIOUS
<1>1. TypeInv'
  BY TypeStep DEF Inv
<1>2. ASSUME clean' PROVE Clean'
  <2>1. CASE (ClientStep \/ Client!ServerGone) /\ UNCHANGED serverVars /\ clean
    BY <1>2, <2>1, CleanClient DEF Inv
  <2>2. CASE ServerStep /\ UNCHANGED clientVars /\ clean
    BY <1>2, <2>2, CleanServer DEF Inv
  <2>3. CASE UNCHANGED vars
    BY <1>2, <2>3 DEF Inv, Clean, UpShape, Asks, Arg, Conversation, Idle, Asked, Answered, Ends,
       Sending, GetInv, Getting, Read, PutInv, vars, stream, serverVars, clientVars,
       cmd, Client!cmd
  <2> QED  BY <1>2, <2>1, <2>2, <2>3, StaysClean DEF Next
<1> QED  BY <1>1, <1>2 DEF Inv

LEMMA InvCorrect == Spec => []Inv
<1>1. Init => Inv
  BY TypeInit, CleanInit DEF Inv
<1> QED  BY <1>1, InvStep, PTL DEF Spec

-----------------------------------------------------------------------------
(* The properties *)

\* A client that is gone does nothing more.
LEMMA GoneIsGone ==
  ASSUME TypeInv, Next, link # "open"
  PROVE  ServerStep /\ UNCHANGED clientVars /\ link' # "open"
<1>1. cloc \in Client!Gone
  BY DEF TypeInv, StreamOK
<1>2. ~ClientStep /\ ~Client!ServerGone
  BY <1>1 DEF ClientStep, Client!ServerGone, Client!Ask, Client!Exchange,
     Client!pwd_proc, Client!cd_proc, Client!dir_proc, Client!get_proc, Client!put_proc,
     Client!Request, Client!quit_proc, Client!sigint_handler, Client!Refusal, Client!Accepted,
     Client!pwd_reply, Client!cd_reply, Client!dir_reply, Client!get_reply,
     Client!put_reply, Client!FreeUnset, Client!NullPayload, Client!dir_line,
     Client!recv_file, Client!send_file, Client!Misread, Client!Hears, Client!Gone
<1>3. ServerStep /\ UNCHANGED clientVars
  BY <1>2 DEF Next
<1>4. StreamOK' /\ UNCHANGED cloc
  BY <1>3, ServerTypes DEF TypeInv, clientVars
<1> QED  BY <1>1, <1>3, <1>4 DEF StreamOK

\* A session process that has ended reads nothing more.
LEMMA ExitedIsExited ==
  ASSUME sloc = "exited", ServerStep
  PROVE  UNCHANGED up
BY DEF ServerStep, Serve, Accept, quit_proc, pwd_proc, cwd_proc, list_proc,
   retr_proc, stor_proc, list_line, send_file, recv_file, unknown_type, recv_error,
   recv_file_eof, Misread, ResetArrives, ServerDies, stream, Hears

\* Whatever the user types, and however the network delays packets: while no
\* read was short and nothing failed, a client that asks for the next command
\* has read everything that the server had to say about the last one.
THEOREM PromptInStepCorrect == Spec => []PromptInStep
<1>1. Inv => PromptInStep
  BY AtPrompt DEF Inv, Idle, PromptInStep
<1> QED  BY <1>1, InvCorrect, PTL

\* While nothing goes wrong, a request is read only where the server waits for
\* one, the DATA that it takes for a file belongs to the put it has agreed to,
\* and the client reads only what answers the command in hand.
THEOREM NoStrayPacketCorrect == Spec => NoStrayPacket
<1>1. ASSUME Inv, Next, clean'
      PROVE  /\ Reads(up) =>
                   IF sloc = "receiving" THEN Head(up).type = "DATA" /\ Head(up).of = turn
                                         ELSE Head(up).type \in Requests
             /\ Reads(down) /\ link' = "open" => Head(down).of = Len(script)
  <2>1. TypeInv /\ Clean
    BY <1>1, StaysClean DEF Inv
  <2>2. ASSUME Reads(up)
        PROVE  IF sloc = "receiving" THEN Head(up).type = "DATA" /\ Head(up).of = turn
                                     ELSE Head(up).type \in Requests
    <3>1. /\ up # << >> /\ up' \in {Tail(up), <<Fragment>> \o Tail(up)}
          /\ Head(up) = up[1] /\ 1 \in 1..Len(up)
          /\ Tail(up) \in Seq(Packets) /\ Len(Tail(up)) = Len(up) - 1 /\ Len(up) \in Nat
      BY <2>1, <2>2, Streams, HeadAndTail DEF Reads
    <3>2. CASE sloc = "receiving"
      <4>1. IsData(up[1]) /\ up[1].of = turn
        <5>1. 1 \in 1..Len(up) /\ Clean
          BY <2>1, <3>1
        <5> QED  BY <3>2, <5>1 DEF Clean, UpShape
      <4> QED  BY <3>1, <3>2, <4>1 DEF IsData
    <3>3. CASE sloc \in {"queued", "origin"}
      <4>1. up[1].type = "QUIT" \/ Asks(up[1])
        BY <2>1, <3>1, <3>3 DEF Clean, UpShape
      <4>2. Asks(up[1]) => up[1].type = Verb[cmd.op] /\ script # << >>
        BY DEF Asks, Packet
      <4>3. up[1].type \in Requests
        BY <2>1, <4>1, <4>2, VerbOf, Streams DEF Requests
      <4> QED  BY <3>1, <3>3, <4>3
    <3>4. CASE sloc = "exited"
      <4>1. link # "open"
        BY <2>1, <3>4 DEF Clean, Conversation
      <4>2. up' = up
        BY <1>1, <2>1, <3>4, <4>1, GoneIsGone, ExitedIsExited
      <4>3. up[1].type # "FRAGMENT"
        BY <2>1, <3>1, Whole
      <4>4. Tail(up) # up
        <5>1. \A n \in Nat : n # n - 1
          OBVIOUS
        <5>2. Len(up) # Len(Tail(up))
          BY <3>1, <5>1
        <5> QED  BY <5>2
      <4>5. (<<Fragment>> \o Tail(up))[1] = Fragment /\ Fragment.type = "FRAGMENT"
        BY <3>1 DEF Fragment, Packet
      <4> QED  BY <3>1, <4>2, <4>3, <4>4, <4>5
    <3>5. CASE sloc \in {"listing", "sending"}
      BY <2>1, <3>1, <3>5 DEF Clean, UpShape
    <3> QED  BY <2>1, <3>2, <3>3, <3>4, <3>5 DEF TypeInv, ServerOK, Clean, UpShape
  <2>3. ASSUME Reads(down), link' = "open" PROVE Head(down).of = Len(script)
    <3>1. link = "open" /\ down # << >>
      BY <1>1, <2>1, <2>3, GoneIsGone DEF Reads
    <3>2. Head(down) = down[1] /\ 1 \in 1..Len(down)
      BY <2>1, <3>1, Streams, HeadAndTail
    <3>3. Answered
      <4>1. cloc \in {"prompt", "reply", "listing", "receiving", "sending"}
        BY <2>1, <3>1 DEF TypeInv, StreamOK, ClientOK, Clean, Conversation
      <4> QED  BY <2>1, <3>1, <4>1 DEF Clean, Conversation, Idle, Asked, Sending
    <3> QED  BY <3>2, <3>3 DEF Answered
  <2> QED  BY <2>2, <2>3
<1>2. Inv /\ [Next]_vars =>
        [clean' =>
           /\ Reads(up) =>
                IF sloc = "receiving" THEN Head(up).type = "DATA" /\ Head(up).of = turn
                                      ELSE Head(up).type \in Requests
           /\ Reads(down) /\ link' = "open" => Head(down).of = Len(script)]_vars
  BY <1>1
<1> QED  BY <1>2, InvCorrect, PTL DEF Spec, NoStrayPacket

\* A cd that ends in a step, and has not been refused, has moved the server:
\* the client that believes to be there is there (but for the errno that the
\* code takes for success).
THEOREM CdMovesCorrect == Spec => CdMoves
<1>1. ASSUME Inv, Next,
             cloc = "reply", cloc' = "prompt", clean', cmd.op = "cd",
             Head(down).type \notin {"CMD_ERR", "FILE_ERR", "UNKWN_ERR"},
             ServerFiles[cmd.src].kind # "odd"
      PROVE  scwd = cmd.src
  <2>1. TypeInv /\ Clean
    BY <1>1, StaysClean DEF Inv
  <2>2. down # << >>
    BY <1>1 DEF Next, clientVars, ClientStep, Client!ServerGone, Client!Ask, Client!Exchange,
       Client!pwd_proc, Client!cd_proc, Client!dir_proc, Client!get_proc, Client!put_proc,
       Client!Request, Client!quit_proc, Client!sigint_handler, Client!Refusal, Client!Accepted,
       Client!pwd_reply, Client!cd_reply, Client!dir_reply, Client!get_reply,
       Client!put_reply, Client!FreeUnset, Client!NullPayload, Client!dir_line,
       Client!recv_file, Client!send_file, Client!Misread, Client!Hears, Client!Leave
  <2>3. Answered /\ down[1] = Head(down)
    BY <1>1, <2>1, <2>2, Talking
  <2> QED  BY <1>1, <2>3 DEF Answered, Errors
<1>2. Inv /\ [Next]_vars =>
        [/\ cloc = "reply" /\ cloc' = "prompt" /\ clean' /\ Client!cmd.op = "cd"
         /\ Head(down).type \notin {"CMD_ERR", "FILE_ERR", "UNKWN_ERR"}
         /\ ServerFiles[Client!cmd.src].kind # "odd"
         => scwd = Client!cmd.src]_vars
  BY <1>1 DEF cmd
<1> QED  BY <1>2, InvCorrect, PTL DEF Spec, CdMoves

\* A get that comes back to the prompt with no failure has the whole of the
\* server's file, block by block, at the start of the local one.
THEOREM GetDeliversCorrect == Spec => GetDelivers
<1>1. ASSUME Inv, Next, cloc = "receiving", cloc' = "prompt", clean'
      PROVE  IsPrefix(sfs[cmd.src].body, cfs'[cmd.dst].body)
  <2>1. TypeInv /\ Clean
    BY <1>1, StaysClean DEF Inv
  <2>2. Client!Refusal("receiving") \/ Client!recv_file
    BY <1>1 DEF Next, clientVars, ClientStep, Client!ServerGone, Client!Ask, Client!Exchange,
       Client!pwd_proc, Client!cd_proc, Client!dir_proc, Client!get_proc, Client!put_proc,
       Client!Request, Client!quit_proc, Client!sigint_handler, Client!Refusal, Client!Accepted,
       Client!pwd_reply, Client!cd_reply, Client!dir_reply, Client!get_reply,
       Client!put_reply, Client!FreeUnset, Client!NullPayload, Client!dir_line,
       Client!send_file, Client!Misread, Client!Hears, Client!Leave
  <2>3. ASSUME Client!Refusal("receiving") PROVE FALSE
    <3>1. down # << >> /\ Head(down).type \in Errors
      BY <2>3, SameStream DEF Client!Refusal, Client!Hears, Client!Refused
    <3>2. Answered /\ Head(down) = down[1] /\ 1 \in 1..Len(down)
      BY <1>1, <2>1, <3>1, Talking
    <3> QED  BY <1>1, <3>1, <3>2 DEF Answered, IsData, Errors
  <2>4. CASE Client!recv_file
    <3>1. down[1].code = LAST
      BY <1>1, <2>1, <2>4, ClientReceives
    <3> QED  BY <1>1, <2>1, <2>4, <3>1, ClientReceives, WritesPortion
  <2> QED  BY <2>2, <2>3, <2>4
<1>2. Inv /\ [Next]_vars =>
        [cloc = "receiving" /\ cloc' = "prompt" /\ clean' =>
           IsPrefix(sfs[Client!cmd.src].body, cfs'[Client!cmd.dst].body)]_vars
  BY <1>1 DEF cmd
<1> QED  BY <1>2, InvCorrect, PTL DEF Spec, GetDelivers

\* A put, for which the server tells the client nothing, has the whole of the
\* client's file at the start of the server's when the server is done with it,
\* although the client may have asked for the next command by then.
THEOREM PutDeliversCorrect == Spec => PutDelivers
<1>1. ASSUME Inv, Next, sloc = "receiving", sloc' = "origin", clean'
      PROVE  IsPrefix(cfs[script[turn].src].body, sfs'[script[turn].dst].body)
  <2>1. TypeInv /\ Clean
    BY <1>1, StaysClean DEF Inv
  <2>2. recv_file
    BY <1>1 DEF Next, serverVars, ServerStep, Serve, Accept, quit_proc, pwd_proc, cwd_proc,
       list_proc, retr_proc, stor_proc, list_line, send_file, unknown_type, recv_error,
       recv_file_eof, Misread, ResetArrives, ServerDies, Hears, Keeps
  <2>3. up[1].code = LAST
    BY <1>1, <2>1, <2>2, ServerReads
  <2> QED  BY <1>1, <2>1, <2>2, <2>3, ServerTakes, WritesPortion
<1>2. Inv /\ [Next]_vars =>
        [sloc = "receiving" /\ sloc' = "origin" /\ clean' =>
           IsPrefix(cfs[script[turn].src].body, sfs'[script[turn].dst].body)]_vars
  BY <1>1
<1> QED  BY <1>2, InvCorrect, PTL DEF Spec, PutDelivers
===============================================================================
