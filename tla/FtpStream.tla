------------------------------ MODULE FtpStream ------------------------------
(***************************************************************************)
(* The packets of myftp (struct myftph, header.h) and the TCP connection   *)
(* that carries them: one FIFO of packets each way.                        *)
(*                                                                         *)
(* A packet's data is one value (a path, a block of a file, a line of a    *)
(* listing), or NoData when its length is 0.  recv returns what has        *)
(* arrived, which may be less than was asked for: the reader then has the  *)
(* value Cut, and the rest of the packet stays in front as a Fragment.     *)
(* Paths are absolute, so that a name means the same file all the time.    *)
(*                                                                         *)
(*  up, down  client to server, server to client                           *)
(*  link      "open"; "closed" by the client; "answered": a packet met the *)
(*            closed socket and the RST is on its way; "reset": it is here,  *)
(*            and what the server does next on the socket fails              *)
(*  script    history: the commands given so far; the packets sent while   *)
(*            the n-th is executed are stamped n (field "of")              *)
(*  clean     history: no read was short or failed, no local open or write *)
(*            failed in mid-command, no side was gone                      *)
(***************************************************************************)
EXTENDS Integers, Sequences, SequencesExt

CONSTANTS
    Names,       \* paths
    Blocks,      \* contents of one block of BUF_SIZE bytes
    Cut,         \* what a shortened path, block or line reads as
    NoData,      \* no payload
    Window,      \* packets a direction of the connection holds
    MaxCommands  \* bound on the length of script

ASSUME CutAssumption == Cut \in Names /\ Cut \in Blocks
ASSUME NoDataAssumption == NoData \notin Names \cup Blocks
ASSUME WindowAssumption == Window \in Nat \ {0}
ASSUME MaxCommandsAssumption == MaxCommands \in Nat

VARIABLES up, down, link, script, clean

stream == <<up, down, link, script, clean>>

\* Types keep their names, codes their numbers, because recv_file compares
\* the code of any packet with LAST.  UNKWN as a type is 5, i.e. RETR.
Requests == {"QUIT", "PWD", "CWD", "LIST", "RETR", "STOR"}
Types    == Requests \cup {"OK", "CMD_ERR", "FILE_ERR", "UNKWN_ERR", "DATA", "FRAGMENT"}

LAST   == 0
MIDDLE == 1

Payloads == Names \cup Blocks \cup {NoData}
Packets  == [type : Types, code : 0..5, data : Payloads, of : 0..MaxCommands]

Packet(t, c, d, n) == [type |-> t, code |-> c, data |-> d, of |-> n]
Fragment == Packet("FRAGMENT", 0, NoData, 0)

\* Fault: an unknown error is not taken for one.
Errors_Known == {"CMD_ERR", "FILE_ERR"}

\* The types for which recv_header_packet prints a message and returns -1.
Errors == {"CMD_ERR", "FILE_ERR", "UNKWN_ERR"}

\* What recv can make of the packet at the head of q: its payload and the
\* stream behind it.
Take(q) == {[data |-> Head(q).data, rest |-> Tail(q)]} \cup
           (IF Head(q).data = NoData THEN {}
            ELSE {[data |-> Cut, rest |-> <<Fragment>> \o Tail(q)]})

\* The step was as it should be only if ok.
Keeps(ok) == clean' = (clean /\ ok)

(***************************************************************************)
(* Files.  An entry of a file system is what open, chdir and stat find     *)
(* under a path; a file's body is its sequence of blocks.                  *)
(***************************************************************************)
Kinds   == {"file", "dir", "none", "denied", "odd"}
Entries == [kind : Kinds, body : Seq(Names \cup Blocks)]

\* open(O_RDONLY) succeeds, also for a directory, whose read fails.
Opens(e)    == e.kind \in {"file", "dir"}
Readable(e) == e.kind = "file"
\* open(O_WRONLY | O_CREAT) succeeds.
Creates(e)  == e.kind \in {"file", "none"}

Created(e) == [e EXCEPT !.kind = "file"]

\* Fault: the file is opened with O_APPEND.
Written_Append(e, i, b) == [e EXCEPT !.body = Append(@, b)]

\* Where a payload leaves the offset of a file that was at block i.
After(i, b) == IF b = NoData THEN i ELSE i + 1

\* write at block i; nothing truncates a file that was longer.
Written(e, i, b) ==
    IF b = NoData THEN e
    ELSE [e EXCEPT !.body = [k \in 1..(IF i > Len(@) THEN i ELSE Len(@)) |->
                                IF k = i THEN b ELSE @[k]]]

\* Faults: the last packet is one too early; buf1 keeps its first block.
Portion_Early(body, i)  == [code |-> IF i >= Len(body) - 1 THEN LAST ELSE MIDDLE,
                            data |-> IF body = << >> THEN NoData ELSE body[i]]
Portion_Stuck(body, i)  == [code |-> IF i >= Len(body) THEN LAST ELSE MIDDLE,
                            data |-> IF body = << >> THEN NoData ELSE body[1]]

\* send_file reads one block ahead: the i-th packet is the last one iff the
\* read after it returns 0.  An empty file is one empty packet.
Portion(body, i) == [code |-> IF i >= Len(body) THEN LAST ELSE MIDDLE,
                     data |-> IF body = << >> THEN NoData ELSE body[i]]
=============================================================================
