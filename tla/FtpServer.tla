------------------------------ MODULE FtpServer ------------------------------
(***************************************************************************)
(* One session of the file server: the process that myftpd.c forks for a   *)
(* connection, running origin_proc of myftpd_proc.c.                       *)
(*                                                                         *)
(*  sloc   "queued": connected, not yet accepted; "origin": in the recv of *)
(*         origin_proc; "listing", "sending", "receiving" inside LIST,     *)
(*         RETR and STOR; "exited"; "lost": reads payload as a header, or  *)
(*         has overrun its array of lines, and may do anything             *)
(*  spos   the line or block it is at                                      *)
(*  name   the path of the command in hand                                 *)
(*  turn   history: the stamp of that command                              *)
(*  last   the type in origin_proc's header buffer, which recv leaves      *)
(*         alone when the client is gone (0 bytes): origin_proc then       *)
(*         carries the command out again, with an empty path               *)
(*  scwd   its working directory                                           *)
(*  sfs    the server's files                                              *)
(***************************************************************************)
EXTENDS FtpStream

CONSTANTS
    Home,     \* the listener's working directory
    Files,    \* directory -> number of its entries
    FILE_NUM  \* lines print_files has room for

ASSUME HomeAssumption == Home \in Names
ASSUME FilesAssumption == Files \in [Names -> Nat]
ASSUME FileNumAssumption == FILE_NUM \in Nat

VARIABLES sloc, spos, name, turn, last, scwd, sfs

serverVars == <<sloc, spos, name, turn, last, scwd, sfs>>

\* The header buffer is malloc's: before the first command it holds anything.
ServerInit == /\ sloc = "queued" /\ spos = 0 /\ name = NoData /\ turn = 0
              /\ last \in Requests \cup {"OTHER"}
              /\ scwd = Home
-----------------------------------------------------------------------------
(* Sending and receiving *)

\* Fault: a failing send is ignored.
Send_Ignore(t, c, d, next) ==
    /\ sloc' = next
    /\ IF link = "open" THEN /\ Len(down) < Window
                             /\ down' = Append(down, Packet(t, c, d, turn'))
                             /\ UNCHANGED link
                        ELSE UNCHANGED <<down, link>>

\* send_header_packet, then on to next.  A first packet to a closed socket is
\* accepted; after the RST, SIGPIPE or exit(1) ends the process.
Send(t, c, d, next) ==
    \/ /\ link = "open" /\ Len(down) < Window
       /\ down' = Append(down, Packet(t, c, d, turn'))
       /\ sloc' = next /\ UNCHANGED link
    \/ /\ link \in {"closed", "answered"}
       /\ sloc' = next /\ link' = "answered" /\ UNCHANGED down
    \/ /\ link = "reset"
       /\ sloc' = "exited" /\ UNCHANGED <<down, link>>

AtEOF == up = << >> /\ link \in {"closed", "answered"}

\* The recv of origin_proc, and the one of the command's procedure: type t
\* with payload d.
Hears(t, d) ==
    /\ sloc = "origin" /\ last' = t
    /\ \/ /\ up # << >> /\ Head(up).type = t
          /\ \E x \in Take(up) : d = x.data /\ up' = x.rest
          /\ turn' = Head(up).of
       \/ AtEOF /\ last = t /\ d = NoData /\ UNCHANGED <<up, turn>>

\* The entry a payload names; the empty path names none.
Entry(d) == IF d = NoData THEN [kind |-> "none", body |-> << >>] ELSE sfs[d]
-----------------------------------------------------------------------------
(* The procedures of type_tbl *)

\* main of myftpd.c: accept, fork, daemon.
Accept == sloc = "queued" /\ sloc' = "origin"
          /\ UNCHANGED <<stream, spos, name, turn, last, scwd, sfs>>

quit_proc == /\ Hears("QUIT", NoData)
             /\ sloc' = "exited"
             /\ UNCHANGED <<down, link, script, clean, spos, name, scwd, sfs>>

pwd_proc == /\ Hears("PWD", NoData)
            /\ Send("OK", 0, scwd, "origin")
            /\ UNCHANGED <<script, clean, spos, name, scwd, sfs>>

\* Fault: a failing chdir is answered with OK.
cwd_proc_Always == \E d \in Names \cup {NoData} :
    /\ Hears("CWD", d) /\ Keeps(d # Cut)
    /\ Send("OK", 0, NoData, "origin")
    /\ scwd' = IF Entry(d).kind = "dir" THEN d ELSE scwd
    /\ UNCHANGED <<script, spos, name, sfs>>

\* Fault: the working directory is noted before chdir has said yes.
cwd_proc_Unchecked == \E d \in Names \cup {NoData} :
    /\ Hears("CWD", d) /\ Keeps(d # Cut)
    /\ Send("OK", 0, NoData, "origin")
    /\ scwd' = d
    /\ UNCHANGED <<script, spos, name, sfs>>

\* chdir, and the reply to each errno; the last one stores UNKWN in type and
\* nothing in code.
cwd_proc == \E d \in Names \cup {NoData} :
    /\ Hears("CWD", d) /\ Keeps(d # Cut)
    /\ \/ Entry(d).kind = "dir"    /\ Send("OK", 0, NoData, "origin")
       \/ Entry(d).kind = "none"   /\ Send("FILE_ERR", 0, NoData, "origin")
       \/ Entry(d).kind = "denied" /\ Send("FILE_ERR", 1, NoData, "origin")
       \/ Entry(d).kind = "file"   /\ Send("CMD_ERR", 1, NoData, "origin")
       \/ Entry(d).kind = "odd"    /\ \E c \in {LAST, MIDDLE} : Send("RETR", c, NoData, "origin")
    /\ scwd' = IF Entry(d).kind = "dir" THEN d ELSE scwd
    /\ UNCHANGED <<script, spos, name, sfs>>

\* print_files: the number of lines for path d; a file has one.
print_files(d) == IF Entry(d).kind = "dir" THEN Files[d] ELSE 1

\* The reply of LIST.  Every errno but EACCES is sent as NOT_FOUND, because
\* errno is assigned in the test (line 170).  A directory without any entry
\* (one removed while it is in use) gets an OK that no line follows.
list_proc == \E d \in Names \cup {NoData} :
    /\ Hears("LIST", d)
    /\ name' = d /\ spos' = 1
    /\ \/ /\ Entry(d).kind \in {"none", "odd"}
          /\ Send("FILE_ERR", 0, NoData, "origin") /\ Keeps(d # Cut)
       \/ /\ Entry(d).kind = "denied"
          /\ Send("FILE_ERR", 1, NoData, "origin") /\ Keeps(d # Cut)
       \/ /\ Entry(d).kind \in {"dir", "file"} /\ print_files(d) \in 1..FILE_NUM
          /\ Send("OK", 1, NoData, "listing") /\ Keeps(d # Cut)
       \/ /\ Entry(d).kind = "dir" /\ print_files(d) = 0
          /\ Send("OK", 1, NoData, "origin") /\ Keeps(FALSE)
       \/ /\ Entry(d).kind = "dir" /\ print_files(d) > FILE_NUM
          /\ sloc' = "lost" /\ Keeps(FALSE) /\ UNCHANGED <<down, link>>
    /\ UNCHANGED <<script, scwd, sfs>>

\* Fault: every line is marked as the last one.
list_line_AllLast ==
    /\ sloc = "listing" /\ turn' = turn
    /\ LET end == spos = print_files(name)
       IN  /\ Send("DATA", LAST, name, IF end THEN "origin" ELSE "listing")
           /\ spos' = IF end THEN 0 ELSE spos + 1
    /\ UNCHANGED <<up, script, clean, name, last, scwd, sfs>>

\* One line of the listing.
list_line ==
    /\ sloc = "listing" /\ turn' = turn
    /\ LET end == spos = print_files(name)
       IN  /\ Send("DATA", IF end THEN LAST ELSE MIDDLE, name,
                   IF end THEN "origin" ELSE "listing")
           /\ spos' = IF end THEN 0 ELSE spos + 1
    /\ UNCHANGED <<up, script, clean, name, last, scwd, sfs>>

\* open(O_RDONLY), and the reply to each errno.
retr_proc == \E d \in Names \cup {NoData} :
    /\ Hears("RETR", d) /\ Keeps(d # Cut)
    /\ name' = d /\ spos' = 1
    /\ \/ Opens(Entry(d))          /\ Send("OK", 1, NoData, "sending")
       \/ Entry(d).kind = "none"   /\ Send("FILE_ERR", 0, NoData, "origin")
       \/ Entry(d).kind = "denied" /\ Send("FILE_ERR", 1, NoData, "origin")
       \/ Entry(d).kind = "odd"    /\ Send("UNKWN_ERR", 5, NoData, "origin")
    /\ UNCHANGED <<script, scwd, sfs>>

\* One packet of send_file.  It just returns when a read fails, the first one or
\* one after some packets: always for a directory, and possibly for a file.
send_file ==
    /\ sloc = "sending" /\ turn' = turn
    /\ \/ /\ Readable(Entry(name))
          /\ LET p == Portion(Entry(name).body, spos)
             IN  /\ Send("DATA", p.code, p.data, IF p.code = LAST THEN "origin" ELSE "sending")
                 /\ spos' = IF p.code = LAST THEN 0 ELSE spos + 1
          /\ UNCHANGED clean
       \/ sloc' = "origin" /\ spos' = 0 /\ Keeps(FALSE) /\ UNCHANGED <<down, link>>
    /\ UNCHANGED <<up, script, name, last, scwd, sfs>>

\* open(O_WRONLY | O_CREAT), and the reply to each errno.
stor_proc == \E d \in Names \cup {NoData} :
    LET ok == d # NoData /\ Creates(Entry(d))
    IN  /\ Hears("STOR", d) /\ Keeps(d # Cut)
        /\ name' = d /\ spos' = 1
        /\ sfs' = IF ok THEN [sfs EXCEPT ![d] = Created(@)] ELSE sfs
        /\ \/ ok                                 /\ Send("OK", 2, NoData, "receiving")
           \/ ~ok /\ Entry(d).kind = "none"      /\ Send("FILE_ERR", 0, NoData, "origin")
           \/ Entry(d).kind = "denied"           /\ Send("FILE_ERR", 1, NoData, "origin")
           \/ Entry(d).kind = "dir"              /\ Send("CMD_ERR", 1, NoData, "origin")
           \/ Entry(d).kind = "odd"              /\ Send("UNKWN_ERR", 5, NoData, "origin")
        /\ UNCHANGED <<script, scwd>>

Back == sloc' = "origin" /\ spos' = 0

\* One packet of recv_file, whatever its type is; a write that fails ends it
\* at once.
recv_file ==
    /\ sloc = "receiving" /\ up # << >> /\ Head(up).type # "FRAGMENT"
    /\ \E x \in Take(up) :
         /\ up' = x.rest
         /\ \/ /\ Keeps(x.data # Cut)
               /\ sfs' = [sfs EXCEPT ![name] = Written(@, spos, x.data)]
               /\ IF Head(up).code = LAST THEN Back
                  ELSE spos' = After(spos, x.data) /\ UNCHANGED sloc
            \/ /\ x.data # NoData
               /\ Keeps(FALSE)
               /\ Back /\ UNCHANGED sfs
    /\ UNCHANGED <<down, link, script, name, turn, last, scwd>>

\* recv_file when the client is gone: it takes whatever malloc left in its
\* buffers for packets, until one of them ends it.
recv_file_eof ==
    /\ sloc = "receiving" /\ AtEOF
    /\ \/ UNCHANGED sfs
       \/ sfs' = [sfs EXCEPT ![name] = Written(@, spos, Cut)]
    /\ Back /\ Keeps(FALSE)
    /\ UNCHANGED <<up, down, link, script, name, turn, last, scwd>>

\* A type that is not in type_tbl: a message on the server, and its payload is
\* read as the next header.
unknown_type ==
    /\ sloc = "origin" /\ up # << >> /\ Head(up).type \notin Requests \cup {"FRAGMENT"}
    /\ last' = "OTHER" /\ turn' = Head(up).of
    /\ up' = IF Head(up).data = NoData THEN Tail(up) ELSE <<Fragment>> \o Tail(up)
    /\ UNCHANGED <<down, link, script, clean, sloc, spos, name, scwd, sfs>>

\* A header that was not read whole, or a Fragment taken for one.
Misread == /\ sloc \in {"origin", "receiving"} /\ up # << >>
           /\ sloc' = "lost" /\ Keeps(FALSE)
           /\ UNCHANGED <<up, down, link, script, spos, name, turn, last, scwd, sfs>>

\* recv fails after the RST.
recv_error == /\ sloc \in {"origin", "receiving"} /\ up = << >> /\ link = "reset"
              /\ sloc' = "exited"
              /\ UNCHANGED <<stream, spos, name, turn, last, scwd, sfs>>

ResetArrives == /\ link = "answered" /\ link' = "reset"
                /\ UNCHANGED <<up, down, script, clean, serverVars>>

\* accept, fork, getcwd or malloc fails, or the process is killed.
ServerDies == /\ sloc # "exited"
              /\ sloc' = "exited" /\ Keeps(link # "open")
              /\ UNCHANGED <<up, down, link, script, spos, name, turn, last, scwd, sfs>>

\* The fair part: what the session does whenever it can.
Serve == \/ Accept
         \/ quit_proc \/ pwd_proc \/ cwd_proc \/ list_proc \/ retr_proc \/ stor_proc
         \/ list_line \/ send_file \/ recv_file \/ unknown_type \/ recv_error
=============================================================================
