------------------------------ MODULE FtpClient ------------------------------
(***************************************************************************)
(* The file transfer client, myftpc.c and myftpc_proc.c: it reads a        *)
(* command, sends the request and takes part in the exchange until it is   *)
(* back at the prompt.                                                     *)
(*                                                                         *)
(*  cloc  "prompt"; "reply": in the first recv_header_packet; "listing";   *)
(*        "receiving": recv_file; "sending": send_file; "exited";          *)
(*        "crashed": a payload arrived where pdata is NULL; "lost": it     *)
(*        reads a header that is not one, or that recv never filled in,    *)
(*        and may do anything from then on                                 *)
(*  cpos  the block recv_file or send_file is at                           *)
(*  cfs   the client's files                                               *)
(*                                                                         *)
(* lpwd, lcd, ldir and help do not touch the connection.                   *)
(***************************************************************************)
EXTENDS FtpStream

CONSTANT Commands  \* the command lines with the right number of arguments

VARIABLES cloc, cpos, cfs

clientVars == <<cloc, cpos, cfs>>

Gone == {"exited", "crashed"}

cmd == script[Len(script)]

ClientInit == cloc = "prompt" /\ cpos = 0
-----------------------------------------------------------------------------
(* From the prompt to the request *)

\* The request for command c.
Request(c, t, d) == /\ cloc = "prompt" /\ c \in Commands
                    /\ Len(script) < MaxCommands /\ Len(up) < Window
                    /\ script' = Append(script, c)
                    /\ up' = Append(up, Packet(t, 0, d, Len(script) + 1))
                    /\ cloc' = "reply"
                    /\ UNCHANGED <<down, link, clean, cpos, cfs>>

pwd_proc(c) == c.op = "pwd" /\ Request(c, "PWD", NoData)
cd_proc(c)  == c.op = "cd"  /\ Request(c, "CWD", c.src)
dir_proc(c) == c.op = "dir" /\ Request(c, "LIST", c.src)
get_proc(c) == c.op = "get" /\ Request(c, "RETR", c.src)
\* put opens its local file first; if it cannot, nothing is sent.
put_proc(c) == c.op = "put" /\ Opens(cfs[c.src]) /\ Request(c, "STOR", c.dst)

\* The client's end is closed: what it has not read is lost, and answered by
\* an RST.
Leave(l) == /\ cloc' = l /\ cpos' = 0
            /\ link' = IF down = << >> THEN "closed" ELSE "answered"
            /\ down' = << >>
            /\ UNCHANGED cfs

quit_proc == /\ cloc = "prompt" /\ Len(up) < Window
             /\ up' = Append(up, Packet("QUIT", 0, NoData, Len(script)))
             /\ Leave("exited")
             /\ UNCHANGED <<script, clean>>

\* SIGINT at any moment: sigint_handler closes the socket and exits.
sigint_handler == /\ cloc \notin Gone
                  /\ Leave("exited")
                  /\ UNCHANGED <<up, script, clean>>
-----------------------------------------------------------------------------
(* recv_header_packet *)

Hears(l) == cloc = l /\ down # << >> /\ Head(down).type # "FRAGMENT"
Refused  == Head(down).type \in Errors

To(l) == cloc' = l /\ cpos' = 0

\* Fault: put does not look at the answer.
Refusal_Ignored(l) == /\ Hears(l) /\ Refused
                      /\ down' = Tail(down)
                      /\ IF l = "reply" /\ cmd.op = "put"
                         THEN cloc' = "sending" /\ cpos' = 1
                         ELSE To("prompt")
                      /\ UNCHANGED <<up, link, script, clean, cfs>>

\* An error: its message is printed, and the command is over.
Refusal(l) == /\ Hears(l) /\ Refused
              /\ down' = Tail(down)
              /\ To("prompt")
              /\ UNCHANGED <<up, link, script, clean, cfs>>

\* pwd and dir end by freeing a pointer that only a payload sets.
FreeUnset == /\ \/ Hears("reply") /\ cmd.op = "pwd"
                \/ /\ Hears("listing") /\ cpos = 0
                   /\ Refused \/ Head(down).code = LAST
             /\ Head(down).data = NoData
             /\ Leave("crashed")
             /\ UNCHANGED <<up, script, clean>>

\* pwd prints whatever the payload is.
pwd_reply == /\ Hears("reply") /\ cmd.op = "pwd" /\ ~Refused
             /\ \E t \in Take(down) : down' = t.rest /\ Keeps(t.data # Cut)
             /\ To("prompt")
             /\ UNCHANGED <<up, link, script, cfs>>

\* cd, dir, get and put pass a NULL pdata: a payload is written through it.
NullPayload == /\ Hears("reply") /\ cmd.op # "pwd" /\ ~Refused
               /\ Head(down).data # NoData
               /\ Leave("crashed")
               /\ UNCHANGED <<up, script, clean>>

Accepted(op) == /\ Hears("reply") /\ cmd.op = op /\ ~Refused
                /\ Head(down).data = NoData
                /\ down' = Tail(down)

cd_reply == /\ Accepted("cd")
            /\ To("prompt")
            /\ UNCHANGED <<up, link, script, clean, cfs>>

dir_reply == /\ Accepted("dir")
             /\ To("listing")
             /\ UNCHANGED <<up, link, script, clean, cfs>>

\* get opens its local file only after the server has agreed; when that fails
\* it leaves, and the server sends all the same.
get_reply == /\ Accepted("get")
             /\ IF Creates(cfs[cmd.dst])
                THEN /\ cloc' = "receiving" /\ cpos' = 1
                     /\ cfs' = [cfs EXCEPT ![cmd.dst] = Created(@)]
                     /\ UNCHANGED clean
                ELSE To("prompt") /\ Keeps(FALSE) /\ UNCHANGED cfs
             /\ UNCHANGED <<up, link, script>>

put_reply == /\ Accepted("put")
             /\ cloc' = "sending" /\ cpos' = 1
             /\ UNCHANGED <<up, link, script, clean, cfs>>
-----------------------------------------------------------------------------
(* Listings and files *)

\* One line of a listing; cpos is 1 once a payload has come.
dir_line == /\ Hears("listing") /\ ~Refused
            /\ \E t \in Take(down) :
                 /\ down' = t.rest /\ Keeps(t.data # Cut)
                 /\ IF Head(down).code = LAST THEN To("prompt")
                    ELSE cpos' = (IF t.data = NoData THEN cpos ELSE 1) /\ UNCHANGED cloc
            /\ UNCHANGED <<up, link, script, cfs>>

\* One packet of recv_file; a write that fails ends it at once.
recv_file == /\ Hears("receiving") /\ ~Refused
             /\ \E t \in Take(down) :
                  /\ down' = t.rest
                  /\ \/ /\ Keeps(t.data # Cut)
                        /\ cfs' = [cfs EXCEPT ![cmd.dst] = Written(@, cpos, t.data)]
                        /\ IF Head(down).code = LAST THEN To("prompt")
                           ELSE cpos' = After(cpos, t.data) /\ UNCHANGED cloc
                     \/ /\ t.data # NoData
                        /\ Keeps(FALSE)
                        /\ To("prompt") /\ UNCHANGED cfs
             /\ UNCHANGED <<up, link, script>>

\* One packet of send_file.  It just returns when a read fails, the first one or
\* one after some packets: always for a directory, and possibly for a file.
send_file == /\ cloc = "sending"
             /\ \/ /\ Readable(cfs[cmd.src]) /\ Len(up) < Window
                   /\ LET p == Portion(cfs[cmd.src].body, cpos)
                      IN  /\ up' = Append(up, Packet("DATA", p.code, p.data, Len(script)))
                          /\ IF p.code = LAST THEN To("prompt")
                             ELSE cpos' = cpos + 1 /\ UNCHANGED cloc
                   /\ UNCHANGED clean
                \/ To("prompt") /\ Keeps(FALSE) /\ UNCHANGED up
             /\ UNCHANGED <<down, link, script, cfs>>

\* A header that was not read whole, or a Fragment taken for one.
Misread == /\ cloc \in {"reply", "listing", "receiving"} /\ down # << >>
           /\ Keeps(FALSE)
           /\ cloc' = "lost" /\ cpos' = 0
           /\ UNCHANGED <<up, down, link, script, cfs>>

\* The server is gone: recv fails, or returns 0 and leaves the header as malloc
\* found it; send ends in SIGPIPE.
ServerGone == /\ Keeps(FALSE)
              /\ \/ /\ cloc \in {"reply", "listing", "receiving"} /\ down = << >>
                    /\ cloc' = "lost" /\ cpos' = 0
                    /\ UNCHANGED <<down, link, cfs>>
                 \/ /\ \/ cloc \in {"reply", "listing", "receiving"} /\ down = << >>
                       \/ cloc = "sending"
                    /\ Leave("exited")
              /\ UNCHANGED <<up, script>>

\* The fair part: what the client does whenever it can.
Exchange == \/ \E l \in {"reply", "listing", "receiving"} : Refusal(l)
            \/ pwd_reply \/ cd_reply \/ dir_reply \/ get_reply \/ put_reply
            \/ FreeUnset \/ NullPayload \/ dir_line \/ recv_file \/ send_file

Ask == \/ quit_proc
       \/ \E c \in Commands : \/ pwd_proc(c) \/ cd_proc(c) \/ dir_proc(c)
                              \/ get_proc(c) \/ put_proc(c)
=============================================================================
