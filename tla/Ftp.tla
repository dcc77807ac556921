--------------------------------- MODULE Ftp ---------------------------------
(***************************************************************************)
(* myftpc and the session process of myftpd at the two ends of one         *)
(* connection.                                                             *)
(***************************************************************************)
EXTENDS FtpServer

CONSTANTS Commands,
          ClientFiles, ServerFiles  \* the files before the session

ASSUME CommandsAssumption ==
    Commands \subseteq [op : {"pwd", "cd", "dir", "get", "put"}, src : Names, dst : Names]
ASSUME ClientFilesAssumption == ClientFiles \in [Names -> Entries]
ASSUME ServerFilesAssumption == ServerFiles \in [Names -> Entries]

VARIABLES cloc, cpos, cfs

Client == INSTANCE FtpClient

clientVars == <<cloc, cpos, cfs>>
vars == <<stream, serverVars, clientVars>>

Init == /\ up = << >> /\ down = << >> /\ script = << >>
        /\ link = "open" /\ clean = TRUE
        /\ sfs = ServerFiles /\ cfs = ClientFiles
        /\ ServerInit /\ Client!ClientInit

ClientStep == Client!Ask \/ Client!Exchange \/ Client!Misread \/ Client!sigint_handler
ServerStep == Serve \/ recv_file_eof \/ Misread \/ ResetArrives \/ ServerDies

Next == \/ ClientStep /\ UNCHANGED serverVars
        \/ ServerStep /\ UNCHANGED clientVars
        \/ sloc = "exited" /\ Client!ServerGone /\ UNCHANGED serverVars

Spec == Init /\ [][Next]_vars

\* Both processes run, and the network delivers; the user is free to stop.
FairSpec == /\ Spec
            /\ WF_vars(Client!Exchange /\ UNCHANGED serverVars)
            /\ WF_vars(Serve /\ UNCHANGED clientVars)
            /\ WF_vars(ResetArrives /\ UNCHANGED clientVars)
-----------------------------------------------------------------------------
(* Properties *)

\* Every variable has its type.
TypeOK ==
    /\ up \in Seq(Packets) /\ Len(up) <= Window + 1
    /\ down \in Seq(Packets) /\ Len(down) <= Window + 1
    /\ link \in {"open", "closed", "answered", "reset"} /\ clean \in BOOLEAN
    /\ script \in Seq(Commands) /\ Len(script) <= MaxCommands
    /\ cloc \in {"prompt", "reply", "listing", "receiving", "sending", "lost"} \cup Client!Gone
    /\ sloc \in {"queued", "origin", "listing", "sending", "receiving", "lost", "exited"}
    /\ cpos \in Nat /\ spos \in Nat
    /\ name \in Names \cup {NoData} /\ scwd \in Names
    /\ turn \in 0..MaxCommands /\ last \in Requests \cup {"OTHER"}
    /\ cfs \in [Names -> Entries] /\ sfs \in [Names -> Entries]

\* While no step has gone wrong (clean), an idle prompt means an empty stream:
\* every packet of a command has been read by the time the client asks for
\* the next one, so that no command can take another one's answer for its own.
PromptInStep == clean /\ cloc = "prompt" => down = << >>

\* A step takes the packet at the head of q, or its header.
Reads(q) == q # << >> /\ q' \in {Tail(q), <<Fragment>> \o Tail(q)}

\* While clean, the two ends agree on the conversation: the server reads a
\* request where it waits for one, and in recv_file only the DATA of the put
\* it has agreed to; the client reads only what answers its current command.
NoStrayPacket ==
    [][clean' =>
         /\ Reads(up) =>
              IF sloc = "receiving" THEN Head(up).type = "DATA" /\ Head(up).of = turn
                                    ELSE Head(up).type \in Requests
         /\ Reads(down) /\ link' = "open" => Head(down).of = Len(script)]_vars

\* A get that ends without any failure has written the server's file at the
\* start of the local one.  (What was longer before keeps its tail.)
GetDelivers ==
    [][cloc = "receiving" /\ cloc' = "prompt" /\ clean' =>
         IsPrefix(sfs[Client!cmd.src].body, cfs'[Client!cmd.dst].body)]_vars

\* Likewise for put, at the moment the server is done with it, however far
\* the client has gone on by then.
PutDelivers ==
    [][sloc = "receiving" /\ sloc' = "origin" /\ clean' =>
         IsPrefix(cfs[script[turn].src].body, sfs'[script[turn].dst].body)]_vars

\* A cd for which the client prints no error has moved the server there.  (An
\* errno without a case of its own is the exception: line 141 of
\* myftpd_proc.c overwrites the type, and the client takes it for success.)
CdMoves ==
    [][/\ cloc = "reply" /\ cloc' = "prompt" /\ clean' /\ Client!cmd.op = "cd"
       /\ Head(down).type \notin {"CMD_ERR", "FILE_ERR", "UNKWN_ERR"}
       /\ ServerFiles[Client!cmd.src].kind # "odd"
       => scwd = Client!cmd.src]_vars

\* Every command comes back to the prompt, or something went wrong.
CommandsEnd ==
    cloc \in {"reply", "listing", "receiving", "sending"}
        ~> ~clean \/ cloc = "prompt" \/ cloc \in Client!Gone

\* A session whose client is gone ends, although recv never reports that to
\* it: it carries out its last command again until the answer to an answer
\* kills it.  (Without any command before, it may print "unknown type" for
\* ever; inside recv_file it depends on what malloc returns.)
SessionEnds ==
    link # "open" /\ up = << >> /\ sloc = "origin" /\ last \in Requests ~> sloc = "exited"

\* "pwd prints the full path of the current working directory of the server"
\* (help, myftpc_proc.c:342).
PwdPrintsCwd ==
    [][cloc = "reply" /\ cloc' = "prompt" /\ Client!cmd.op = "pwd"
       /\ Head(down).type \notin Errors /\ Head(down).data # NoData
       /\ down' = Tail(down)
       => Head(down).data = scwd]_vars
=============================================================================
