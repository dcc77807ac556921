-------------------------------- MODULE Shell --------------------------------
(***************************************************************************)
(* myshell: the main loop of main.c, origin_proc and exe_proc of proc.c,   *)
(* the processes they start, and what the kernel keeps for them: pipes,    *)
(* zombies, SIGCHLD and the terminal's foreground process group.           *)
(*                                                                         *)
(*  loc     "reading": gettoken; "checking": the loop that looks for       *)
(*          blanks; "running": the loop over the commands, at cmd_pos;     *)
(*          "command": origin_proc; "bg": exe_proc has forked a background *)
(*          process and not yet set SIGCHLD;                               *)
(*          "waiting": in or just before wait; "stopped" by SIGTTIN;       *)
(*          "exited"                                                       *)
(*  buf     what stdio has read of a typed line and not yet handed out     *)
(*  typed   lines typed so far                                             *)
(*  line    the words and tokens of the current line                       *)
(*  cmd_pos, is_after_pipe, is_continue   as in the code                   *)
(*  pfd_before, pfd_after   the pipe behind this command and the one in    *)
(*          front of it (pfds[pfd_pos] and pfds[pfd_pos - 1])              *)
(*  held    pipes of which the shell has both ends open                    *)
(*  pipes   pipes made so far                                              *)
(*  ttys    descriptors of /dev/tty, which exe_proc opens and never closes *)
(*  kids    the child processes, oldest first, as they were forked         *)
(*  state   of each: "forked", "running" (after execve), "done" and        *)
(*          "failed" (a zombie with status 0 or not), "reaped"             *)
(*  first   length of kids when this line began                            *)
(*  base    history: pipes when this line began                            *)
(*  tty     the foreground group: 0 for the shell's, or that of a kid      *)
(*  bg_handler, chld   whether SIGCHLD is caught, and whether it is pending *)
(*                                                                         *)
(* A stop (Ctrl-Z) and programs that read the terminal are left out.       *)
(***************************************************************************)
EXTENDS ShellParse

CONSTANTS
    Lines,    \* the lines a user may type
    Big,      \* programs whose output does not fit a pipe
    CMD_NUM,  \* room for words in a line
    OpenMax,  \* file descriptors a process may have, beyond 0, 1 and 2
    MaxLines  \* bound on typed

ASSUME LinesAssumption ==
    \A l \in Lines : l \in Seq([word : STRING, token : Tokens])
ASSUME BigAssumption == \A w \in Big : w \in STRING
ASSUME CmdNumAssumption  == CMD_NUM \in Nat \ {0}
ASSUME OpenMaxAssumption == OpenMax \in Nat
ASSUME MaxLinesAssumption == MaxLines \in Nat

VARIABLES loc, buf, typed, line, cmd_pos, is_after_pipe, is_continue,
          pfd_before, pfd_after, held, pipes, ttys, kids, state, first, base, tty,
          bg_handler, chld

inputVars == <<buf, typed>>
lineVars  == <<line, cmd_pos, is_after_pipe, pfd_before, pfd_after, first, base>>
fdVars    == <<held, pipes, ttys>>
kidVars   == <<kids, state>>
signalVars == <<bg_handler, chld, is_continue>>
vars == <<loc, inputVars, lineVars, fdVars, kidVars, tty, signalVars>>

Init == /\ loc = "reading" /\ buf = << >> /\ typed = 0
        /\ line = << >> /\ cmd_pos = 1 /\ is_after_pipe = FALSE
        /\ pfd_before = 0 /\ pfd_after = 0
        /\ first = 0 /\ base = 0 /\ held = {} /\ pipes = 0 /\ ttys = 0
        /\ kids = << >> /\ state = << >> /\ tty = 0
        /\ bg_handler = FALSE /\ chld = FALSE /\ is_continue = FALSE

\* File descriptors in use, and whether n more fit.
Room(n) == 2 * Cardinality(held) + ttys + n <= OpenMax

Alive(i)  == state[i] \in {"forked", "running"}
Unreaped  == {i \in DOMAIN state : state[i] # "reaped"}
Zombies   == {i \in DOMAIN state : state[i] \in {"done", "failed"}}

Becomes(i, st) == state' = [state EXCEPT ![i] = st]
-----------------------------------------------------------------------------
(* main: reading a line *)

\* The top of the loop.
Prompt == /\ loc' = "reading" /\ line' = << >> /\ is_continue' = FALSE
          /\ cmd_pos' = 1 /\ is_after_pipe' = FALSE /\ pfd_before' = 0 /\ pfd_after' = 0
          /\ first' = Len(kids) /\ base' = pipes

Type == /\ loc = "reading" /\ buf = << >> /\ tty = 0 /\ typed < MaxLines
        /\ \E l \in Lines : buf' = l
        /\ typed' = typed + 1
        /\ UNCHANGED <<loc, lineVars, fdVars, kidVars, tty, signalVars>>

\* Fault: the room for words is not checked.
gettoken_NoLimit ==
    /\ loc = "reading" /\ buf # << >>
    /\ buf' = Tail(buf)
    /\ line' = Append(line, Head(buf))
    /\ loc' = IF Head(buf).token = "EOL" THEN "checking" ELSE loc
    /\ UNCHANGED <<cmd_pos, is_after_pipe, pfd_before, pfd_after, first, base, is_continue>>
    /\ UNCHANGED <<typed, fdVars, kidVars, tty, bg_handler, chld>>

\* One gettoken.  A signal caught meanwhile throws away what was read so far,
\* but not what is left in the buffer.  The end of the input goes on for ever.
gettoken ==
    /\ loc = "reading" /\ buf # << >> /\ Len(line) < CMD_NUM
    /\ buf' = IF Head(buf).token = "EOF" THEN buf ELSE Tail(buf)
    /\ IF is_continue THEN Prompt
       ELSE /\ line' = Append(line, Head(buf))
            /\ loc' = IF Head(buf).token = "EOL" THEN "checking" ELSE loc
            /\ UNCHANGED <<cmd_pos, is_after_pipe, pfd_before, pfd_after, first, base, is_continue>>
    /\ UNCHANGED <<typed, fdVars, kidVars, tty, bg_handler, chld>>

\* "Too many commands"; the end of the input ends here, too.
TooMany == /\ loc = "reading" /\ Len(line) = CMD_NUM
           /\ loc' = "exited"
           /\ UNCHANGED <<inputVars, lineVars, fdVars, kidVars, tty, signalVars>>

\* A caught signal ends the read that getc waits in (or, depending on flags
\* that sigaction is given unset, does not).
Interrupted == /\ loc = "reading" /\ buf = << >> /\ is_continue
               /\ Prompt
               /\ UNCHANGED <<inputVars, fdVars, kidVars, tty, bg_handler, chld>>

\* The shell reads while another group has the terminal: SIGTTIN stops it.
Stopped == /\ loc = "reading" /\ buf = << >> /\ tty # 0
           /\ loc' = "stopped"
           /\ UNCHANGED <<inputVars, lineVars, fdVars, kidVars, tty, signalVars>>

\* "syntax error", for a blank word or because of a signal in this very loop.
Check == /\ loc = "checking"
         /\ IF is_continue \/ HasBlank(line) THEN Prompt
            ELSE loc' = "running" /\ UNCHANGED <<lineVars, is_continue>>
         /\ UNCHANGED <<inputVars, fdVars, kidVars, tty, bg_handler, chld>>
-----------------------------------------------------------------------------
(* main: the loop over the commands *)

token == line[End(line, cmd_pos)].token
cmd   == line[cmd_pos].word

\* Fault: pfd_pos moves on as in the lines that are commented out (155-158),
\* only behind a command that has read a pipe.
Advance_Shift == /\ loc' = "running"
                 /\ cmd_pos' = End(line, cmd_pos) + 1
                 /\ is_after_pipe' = (token = "PIPE")
                 /\ pfd_after' = IF is_after_pipe THEN pfd_before ELSE pfd_after
                 /\ UNCHANGED <<line, pfd_before, first, base, is_continue>>

\* origin_proc has returned 0.
Advance == /\ loc' = "running"
           /\ cmd_pos' = End(line, cmd_pos) + 1
           /\ is_after_pipe' = (token = "PIPE")
           /\ pfd_after' = IF token = "PIPE" THEN pfd_before ELSE pfd_after
           /\ UNCHANGED <<line, pfd_before, first, base, is_continue>>

\* The next command: its pipe is made, if a "|" follows.  If pipe() fails or
\* no command is left, the loop ends.
NextCommand ==
    /\ loc = "running"
    /\ IF cmd_pos > Len(line) \/ (token = "PIPE" /\ ~Room(2))
       THEN Prompt /\ UNCHANGED <<pipes, held>>
       ELSE /\ loc' = "command"
            /\ IF token = "PIPE" THEN /\ pipes' = pipes + 1
                                      /\ pfd_before' = pipes + 1
                                      /\ held' = held \cup {pipes + 1}
                                 ELSE UNCHANGED <<pipes, pfd_before, held>>
            /\ UNCHANGED <<line, cmd_pos, is_after_pipe, pfd_after, first, base, is_continue>>
    /\ UNCHANGED <<inputVars, ttys, kidVars, tty, bg_handler, chld>>

\* An empty word does nothing; cd and pwd may fail, which ends the line.
builtin_proc == /\ loc = "command" /\ cmd \in {"", "cd", "pwd"}
                /\ \/ Advance
                   \/ cmd # "" /\ Prompt
                /\ UNCHANGED <<inputVars, fdVars, kidVars, tty, bg_handler, chld>>

exit_proc == /\ loc = "command" /\ cmd = "exit"
             /\ loc' = "exited"
             /\ UNCHANGED <<inputVars, lineVars, fdVars, kidVars, tty, signalVars>>

Program == loc = "command" /\ cmd \notin Builtins \cup {""}

\* Too many arguments, or no fork: the line ends.
NoFork == /\ Program
          /\ Prompt
          /\ UNCHANGED <<inputVars, fdVars, kidVars, tty, bg_handler, chld>>

\* The child as fork leaves it.  It is in the shell's process group unless it
\* is the first command; it has the shell's pipes, and no descriptor is free
\* if the shell has none.
Kid == [job  |-> Job(line, cmd_pos, is_after_pipe),
        own  |-> cmd_pos = 1,
        lp   |-> IF is_after_pipe THEN pfd_after ELSE 0,
        rp   |-> IF token = "PIPE" THEN pfd_before ELSE 0,
        has  |-> held,
        full |-> ~Room(1)]

Fork(closed, next) == /\ Program
                      /\ kids' = Append(kids, Kid)
                      /\ state' = Append(state, "forked")
                      /\ held' = held \ closed
                      /\ loc' = next
                      /\ UNCHANGED <<inputVars, lineVars, pipes, ttys, tty, signalVars>>

\* Faults: a background process keeps the shell's pipe open; the left side of
\* a pipe is not waited for.
exe_proc_KeepPipe ==
    Fork(IF is_after_pipe /\ token # "BG" THEN {pfd_after} ELSE {},
         IF token = "BG" THEN "bg" ELSE "waiting")
exe_proc_NoWait ==
    Fork(IF is_after_pipe THEN {pfd_after} ELSE {},
         IF token \in {"BG", "PIPE"} THEN "bg" ELSE "waiting")

\* exe_proc: fork, and the parent closes the pipe in front.
exe_proc == Fork(IF is_after_pipe THEN {pfd_after} ELSE {},
                 IF token = "BG" THEN "bg" ELSE "waiting")

\* The rest of exe_proc for a background process.
Background == /\ loc = "bg"
              /\ bg_handler' = TRUE
              /\ Advance
              /\ UNCHANGED <<inputVars, fdVars, kidVars, tty, chld, is_continue>>

\* wait takes whichever child i has ended; then the shell takes the terminal
\* back, to group t, if it can open it.
Reap(i, t) == /\ Becomes(i, "reaped")
              /\ IF Room(1) THEN /\ ttys' = ttys + 1 /\ tty' = t
                                 /\ IF state[i] = "done" THEN Advance ELSE Prompt
                            ELSE Prompt /\ UNCHANGED <<ttys, tty>>

\* Fault: the terminal comes back only from a program that did well.
Wait_OnlyOk == /\ loc = "waiting"
               /\ \/ \E i \in Zombies : Reap(i, IF state[i] = "done" THEN 0 ELSE tty)
                  \/ Unreaped = {} /\ Prompt /\ UNCHANGED <<ttys, tty, state>>
               /\ UNCHANGED <<inputVars, kids, held, pipes, bg_handler, chld>>

\* The rest of exe_proc for any other process.  Without children wait fails.
\* The status of the child decides whether the line goes on.
Wait == /\ loc = "waiting"
        /\ \/ \E i \in Zombies : Reap(i, 0)
           \/ Unreaped = {} /\ Prompt /\ UNCHANGED <<ttys, tty, state>>
        /\ UNCHANGED <<inputVars, kids, held, pipes, bg_handler, chld>>
-----------------------------------------------------------------------------
(* Signals *)

InMain == loc \notin {"stopped", "exited"}

\* Fault: SIGCHLD goes on being caught.
bg_handler_Again ==
    /\ InMain /\ bg_handler /\ chld
    /\ \/ \E i \in Zombies : Becomes(i, "reaped")
       \/ Zombies = {} /\ UNCHANGED state
    /\ is_continue' = TRUE /\ chld' = FALSE
    /\ UNCHANGED <<loc, inputVars, lineVars, fdVars, kids, tty, bg_handler>>

\* SIGCHLD: it takes one child, any child, and is good for one signal.
bg_handler_runs ==
    /\ InMain /\ bg_handler /\ chld
    /\ \/ \E i \in Zombies : Becomes(i, "reaped")
       \/ Zombies = {} /\ UNCHANGED state
    /\ is_continue' = TRUE
    /\ bg_handler' = FALSE /\ chld' = FALSE
    /\ UNCHANGED <<loc, inputVars, lineVars, fdVars, kids, tty>>

\* SIGCHLD ends wait, if the child has died after wait looked for zombies and
\* sa_flags, which is never set, happens not to have SA_RESTART: the handler
\* takes a zombie, and exe_proc gives up without taking the terminal back.
wait_EINTR ==
    /\ loc = "waiting" /\ bg_handler /\ chld
    /\ \E i \in Zombies : Becomes(i, "reaped")
    /\ Prompt
    /\ bg_handler' = FALSE /\ chld' = FALSE
    /\ UNCHANGED <<inputVars, fdVars, kids, tty>>

\* SIGINT: ignored from the first exe_proc of a line on.
print_new_line == /\ loc \in {"reading", "checking"} /\ tty = 0
                  /\ is_continue' = TRUE
                  /\ UNCHANGED <<loc, inputVars, lineVars, fdVars, kidVars, tty, bg_handler, chld>>
-----------------------------------------------------------------------------
(* A child *)

Group(i) == IF kids[i].own THEN i ELSE 0

\* It ends, as a zombie.
Dies(i, how) == Becomes(i, how) /\ chld' = (chld \/ bg_handler)

\* Fault: the reader of a pipe does not close its other end.
Own_Reader(i) == {kids[i].rp}

\* The pipes of which the child closes what it does not use.
Own(i) == {kids[i].lp, kids[i].rp}

\* Pipes of which it has both ends.
Has(i) == IF state[i] = "forked" THEN kids[i].has ELSE kids[i].has \ Own(i)

\* The foreground group after i has tried to take the terminal.
Taken(i) == IF kids[i].job.bg \/ kids[i].full THEN tty ELSE Group(i)

\* From fork to execve: unless it is a background process it takes the
\* terminal, then it opens its files and plugs its pipes.  Any of this can
\* fail, and execve of a blank name does.
Setup(i) ==
    /\ state[i] = "forked"
    /\ \/ /\ kids[i].full => kids[i].job.bg
          /\ kids[i].job.cmd # " "
          /\ tty' = Taken(i)
          /\ Becomes(i, "running") /\ UNCHANGED chld
       \/ /\ tty' \in {tty, Taken(i)}
          /\ Dies(i, "failed")
    /\ UNCHANGED <<loc, inputVars, lineVars, fdVars, kids, bg_handler, is_continue>>

\* Pipe p can still be written to by someone else than i, or read by anyone.
ShellHas(p)    == p \in held /\ loc # "exited"
Writable(p, i) == ShellHas(p) \/ \E k \in DOMAIN kids \ {i} :
                                    Alive(k) /\ (p \in Has(k) \/ p = kids[k].rp)
Readable(p)    == ShellHas(p) \/ \E k \in DOMAIN kids :
                                    Alive(k) /\ (p \in Has(k) \/ p = kids[k].lp)

\* A program that reads all of its pipe waits for the end of it; one that
\* writes more than fits waits for a reader.
WaitsForInput(i)  == kids[i].lp # 0 /\ (kids[i].lp \in Has(i) \/ Writable(kids[i].lp, i))
WaitsForReader(i) == /\ kids[i].rp # 0 /\ kids[i].job.cmd \in Big
                     /\ Readable(kids[i].rp)
                     /\ \A k \in DOMAIN kids : Alive(k) => kids[k].lp # kids[i].rp

\* It ends by itself.
Finish(i) == /\ state[i] = "running"
             /\ ~WaitsForInput(i) /\ ~WaitsForReader(i)
             /\ \E how \in {"done", "failed"} : Dies(i, how)
             /\ UNCHANGED <<loc, inputVars, lineVars, fdVars, kids, tty, bg_handler, is_continue>>

\* Ctrl-C, or it ends before its input does.
Quit(i) == /\ state[i] = "running"
           /\ WaitsForInput(i) \/ WaitsForReader(i)
           /\ Dies(i, "failed")
           /\ UNCHANGED <<loc, inputVars, lineVars, fdVars, kids, tty, bg_handler, is_continue>>
-----------------------------------------------------------------------------
ShellStep == \/ gettoken \/ TooMany \/ Interrupted \/ Stopped \/ Check
             \/ NextCommand \/ builtin_proc \/ exit_proc \/ NoFork \/ exe_proc
             \/ Background \/ Wait \/ wait_EINTR \/ bg_handler_runs

Next == \/ Type \/ print_new_line \/ ShellStep
        \/ \E i \in DOMAIN kids : Setup(i) \/ Finish(i) \/ Quit(i)

Spec == Init /\ [][Next]_vars

MaxKids == MaxLines * CMD_NUM

\* The kernel runs the shell, delivers its signals, and runs its children;
\* programs that wait for nothing end.
FairSpec == /\ Spec
            /\ WF_vars(ShellStep)
            /\ \A i \in 1..MaxKids :
                 WF_vars(i \in DOMAIN kids /\ (Setup(i) \/ Finish(i)))
-----------------------------------------------------------------------------
(* Properties *)

BackgroundJobs == {i \in DOMAIN kids : kids[i].job.bg}

\* Every variable has its type; a line is never longer than its array.
ShellTypeOK ==
    /\ loc \in {"reading", "checking", "running", "command", "bg", "waiting", "stopped", "exited"}
    /\ Len(line) <= CMD_NUM /\ cmd_pos \in 1..(CMD_NUM + 1)
    /\ typed \in 0..MaxLines /\ first \in 0..Len(kids)
    /\ {is_after_pipe, is_continue, bg_handler, chld} \subseteq BOOLEAN
    /\ pipes \in Nat /\ held \subseteq 1..pipes
    /\ {pfd_before, pfd_after, base} \subseteq 0..pipes
    /\ ttys \in Nat /\ tty \in 0..Len(kids)
    /\ Len(state) = Len(kids)
    /\ state \in Seq({"forked", "running", "done", "failed", "reaped"})

\* Child i, with its pipes counted from the first one of this line.
InLine(p)  == IF p = 0 THEN 0 ELSE p - base
Started(i) == [job |-> kids[i].job, lp |-> InLine(kids[i].lp), rp |-> InLine(kids[i].rp)]

\* The processes of a line are those the line means, in that order, each with
\* its files, between the very pipes that the "|" on its two sides stand for
\* (also where one of the shell's own commands is in between, or a pipe is left
\* over from an earlier line), and in the background if and only if it was
\* asked for; a failure may cut them short.
RunsWhatWasTyped ==
    loc \in {"running", "command", "bg", "waiting"} =>
        LET started == [k \in 1..(Len(kids) - first) |-> Started(first + k)]
        IN  IsPrefix(started, Programs(line))

\* At the prompt the shell holds no pipe that has got its reader: else the
\* reader would never see the end of it.  (A pipe that a failing command or
\* one of the shell's own commands left without a reader is held for ever.)
PipesClosed == loc = "reading" =>
                   \A i \in DOMAIN kids : kids[i].lp \notin held

\* Although wait and the SIGCHLD handler each take whatever child has ended,
\* no more children than were sent to the background are unreaped at the
\* prompt; without any, all foreground children have been waited for.
NobodyLeftBehind == loc = "reading" => Cardinality(Unreaped) <= Cardinality(BackgroundJobs)

\* wait never fails for want of a child, although the SIGCHLD handler may have
\* taken the foreground process: it is good for one signal only, and then the
\* background process is still there.  (It may fail with EINTR.  A wait that
\* fails leaves the terminal with the program.)
WaitSucceeds == loc = "waiting" => Unreaped # {}

\* As long as nothing was sent to the background, a running program has the
\* terminal, and at the prompt the shell has it, whatever failed on the way
\* and even when no descriptor is left to open it.
TtyFollows ==
    BackgroundJobs = {} =>
        /\ loc = "reading" => tty = 0
        /\ \A i \in DOMAIN kids : state[i] = "running" => tty = Group(i)

\* The left side of a pipe fills it before the right side exists.
Stuck(i) == state[i] = "running" /\ WaitsForReader(i)

\* A line ends, if its programs do: unless the left side of a pipe writes more
\* than the pipe holds, for the right side is forked only after it has ended.
LineEnds == loc \in {"checking", "running", "command", "bg", "waiting"} ~>
                \/ loc \in {"reading", "exited"}
                \/ \E i \in DOMAIN kids : Stuck(i)
=============================================================================
