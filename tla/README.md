# TLA+ models of mydhcp, myftp and myshell

The repository holds three independent C programs written as exercises in system
calls. None comes with tests or documentation; the comments in the sources (in
Japanese) and myftp's help text are all there is to compare the code with.

| program | what it is | here |
|---|---|---|
| `src/mydhcp` | a DHCP-like address server `mydhcpd` and its client `mydhcpc`, over UDP | modelled, checked; the safety of the server, of the client and of both together proved |
| `src/myftp`  | a file server `myftpd` and its client `myftpc`, over one TCP connection | one session modelled and checked, its safety proved |
| `src/myshell`| a shell with redirection, pipes and background jobs | modelled, checked, its safety proved |

## 1. Inventory

### mydhcpd (`mydhcpd.c`)

State: the list of clients (`client_head`), each with an identity (IP address and
UDP port), an automaton state, a counter of seconds and the address it was given;
the list of free addresses (`addr_head`); the global `pc`, the record the current
event is about; the socket. Operations: `wait_event` receives one datagram, or,
when the socket is empty, pauses and looks for one expired record; `main`
dispatches the event through the table `ptab` to `f_act1`..`f_act7`, which reply
and change or end the record. `sigalrm_handler` decrements every counter, once a
second, whatever the thread is doing.

Hard: ticks between any two steps; a global that survives from one function to
the next; one expired record per wake-up; retransmissions that arrive in a later
state. Right when: no address is lost or given twice; a peer has one record; a
message or a timeout changes only its own record; every event has a row; a lease
lasts as long as was promised; expired leases are ended.

### mydhcpc (`mydhcpc.c`)

State: the automaton's `state`, two signal flags, a one-shot timer, and one
buffer, `receive_dh`, overwritten by each datagram and used to build later requests.
Operations: `wait_event` blocks in `pause` (IN_USE_STATE) or in a `select` of 10
seconds (otherwise) and turns a datagram, a timeout or a signal into an event;
`main` dispatches it to `f_act1`..`f_act8`.

Hard: signals just before a blocking call; late and repeated answers; the shared
buffer. Right when: the buffer holds the lease when it is needed; the lease is
renewed in time; no wait lasts for ever.

### myftpd and myftpc (`src/myftp`)

`myftpd` forks a session process per connection. It reads a header, looks its type
up in `type_tbl` and calls `pwd_proc`, `cwd_proc`, `list_proc`, `retr_proc`, `stor_proc`
or `quit_proc` (`myftpd_proc.c`). `myftpc` reads a command line and calls the
procedure that speaks the other side (`myftpc_proc.c`). Both are built on
`send_header_packet`, `recv_header_packet`, `send_file` and `recv_file` (`tcp.c`).
State: the bytes in flight in each direction, the files and the working
directory of each side, and the point of the conversation each side believes to
be at. They share nothing but the connection.

Hard: a side that returns early leaves packets in the stream, or the other side
waiting; `recv` may return less than was asked for, or 0; after a put the client
goes on while the server is still reading. Right when: both sides agree on where
in the conversation they are, a file arrives whole, every command ends, and a
session does not outlive its client.

### myshell (`src/myshell`)

`main` (`main.c`) cuts a line into words and separators with `gettoken`, checks it,
and walks over its commands: redirections, pipe ends and background marks are
found by position. `origin_proc` (`proc.c`) runs `cd`, `pwd` and `exit` in the
shell and hands everything else to `exe_proc`, which forks, connects pipe ends and
files in the child, passes the terminal around, and waits for a foreground child.
`bg_handler` reaps a child on SIGCHLD, `print_new_line` is SIGINT at the prompt.
State: children and zombies, the terminal's foreground group, open descriptors,
the signal actions, and seven array positions in `main`.

Hard: `wait` and the SIGCHLD handler both take any child; the left side of a pipe
is waited for before the right side is forked; the child and the shell both move
the terminal; descriptors of `/dev/tty` are never closed. Right when: the processes
of a line are those it means, the prompt returns after them, no child, pipe end or
terminal is left behind, and a line ends.

`PROJECT.json` lists the components and, line by line, the hazards of all three.

## 2. Modules

| module | models | correspondence |
|---|---|---|
| `DhcpMessages` | `struct dhcph`, UDP | `Transmit` is the set of receive buffers a `sendto` may lead to: lost, or inserted at any position |
| `DhcpServer` | `mydhcpd.c` | `clients` and `free` are the two lists in order; a `struct addr` is the number of its line in the config file; `pc` an index into `clients` (0 for none); `loc` where in `wait_event` or `main` the thread is. One action per way `wait_event` goes, one per handler, `Tick` for SIGALRM, `Die` for every exit |
| `DhcpServerOpen` | the server among arbitrary peers | adds `Arrive`: any peer sends any datagram |
| `LeasePool` | what the server promises | each peer holds at most one line, each line at most one peer: offered, reoffered, granted, dropped |
| `DhcpClient` | `mydhcpc.c` | `cstate` is `state`; `cloc` is before, inside or after the blocking call; `armed`, `alrm`, `hup` the timer and the flags; `recvd` is `receive_dh` |
| `DhcpClientOpen` | clients that may receive anything | adds `Arrive` |
| `Dhcp` | server and clients | `DhcpServer` extended with an instance of `DhcpClient`; they share only `srvq` and `cliq` |
| `FtpStream` | `struct myftph`, the TCP connection, files | `up`, `down` the packets in flight; `Take` what one `recv` can return; `Portion` and `Written` the packets of `send_file` and the effect of `recv_file` |
| `FtpServer` | one session of `myftpd` | `sloc` the `recv` or `send` the process is at, `spos` the block or line, `last` the header buffer that a `recv` of 0 bytes leaves alone. One action per procedure and per packet |
| `FtpClient` | `myftpc` | `cloc`, `cpos` likewise. A request is one action, each reply another |
| `Ftp` | both ends of one connection | `FtpServer` extended with an instance of `FtpClient`; they share only the stream |
| `ShellParse` | the words of a line and what `main` makes of them | `End`, `Files`, `Job` are the positions `main` walks; `Meaning` says without a loop what a line asks for, from the ends that `InOrder` sifts out of its separators, with the pipes counted by the `|` (`Bars`) |
| `Shell` | `main`, `origin_proc`, `exe_proc`, the signal handlers, the children and the kernel's part | `kids` are the children as forked, with the pipe ends they got; `state` their lives; `held` the pipes the shell has open, `tty` the foreground group; pipes have numbers, and `first` and `base` (history) are how many children and pipes there were when the line began. `exe_proc` is `fork` and the shell's `close`, `Setup` the child up to `execve`, `Wait` the shell's `wait` and its taking back of the terminal, `wait_EINTR` a `wait` that SIGCHLD ends |
| `MCDhcpServer`, `MCDhcpClient`, `MCDhcp`, `MCFtp`, `MCShell` | | constants for TLC |
| `*_proofs` | | theorems, section 4 |

`DhcpServer` has no specification of its own: it is completed by `DhcpServerOpen`,
where the environment is arbitrary, and by `Dhcp`, where it is the real client.

Definitions named `<operator>_<Fault>` are never used by a specification. Each is
`<operator>` with one plausible mistake, and `PROJECT.json` says which property
fails when it takes the operator's place: this is how the properties are themselves
tested.

### Abstractions

mydhcp:

- An address is an opaque value; of a message type only 1..5 are told apart.
- Everything a handler does is one step. It sends first and changes the record
  afterwards; a tick in between either commutes with the change or is overwritten
  by it, and the receiver's steps do not see the record.
- `ttlcounter` stops at -1: once negative only its sign is tested.
- A receive buffer holds `SockBuf` datagrams; a datagram that finds it full is lost,
  which is what the kernel does, with a larger number.
- The client's durations (10 seconds of `select`, half a ttl) may elapse at any
  moment. Every property of the client holds for all durations.
- Undefined behaviour (`sa_flags` never set, `buf` of `print_message` unset for an
  unknown type, a tick while `insert_client_list` is half done) ends the process, at any
  moment: `Die`, `Crash`.
- The network loses and reorders, but does not duplicate; the duplicates that
  matter are the retransmissions of `f_act2`, `f_act4`, `f_act5` and `f_act7`,
  which are modelled.

myftp:

- A payload (a path, a block, a line of a listing) is one value. A `recv` that returns
  less than was asked for yields the value `Cut` and leaves a `Fragment` in front
  of the stream; a side that reads a fragment, or half a header, as a header is
  `"lost"` and takes no further step. Its own behaviour from there on is arbitrary, and
  nothing is claimed about it.
- Paths are absolute, so the working directory matters to `pwd` only.
- `link` models the end of a connection: open, closed by the client, answered (a
  packet met the closed socket and its RST is under way), reset.
- `script`, `turn`, `clean` and the field `of` of a packet are history: which command a
  packet belongs to, and whether anything has gone wrong (a short read, a failed
  local open, read or write, a side that is gone). A read of `send_file` may fail at any
  packet, the first or a later one, and the side then returns without a `LAST`. Most properties are about clean runs;
  what the failures lead to is in the findings and hazards.
- Of the listener only the `accept` and `fork` of this session are there. Sessions
  share nothing but the file system.

myshell:

- A line is a sequence of words, each with the character that ended it. What lies
  between two separators is one value; only "empty" and "only spaces" are told apart
  from it.
- A program reads all of its input and writes either less than a pipe holds or, if it
  is in `Big`, more. `Quit` is the program that ends before its input does, or is
  killed.
- A `wait` that finds a zombie takes it, whatever signals are pending. If the child dies after
  that look and before the one for signals, SIGCHLD ends the `wait` with EINTR
  (`wait_EINTR`): the handler has then taken a zombie, and `exe_proc` returns -1 and leaves the
  terminal where it is. Whether this `wait`, or a `read` at the prompt, is interrupted or
  goes on depends on `sa_flags`, which is never set; both outcomes are allowed.
- `OpenMax` counts the descriptors of the shell beyond 0, 1 and 2: two for each pipe it
  holds and one for each `/dev/tty` it has opened and not closed. `Room` decides about `pipe`
  and `open`.

## 3. What is checked

Bounds are in the `.cfg` files. Deadlock is not checked in any run: every process may
end, by `exit`, by an error or by a signal, and the system then stops; a myftp user may
stop typing, and typed lines and commands are bounded.

| run | specification, bounds | shows |
|---|---|---|
| `server_safety` | `DhcpServerOpen`, 3 peers on one host, 2 addresses, ttl 2 | `TypeOK`, `AddressAccounting`, `NoSharedAddress`, `UniqueClients`, `EveryEventHasRow`, `NoInitOnReceive`; no step changes another peer's record (`OnlyOwnersRecord`); an extension restarts the clock (`LeaseNotCutShort`); a reply is backed by the record it leaves (`RepliesMatchLease`) |
| `server_liveness` | 2 peers, 2 addresses, ttl 1, fair | expired records are acted on (`ExpiredReclaimed`); silence empties the list (`SilenceDrains`); the server implements `LeasePool` (`ImplementsLeasePool`) |
| `client_open` | 1 client, any datagrams, 2 SIGHUPs, fair | `ClientTypeOK`, `BufferHoldsLease`, `RenewalPending`, `SilenceEndsClient` |
| `dhcp_safety` | 1 client, 2 addresses, ttl 2, one hangup, 2 datagrams in flight each way, fair | `ServerClientAgree`, `NoWrongRequest`, `RenewalPending`, `PoolRefills`, `ClientSettles` |
| `dhcp_two_clients` | 2 clients on one host, 2 addresses, ttl 1, 1 datagram in flight each way | `ServerClientAgree`; two clients the server knows never use one address (`DistinctLeases`) |
| `ftp_session` | 2 commands of 28 (every procedure with every outcome), 2 packets in flight each way, 9 paths, files of 0, 2 and 3 blocks, fair | both ends stay in step (`PromptInStep`, `NoStrayPacket`), files arrive (`GetDelivers`, `PutDelivers`), no error means success (`CdMoves`), everything ends (`CommandsEnd`, `SessionEnds`) |
| `shell_jobs` | 2 lines of 14, 4 words a line, 8 descriptors, fair | the right processes between the right pipes (`RunsWhatWasTyped`), `PipesClosed`, `NobodyLeftBehind`, `WaitSucceeds`, `TtyFollows`, `LineEnds` |

Why these bounds are enough to be interesting. Three peers and two addresses make the
pool run out with two records listed; two addresses let a record be made again with
another address; one host makes `search_client` depend on the port. A ttl of 2 gives the
offer (half the ttl) and the lease different lengths, each longer than one tick; with a
ttl of 1 the offer's is 0. Two datagrams in flight are what reordering needs. Two
commands are what it takes for one to be confused by what another left behind; a
file of three blocks over one of two, and the reverse, shows what a missing `O_TRUNC`
leaves; a window of 2 makes senders wait. Four words are three commands and one too many.
Eight descriptors are enough for both pipes of a line of three commands, in the first line and
in the second: its middle command runs with both ends, and with pipe numbers that are
not those of the first line. They still run out, for a pipe and for the terminal of a child,
with what failing commands and foreground commands leave open. Two lines let
a background process of the first meet the second. `MaxHups`, `MaxCommands` and
`MaxLines` bound the environment only.

`server_safety` and `dhcp_two_clients` declare the ports a symmetry set: the peers run the
same program and no definition names a port, so the reduction is sound for the
invariants and step properties they check. No run with a liveness property has one.

### Fairness

mydhcp: `WF_vars(Main)`, the server's thread is scheduled, and never blocks except in
`pause`; `WF_vars(Tick)`, the interval timer of 1 second keeps firing (`mydhcpd.c:550-557`).
For a client, `WF(Thread(p))`: it is scheduled, and its `select` ends after 10 seconds at
the latest; `pause` does not end by itself, and `Thread(p)` is not enabled there.
`WF(Sigalrm(p))`: an armed timer fires. Nothing is assumed of the network, of SIGHUP, of a
peer's wish to speak, or against crashes. `ExpiredReclaimed` has a premise instead of more
fairness: the thread only looks at the counters after `pause`, which it reaches when the
socket is empty, so a steady flow of datagrams really does keep expired leases alive.

myftp: both processes run whenever a `send` or `recv` can return, and the network delivers
the RST. The user may stop at any prompt, and neither process is protected from dying.

myshell: the kernel runs the shell and each child, delivers signals, and a program
that waits for nothing ends. The user need not type.

### Where comments and code disagree

Five runs end in a counterexample, each to what a comment or the help text says:

| run | property | code | comment |
|---|---|---|---|
| `dhcp_second_offer` | `OfferAfterTimeoutAccepted` | an OFFER after the first timeout is answered with DISCOVER (`mydhcpc.c:36`) | it is accepted (`mydhcpc.c:149-150`) |
| `dhcp_shortest_lease` | `RenewalPending` | a ttl of 1 disarms the timer (`mydhcpc.c:209`) | the lease is renewed at half of its ttl (`mydhcpc.c:235-236`) |
| `dhcp_lost_wakeup` | `RenewsAtHalf` | a SIGALRM just before `pause` is not noticed (`mydhcpc.c:294`) | as above |
| `dhcp_retransmission` | `FreeMeansUnused` | a repeated REQUEST ends the lease (`mydhcpd.c:61`, `421`) | the list holds the addresses not in use (`mydhcpd.c:336`) |
| `ftp_pwd` | `PwdPrintsCwd` | a `get` that cannot open its local file leaves the server's packets in the stream (`myftpc_proc.c:254`) | pwd prints the server's working directory (`myftpc_proc.c:342`) |

`FreeMeansUnused` is checked without ticks (`UntimedSpec`), so that the counterexample is
not simply a lease that ran out. `RenewalPending` passes in `client_open`, where every
ttl is 2, and in `dhcp_safety`, and fails only at the boundary: `RenewalsPending` (section 4) proves
it for every ttl that is two or more on the wire. What is left of `FreeMeansUnused` is `DistinctLeases`: an address that two
clients use is always one the server has let go of for one of them. `dhcp_two_clients` has a ttl of 1,
with which leases run out but are never renewed, because with 2 there are too many states; renewals
are in `dhcp_safety`, and the theorem is for every ttl.

## 4. What is proved

Every theorem holds for every value of the constants (any config file, ttl, buffer size,
set of peers and of datagrams; any window, files and sequence of myftp commands; any set
of lines and programs and any number of descriptors), from the named assumptions on the constants, which TLC evaluates in
the runs. The inductive invariants were checked with TLC before they were proved.

### `DhcpServer_proofs`: addresses

- `TypeCorrect`: `Spec => [](TypeOK /\ UniqueClients)`. The two need each other: a new record is
  appended only when `search_client` finds none, and `pc` stays an index of `clients`
  because only the dispatched handler shortens the list.
  `OneRecordPerPeer` is its second half by itself.
- `AddressesAccounted`: `Spec => []AddressAccounting`.
- `AddressesExclusive`: if the config file repeats no address, `Spec => []NoSharedAddress`.

Every step either leaves the lists' addresses alone (`Kept`), moves the first free line to
a new record at the tail (`Taken`), or removes one record and appends its line to the free
list (`GivenBack`). `Change`, the disjunction of the three, is derived once per action and
both invariants follow from it alone (`UniqueStep`, `AccountingStep`), on top of facts about
sequences (`RemoveAtProperties`, `InsertAtType`, ...).

### `DhcpLease_proofs`: events and leases

- `EventsHaveRows`: `Spec => []EveryEventHasRow`; `NoneInitOnReceive`: `Spec => []NoInitOnReceive`.
- `LeasesNotCutShort`: `Spec => LeaseNotCutShort`; `OwnersRecordOnly`: `Spec => OnlyOwnersRecord`.

The inductive invariant `LeaseInv` has four parts: only the record just made is in
INIT_STATE, and only until it is dispatched (`NewOnly`); the event in hand has a row
(`RowReady`); in IN_USE_STATE the counter and the ticks since the last ACK add up to the ttl
(`CounterInStep`); USE_TOUT is in hand only for a counter that has run out
(`TimedOut`). The rows cannot be shown to fit without `NewOnly`, nor that a timeout
means what it says without `CounterInStep`.

### `DhcpReplies_proofs`, `DhcpRefinement_proofs`

- `RepliesAreBacked`: `Spec => RepliesMatchLease`. It rests on `InsertThenRemove`, which finds the
  message in a buffer it was inserted into at any place.
- `ServerImplementsPool`: `Spec => ImplementsLeasePool`, the refinement. `Mirror` says what the
  mapped variables are in terms of the records; a new record is an `Offer` because a free
  line is nobody's (`AddressAccounting`), `f_act4` a `Reoffer`, `f_act3` a `Grant`, `f_act5`
  and `f_act7` a `Drop`, and everything else a stutter.

### `DhcpClient_proofs`

- `ClientTypeCorrect`, `BufferAlwaysHoldsLease`: `Spec => []BufferHoldsLease`, whatever arrives.
- `RenewalAlwaysPending`: if no ACK grants less than two seconds, `Spec => []RenewalPending`. The
  premise is needed: `dhcp_shortest_lease`.

`Transitions` lists where an event can take a client, `ReadingOf` shows that every
datagram has a row and that what is accepted is what it seems to be.

### `Dhcp_proofs`: server and clients together

- `ServerAndClientAgree`: `SystemSpec => []ServerClientAgree`.
- `NoRequestRefused`: `SystemSpec => []NoWrongRequest`.

Both are about two automata that see each other only through datagrams that get lost and
overtake each other, so the invariant is about what is in the buffers. `AgreeInv` says
for every client:

- until it has accepted an OFFER it has sent nothing but DISCOVERs, so its record is not in use
  (`Asking`);
- if it is still going to accept one (WAIT_OFFER_STATE), it has sent exactly one DISCOVER, and
  while the server has not read that, there is no record and no offer (`FirstOffer`). This is where
  it matters that the code does not accept an OFFER after a timeout (`mydhcpc.c:36`): a client that
  repeats its DISCOVER and then takes whichever OFFER comes (the mutant `Rows_RetryDiscover`) can ask
  for the address of a record that has since been replaced by another;
- once it has accepted one, no DISCOVER of it is left, so there is one line of the config file that
  its record, every lease on its way to it, its `receive_dh`, and every REQUEST on its way to the
  server name (`OneLease`, `Agreed`).

`Dispatching` carries this over from the moment a REQUEST is read to that at which `f_act3`
acts on it. The proof divides the steps by what they do to one client's share of the buffers:
`RecordsKept`, `PromisesKept` and `NothingNew` together leave it a `Bystander`, which all steps of
the server are but the reading of its DISCOVER (`DiscoverKeeps`), and all steps of other clients
(`ActsAlone`). `Delivered` is the one fact about the network: in the new buffer each datagram but
one has a place of its own in the old.

Four more results build on it and on the proofs about the server:

- `LeasesDistinct`: if the config file repeats no address, `SystemSpec => []DistinctLeases`. The
  records have different lines (`AddressAccounting`), and what a client uses is its record's line
  whichever state the record is in (`Agreed`).
- `RenewalsPending`: if `WireTTL >= 2`, `SystemSpec => []RenewalPending`. `TimerInv` adds that every ACK
  on its way lasts for two seconds (`LongLeases`), so that its half does not disarm the timer. `WireTTL` is
  the ttl after `htons`: a config file with 65537 seconds fails just as one with 1 does.
- `ServerKeepsItsWord`: `SystemSpec` implies `EveryEventHasRow`, `NoInitOnReceive`, `AddressAccounting`,
  `LeaseNotCutShort`, `OnlyOwnersRecord` and `RepliesMatchLease`. The theorems about the server among arbitrary
  peers say nothing of this system by themselves: there datagrams arrive in order and replies
  vanish. What carries over are their step lemmas, because no invariant of the server (`Settled`)
  speaks of the buffers, and a client's step touches nothing else (`SystemSteps`).
- `SystemImplementsPool`: `SystemSpec => ImplementsLeasePool`. A client's step is a stutter of the pool.

### `Ftp_proofs`: one session

- `TypeCorrect`: `Spec => []TypeOK`.
- `PromptInStepCorrect`: `Spec => []PromptInStep`; `NoStrayPacketCorrect`: `Spec => NoStrayPacket`;
  `CdMovesCorrect`: `Spec => CdMoves`.
- `GetDeliversCorrect`: `Spec => GetDelivers`; `PutDeliversCorrect`: `Spec => PutDelivers`, for files of every
  length.

The invariant is `TypeInv /\ (clean => Clean)`. `Clean` describes the conversation by what
is in the two streams: the client is at the prompt with nothing left to read (`Idle`), has asked
(`Asked`), is being answered (`Answered`) or sends a file (`Sending`); `UpShape` is the part of the
server, which may still be in the file of one command when the request of the next is behind
it. `PromptInStep` alone is not inductive: that nothing is left at the prompt rests on each
answer's having one last packet (`Ends`) and on the two sides agreeing which it is.
`GetInv` and `PutInv` add, for a file under way, that what has been written agrees with
the original and that the packets in flight carry the portions between the two positions;
`WritesPortion` shows that writing the next portion keeps this and that the last one completes the
copy, with the empty file, which travels as one packet without data, as its own case. `clean` is
never set again (`StaysClean`), so a theorem about clean steps needs nothing of the others.

### `Shell_proofs`

- `WaitAlwaysSucceeds` (`WaitSucceeds`) and `NobodyIsLeftBehind` (`NobodyLeftBehind`). `wait` and the handler
  compete for children, so the invariants count: while a background process is being set
  up or the shell waits, and for as long as the handler is installed, there is one
  unreaped child each (`WaitInv`); unreaped children never outnumber the background
  processes but for the one in hand (`LeftInv`).
- `TerminalFollows` (`TtyFollows`): `TtyInv` adds that without background processes at most one
  child is alive, and who has the terminal at each point of its life.
- `ReadersSeeTheEnd` (`PipesClosed`): `PipeInv` follows the two pipe numbers, and the count of pipes
  when the line began, through `main`.
- `ShellTypeCorrect` (`ShellTypeOK`): that `cmd_pos` stays in the array rests on the existence of the
  end that `Advance` looks for. `LineInv` keeps the whole line, with its end, from `gettoken` to the next
  prompt; on such a line the first separator behind a position exists because a nonempty set of
  numbers has a least one (`Least`, from the library's well-foundedness theorems).
- `LinesRunAsTyped` (`RunsWhatWasTyped`): what `main` has started is at every moment a prefix of the
  programs of `Meaning`, with their files and the pipes in front and behind, by number. `Meaning` takes the ends of a line in order,
  which `Sift`, a recursive function, picks from its positions; `Upto` is the induction over positions
  that this takes, stated for sets instead of predicates and derived from `Least`
  (`SiftedExists`, `SiftedPrefix`, `InOrderProperties`). `NextEnd` shows that the end `main` looks for is the next of these,
  `JobIsMeant` that the job it makes there is the one meant, `BarsStep` that the number of pipes meant
  grows by one with each `|`. The property says nothing of `cmd_pos`
  or `is_after_pipe`, so it is not inductive: `JobsInv` adds where in the line the loop is
  (`Place`), that what it ran is what the commands behind it mean (`Ran`), and which pipes are in
  hand: as many as there are `|` so far (`Laid`), the last of them in front of the next fork (`InFront`),
  through forks, builtins and commands that fail.

### Only model-checked

All liveness (`ExpiredReclaimed`, `SilenceDrains`, `SilenceEndsClient`, `PoolRefills`, `ClientSettles`,
`CommandsEnd`, `SessionEnds`, `LineEnds`), which is out of the prover's reach. Every invariant and every
action property of a passing run has a theorem. What TLC finds violated is, of course, not proved
of the code either: `RenewalPending` has a premise.

## 5. What is not modelled

- mydhcp: reading and parsing of the config file (its lines are constants), addresses as text,
  printing. The doubly linked lists are sequences: a tick between the two halves of
  `insert_client_list` (`mydhcpd.c:117-118`) is part of `Die`.
- myftp: several sessions of one listener and its zombies (`myftpd.c:38`); `lpwd`, `lcd`, `ldir`,
  `help`; splitting a command line; the text of a listing; `chmod` after `stor`; the
  descriptor that a refused `put` leaks (`myftpc_proc.c:315`); the end of the input, which
  repeats the last command (`myftpc.c:85`).
- myshell: the characters of a word and the room for them; the search of PATH, with its array
  (`proc.c:318`); the result of `realloc` that is dropped (`main.c:218`); Ctrl-Z and programs that
  read the terminal.
- Makefiles and the host list: no behaviour.

## 6. Plan

1. `DhcpTimed`: the client's 10 seconds and the server's seconds on one clock. For which ttl does
   a running client renew before its lease expires?
2. `DhcpList`: the lists pointer by pointer against `sigalrm_handler`, shown to implement the
   sequences of `DhcpServer`.
3. `FtpListener`: several sessions over one file system; a put and a get of the same file.
4. Ctrl-Z and stopped jobs in `Shell`.
