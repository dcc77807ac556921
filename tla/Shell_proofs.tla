---------------------------- MODULE Shell_proofs ----------------------------
(***************************************************************************)
(* Theorems about myshell's processes and terminal, and about the lines it *)
(* runs, for every set of lines and programs, every size of the line's     *)
(* array and every number of file descriptors.                             *)
(***************************************************************************)
EXTENDS Shell, FiniteSetTheorems, SequenceTheorems, WellFoundedInduction, TLAPS

States == {"forked", "running", "done", "failed", "reaped"}

-----------------------------------------------------------------------------
(* Sequences of anything, and the set of children that are not reaped *)

\* Append to a sequence whose elements have no common type.
LEMMA AppendAny ==
  ASSUME NEW S, NEW s \in Seq(S), NEW e
  PROVE  /\ Append(s, e) \in Seq(S \cup {e})
         /\ Len(s) \in Nat
         /\ DOMAIN s = 1..Len(s)
         /\ Len(Append(s, e)) = Len(s) + 1
         /\ DOMAIN Append(s, e) = 1..(Len(s) + 1)
         /\ \A i \in 1..Len(s) : Append(s, e)[i] = s[i]
         /\ Append(s, e)[Len(s) + 1] = e
<1> DEFINE T == S \cup {e}
<1>2. s \in Seq(T)
  <2>1. /\ Len(s) \in Nat /\ DOMAIN s = 1..Len(s)
        /\ \A i \in 1..Len(s) : s[i] \in S
    BY LenProperties, ElementOfSeq
  <2>2. s = [i \in 1..Len(s) |-> s[i]]
    BY LenProperties
  <2> QED  BY <2>1, <2>2, IsASeq
<1>3. e \in T
  OBVIOUS
<1> HIDE DEF T
<1>4. /\ Append(s, e) \in Seq(T)
      /\ Len(Append(s, e)) = Len(s) + 1
      /\ \A i \in 1..Len(s) : Append(s, e)[i] = s[i]
      /\ Append(s, e)[Len(s) + 1] = e
  BY <1>2, <1>3, AppendProperties
<1>5. Len(s) \in Nat /\ DOMAIN s = 1..Len(s)
  BY <1>2, LenProperties
<1>6. DOMAIN Append(s, e) = 1..(Len(s) + 1)
  BY <1>4, LenProperties
<1> QED  BY <1>4, <1>5, <1>6 DEF T

\* There are finitely many children.
LEMMA UnreapedFinite ==
  ASSUME state \in Seq(States)
  PROVE  IsFiniteSet(Unreaped) /\ Cardinality(Unreaped) \in Nat
<1>1. Len(state) \in Nat /\ DOMAIN state = 1..Len(state)
  BY LenProperties
<1>2. IsFiniteSet(1..Len(state))
  BY <1>1, FS_Interval
<1>3. Unreaped \subseteq 1..Len(state)
  BY <1>1 DEF Unreaped
<1> QED  BY <1>2, <1>3, FS_Subset, FS_CardinalityType

\* Reaping a child leaves one less.
LEMMA ReapCount ==
  ASSUME state \in Seq(States), NEW i \in DOMAIN state, state[i] # "reaped",
         Becomes(i, "reaped")
  PROVE  /\ state' \in Seq(States)
         /\ Len(state') = Len(state)
         /\ Unreaped' = Unreaped \ {i}
         /\ Cardinality(Unreaped') = Cardinality(Unreaped) - 1
<1>1. /\ state' \in Seq(States) /\ Len(state') = Len(state)
      /\ Unreaped' = Unreaped \ {i}
  BY DEF Becomes, Unreaped, States
<1>2. i \in Unreaped
  BY DEF Unreaped
<1> QED  BY <1>1, <1>2, UnreapedFinite, FS_RemoveElement

\* A child that goes on, or becomes a zombie, is as unreaped as before.
LEMMA ChangeCount ==
  ASSUME state \in Seq(States), NEW i \in DOMAIN state, state[i] # "reaped",
         NEW st \in States \ {"reaped"}, Becomes(i, st)
  PROVE  /\ state' \in Seq(States)
         /\ Len(state') = Len(state)
         /\ Unreaped' = Unreaped
BY DEF Becomes, Unreaped, States

\* A fork adds one.
LEMMA ForkCount ==
  ASSUME state \in Seq(States), state' = Append(state, "forked")
  PROVE  /\ state' \in Seq(States)
         /\ Len(state') = Len(state) + 1
         /\ Unreaped' = Unreaped \cup {Len(state) + 1}
         /\ Cardinality(Unreaped') = Cardinality(Unreaped) + 1
<1>1. /\ state' \in Seq(States) /\ Len(state') = Len(state) + 1
      /\ Unreaped' = Unreaped \cup {Len(state) + 1}
      /\ Len(state) + 1 \notin Unreaped
  BY DEF Unreaped, States
<1> QED  BY <1>1, UnreapedFinite, FS_AddElement

-----------------------------------------------------------------------------
(* The steps that touch neither children nor the terminal *)

\* There is a record for each child, and each has its state.
Children == /\ \E S : kids \in Seq(S)
            /\ Len(kids) = Len(state)
            /\ state \in Seq(States)

Between == loc \notin {"bg", "waiting"}

Quiet == /\ UNCHANGED <<kids, state, bg_handler, ttys, tty>>
         /\ \/ UNCHANGED <<loc, held>>
            \/ Between /\ Between' /\ held' \in {held, held \cup {pipes + 1}}

\* All of the shell's own steps but the fork, what follows it in exe_proc, and
\* the handler of SIGCHLD.
LEMMA QuietSteps ==
  ASSUME \/ Type \/ print_new_line \/ gettoken \/ TooMany \/ Interrupted \/ Stopped
         \/ Check \/ NextCommand \/ builtin_proc \/ exit_proc \/ NoFork \/ UNCHANGED vars
  PROVE  Quiet
<1> USE DEF Quiet, Between, inputVars, lineVars, fdVars, kidVars, signalVars
<1>1. CASE Type
  BY <1>1 DEF Type
<1>2. CASE print_new_line
  BY <1>2 DEF print_new_line
<1>3. CASE gettoken
  BY <1>3 DEF gettoken, Prompt
<1>4. CASE TooMany
  BY <1>4 DEF TooMany
<1>5. CASE Interrupted
  BY <1>5 DEF Interrupted, Prompt
<1>6. CASE Stopped
  BY <1>6 DEF Stopped
<1>7. CASE Check
  BY <1>7 DEF Check, Prompt
<1>8. CASE NextCommand
  BY <1>8 DEF NextCommand, Prompt
<1>9. CASE builtin_proc
  BY <1>9 DEF builtin_proc, Advance, Prompt
<1>10. CASE exit_proc
  BY <1>10 DEF exit_proc
<1>11. CASE NoFork
  BY <1>11 DEF NoFork, Program, Prompt
<1>12. CASE UNCHANGED vars
  BY <1>12 DEF vars
<1> QED  BY <1>1, <1>2, <1>3, <1>4, <1>5, <1>6, <1>7, <1>8, <1>9, <1>10, <1>11, <1>12

\* The other steps, with what they do to the children.
LEMMA ForkStep ==
  ASSUME Children, exe_proc
  PROVE  /\ Children'
         /\ kids' = Append(kids, Kid) /\ Len(kids') = Len(kids) + 1
         /\ DOMAIN kids' = 1..Len(kids) + 1 /\ DOMAIN kids = 1..Len(kids)
         /\ \A i \in DOMAIN kids : kids'[i] = kids[i]
         /\ kids'[Len(kids) + 1] = Kid
         /\ Unreaped' = Unreaped \cup {Len(kids) + 1}
         /\ Cardinality(Unreaped') = Cardinality(Unreaped) + 1
         /\ loc = "command" /\ loc' = IF Kid.job.bg THEN "bg" ELSE "waiting"
         /\ UNCHANGED <<bg_handler, ttys, tty>>
<1>1. /\ kids' = Append(kids, Kid) /\ state' = Append(state, "forked")
      /\ loc = "command" /\ loc' = IF token = "BG" THEN "bg" ELSE "waiting"
      /\ UNCHANGED <<bg_handler, ttys, tty>>
  BY DEF exe_proc, Fork, Program, signalVars
<1>2. Kid.job.bg = (token = "BG")
  BY DEF Kid, Job, token
<1>3. /\ \E S : kids' \in Seq(S)
      /\ Len(kids') = Len(kids) + 1
      /\ DOMAIN kids' = 1..Len(kids) + 1 /\ DOMAIN kids = 1..Len(kids)
      /\ \A i \in DOMAIN kids : kids'[i] = kids[i]
      /\ kids'[Len(kids) + 1] = Kid
  <2>1. PICK S : kids \in Seq(S)
    BY DEF Children
  <2>2. /\ Append(kids, Kid) \in Seq(S \cup {Kid})
        /\ DOMAIN kids = 1..Len(kids)
        /\ Len(Append(kids, Kid)) = Len(kids) + 1
        /\ DOMAIN Append(kids, Kid) = 1..(Len(kids) + 1)
        /\ \A i \in 1..Len(kids) : Append(kids, Kid)[i] = kids[i]
        /\ Append(kids, Kid)[Len(kids) + 1] = Kid
    BY <2>1, AppendAny
  <2> QED  BY <1>1, <2>2
<1>4. /\ state' \in Seq(States) /\ Len(state') = Len(state) + 1
      /\ Unreaped' = Unreaped \cup {Len(state) + 1}
      /\ Cardinality(Unreaped') = Cardinality(Unreaped) + 1
  BY <1>1, ForkCount DEF Children
<1> QED  BY <1>1, <1>2, <1>3, <1>4 DEF Children

\* A child that was not reaped goes on, or ends.
LEMMA KidStep ==
  ASSUME Children, NEW i \in DOMAIN kids, Setup(i) \/ Finish(i) \/ Quit(i)
  PROVE  /\ Children' /\ i \in Unreaped /\ Unreaped' = Unreaped
         /\ UNCHANGED <<loc, kids, bg_handler, held, ttys>>
<1>1. DOMAIN kids = DOMAIN state
  BY LenProperties DEF Children
<1>2. PICK st \in {"running", "done", "failed"} : Becomes(i, st)
  BY DEF Setup, Finish, Quit, Dies
<1>3. state[i] \in {"forked", "running"}
  BY DEF Setup, Finish, Quit
<1>4. /\ state' \in Seq(States) /\ Len(state') = Len(state)
      /\ Unreaped' = Unreaped
  BY <1>1, <1>2, <1>3, ChangeCount DEF Children, States
<1>5. UNCHANGED <<loc, kids, bg_handler, held, ttys>>
  BY DEF Setup, Finish, Quit, fdVars
<1> QED  BY <1>1, <1>3, <1>4, <1>5 DEF Children, Unreaped

\* A zombie is reaped.
LEMMA ReapStep ==
  ASSUME Children, NEW i \in Zombies, Becomes(i, "reaped"), UNCHANGED kids
  PROVE  /\ Children' /\ i \in Unreaped /\ Unreaped' = Unreaped \ {i}
         /\ Cardinality(Unreaped') = Cardinality(Unreaped) - 1
<1>1. i \in DOMAIN state /\ state[i] # "reaped"
  BY DEF Zombies
<1>2. /\ state' \in Seq(States) /\ Len(state') = Len(state)
      /\ Unreaped' = Unreaped \ {i}
      /\ Cardinality(Unreaped') = Cardinality(Unreaped) - 1
  BY <1>1, ReapCount DEF Children
<1> QED  BY <1>1, <1>2 DEF Children, Unreaped

\* A wait that the handler interrupts.
LEMMA EINTRStep ==
  ASSUME Children, wait_EINTR
  PROVE  /\ Children' /\ Cardinality(Unreaped') = Cardinality(Unreaped) - 1
         /\ loc = "waiting" /\ loc' = "reading" /\ Prompt
         /\ bg_handler /\ bg_handler' = FALSE /\ chld' = FALSE
         /\ UNCHANGED <<buf, typed, held, pipes, ttys, kids, tty>>
<1>1. /\ loc = "waiting" /\ bg_handler /\ Prompt
      /\ bg_handler' = FALSE /\ chld' = FALSE
      /\ UNCHANGED <<buf, typed, held, pipes, ttys, kids, tty>>
  BY DEF wait_EINTR, inputVars, fdVars
<1>2. PICK i \in Zombies : Becomes(i, "reaped")
  BY DEF wait_EINTR
<1>3. Children' /\ Cardinality(Unreaped') = Cardinality(Unreaped) - 1
  BY <1>1, <1>2, ReapStep
<1> QED  BY <1>1, <1>3 DEF Prompt

-----------------------------------------------------------------------------
(* Counting the children *)

One(b) == IF b THEN 1 ELSE 0

\* A shell in exe_proc has a child that it forked there and has not reaped, and
\* another one if SIGCHLD is to be caught: the background process for which it
\* was last asked to be.  With WaitInv, which is not inductive without the
\* handler and the "bg" location, no wait is without a child.
WaitInv == /\ Children
           /\ One(loc \in {"bg", "waiting"}) + One(bg_handler) <= Cardinality(Unreaped)

\* What each fork adds is a background process or is what wait takes away, it
\* or another in its place.
LeftInv == /\ Children
           /\ IsFiniteSet(BackgroundJobs)
           /\ Cardinality(Unreaped) <= Cardinality(BackgroundJobs) + One(loc = "waiting")

LEMMA WaitInit == Init => WaitInv
<1> SUFFICES ASSUME Init PROVE WaitInv
  OBVIOUS
<1>1. Children
  BY EmptySeq DEF Init, Children
<1>2. Unreaped = {}
  BY DEF Init, Unreaped
<1> QED  BY <1>1, <1>2, FS_EmptySet DEF WaitInv, Init, One

LEMMA LeftInit == Init => LeftInv
<1> SUFFICES ASSUME Init PROVE LeftInv
  OBVIOUS
<1>1. Children
  BY EmptySeq DEF Init, Children
<1>2. Unreaped = {} /\ BackgroundJobs = {}
  BY DEF Init, Unreaped, BackgroundJobs
<1> QED  BY <1>1, <1>2, FS_EmptySet DEF LeftInv, Init, One

\* Quiet steps leave both counts alone, and both places where they matter.
LEMMA QuietCounts ==
  ASSUME Quiet
  PROVE  /\ Children => Children'
         /\ Unreaped' = Unreaped /\ BackgroundJobs' = BackgroundJobs
         /\ (loc' \in {"bg", "waiting"}) = (loc \in {"bg", "waiting"})
         /\ (loc' = "waiting") = (loc = "waiting")
BY DEF Quiet, Between, Children, Unreaped, BackgroundJobs

LEMMA WaitStep == WaitInv /\ [Next]_vars => WaitInv'
<1> SUFFICES ASSUME WaitInv, [Next]_vars PROVE WaitInv'
  OBVIOUS
<1>0. Children /\ Cardinality(Unreaped) \in Nat
  BY UnreapedFinite DEF WaitInv, Children
<1>1. CASE Quiet
  BY <1>1, QuietCounts DEF WaitInv, Quiet
<1>2. CASE exe_proc
  <2>1. /\ Children' /\ Cardinality(Unreaped') = Cardinality(Unreaped) + 1
        /\ loc = "command" /\ bg_handler' = bg_handler
    BY <1>0, <1>2, ForkStep
  <2> QED  BY <1>0, <2>1 DEF WaitInv, One
<1>3. CASE Background
  <2>1. /\ loc = "bg" /\ loc' = "running" /\ bg_handler' = TRUE
        /\ UNCHANGED <<kids, state>>
    BY <1>3 DEF Background, Advance, kidVars
  <2>2. Children' /\ Unreaped' = Unreaped
    BY <1>0, <2>1 DEF Children, Unreaped
  <2> QED  BY <1>0, <2>1, <2>2 DEF WaitInv, One
<1>4. CASE Wait
  <2>1. /\ loc = "waiting" /\ loc' \in {"running", "reading"}
        /\ UNCHANGED <<kids, bg_handler>>
    BY <1>4 DEF Wait, Reap, Advance, Prompt
  <2>2. CASE \E i \in Zombies : Becomes(i, "reaped")
    <3>1. /\ Children'
          /\ Cardinality(Unreaped') = Cardinality(Unreaped) - 1
      BY <1>0, <2>1, <2>2, ReapStep
    <3> QED  BY <1>0, <2>1, <3>1 DEF WaitInv, One
  <2>3. CASE Unreaped = {}
    \* There is the child it waits for.
    BY <2>1, <2>3, FS_EmptySet DEF WaitInv, One
  <2> QED  BY <1>4, <2>2, <2>3 DEF Wait, Reap
<1>5. CASE bg_handler_runs
  <2>1. bg_handler /\ bg_handler' = FALSE /\ UNCHANGED <<loc, kids>>
    BY <1>5 DEF bg_handler_runs
  <2>2. CASE \E i \in Zombies : Becomes(i, "reaped")
    <3>1. /\ Children'
          /\ Cardinality(Unreaped') = Cardinality(Unreaped) - 1
      BY <1>0, <2>1, <2>2, ReapStep
    <3> QED  BY <1>0, <2>1, <3>1 DEF WaitInv, One
  <2>3. CASE UNCHANGED state
    <3>1. Children' /\ Unreaped' = Unreaped
      BY <1>0, <2>1, <2>3 DEF Children, Unreaped
    <3> QED  BY <1>0, <2>1, <3>1 DEF WaitInv, One
  <2> QED  BY <1>5, <2>2, <2>3 DEF bg_handler_runs
<1>6. ASSUME NEW i \in DOMAIN kids, Setup(i) \/ Finish(i) \/ Quit(i)
      PROVE  WaitInv'
  <2>1. Children' /\ Unreaped' = Unreaped /\ UNCHANGED <<loc, bg_handler>>
    BY <1>0, <1>6, KidStep
  <2> QED  BY <2>1 DEF WaitInv
<1>7. CASE wait_EINTR
  <2>1. /\ loc = "waiting" /\ loc' = "reading" /\ bg_handler' = FALSE
        /\ Children' /\ Cardinality(Unreaped') = Cardinality(Unreaped) - 1
        /\ bg_handler
    BY <1>0, <1>7, EINTRStep
  <2> QED  BY <1>0, <2>1 DEF WaitInv, One
<1> QED  BY <1>1, <1>2, <1>3, <1>4, <1>5, <1>6, <1>7, QuietSteps DEF Next, ShellStep

LEMMA LeftStep == LeftInv /\ [Next]_vars => LeftInv'
<1> SUFFICES ASSUME LeftInv, [Next]_vars PROVE LeftInv'
  OBVIOUS
<1>0. /\ Children /\ Cardinality(Unreaped) \in Nat
      /\ IsFiniteSet(BackgroundJobs) /\ Cardinality(BackgroundJobs) \in Nat
  BY UnreapedFinite, FS_CardinalityType DEF LeftInv, Children
<1>1. CASE Quiet
  BY <1>1, QuietCounts DEF LeftInv
<1>2. CASE exe_proc
  <2> DEFINE n == Len(kids) + 1
  <2>1. /\ Children' /\ Cardinality(Unreaped') = Cardinality(Unreaped) + 1
        /\ loc = "command" /\ loc' = IF Kid.job.bg THEN "bg" ELSE "waiting"
        /\ DOMAIN kids' = 1..n /\ DOMAIN kids = 1..Len(kids)
        /\ \A i \in DOMAIN kids : kids'[i] = kids[i]
        /\ kids'[n] = Kid
    BY <1>0, <1>2, ForkStep
  <2>2. Len(kids) \in Nat
    BY <1>0, LenProperties DEF Children
  <2>3. CASE Kid.job.bg
    <3>1. BackgroundJobs' = BackgroundJobs \cup {n} /\ n \notin BackgroundJobs
      BY <2>1, <2>2, <2>3 DEF BackgroundJobs
    <3>2. /\ IsFiniteSet(BackgroundJobs')
          /\ Cardinality(BackgroundJobs') = Cardinality(BackgroundJobs) + 1
      BY <1>0, <3>1, FS_AddElement
    <3> QED  BY <1>0, <2>1, <2>3, <3>2 DEF LeftInv, One
  <2>4. CASE ~Kid.job.bg
    <3>1. BackgroundJobs' = BackgroundJobs
      BY <2>1, <2>2, <2>4 DEF BackgroundJobs
    <3> QED  BY <1>0, <2>1, <2>4, <3>1 DEF LeftInv, One
  <2> QED  BY <2>3, <2>4
<1>3. CASE Background
  <2>1. loc = "bg" /\ loc' = "running" /\ UNCHANGED <<kids, state>>
    BY <1>3 DEF Background, Advance, kidVars
  <2>2. Children' /\ Unreaped' = Unreaped /\ BackgroundJobs' = BackgroundJobs
    BY <1>0, <2>1 DEF Children, Unreaped, BackgroundJobs
  <2> QED  BY <1>0, <2>1, <2>2 DEF LeftInv, One
<1>4. CASE Wait
  <2>1. /\ loc = "waiting" /\ loc' \in {"running", "reading"}
        /\ UNCHANGED kids /\ BackgroundJobs' = BackgroundJobs
    BY <1>4 DEF Wait, Reap, Advance, Prompt, BackgroundJobs
  <2>2. CASE \E i \in Zombies : Becomes(i, "reaped")
    <3>1. /\ Children'
          /\ Cardinality(Unreaped') = Cardinality(Unreaped) - 1
      BY <1>0, <2>1, <2>2, ReapStep
    <3> QED  BY <1>0, <2>1, <3>1 DEF LeftInv, One
  <2>3. CASE Unreaped = {} /\ UNCHANGED state
    <3>1. Children' /\ Unreaped' = {}
      BY <1>0, <2>1, <2>3 DEF Children, Unreaped
    <3> QED  BY <1>0, <2>1, <3>1, FS_EmptySet DEF LeftInv, One
  <2> QED  BY <1>4, <2>2, <2>3 DEF Wait, Reap
<1>5. CASE bg_handler_runs
  <2>1. UNCHANGED <<loc, kids>> /\ BackgroundJobs' = BackgroundJobs
    BY <1>5 DEF bg_handler_runs, BackgroundJobs
  <2>2. CASE \E i \in Zombies : Becomes(i, "reaped")
    <3>1. /\ Children'
          /\ Cardinality(Unreaped') = Cardinality(Unreaped) - 1
      BY <1>0, <2>1, <2>2, ReapStep
    <3> QED  BY <1>0, <2>1, <3>1 DEF LeftInv, One
  <2>3. CASE UNCHANGED state
    <3>1. Children' /\ Unreaped' = Unreaped
      BY <1>0, <2>1, <2>3 DEF Children, Unreaped
    <3> QED  BY <1>0, <2>1, <3>1 DEF LeftInv, One
  <2> QED  BY <1>5, <2>2, <2>3 DEF bg_handler_runs
<1>6. ASSUME NEW i \in DOMAIN kids, Setup(i) \/ Finish(i) \/ Quit(i)
      PROVE  LeftInv'
  <2>1. /\ Children' /\ Unreaped' = Unreaped /\ loc' = loc
        /\ BackgroundJobs' = BackgroundJobs
    BY <1>0, <1>6, KidStep DEF BackgroundJobs
  <2> QED  BY <2>1 DEF LeftInv
<1>7. CASE wait_EINTR
  \* The handler has taken a child in the place of wait.
  <2>1. /\ loc = "waiting" /\ loc' = "reading" /\ UNCHANGED kids
        /\ Children' /\ Cardinality(Unreaped') = Cardinality(Unreaped) - 1
    BY <1>0, <1>7, EINTRStep
  <2>2. BackgroundJobs' = BackgroundJobs
    BY <2>1 DEF BackgroundJobs
  <2> QED  BY <1>0, <2>1, <2>2 DEF LeftInv, One
<1> QED  BY <1>1, <1>2, <1>3, <1>4, <1>5, <1>6, <1>7, QuietSteps DEF Next, ShellStep

\* wait in exe_proc always has a child, in spite of the SIGCHLD handler, which
\* may take the one that exe_proc forked: whatever the lines and their programs.
THEOREM WaitAlwaysSucceeds == Spec => []WaitSucceeds
<1>1. WaitInv => WaitSucceeds
  BY FS_EmptySet DEF WaitInv, WaitSucceeds, One
<1> QED  BY <1>1, WaitInit, WaitStep, PTL DEF Spec

\* At the prompt at most as many children are unreaped as were ever sent to the
\* background: each wait of exe_proc takes one, which need not be its own.
THEOREM NobodyIsLeftBehind == Spec => []NobodyLeftBehind
<1>1. LeftInv => NobodyLeftBehind
  <2> SUFFICES ASSUME LeftInv PROVE NobodyLeftBehind
    OBVIOUS
  <2>1. Cardinality(BackgroundJobs) \in Nat
    BY FS_CardinalityType DEF LeftInv
  <2> QED  BY <2>1 DEF LeftInv, NobodyLeftBehind, One
<1> QED  BY <1>1, LeftInit, LeftStep, PTL DEF Spec

-----------------------------------------------------------------------------
(* The terminal *)

\* While exe_proc waits for its child n, the only one that is not reaped, the
\* terminal has or will have the group of n, unless n found no descriptor for
\* it; if it found one, so will the shell.
HandedOver(n) == /\ Unreaped \subseteq {n}
                 /\ state[n] = "forked"  => tty = 0
                 /\ state[n] = "running" => tty = Group(n)
                 /\ kids[n].full  => tty = 0
                 /\ ~kids[n].full => Room(1)

Foreground == /\ ~bg_handler /\ loc # "bg"
              /\ loc # "waiting" => tty = 0 /\ Unreaped = {}
              /\ loc = "waiting" => HandedOver(Len(kids))

\* WaitInv is needed, for the terminal would not come back from a wait that
\* fails.
TtyInv == /\ WaitInv
          /\ IsFiniteSet(held) /\ ttys \in Nat
          /\ BackgroundJobs = {} => Foreground

LEMMA TtyInit == Init => TtyInv
<1> SUFFICES ASSUME Init PROVE TtyInv
  OBVIOUS
<1>1. Unreaped = {}
  BY DEF Init, Unreaped
<1> QED  BY <1>1, WaitInit, FS_EmptySet DEF TtyInv, Foreground, Init

\* Whoever found room will find it again if the shell has closed pipes since.
LEMMA RoomStays ==
  ASSUME IsFiniteSet(held), ttys \in Nat, held' \subseteq held, ttys' = ttys, Room(1)
  PROVE  IsFiniteSet(held') /\ Room(1)'
<1>1. /\ IsFiniteSet(held') /\ Cardinality(held') <= Cardinality(held)
      /\ Cardinality(held) \in Nat /\ Cardinality(held') \in Nat
  BY FS_Subset, FS_CardinalityType
<1> QED  BY <1>1, OpenMaxAssumption DEF Room

LEMMA TtyStep == TtyInv /\ [Next]_vars => TtyInv'
<1> SUFFICES ASSUME TtyInv, [Next]_vars PROVE TtyInv'
  OBVIOUS
<1>0. /\ WaitInv /\ WaitInv' /\ Children
      /\ IsFiniteSet(held) /\ ttys \in Nat
  BY WaitStep DEF TtyInv, WaitInv
<1>1. CASE Quiet
  <2>1. IsFiniteSet(held') /\ ttys' \in Nat
    BY <1>0, <1>1, FS_AddElement DEF Quiet
  <2>2. /\ UNCHANGED <<kids, state, bg_handler, ttys, tty>>
        /\ \/ UNCHANGED <<loc, held>>
           \/ loc \notin {"bg", "waiting"} /\ loc' \notin {"bg", "waiting"}
    BY <1>1 DEF Quiet, Between
  <2>3. Unreaped' = Unreaped /\ BackgroundJobs' = BackgroundJobs
    BY <2>2 DEF Unreaped, BackgroundJobs
  <2>4. Foreground => Foreground'
    BY <2>2, <2>3 DEF Foreground, HandedOver, Group, Room
  <2> QED  BY <1>0, <2>1, <2>3, <2>4 DEF TtyInv
<1>2. CASE exe_proc
  <2> DEFINE n == Len(kids) + 1
  <2>1. /\ loc = "command" /\ loc' = IF Kid.job.bg THEN "bg" ELSE "waiting"
        /\ DOMAIN kids' = 1..n /\ DOMAIN kids = 1..Len(kids) /\ Len(kids') = n
        /\ \A i \in DOMAIN kids : kids'[i] = kids[i]
        /\ kids'[n] = Kid
        /\ Unreaped' = Unreaped \cup {n}
        /\ UNCHANGED <<bg_handler, ttys, tty>>
    BY <1>0, <1>2, ForkStep
  <2>2. Len(kids) \in Nat
    BY <1>0, LenProperties DEF Children
  <2>3. held' \subseteq held
    BY <1>2 DEF exe_proc, Fork
  <2>4. IsFiniteSet(held')
    BY <1>0, <2>3, FS_Subset
  <2>5. ASSUME BackgroundJobs' = {}
        PROVE  Foreground'
    <3>1. n \in DOMAIN kids' /\ \A i \in DOMAIN kids : i \in DOMAIN kids'
      BY <2>1, <2>2
    <3>2. BackgroundJobs = {} /\ ~Kid.job.bg
      BY <2>1, <2>5, <3>1 DEF BackgroundJobs
    <3>3. /\ ~bg_handler /\ tty = 0 /\ Unreaped = {} /\ loc' = "waiting"
      BY <2>1, <3>2 DEF TtyInv, Foreground
    <3>4. state'[n] = "forked"
      <4>1. state' = Append(state, "forked") /\ Len(state) + 1 = n
        BY <1>0, <1>2 DEF exe_proc, Fork, Children
      <4>2. state \in Seq(States) /\ "forked" \in States
        BY <1>0 DEF Children, States
      <4> QED  BY <4>1, <4>2, AppendProperties
    <3>5. Kid.full = ~Room(1)
      BY DEF Kid
    <3>6. ~kids'[n].full => Room(1)'
      BY <1>0, <2>1, <2>3, <3>5, RoomStays
    <3> QED  BY <2>1, <3>3, <3>4, <3>6 DEF Foreground, HandedOver
  <2> QED  BY <1>0, <2>1, <2>4, <2>5 DEF TtyInv
<1>3. CASE Background
  <2>1. loc = "bg" /\ UNCHANGED <<kids, held, ttys>>
    BY <1>3 DEF Background, Advance, kidVars, fdVars
  <2>2. BackgroundJobs' = BackgroundJobs /\ BackgroundJobs # {}
    BY <2>1 DEF BackgroundJobs, TtyInv, Foreground
  <2> QED  BY <1>0, <2>1, <2>2 DEF TtyInv
<1>4. CASE Wait
  <2>1. /\ loc = "waiting" /\ loc' \in {"running", "reading"}
        /\ UNCHANGED <<kids, held, bg_handler>>
        /\ ttys' \in {ttys, ttys + 1}
    BY <1>4 DEF Wait, Reap, Advance, Prompt
  <2>2. IsFiniteSet(held') /\ ttys' \in Nat
    BY <1>0, <2>1
  <2>3. ASSUME BackgroundJobs = {}
        PROVE  Foreground'
    <3>1. ~bg_handler /\ HandedOver(Len(kids))
      BY <2>1, <2>3 DEF TtyInv, Foreground
    <3>2. Unreaped # {}
      BY <1>0, <2>1, FS_EmptySet DEF WaitInv, One
    <3>3. PICK i \in Zombies : Reap(i, 0)
      BY <1>4, <3>2 DEF Wait
    <3>4. i \in Unreaped /\ Unreaped' = Unreaped \ {i}
      BY <1>0, <2>1, <3>3, ReapStep DEF Reap
    <3>5. i = Len(kids) /\ Unreaped' = {}
      BY <3>1, <3>4 DEF HandedOver
    <3>6. tty' = 0
      BY <3>1, <3>3 DEF HandedOver, Reap
    <3> QED  BY <2>1, <3>1, <3>5, <3>6 DEF Foreground
  <2>4. BackgroundJobs' = BackgroundJobs
    BY <2>1 DEF BackgroundJobs
  <2> QED  BY <1>0, <2>2, <2>3, <2>4 DEF TtyInv
<1>5. CASE bg_handler_runs
  <2>1. bg_handler /\ UNCHANGED <<kids, held, ttys>>
    BY <1>5 DEF bg_handler_runs, fdVars
  <2>2. BackgroundJobs' = BackgroundJobs /\ BackgroundJobs # {}
    BY <2>1 DEF BackgroundJobs, TtyInv, Foreground
  <2> QED  BY <1>0, <2>1, <2>2 DEF TtyInv
<1>6. ASSUME NEW i \in DOMAIN kids, Setup(i) \/ Finish(i) \/ Quit(i)
      PROVE  TtyInv'
  <2>1. /\ i \in Unreaped /\ Unreaped' = Unreaped
        /\ UNCHANGED <<loc, kids, bg_handler, held, ttys>>
    BY <1>0, <1>6, KidStep
  <2>2. ASSUME BackgroundJobs = {}
        PROVE  Foreground'
    <3>1. loc = "waiting" /\ HandedOver(i) /\ i = Len(kids) /\ ~bg_handler
      BY <2>1, <2>2 DEF TtyInv, Foreground, HandedOver
    <3>2. ~kids[i].job.bg
      BY <2>2 DEF BackgroundJobs
    <3>3. i \in DOMAIN state /\ DOMAIN state' = DOMAIN state
      BY <1>6, <2>1 DEF Unreaped, Setup, Finish, Quit, Dies, Becomes
    <3>4. /\ kids[i].full => tty' = 0
          /\ state'[i] # "forked"
          /\ state'[i] = "running" => tty' = Group(i)
      <4>1. CASE Setup(i)
        BY <3>1, <3>2, <3>3, <4>1 DEF Setup, Taken, Dies, Becomes, HandedOver
      <4>2. CASE Finish(i) \/ Quit(i)
        BY <3>1, <3>3, <4>2 DEF Finish, Quit, Dies, Becomes, HandedOver
      <4> QED  BY <1>6, <4>1, <4>2
    <3>5. Group(i)' = Group(i) /\ Room(1)' = Room(1)
      BY <2>1 DEF Group, Room
    <3>6. HandedOver(i)'
      BY <2>1, <3>1, <3>4, <3>5 DEF HandedOver
    <3> QED  BY <2>1, <3>1, <3>6 DEF Foreground
  <2>3. BackgroundJobs' = BackgroundJobs
    BY <2>1 DEF BackgroundJobs
  <2> QED  BY <1>0, <2>1, <2>2, <2>3 DEF TtyInv
<1>7. CASE wait_EINTR
  <2>1. bg_handler /\ UNCHANGED <<kids, held, ttys>>
    BY <1>0, <1>7, EINTRStep
  <2>2. BackgroundJobs' = BackgroundJobs /\ BackgroundJobs # {}
    BY <2>1 DEF BackgroundJobs, TtyInv, Foreground
  <2> QED  BY <1>0, <2>1, <2>2 DEF TtyInv
<1> QED  BY <1>1, <1>2, <1>3, <1>4, <1>5, <1>6, <1>7, QuietSteps DEF Next, ShellStep

\* Nothing having been sent to the background, a running program has the
\* terminal and the shell has it at the prompt, however many programs fail, and
\* even after exe_proc, which never closes /dev/tty, has used up the shell's
\* descriptors: the child then lacks them as well.
THEOREM TerminalFollows == Spec => []TtyFollows
<1>1. TtyInv => TtyFollows
  <2> SUFFICES ASSUME TtyInv, BackgroundJobs = {}
      PROVE  /\ loc = "reading" => tty = 0
             /\ \A i \in DOMAIN kids : state[i] = "running" => tty = Group(i)
    BY DEF TtyFollows
  <2>1. Foreground
    BY DEF TtyInv
  <2>2. ASSUME NEW i \in DOMAIN kids, state[i] = "running"
        PROVE  tty = Group(i)
    <3>1. DOMAIN kids = DOMAIN state
      BY LenProperties DEF TtyInv, WaitInv, Children
    <3>2. i \in Unreaped
      BY <2>2, <3>1 DEF Unreaped
    <3> QED  BY <2>1, <2>2, <3>2 DEF Foreground, HandedOver
  <2> QED  BY <2>1, <2>2 DEF Foreground
<1> QED  BY <1>1, TtyInit, TtyStep, PTL DEF Spec

-----------------------------------------------------------------------------
(* Pipes *)

\* The shell's pipes are numbered as they are made, and it holds none that it
\* has given to a reader.
PipeInv == /\ pipes \in Nat /\ held \subseteq 1..pipes
           /\ pfd_before \in 0..pipes /\ pfd_after \in 0..pipes /\ base \in 0..pipes
           /\ Children
           /\ \A i \in DOMAIN kids : kids[i].lp \in 0..pipes \ held

LEMMA PipeInit == Init => PipeInv
<1> SUFFICES ASSUME Init PROVE PipeInv
  OBVIOUS
<1>1. Children /\ DOMAIN kids = {}
  BY EmptySeq DEF Init, Children
<1> QED  BY <1>1 DEF Init, PipeInv

LEMMA PipeStep == PipeInv /\ [Next]_vars => PipeInv'
<1> SUFFICES ASSUME PipeInv, [Next]_vars PROVE PipeInv'
  OBVIOUS
<1> USE DEF PipeInv
<1>1. CASE NextCommand
  <2>1. /\ UNCHANGED <<kids, state>> /\ pfd_after' \in {0, pfd_after}
        /\ base' \in {base, pipes}
    BY <1>1 DEF NextCommand, Prompt, kidVars
  <2>2. \/ UNCHANGED <<pipes, held>> /\ pfd_before' \in {0, pfd_before}
        \/ pipes' = pipes + 1 /\ pfd_before' = pipes + 1 /\ held' = held \cup {pipes + 1}
    BY <1>1 DEF NextCommand, Prompt
  <2>3. Children'
    BY <2>1 DEF Children
  <2>4. /\ pipes' \in Nat /\ held' \subseteq 1..pipes'
        /\ pfd_before' \in 0..pipes' /\ pfd_after' \in 0..pipes' /\ base' \in 0..pipes'
    <3>1. pfd_after' \in 0..pipes /\ base' \in 0..pipes
      BY <2>1
    <3>2. CASE UNCHANGED <<pipes, held>> /\ pfd_before' \in {0, pfd_before}
      BY <3>1, <3>2
    <3>3. CASE /\ pipes' = pipes + 1 /\ pfd_before' = pipes + 1
               /\ held' = held \cup {pipes + 1}
      <4>1. 0..pipes \subseteq 0..pipes' /\ 1..pipes \subseteq 1..pipes'
        BY <3>3
      <4>2. pipes + 1 \in 0..pipes' /\ pipes + 1 \in 1..pipes' /\ pipes' \in Nat
        BY <3>3
      <4> QED  BY <3>1, <3>3, <4>1, <4>2
    <3> QED  BY <2>2, <3>2, <3>3
  <2>5. \A i \in DOMAIN kids : kids[i].lp \in 0..pipes' \ held'
    BY <2>2
  <2> QED  BY <2>1, <2>3, <2>4, <2>5
<1>2. CASE exe_proc
  <2>1. /\ Children' /\ DOMAIN kids' = 1..Len(kids) + 1 /\ DOMAIN kids = 1..Len(kids)
        /\ \A i \in DOMAIN kids : kids'[i] = kids[i]
        /\ kids'[Len(kids) + 1] = Kid
    BY <1>2, ForkStep
  <2>2. /\ UNCHANGED <<pipes, pfd_before, pfd_after, base>>
        /\ held' = held \ (IF is_after_pipe THEN {pfd_after} ELSE {})
    BY <1>2 DEF exe_proc, Fork, lineVars
  <2>3. Kid.lp = IF is_after_pipe THEN pfd_after ELSE 0
    BY DEF Kid
  <2>4. Kid.lp \in 0..pipes' \ held'
    BY <2>2, <2>3
  <2>5. Len(kids) \in Nat
    BY LenProperties DEF Children
  <2>6. ASSUME NEW i \in DOMAIN kids'
        PROVE  kids'[i].lp \in 0..pipes' \ held'
    BY <2>1, <2>2, <2>4, <2>5
  <2> QED  BY <2>1, <2>2, <2>6
<1>3. CASE Background
  <2>1. /\ UNCHANGED <<pipes, held, kids, state, pfd_before, base>>
        /\ pfd_after' \in {pfd_before, pfd_after}
    BY <1>3 DEF Background, Advance, fdVars, kidVars
  <2> QED  BY <2>1 DEF Children
<1>4. CASE Wait
  <2>1. /\ UNCHANGED <<pipes, held, kids>>
        /\ pfd_before' \in {0, pfd_before} /\ pfd_after' \in {0, pfd_before, pfd_after}
        /\ base' \in {base, pipes}
    BY <1>4 DEF Wait, Reap, Advance, Prompt
  <2>2. CASE \E i \in Zombies : Becomes(i, "reaped")
    BY <2>1, <2>2, ReapStep
  <2>3. CASE UNCHANGED state
    BY <2>1, <2>3 DEF Children
  <2> QED  BY <1>4, <2>2, <2>3 DEF Wait, Reap
<1>5. CASE bg_handler_runs
  <2>1. UNCHANGED <<pipes, held, kids, pfd_before, pfd_after, base>>
    BY <1>5 DEF bg_handler_runs, fdVars, lineVars
  <2>2. CASE \E i \in Zombies : Becomes(i, "reaped")
    BY <2>1, <2>2, ReapStep
  <2>3. CASE UNCHANGED state
    BY <2>1, <2>3 DEF Children
  <2> QED  BY <1>5, <2>2, <2>3 DEF bg_handler_runs
<1>6. ASSUME NEW i \in DOMAIN kids, Setup(i) \/ Finish(i) \/ Quit(i)
      PROVE  PipeInv'
  <2>1. Children' /\ UNCHANGED kids
    BY <1>6, KidStep
  <2>2. UNCHANGED <<pipes, held, pfd_before, pfd_after, base>>
    BY <1>6 DEF Setup, Finish, Quit, fdVars, lineVars
  <2> QED  BY <2>1, <2>2
<1>7. CASE UNCHANGED <<pipes, held, kids, state, pfd_before, pfd_after, base>>
  BY <1>7 DEF Children
<1>8. CASE Prompt /\ UNCHANGED <<fdVars, kidVars>>
  BY <1>8 DEF Prompt, fdVars, kidVars, Children
<1>9. CASE Advance /\ UNCHANGED <<fdVars, kidVars>>
  BY <1>9 DEF Advance, fdVars, kidVars, Children
<1> USE DEF lineVars, fdVars, kidVars
<1>10. CASE Type \/ print_new_line \/ TooMany \/ Stopped \/ exit_proc \/ UNCHANGED vars
  BY <1>7, <1>10 DEF Type, print_new_line, TooMany, Stopped, exit_proc, vars
<1>11. CASE gettoken
  BY <1>7, <1>8, <1>11 DEF gettoken
<1>12. CASE Interrupted \/ NoFork
  BY <1>8, <1>12 DEF Interrupted, NoFork
<1>13. CASE Check
  BY <1>7, <1>8, <1>13 DEF Check
<1>14. CASE builtin_proc
  BY <1>8, <1>9, <1>14 DEF builtin_proc
<1>15. CASE wait_EINTR
  <2>1. Children' /\ Prompt /\ UNCHANGED <<held, pipes, kids>>
    BY <1>15, EINTRStep
  <2> QED  BY <2>1 DEF Prompt
<1> QED  BY <1>1, <1>2, <1>3, <1>4, <1>5, <1>6, <1>10, <1>11, <1>12, <1>13, <1>14, <1>15
            DEF Next, ShellStep

\* A pipe that has its reader is never held by the shell, however many commands
\* a line has and whichever of them fail: the reader sees its end.
THEOREM ReadersSeeTheEnd == Spec => []PipesClosed
<1>1. PipeInv => PipesClosed
  BY DEF PipeInv, PipesClosed
<1> QED  BY <1>1, PipeInit, PipeStep, PTL DEF Spec

-----------------------------------------------------------------------------
(* The least number of a set, and where a command ends *)

LEMMA NatOrder == \E R : /\ IsWellFoundedOn(R, Nat)
                         /\ \A x, y \in Nat : <<y, x>> \in R <=> y < x
<1>1. \A x, y \in Nat : <<y, x>> \in OpToRel(<, Nat) <=> y < x
  BY DEF OpToRel
<1>2. IsWellFoundedOn(OpToRel(<, Nat), Nat)
  BY NatLessThanWellFounded
<1> QED  BY <1>1, <1>2, Zenon

LEMMA Least ==
  ASSUME NEW T, T \subseteq Nat, T # {}
  PROVE  \E x \in T : \A y \in T : x <= y
<1>1. PICK R : /\ IsWellFoundedOn(R, Nat)
               /\ \A x, y \in Nat : <<y, x>> \in R <=> y < x
  BY NatOrder
<1>2. PICK x \in T : \A y \in T : ~(<<y, x>> \in R)
  BY <1>1, WFMin
<1>3. ASSUME NEW y \in T
      PROVE  x <= y
  <2>1. x \in Nat /\ y \in Nat
    OBVIOUS
  <2>2. ~(y < x)
    BY <1>1, <1>2, <2>1
  <2> QED  BY <2>1, <2>2
<1> QED  BY <1>3

Words == [word : STRING, token : Tokens]

\* A line as gettoken leaves it.
Ended(l) == l \in Seq(Words) /\ l # << >> /\ l[Len(l)].token = "EOL"

\* A command that begins on such a line ends on it, at its first character
\* that is no redirection.
LEMMA EndProperties ==
  ASSUME NEW l, Ended(l), NEW k \in 1..Len(l)
  PROVE  /\ End(l, k) \in k..Len(l)
         /\ l[End(l, k)].token \notin Redirs
         /\ \A j \in k..(End(l, k) - 1) : l[j].token \in Redirs
<1> DEFINE T == {e \in k..Len(l) : l[e].token \notin Redirs}
<1>1. Len(l) \in Nat
  BY LenProperties DEF Ended
<1>2. Len(l) \in T /\ T \subseteq Nat
  BY <1>1 DEF Ended, Redirs
<1>3. PICK e \in T : \A y \in T : e <= y
  BY <1>2, Least
<1>4. \A j \in k..(e - 1) : l[j].token \in Redirs
  BY <1>1, <1>3
<1>5. \E x \in k..Len(l) : /\ l[x].token \notin Redirs
                           /\ \A j \in k..(x - 1) : l[j].token \in Redirs
  BY <1>3, <1>4
<1> QED  BY <1>5 DEF End

-----------------------------------------------------------------------------
(* Types *)

Locs     == {"reading", "checking", "running", "command", "bg", "waiting",
             "stopped", "exited"}
Complete == {"checking", "running", "command", "bg", "waiting"}
Busy     == {"command", "bg", "waiting"}

\* From the end of gettoken's loop until the next prompt there is a whole line,
\* and cmd_pos is in it while a command runs: else the end of the command that
\* Advance looks for would not exist.
LineInv == /\ loc \in Locs
           /\ buf \in Seq(Words)
           /\ line \in Seq(Words) /\ Len(line) <= CMD_NUM
           /\ cmd_pos \in 1..(Len(line) + 1)
           /\ loc \in Complete => Ended(line)
           /\ loc \in Busy => cmd_pos <= Len(line)

\* The children that the shell counts, and the switches.
CountInv == /\ typed \in 0..MaxLines /\ first \in 0..Len(kids)
            /\ ttys \in Nat /\ tty \in 0..Len(kids)
            /\ is_after_pipe \in BOOLEAN /\ is_continue \in BOOLEAN
            /\ bg_handler \in BOOLEAN /\ chld \in BOOLEAN

LEMMA PromptLine ==
  ASSUME LineInv, Prompt, buf' \in Seq(Words)
  PROVE  LineInv'
<1>1. << >> \in Seq(Words) /\ Len(<< >>) = 0
  BY EmptySeq
<1> QED  BY <1>1, CmdNumAssumption
         DEF LineInv, Prompt, Locs, Complete, Busy

LEMMA AdvanceLine ==
  ASSUME LineInv, Advance, loc \in Busy, buf' = buf
  PROVE  LineInv'
<1>1. Ended(line) /\ cmd_pos \in 1..Len(line) /\ Len(line) \in Nat
  BY LenProperties DEF LineInv, Complete, Busy
<1>2. End(line, cmd_pos) \in cmd_pos..Len(line)
  BY <1>1, EndProperties
<1>3. End(line, cmd_pos) + 1 \in 1..(Len(line) + 1)
  BY <1>1, <1>2
<1>4. line' = line /\ loc' = "running" /\ cmd_pos' = End(line, cmd_pos) + 1
  BY DEF Advance
<1> QED  BY <1>1, <1>3, <1>4 DEF LineInv, Locs, Complete, Busy

\* What a step that does not move on the line may change.
LEMMA SameLine ==
  ASSUME LineInv, buf' = buf, line' = line, cmd_pos' = cmd_pos,
         loc' \in {loc, "stopped", "exited"}
  PROVE  LineInv'
BY DEF LineInv, Locs, Complete, Busy

LEMMA LineInit == Init => LineInv
<1> SUFFICES ASSUME Init PROVE LineInv
  OBVIOUS
<1>1. << >> \in Seq(Words) /\ Len(<< >>) = 0
  BY EmptySeq
<1> QED  BY <1>1, CmdNumAssumption
         DEF Init, LineInv, Locs, Complete, Busy

LEMMA LineStep == LineInv /\ [Next]_vars => LineInv'
<1> SUFFICES ASSUME LineInv, [Next]_vars PROVE LineInv'
  OBVIOUS
<1> USE DEF inputVars, lineVars
<1>1. CASE Type
  <2>1. buf' \in Seq(Words) /\ UNCHANGED <<loc, line, cmd_pos>>
    BY <1>1, LinesAssumption DEF Type, Words
  <2> QED  BY <2>1 DEF LineInv
<1>2. CASE gettoken
  <2>1. /\ buf \in Seq(Words) /\ buf # << >> /\ loc = "reading"
        /\ line \in Seq(Words) /\ Len(line) < CMD_NUM /\ Len(line) \in Nat
        /\ cmd_pos \in 1..(Len(line) + 1)
    BY <1>2, LenProperties DEF gettoken, LineInv
  <2>2. Head(buf) \in Words /\ Tail(buf) \in Seq(Words)
    BY <2>1, HeadTailProperties
  <2>3. buf' \in Seq(Words)
    BY <1>2, <2>1, <2>2 DEF gettoken
  <2>4. CASE is_continue
    BY <1>2, <2>3, <2>4, PromptLine DEF gettoken
  <2>5. CASE ~is_continue
    <3>1. /\ line' = Append(line, Head(buf)) /\ cmd_pos' = cmd_pos
          /\ loc' = IF Head(buf).token = "EOL" THEN "checking" ELSE loc
      BY <1>2, <2>5 DEF gettoken
    <3>2. /\ line' \in Seq(Words) /\ Len(line') = Len(line) + 1
          /\ line'[Len(line')] = Head(buf)
      BY <2>1, <2>2, <3>1, AppendProperties
    <3>3. line' # << >>
      BY <2>1, <3>2, EmptySeq
    <3>4. loc' = "checking" => Ended(line')
      BY <2>1, <3>1, <3>2, <3>3 DEF Ended
    <3>5. cmd_pos' \in 1..(Len(line') + 1) /\ Len(line') <= CMD_NUM
      BY <2>1, <3>1, <3>2, CmdNumAssumption
    <3>6. loc' \in {"reading", "checking"}
      BY <2>1, <3>1
    <3> QED  BY <2>3, <3>2, <3>4, <3>5, <3>6 DEF LineInv, Locs, Complete, Busy
  <2> QED  BY <2>4, <2>5
<1>3. CASE Check
  <2>1. CASE Prompt /\ buf' = buf
    BY <2>1, PromptLine DEF LineInv
  <2>2. CASE loc = "checking" /\ loc' = "running" /\ UNCHANGED <<buf, line, cmd_pos>>
    BY <2>2 DEF LineInv, Locs, Complete, Busy
  <2> QED  BY <1>3, <2>1, <2>2 DEF Check
<1>4. CASE NextCommand
  <2>1. CASE Prompt /\ buf' = buf
    BY <2>1, PromptLine DEF LineInv
  <2>2. CASE ~Prompt
    <3>1. /\ loc = "running" /\ ~(cmd_pos > Len(line)) /\ loc' = "command"
          /\ UNCHANGED <<buf, line, cmd_pos>>
      BY <1>4, <2>2 DEF NextCommand
    <3>2. Len(line) \in Nat
      BY LenProperties DEF LineInv
    <3> QED  BY <3>1, <3>2 DEF LineInv, Locs, Complete, Busy
  <2> QED  BY <1>4, <2>1, <2>2 DEF NextCommand
<1>5. CASE exe_proc
  <2>1. /\ loc = "command" /\ loc' \in {"bg", "waiting"}
        /\ UNCHANGED <<buf, line, cmd_pos>>
    BY <1>5 DEF exe_proc, Fork, Program
  <2> QED  BY <2>1 DEF LineInv, Locs, Complete, Busy
<1>6. CASE builtin_proc
  <2>1. loc \in Busy /\ buf' = buf /\ (Advance \/ Prompt)
    BY <1>6 DEF builtin_proc, Busy
  <2> QED  BY <2>1, AdvanceLine, PromptLine DEF LineInv
<1>7. CASE Background
  <2>1. loc \in Busy /\ buf' = buf /\ Advance
    BY <1>7 DEF Background, Busy
  <2> QED  BY <2>1, AdvanceLine
<1>8. CASE Wait
  <2>1. loc \in Busy /\ buf' = buf /\ (Advance \/ Prompt)
    BY <1>8 DEF Wait, Reap, Busy
  <2> QED  BY <2>1, AdvanceLine, PromptLine DEF LineInv
<1>9. CASE Interrupted \/ NoFork \/ wait_EINTR
  <2>1. Prompt /\ buf' = buf
    BY <1>9 DEF Interrupted, NoFork, wait_EINTR
  <2> QED  BY <2>1, PromptLine DEF LineInv
<1>10. CASE \/ TooMany \/ Stopped \/ exit_proc \/ bg_handler_runs \/ print_new_line
            \/ UNCHANGED vars
  BY <1>10, SameLine DEF TooMany, Stopped, exit_proc, bg_handler_runs, print_new_line, vars
<1>11. ASSUME NEW i \in DOMAIN kids, Setup(i) \/ Finish(i) \/ Quit(i)
       PROVE  LineInv'
  BY <1>11, SameLine DEF Setup, Finish, Quit
<1> QED  BY <1>1, <1>2, <1>3, <1>4, <1>5, <1>6, <1>7, <1>8, <1>9, <1>10, <1>11
         DEF Next, ShellStep

LEMMA CountInit == Init => CountInv
<1> SUFFICES ASSUME Init PROVE CountInv
  OBVIOUS
<1>1. Len(kids) = 0
  BY EmptySeq DEF Init
<1>2. 0 \in 0..MaxLines
  BY MaxLinesAssumption
<1>3. /\ is_after_pipe \in BOOLEAN /\ is_continue \in BOOLEAN
      /\ bg_handler \in BOOLEAN /\ chld \in BOOLEAN
  BY Zenon DEF Init
<1>4. /\ typed \in 0..MaxLines /\ first \in 0..Len(kids)
      /\ ttys \in Nat /\ tty \in 0..Len(kids)
  BY <1>1, <1>2 DEF Init
<1> QED  BY <1>3, <1>4 DEF CountInv

LEMMA CountStep == CountInv /\ Children /\ [Next]_vars => CountInv'
<1> SUFFICES ASSUME CountInv, Children, [Next]_vars PROVE CountInv'
  OBVIOUS
<1> USE DEF CountInv, inputVars, lineVars, fdVars, kidVars, signalVars
<1>0. Len(kids) \in Nat /\ DOMAIN kids = 1..Len(kids)
  BY LenProperties DEF Children
<1>1. ASSUME Prompt, UNCHANGED <<kids, ttys, tty, bg_handler, chld>>, typed' = typed
      PROVE  CountInv'
  <2>1. /\ is_after_pipe' \in BOOLEAN /\ is_continue' \in BOOLEAN
        /\ bg_handler' \in BOOLEAN /\ chld' \in BOOLEAN
    BY <1>1, Zenon DEF Prompt
  <2>2. /\ typed' \in 0..MaxLines /\ first' \in 0..Len(kids')
        /\ ttys' \in Nat /\ tty' \in 0..Len(kids')
    BY <1>0, <1>1 DEF Prompt
  <2> QED  BY <2>1, <2>2
<1>2. CASE Type
  <2>1. typed \in 0..MaxLines /\ typed < MaxLines /\ typed' = typed + 1
    BY <1>2 DEF Type
  <2>2. typed' \in 0..MaxLines
    BY <2>1, MaxLinesAssumption
  <2>3. UNCHANGED <<kids, first, ttys, tty, is_after_pipe, is_continue, bg_handler, chld>>
    BY <1>2 DEF Type
  <2> QED  BY <2>2, <2>3
<1>3. CASE gettoken
  BY <1>1, <1>3 DEF gettoken
<1>4. CASE Check
  BY <1>1, <1>4 DEF Check
<1>5. CASE NextCommand
  BY <1>1, <1>5 DEF NextCommand
<1>6. CASE Interrupted \/ NoFork
  BY <1>1, <1>6 DEF Interrupted, NoFork
<1>7. CASE builtin_proc
  BY <1>1, <1>7 DEF builtin_proc, Advance
<1>8. CASE exe_proc
  <2>1. Len(kids') = Len(kids) + 1 /\ UNCHANGED <<bg_handler, ttys, tty>>
    BY <1>8, ForkStep
  <2>2. UNCHANGED <<typed, first, is_after_pipe, is_continue, chld>>
    BY <1>8 DEF exe_proc, Fork
  <2> QED  BY <1>0, <2>1, <2>2
<1>9. CASE Background
  BY <1>9 DEF Background, Advance
<1>10. CASE Wait
  <2>1. /\ UNCHANGED <<kids, typed, bg_handler, chld>>
        /\ first' \in {first, Len(kids)}
        /\ is_after_pipe' \in BOOLEAN /\ is_continue' \in BOOLEAN
        /\ ttys' \in {ttys, ttys + 1} /\ tty' \in {tty, 0}
    BY <1>10 DEF Wait, Reap, Advance, Prompt
  <2> QED  BY <1>0, <2>1
<1>11. CASE bg_handler_runs
  BY <1>11 DEF bg_handler_runs
<1>12. CASE TooMany \/ Stopped \/ exit_proc \/ print_new_line \/ UNCHANGED vars
  BY <1>12 DEF TooMany, Stopped, exit_proc, print_new_line, vars
<1>13. ASSUME NEW i \in DOMAIN kids, Setup(i) \/ Finish(i) \/ Quit(i)
       PROVE  CountInv'
  <2>1. Taken(i) \in 0..Len(kids)
    BY <1>0 DEF Taken, Group
  <2>2. tty' \in 0..Len(kids) /\ chld' \in BOOLEAN
    BY <1>13, <2>1 DEF Setup, Finish, Quit, Dies
  <2>3. UNCHANGED <<kids, typed, first, ttys, is_after_pipe, is_continue, bg_handler>>
    BY <1>13 DEF Setup, Finish, Quit
  <2> QED  BY <2>2, <2>3
<1>14. CASE wait_EINTR
  <2>1. Prompt /\ bg_handler' = FALSE /\ chld' = FALSE /\ UNCHANGED <<typed, kids, ttys, tty>>
    BY <1>14, EINTRStep
  <2>2. /\ is_after_pipe' \in BOOLEAN /\ is_continue' \in BOOLEAN
        /\ bg_handler' \in BOOLEAN /\ chld' \in BOOLEAN
    BY <2>1, Zenon DEF Prompt
  <2>3. /\ typed' \in 0..MaxLines /\ first' \in 0..Len(kids')
        /\ ttys' \in Nat /\ tty' \in 0..Len(kids')
    BY <1>0, <2>1 DEF Prompt
  <2> QED  BY <2>2, <2>3
<1> QED  BY <1>2, <1>3, <1>4, <1>5, <1>6, <1>7, <1>8, <1>9, <1>10, <1>11, <1>12, <1>13, <1>14
         DEF Next, ShellStep

\* Every variable keeps its type, and a line never outgrows its array: a shell
\* that has not seen the end of a line when the array is full gives up.
THEOREM ShellTypeCorrect == Spec => []ShellTypeOK
<1> DEFINE TypeInv == LineInv /\ PipeInv /\ CountInv
<1>1. Init => TypeInv
  BY LineInit, PipeInit, CountInit
<1>2. TypeInv /\ [Next]_vars => TypeInv'
  BY LineStep, PipeStep, CountStep DEF PipeInv
<1>3. TypeInv => ShellTypeOK
  <2> SUFFICES ASSUME TypeInv PROVE ShellTypeOK
    OBVIOUS
  <2>1. Len(line) \in Nat /\ CMD_NUM \in Nat
    BY LenProperties, CmdNumAssumption DEF LineInv
  <2>2. cmd_pos \in 1..(CMD_NUM + 1)
    BY <2>1 DEF LineInv
  <2>3. loc \in Locs /\ Len(line) <= CMD_NUM
    BY DEF LineInv
  <2>4. /\ {is_after_pipe, is_continue, bg_handler, chld} \subseteq BOOLEAN
        /\ typed \in 0..MaxLines /\ first \in 0..Len(kids)
        /\ ttys \in Nat /\ tty \in 0..Len(kids)
    BY DEF CountInv
  <2>5. /\ pipes \in Nat /\ held \subseteq 1..pipes
        /\ {pfd_before, pfd_after, base} \subseteq 0..pipes
        /\ Len(state) = Len(kids) /\ state \in Seq(States)
    BY DEF PipeInv, Children
  <2> QED  BY <2>2, <2>3, <2>4, <2>5 DEF ShellTypeOK, Locs, States
<1> QED  BY <1>1, <1>2, <1>3, PTL DEF Spec

-----------------------------------------------------------------------------
(* Positions of a sequence, one after the other, and what Sift leaves of it *)

\* What holds of 0, and of each number after one of which it holds, holds of
\* all up to n.
LEMMA Upto ==
  ASSUME NEW n \in Nat, NEW S, 0 \in S,
         \A i \in 0..(n - 1) : i \in S => i + 1 \in S
  PROVE  \A i \in 0..n : i \in S
<1> SUFFICES ASSUME NEW j \in 0..n, j \notin S PROVE FALSE
  OBVIOUS
<1> DEFINE T == {i \in 0..n : i \notin S}
<1>1. T \subseteq Nat /\ T # {}
  OBVIOUS
<1>2. PICK x \in T : \A y \in T : x <= y
  BY <1>1, Least
<1>3. x # 0 /\ x \in 0..n /\ x \notin S
  OBVIOUS
<1>4. x - 1 \in 0..(n - 1) /\ x - 1 \notin T
  BY <1>2, <1>3
<1>5. x - 1 \in S
  BY <1>4
<1> QED  BY <1>3, <1>4, <1>5

\* The function that Sifted describes exists.
LEMMA SiftedExists ==
  ASSUME NEW s, NEW T, Len(s) \in Nat
  PROVE  \E f : f = [i \in 0..Len(s) |->
                       IF i = 0 THEN << >>
                       ELSE IF i \in T THEN Append(f[i - 1], s[i]) ELSE f[i - 1]]
<1> DEFINE Is(n, f) == f = [i \in 0..n |->
                              IF i = 0 THEN << >>
                              ELSE IF i \in T THEN Append(f[i - 1], s[i]) ELSE f[i - 1]]
           S == {n \in 0..Len(s) : \E f : Is(n, f)}
<1>1. 0 \in S
  <2>1. Is(0, [i \in 0..0 |-> << >>])
    OBVIOUS
  <2> HIDE DEF Is
  <2> QED  BY <2>1
<1>2. ASSUME NEW n \in 0..(Len(s) - 1), n \in S
      PROVE  n + 1 \in S
  <2>1. PICK f : Is(n, f)
    BY <1>2
  <2> DEFINE last == IF n + 1 \in T THEN Append(f[n], s[n + 1]) ELSE f[n]
             g == [i \in 0..(n + 1) |-> IF i = n + 1 THEN last ELSE f[i]]
  <2>2. Is(n + 1, g)
    <3>1. ASSUME NEW i \in 0..(n + 1)
          PROVE  g[i] = IF i = 0 THEN << >>
                        ELSE IF i \in T THEN Append(g[i - 1], s[i]) ELSE g[i - 1]
      <4>1. CASE i = n + 1
        BY <4>1
      <4>2. CASE i \in 0..n
        <5>1. f[i] = IF i = 0 THEN << >>
                     ELSE IF i \in T THEN Append(f[i - 1], s[i]) ELSE f[i - 1]
          BY <2>1, <4>2
        <5>2. g[i] = f[i] /\ (i # 0 => g[i - 1] = f[i - 1])
          BY <4>2
        <5> QED  BY <5>1, <5>2
      <4> QED  BY <4>1, <4>2
    <3> QED  BY <3>1
  <2>3. n + 1 \in 0..Len(s)
    OBVIOUS
  <2> HIDE DEF Is, g
  <2> QED  BY <2>2, <2>3
<1> HIDE DEF S
<1>3. Len(s) \in S
  <2>1. \A i \in 0..Len(s) : i \in S
    BY <1>1, <1>2, Upto
  <2>2. Len(s) \in 0..Len(s)
    OBVIOUS
  <2> QED  BY <2>1, <2>2
<1> QED  BY <1>3 DEF S

\* What is left of the first i elements.
LEMMA SiftedStep ==
  ASSUME NEW X, NEW s \in Seq(X), NEW T
  PROVE  /\ Sifted(s, T)[0] = << >>
         /\ \A i \in 1..Len(s) :
              Sifted(s, T)[i] = IF i \in T THEN Append(Sifted(s, T)[i - 1], s[i])
                                ELSE Sifted(s, T)[i - 1]
         /\ \A i \in 0..Len(s) : Sifted(s, T)[i] \in Seq(X)
<1> DEFINE f == Sifted(s, T)
           S == {i \in 0..Len(s) : f[i] \in Seq(X)}
<1>0. Len(s) \in Nat /\ \A i \in 1..Len(s) : s[i] \in X
  BY LenProperties, ElementOfSeq
<1> DEFINE G(g) == [i \in 0..Len(s) |->
                     IF i = 0 THEN << >>
                     ELSE IF i \in T THEN Append(g[i - 1], s[i]) ELSE g[i - 1]]
<1>1. f = G(f)
  <2>1. f = CHOOSE g : g = G(g)
    BY DEF Sifted
  <2>2. \E g : g = G(g)
    BY <1>0, SiftedExists
  <2> HIDE DEF f, G
  <2> QED  BY <2>1, <2>2
<1> HIDE DEF f
<1>2. /\ f[0] = << >>
      /\ \A i \in 1..Len(s) :
           f[i] = IF i \in T THEN Append(f[i - 1], s[i]) ELSE f[i - 1]
  <2>1. \A i \in 0..Len(s) : f[i] = G(f)[i]
    BY <1>1
  <2>2. G(f)[0] = << >>
    BY <1>0
  <2>3. \A i \in 1..Len(s) :
           G(f)[i] = IF i \in T THEN Append(f[i - 1], s[i]) ELSE f[i - 1]
    BY <1>0
  <2> HIDE DEF G
  <2> QED  BY <1>0, <2>1, <2>2, <2>3
<1>3. 0 \in S
  <2>1. 0 \in 0..Len(s)
    BY <1>0
  <2>2. << >> \in Seq(X)
    BY EmptySeq
  <2> QED  BY <1>2, <2>1, <2>2
<1>4. ASSUME NEW i \in 0..(Len(s) - 1), i \in S
      PROVE  i + 1 \in S
  <2>1. i + 1 \in 1..Len(s) /\ f[(i + 1) - 1] = f[i] /\ f[i] \in Seq(X)
    BY <1>0, <1>4
  <2>2. f[i + 1] = IF i + 1 \in T THEN Append(f[i], s[i + 1]) ELSE f[i]
    BY <1>2, <2>1
  <2>3. f[i + 1] \in Seq(X)
    BY <1>0, <2>1, <2>2, AppendProperties
  <2> QED  BY <1>0, <2>3
<1> HIDE DEF S
<1>5. \A i \in 0..Len(s) : i \in S
  BY <1>0, <1>3, <1>4, Upto
<1> QED  BY <1>2, <1>5 DEF S, f

\* What is left of the first elements is the beginning of what is left.
LEMMA SiftedPrefix ==
  ASSUME NEW X, NEW s \in Seq(X), NEW T, NEW i \in 0..Len(s)
  PROVE  IsPrefix(Sifted(s, T)[i], Sift(s, T))
<1> DEFINE f == Sifted(s, T)
           P(a, b) == /\ Len(a) <= Len(b)
                      /\ \A k \in 1..Len(a) : a[k] = b[k]
           S == {n \in 0..Len(s) : i <= n => P(f[i], f[n])}
<1>0. /\ Len(s) \in Nat
      /\ f[0] = << >>
      /\ \A n \in 1..Len(s) :
           f[n] = IF n \in T THEN Append(f[n - 1], s[n]) ELSE f[n - 1]
      /\ \A n \in 0..Len(s) : f[n] \in Seq(X) /\ Len(f[n]) \in Nat
  BY SiftedStep, LenProperties
<1> HIDE DEF f
<1>1. ASSUME NEW n \in 0..Len(s)
      PROVE  P(f[n], f[n])
  BY <1>0
<1>2. 0 \in S
  BY <1>0, <1>1
<1>3. ASSUME NEW n \in 0..(Len(s) - 1), n \in S
      PROVE  n + 1 \in S
  <2>1. n \in 0..Len(s) /\ n + 1 \in 1..Len(s) /\ (n + 1) - 1 = n
    BY <1>0
  <2>2. CASE i = n + 1
    BY <1>1, <2>1, <2>2
  <2>3. CASE i <= n
    <3>1. P(f[i], f[n])
      BY <1>3, <2>3
    <3>2. P(f[n], f[n + 1])
      <4>1. CASE n + 1 \in T
        <5>1. f[n + 1] = Append(f[n], s[n + 1]) /\ s[n + 1] \in X
          BY <1>0, <2>1, <4>1, ElementOfSeq
        <5> QED  BY <1>0, <2>1, <5>1, AppendProperties
      <4>2. CASE n + 1 \notin T
        BY <1>0, <1>1, <2>1, <4>2
      <4> QED  BY <4>1, <4>2
    <3>3. P(f[i], f[n + 1])
      BY <1>0, <2>1, <3>1, <3>2
    <3> QED  BY <2>1, <3>3
  <2> QED  BY <1>0, <2>1, <2>2, <2>3
<1> HIDE DEF S
<1>4. \A n \in 0..Len(s) : n \in S
  BY <1>0, <1>2, <1>3, Upto
<1>5. P(f[i], f[Len(s)])
  BY <1>0, <1>4 DEF S
<1>6. SubSeq(f[i], 1, Len(f[i])) = SubSeq(f[Len(s)], 1, Len(f[i]))
  BY <1>0, <1>5
<1> QED  BY <1>5, <1>6 DEF IsPrefix, Sift, f

\* The last element that is left is that at the last position in T.
LEMMA SiftedLast ==
  ASSUME NEW X, NEW s \in Seq(X), NEW T
  PROVE  \/ Sift(s, T) = << >> /\ \A y \in 1..Len(s) : y \notin T
         \/ /\ Sift(s, T) # << >>
            /\ \E x \in 1..Len(s) : /\ x \in T
                                   /\ \A y \in 1..Len(s) : y \in T => y <= x
                                   /\ Last(Sift(s, T)) = s[x]
<1> DEFINE f == Sifted(s, T)
           None(n) == f[n] = << >> /\ \A y \in 1..n : y \notin T
           Some(n) == /\ f[n] # << >>
                      /\ \E x \in 1..n : /\ x \in T
                                        /\ \A y \in 1..n : y \in T => y <= x
                                        /\ Last(f[n]) = s[x]
           S == {n \in 0..Len(s) : None(n) \/ Some(n)}
<1>0. /\ Len(s) \in Nat
      /\ f[0] = << >>
      /\ \A n \in 1..Len(s) :
           f[n] = IF n \in T THEN Append(f[n - 1], s[n]) ELSE f[n - 1]
      /\ \A n \in 0..Len(s) : f[n] \in Seq(X) /\ Len(f[n]) \in Nat
  BY SiftedStep, LenProperties
<1> HIDE DEF f
<1>2. 0 \in S
  BY <1>0
<1>3. ASSUME NEW n \in 0..(Len(s) - 1), n \in S
      PROVE  n + 1 \in S
  <2>1. n \in 0..Len(s) /\ n + 1 \in 1..Len(s) /\ (n + 1) - 1 = n
    BY <1>0
  <2>2. CASE n + 1 \in T
    <3>1. f[n + 1] = Append(f[n], s[n + 1]) /\ s[n + 1] \in X
      BY <1>0, <2>1, <2>2, ElementOfSeq
    <3>2. Len(f[n + 1]) = Len(f[n]) + 1 /\ f[n + 1][Len(f[n]) + 1] = s[n + 1]
      BY <1>0, <2>1, <3>1, AppendProperties
    <3>3. f[n + 1] # << >> /\ Last(f[n + 1]) = s[n + 1]
      BY <1>0, <2>1, <3>2, EmptySeq DEF Last
    <3>4. \A y \in 1..(n + 1) : y \in T => y <= n + 1
      OBVIOUS
    <3>5. Some(n + 1)
      BY <2>1, <2>2, <3>3, <3>4
    <3> QED  BY <2>1, <3>5
  <2>3. CASE n + 1 \notin T
    <3>1. f[n + 1] = f[n]
      BY <1>0, <2>1, <2>3
    <3>2. \A y \in 1..(n + 1) : y \in T => y \in 1..n
      BY <2>1, <2>3
    <3>3. None(n) => None(n + 1)
      BY <3>1, <3>2
    <3>4. Some(n) => Some(n + 1)
      <4> SUFFICES ASSUME Some(n) PROVE Some(n + 1)
        OBVIOUS
      <4>1. PICK x \in 1..n : /\ x \in T
                              /\ \A y \in 1..n : y \in T => y <= x
                              /\ Last(f[n]) = s[x]
        OBVIOUS
      <4>2. x \in 1..(n + 1) /\ \A y \in 1..(n + 1) : y \in T => y <= x
        BY <2>1, <3>2, <4>1
      <4> QED  BY <3>1, <4>1, <4>2
    <3> QED  BY <1>3, <2>1, <3>3, <3>4
  <2> QED  BY <2>2, <2>3
<1> HIDE DEF S
<1>4. \A n \in 0..Len(s) : n \in S
  BY <1>0, <1>2, <1>3, Upto
<1>5. Len(s) \in S
  BY <1>0, <1>4
<1> QED  BY <1>5 DEF S, Sift, f

-----------------------------------------------------------------------------
(* The commands of a line *)

\* The ends of the commands are the positions of a line that have no
\* redirection, each once and in their order.
LEMMA InOrderProperties ==
  ASSUME NEW l, Ended(l)
  PROVE  /\ Len(InOrder(l)) \in Nat /\ DOMAIN InOrder(l) = 1..Len(InOrder(l))
         /\ \A a \in 1..Len(InOrder(l)) : InOrder(l)[a] \in Ends(l)
         /\ \A e \in Ends(l) : \E a \in 1..Len(InOrder(l)) : InOrder(l)[a] = e
         /\ \A a, b \in 1..Len(InOrder(l)) : a < b => InOrder(l)[a] < InOrder(l)[b]
<1> DEFINE N == Len(l)
           s == [k \in 1..N |-> k]
           T == Ends(l)
           f == Sifted(s, T)
           In(n)    == \A a \in 1..Len(f[n]) : f[n][a] \in T /\ f[n][a] <= n
           All(n)   == \A e \in T : e <= n => \E a \in 1..Len(f[n]) : f[n][a] = e
           Order(n) == \A a, b \in 1..Len(f[n]) : a < b => f[n][a] < f[n][b]
           S == {n \in 0..N : In(n) /\ All(n) /\ Order(n)}
<1>0. N \in Nat /\ DOMAIN l = 1..N
  BY LenProperties DEF Ended
<1>1. s \in Seq(Nat) /\ Len(s) = N /\ T \subseteq 1..N
  BY <1>0 DEF Ends
<1>2. /\ f[0] = << >>
      /\ \A n \in 1..N : f[n] = IF n \in T THEN Append(f[n - 1], n) ELSE f[n - 1]
      /\ \A n \in 0..N : f[n] \in Seq(Nat) /\ Len(f[n]) \in Nat
  <2>2. \A n \in 1..N : s[n] = n
    OBVIOUS
  <2> HIDE DEF s, T
  <2>3. /\ f[0] = << >>
        /\ \A n \in 1..Len(s) : f[n] = IF n \in T THEN Append(f[n - 1], s[n]) ELSE f[n - 1]
        /\ \A n \in 0..Len(s) : f[n] \in Seq(Nat)
    BY <1>1, SiftedStep
  <2> HIDE DEF f
  <2>1. /\ f[0] = << >>
        /\ \A n \in 1..N : f[n] = IF n \in T THEN Append(f[n - 1], n) ELSE f[n - 1]
        /\ \A n \in 0..N : f[n] \in Seq(Nat)
    BY <1>1, <2>2, <2>3
  <2> QED  BY <1>0, <2>1, LenProperties
<1>3. \A x \in T : x \in Nat
  BY <1>0, <1>1
<1>9. InOrder(l) = f[N]
  BY <1>0, <1>1 DEF InOrder, Sift
<1> HIDE DEF f, T
<1>4. 0 \in S
  BY <1>0, <1>1, <1>2
<1>5. ASSUME NEW n \in 0..(N - 1), n \in S
      PROVE  n + 1 \in S
  <2>1. n \in 0..N /\ n + 1 \in 1..N /\ n + 1 \in 0..N /\ (n + 1) - 1 = n
    BY <1>0
  <2>2. CASE n + 1 \in T
    <3>1. f[n + 1] = Append(f[n], n + 1) /\ f[n] \in Seq(Nat) /\ Len(f[n]) \in Nat
      BY <1>2, <2>1, <2>2
    <3>2. /\ Len(f[n + 1]) = Len(f[n]) + 1
          /\ \A a \in 1..Len(f[n]) : f[n + 1][a] = f[n][a]
          /\ f[n + 1][Len(f[n]) + 1] = n + 1
      BY <2>1, <3>1, AppendProperties
    <3>3. In(n + 1)
      BY <1>1, <1>5, <2>1, <2>2, <3>1, <3>2
    <3>4. All(n + 1)
      <4> SUFFICES ASSUME NEW e \in T, e <= n + 1
                   PROVE  \E a \in 1..Len(f[n + 1]) : f[n + 1][a] = e
        OBVIOUS
      <4>1. CASE e = n + 1
        <5> DEFINE last == Len(f[n]) + 1
        <5>1. last \in 1..Len(f[n + 1])
          BY <3>1, <3>2
        <5>2. f[n + 1][last] = e
          BY <3>2, <4>1
        <5> HIDE DEF last
        <5> QED  BY <5>1, <5>2, Zenon
      <4>2. CASE e <= n
        <5>1. PICK a \in 1..Len(f[n]) : f[n][a] = e
          BY <1>5, <4>2
        <5> QED  BY <3>1, <3>2, <5>1
      <4> QED  BY <1>1, <2>1, <4>1, <4>2
    <3>5. Order(n + 1)
      <4> SUFFICES ASSUME NEW a \in 1..Len(f[n + 1]), NEW b \in 1..Len(f[n + 1]), a < b
                   PROVE  f[n + 1][a] < f[n + 1][b]
        OBVIOUS
      <4>0. a \in 1..Len(f[n])
        BY <3>1, <3>2
      <4>1. f[n + 1][a] = f[n][a] /\ f[n][a] \in Nat /\ f[n][a] <= n
        <5>1. f[n][a] \in T /\ f[n][a] <= n
          BY <1>5, <4>0
        <5>2. f[n][a] \in Nat
          BY <1>3, <5>1
        <5> QED  BY <3>2, <4>0, <5>1, <5>2
      <4>2. CASE b = Len(f[n]) + 1
        BY <2>1, <3>2, <4>1, <4>2
      <4>3. CASE b \in 1..Len(f[n])
        BY <1>5, <3>2, <4>0, <4>1, <4>3
      <4> QED  BY <3>1, <3>2, <4>2, <4>3
    <3> HIDE DEF In, All, Order
    <3> QED  BY <2>1, <3>3, <3>4, <3>5
  <2>3. CASE n + 1 \notin T
    <3>1. f[n + 1] = f[n] /\ Len(f[n]) \in Nat
      BY <1>2, <2>1, <2>3
    <3>2. In(n + 1)
      <4> SUFFICES ASSUME NEW a \in 1..Len(f[n + 1])
                   PROVE  f[n + 1][a] \in T /\ f[n + 1][a] <= n + 1
        OBVIOUS
      <4>1. f[n][a] \in T /\ f[n][a] <= n
        BY <1>5, <3>1
      <4>2. f[n][a] \in Nat
        BY <1>3, <4>1
      <4> QED  BY <2>1, <3>1, <4>1, <4>2
    <3>3. All(n + 1)
      <4> SUFFICES ASSUME NEW e \in T, e <= n + 1
                   PROVE  \E a \in 1..Len(f[n + 1]) : f[n + 1][a] = e
        OBVIOUS
      <4>1. e <= n
        BY <1>1, <2>1, <2>3
      <4> QED  BY <1>5, <3>1, <4>1
    <3>4. Order(n + 1)
      BY <1>5, <3>1
    <3> HIDE DEF In, All, Order
    <3> QED  BY <2>1, <3>2, <3>3, <3>4
  <2> QED  BY <2>2, <2>3
<1>6. \A n \in 0..N : n \in S
  <2> HIDE DEF S
  <2> QED  BY <1>0, <1>4, <1>5, Upto
<1>7. In(N) /\ All(N) /\ Order(N)
  BY <1>0, <1>6
<1>8. Len(f[N]) \in Nat /\ DOMAIN f[N] = 1..Len(f[N])
  BY <1>0, <1>2, LenProperties
<1> QED  BY <1>1, <1>7, <1>8, <1>9 DEF T

\* From where a command begins its end is found, and no command is missed.
LEMMA NextEnd ==
  ASSUME NEW l, Ended(l), NEW m \in 0..Len(InOrder(l)), Begin(l, m + 1) <= Len(l)
  PROVE  /\ m + 1 \in 1..Len(InOrder(l))
         /\ Begin(l, m + 1) \in 1..Len(l)
         /\ End(l, Begin(l, m + 1)) = InOrder(l)[m + 1]
<1> DEFINE o == InOrder(l)
           k == Begin(l, m + 1)
           e == End(l, k)
<1>0. /\ Len(o) \in Nat /\ Len(l) \in Nat
      /\ \A a \in 1..Len(o) : o[a] \in 1..Len(l) /\ l[o[a]].token \notin Redirs
      /\ \A x \in 1..Len(l) : l[x].token \notin Redirs => \E a \in 1..Len(o) : o[a] = x
      /\ \A a, b \in 1..Len(o) : a < b => o[a] < o[b]
  <2>1. Len(l) \in Nat /\ DOMAIN l = 1..Len(l)
    BY LenProperties DEF Ended
  <2> QED  BY <2>1, InOrderProperties DEF Ends
<1>1. k = IF m = 0 THEN 1 ELSE o[m] + 1
  BY <1>0 DEF Begin
<1> HIDE DEF o
<1>2. k \in 1..Len(l)
  <2>1. CASE m = 0
    BY <1>0, <1>1, <2>1
  <2>2. CASE m \in 1..Len(o)
    BY <1>0, <1>1, <2>2
  <2> QED  BY <1>0, <2>1, <2>2 DEF o
<1> HIDE DEF k
<1>3. /\ e \in k..Len(l) /\ l[e].token \notin Redirs
      /\ \A j \in k..(e - 1) : l[j].token \in Redirs
  BY <1>2, EndProperties
<1> HIDE DEF e
<1>4. PICK a \in 1..Len(o) : o[a] = e
  BY <1>0, <1>2, <1>3
<1>5. \A b \in 1..Len(o) : b <= m => o[b] < k
  <2> SUFFICES ASSUME NEW b \in 1..Len(o), b <= m PROVE o[b] < k
    OBVIOUS
  <2>1. m \in 1..Len(o) /\ k = o[m] + 1
    BY <1>0, <1>1 DEF o
  <2>2. o[b] <= o[m] /\ o[b] \in Nat /\ o[m] \in Nat
    BY <1>0, <2>1
  <2> QED  BY <2>1, <2>2
<1>6. m < a
  BY <1>0, <1>2, <1>3, <1>4, <1>5
<1>7. m + 1 \in 1..Len(o)
  BY <1>0, <1>6
<1>8. o[m + 1] \in k..Len(l)
  <2>1. CASE m = 0
    BY <1>0, <1>1, <1>7, <2>1
  <2>2. CASE m \in 1..Len(o)
    BY <1>0, <1>1, <1>7, <2>2
  <2> QED  BY <1>0, <2>1, <2>2 DEF o
<1>9. ~(m + 1 < a)
  <2> SUFFICES ASSUME m + 1 < a PROVE FALSE
    OBVIOUS
  <2>1. o[m + 1] < e /\ l[o[m + 1]].token \notin Redirs
    BY <1>0, <1>4, <1>7
  <2>2. o[m + 1] \in k..(e - 1)
    BY <1>2, <1>3, <1>8, <2>1
  <2> QED  BY <1>3, <2>1, <2>2
<1> QED  BY <1>2, <1>4, <1>6, <1>7, <1>9 DEF o, k, e

\* What the child makes of its files is what the last redirection says.
LEMMA PlugLast ==
  ASSUME NEW l, Ended(l), NEW k \in 1..Len(l), NEW t, NEW piped
  PROVE  Plug(Files(l, k, t), piped) =
           IF piped THEN "pipe" ELSE LastFile(l, k, End(l, k), t)
<1> DEFINE e  == End(l, k)
           s  == [j \in 1..(e - k) |-> l[k + j].word]
           T  == {j \in 1..(e - k) : l[k + j - 1].token = t}
           at == {j \in k..(e - 1) : l[j].token = t}
           Latest(x) == x \in at /\ \A i \in at : i <= x
<1>1. e \in k..Len(l) /\ Len(l) \in Nat /\ k \in Nat
  BY EndProperties, LenProperties DEF Ended
<1>2. s \in Seq(STRING) /\ Len(s) = e - k
  <2>1. e - k \in Nat
    BY <1>1
  <2>2. \A j \in 1..(e - k) : l[k + j].word \in STRING
    <3> SUFFICES ASSUME NEW j \in 1..(e - k) PROVE l[k + j].word \in STRING
      OBVIOUS
    <3>1. k + j \in 1..Len(l)
      BY <1>1
    <3>2. l[k + j] \in Words
      BY <3>1, ElementOfSeq DEF Ended
    <3> QED  BY <3>2 DEF Words
  <2> HIDE DEF e
  <2> QED  BY <2>1, <2>2
<1>3. Files(l, k, t) = Sift(s, T)
  BY DEF Files
<1>4. \A j \in 1..(e - k) : s[j] = l[k + j].word
  OBVIOUS
<1>5. LastFile(l, k, e, t) = IF at = {} THEN "tty" ELSE l[(CHOOSE x : Latest(x)) + 1].word
  BY DEF LastFile
<1>6. at \subseteq Nat /\ \A i \in at : i - k + 1 \in T
  BY <1>1
<1>7. \A j \in T : j \in 1..(e - k) /\ j + k - 1 \in at
  BY <1>1
<1> HIDE DEF e, s, T, at
<1>8. CASE Sift(s, T) = << >> /\ \A y \in 1..Len(s) : y \notin T
  <2>1. at = {}
    BY <1>2, <1>6, <1>7, <1>8
  <2>2. LastFile(l, k, e, t) = "tty"
    BY <1>5, <2>1
  <2> QED  BY <1>3, <1>8, <2>2 DEF Plug, e
<1>9. CASE /\ Sift(s, T) # << >>
           /\ \E x \in 1..Len(s) : /\ x \in T
                                  /\ \A y \in 1..Len(s) : y \in T => y <= x
                                  /\ Last(Sift(s, T)) = s[x]
  <2>1. PICK x \in 1..Len(s) : /\ x \in T
                               /\ \A y \in 1..Len(s) : y \in T => y <= x
                               /\ Last(Sift(s, T)) = s[x]
    BY <1>9
  <2>2. x \in 1..(e - k) /\ x + k - 1 \in at
    BY <1>2, <1>7, <2>1
  <2>3. \A i \in at : i <= x + k - 1
    <3> SUFFICES ASSUME NEW i \in at PROVE i <= x + k - 1
      OBVIOUS
    <3>1. i - k + 1 \in T /\ i \in Nat
      BY <1>6
    <3>2. i - k + 1 \in 1..Len(s)
      BY <1>2, <1>7, <3>1
    <3>3. i - k + 1 <= x
      BY <2>1, <3>1, <3>2
    <3> QED  BY <1>1, <2>2, <3>1, <3>3
  <2>4. \A z : Latest(z) => z = x + k - 1
    <3> SUFFICES ASSUME NEW z, Latest(z) PROVE z = x + k - 1
      OBVIOUS
    <3>1. z \in Nat /\ x + k - 1 \in Nat /\ z <= x + k - 1 /\ x + k - 1 <= z
      BY <1>6, <2>2, <2>3
    <3> QED  BY <3>1
  <2>5. Latest(x + k - 1)
    BY <2>2, <2>3
  <2> HIDE DEF Latest
  <2>6. (CHOOSE z : Latest(z)) = x + k - 1
    BY <2>4, <2>5
  <2>7. (x + k - 1) + 1 = k + x
    BY <1>1, <2>2
  <2>8. LastFile(l, k, e, t) = l[k + x].word
    BY <1>5, <2>2, <2>6, <2>7
  <2>9. Last(Sift(s, T)) = l[k + x].word
    BY <1>4, <2>1, <2>2
  <2> QED  BY <1>3, <1>9, <2>8, <2>9 DEF Plug, e
<1> QED  BY <1>2, <1>8, <1>9, SiftedLast

\* The count of "|", one command at a time.
LEMMA BarsStep ==
  ASSUME NEW l
  PROVE  /\ Bars(l, 0) = 0
         /\ \A m \in Nat : /\ Bars(l, m) \in Nat
                           /\ Bars(l, m + 1) = Bars(l, m) + One(Piped(l, m + 1))
                           /\ Piped(l, m) => Bars(l, m) > 0
<1> DEFINE P(m) == {j \in 1..m : Piped(l, j)}
<1>1. ASSUME NEW m \in Nat
      PROVE  IsFiniteSet(P(m)) /\ Cardinality(P(m)) \in Nat
  <2>1. IsFiniteSet(1..m)
    BY FS_Interval
  <2>2. P(m) \subseteq 1..m
    OBVIOUS
  <2> HIDE DEF P
  <2> QED  BY <2>1, <2>2, FS_Subset, FS_CardinalityType
<1>2. P(0) = {}
  OBVIOUS
<1>3. ASSUME NEW m \in Nat
      PROVE  Cardinality(P(m + 1)) = Cardinality(P(m)) + One(Piped(l, m + 1))
  <2>1. CASE Piped(l, m + 1)
    <3>1. P(m + 1) = P(m) \cup {m + 1} /\ m + 1 \notin P(m)
      BY <2>1
    <3> QED  BY <1>1, <2>1, <3>1, FS_AddElement DEF One
  <2>2. CASE ~Piped(l, m + 1)
    <3>1. P(m + 1) = P(m)
      BY <2>2
    <3> QED  BY <1>1, <2>2, <3>1 DEF One
  <2> QED  BY <2>1, <2>2
<1>4. ASSUME NEW m \in Nat, Piped(l, m)
      PROVE  Cardinality(P(m)) > 0
  <2>1. m \in P(m)
    BY <1>4 DEF Piped
  <2>2. Cardinality(P(m)) # 0
    BY <1>1, <2>1, FS_EmptySet
  <2> QED  BY <1>1, <2>2
<1> HIDE DEF P
<1>5. \A m : Bars(l, m) = Cardinality(P(m))
  BY DEF Bars, P
<1> QED  BY <1>1, <1>2, <1>3, <1>4, <1>5, FS_EmptySet

\* The process that the loop makes for a command is the one the line means.
LEMMA JobIsMeant ==
  ASSUME NEW l, Ended(l), NEW m \in 0..Len(InOrder(l)), Begin(l, m + 1) <= Len(l)
  PROVE  Meaning(l)[m + 1] =
           [job |-> Job(l, Begin(l, m + 1), Piped(l, m)),
            lp  |-> IF Piped(l, m) THEN Bars(l, m) ELSE 0,
            rp  |-> IF Piped(l, m + 1) THEN Bars(l, m + 1) ELSE 0]
<1> DEFINE o == InOrder(l)
           k == Begin(l, m + 1)
           before == Piped(l, m)
           after  == Piped(l, m + 1)
<1>1. /\ m + 1 \in 1..Len(o) /\ k \in 1..Len(l) /\ End(l, k) = o[m + 1]
      /\ DOMAIN o = 1..Len(o) /\ Len(o) \in Nat
  BY NextEnd, InOrderProperties
<1>2. (m + 1) - 1 = m /\ m + 1 > 0
  BY <1>1
<1>3. after = (l[o[m + 1]].token = "PIPE")
  BY <1>2 DEF Piped
<1> HIDE DEF o, k, before, after
<1>4. Meaning(l)[m + 1] =
        [job |-> [cmd |-> l[k].word,
                  bg  |-> l[o[m + 1]].token = "BG",
                  in  |-> IF before THEN "pipe" ELSE LastFile(l, k, o[m + 1], "IN"),
                  out |-> IF after THEN "pipe" ELSE LastFile(l, k, o[m + 1], "OUT")],
         lp  |-> IF before THEN Bars(l, m) ELSE 0,
         rp  |-> IF after THEN Bars(l, m + 1) ELSE 0]
  BY <1>1, <1>2 DEF Meaning, o, k, before, after
<1>5. Job(l, k, before) =
        [cmd |-> l[k].word,
         bg  |-> l[o[m + 1]].token = "BG",
         in  |-> Plug(Files(l, k, "IN"), before),
         out |-> Plug(Files(l, k, "OUT"), after)]
  BY <1>1, <1>3 DEF Job
<1>6. /\ Plug(Files(l, k, "IN"), before) =
           IF before THEN "pipe" ELSE LastFile(l, k, o[m + 1], "IN")
      /\ Plug(Files(l, k, "OUT"), after) =
           IF after THEN "pipe" ELSE LastFile(l, k, o[m + 1], "OUT")
  BY <1>1, PlugLast
<1> QED  BY <1>4, <1>5, <1>6 DEF k, before, after

\* What a line runs, command by command.
LEMMA RunsStep ==
  ASSUME NEW l, Ended(l)
  PROVE  /\ Runs(l)[0] = << >>
         /\ \A m \in 0..Len(InOrder(l)) :
              /\ \E X : Runs(l)[m] \in Seq(X)
              /\ IsPrefix(Runs(l)[m], Programs(l))
         /\ \A m \in 0..(Len(InOrder(l)) - 1) :
              Runs(l)[m + 1] = IF IsProgram(Meaning(l)[m + 1])
                               THEN Append(Runs(l)[m], Meaning(l)[m + 1])
                               ELSE Runs(l)[m]
<1> DEFINE s == Meaning(l)
           N == Len(InOrder(l))
           T == {m \in DOMAIN s : IsProgram(s[m])}
           X == {s[m] : m \in 1..N}
<1>1. N \in Nat /\ DOMAIN InOrder(l) = 1..N
  BY InOrderProperties
<1>2. s = [m \in 1..N |-> s[m]] /\ DOMAIN s = 1..N
  BY <1>1 DEF Meaning
<1> HIDE DEF s, N
<1>3. s \in Seq(X) /\ Len(s) = N
  <2>1. \A m \in 1..N : s[m] \in X
    OBVIOUS
  <2>2. s \in Seq(X)
    BY <1>1, <1>2, <2>1, IsASeq
  <2> QED  BY <1>1, <1>2, <2>2, LenProperties
<1>4. Runs(l) = Sifted(s, T) /\ Programs(l) = Sift(s, T)
  BY DEF Runs, Programs, Sift, s
<1> HIDE DEF X, T
<1>5. /\ Sifted(s, T)[0] = << >>
      /\ \A m \in 1..N :
           Sifted(s, T)[m] = IF m \in T THEN Append(Sifted(s, T)[m - 1], s[m])
                             ELSE Sifted(s, T)[m - 1]
      /\ \A m \in 0..N : Sifted(s, T)[m] \in Seq(X)
  BY <1>3, SiftedStep
<1>6. \A m \in 0..N : IsPrefix(Sifted(s, T)[m], Sift(s, T))
  BY <1>3, SiftedPrefix
<1>7. \A m \in 1..N : m \in T <=> IsProgram(s[m])
  BY <1>2 DEF T
<1>8. ASSUME NEW m \in 0..(N - 1)
      PROVE  Sifted(s, T)[m + 1] = IF IsProgram(s[m + 1])
                                   THEN Append(Sifted(s, T)[m], s[m + 1])
                                   ELSE Sifted(s, T)[m]
  <2>1. m + 1 \in 1..N /\ (m + 1) - 1 = m
    BY <1>1
  <2> QED  BY <1>5, <1>7, <2>1
<1> QED  BY <1>4, <1>5, <1>6, <1>8 DEF s, N

-----------------------------------------------------------------------------
(* The loop over the commands *)

\* The loop has m commands of the line behind it.  pfd_after is the pipe of the
\* last "|" among their ends, if that is where they end.
Place(m) == /\ m \in 0..Len(InOrder(line))
            /\ cmd_pos = Begin(line, m + 1)
            /\ is_after_pipe = Piped(line, m)
            /\ Piped(line, m) => pfd_after = base + Bars(line, m)

\* The processes of the line are those of its first m commands.
Ran(m) == /\ Len(kids) = first + Len(Runs(line)[m])
          /\ \A k \in 1..Len(Runs(line)[m]) : Started(first + k) = Runs(line)[m][k]

\* As many pipes have been made for the line as there is "|" in m commands; at
\* the m-th, the last one is the one in front.
Laid(m)  == pipes = base + Bars(line, m)
InFront(m) == Laid(m) /\ (Piped(line, m) => pfd_before = pipes)

\* RunsWhatWasTyped says nothing of how far the loop has got: what it holds of
\* the next process depends on the command that cmd_pos is at, on whether
\* is_after_pipe is right for that command, and on the pipes made so far.
JobsInv == /\ loc \in {"reading", "checking"} =>
                /\ Len(kids) = first /\ cmd_pos = 1 /\ is_after_pipe = FALSE
                /\ pipes = base
           /\ loc = "running" => \E m \in Nat : Place(m) /\ Ran(m) /\ Laid(m)
           /\ loc = "command" => \E m \in Nat : Place(m) /\ Ran(m) /\ InFront(m + 1)
           /\ loc \in {"bg", "waiting"} =>
                \E m \in Nat : Place(m) /\ Ran(m + 1) /\ InFront(m + 1)

\* Moving on to the next command.
LEMMA AdvancePlace ==
  ASSUME Ended(line), NEW m, Place(m), InFront(m + 1), cmd_pos <= Len(line), Advance,
         pipes' = pipes
  PROVE  Place(m + 1)' /\ Laid(m + 1)'
<1>1. /\ m \in Nat /\ m + 1 \in 0..Len(InOrder(line)) /\ (m + 2) - 1 = m + 1
      /\ End(line, cmd_pos) = InOrder(line)[m + 1]
  BY NextEnd, InOrderProperties DEF Place
<1>2. /\ cmd_pos' = End(line, cmd_pos) + 1 /\ line' = line /\ base' = base
      /\ is_after_pipe' = (line[End(line, cmd_pos)].token = "PIPE")
      /\ line[End(line, cmd_pos)].token = "PIPE" => pfd_after' = pfd_before
  BY DEF Advance, token
<1>3. Begin(line, m + 2) = InOrder(line)[m + 1] + 1
  BY <1>1 DEF Begin
<1>4. (m + 1) + 1 = m + 2 /\ m + 1 > 0
  BY <1>1
<1>5. Piped(line, m + 1) = (line[End(line, cmd_pos)].token = "PIPE")
  BY <1>1, <1>4 DEF Piped
<1>6. Piped(line, m + 1) => pfd_after' = base + Bars(line, m + 1)
  BY <1>2, <1>5 DEF InFront, Laid
<1>7. Laid(m + 1)'
  BY <1>2 DEF InFront, Laid
<1>8. /\ m + 1 \in 0..Len(InOrder(line')) /\ cmd_pos' = Begin(line', m + 2)
      /\ is_after_pipe' = Piped(line', m + 1)
      /\ Piped(line', m + 1) => pfd_after' = base' + Bars(line', m + 1)
  BY <1>1, <1>2, <1>3, <1>5, <1>6
<1> QED  BY <1>4, <1>7, <1>8 DEF Place

\* Without a fork the processes stay what they are.
LEMMA SameRan ==
  ASSUME NEW m, Ran(m), UNCHANGED <<kids, first, line, base>>
  PROVE  Ran(m)'
<1>1. \A i : Started(i)' = Started(i)
  BY DEF Started, InLine
<1>2. UNCHANGED <<Len(kids), first, line>>
  OBVIOUS
<1> QED  BY <1>1, <1>2 DEF Ran

\* At the prompt the next line begins with what processes there are.
LEMMA PromptJobs ==
  ASSUME Prompt, kids' = kids, pipes' = pipes
  PROVE  JobsInv'
BY DEF Prompt, JobsInv

\* A fork adds the process of the command at cmd_pos.
LEMMA ForkJobs ==
  ASSUME Children, CountInv, LineInv, PipeInv, JobsInv, exe_proc
  PROVE  JobsInv'
<1>1. /\ \E S : kids \in Seq(S)
      /\ loc = "command" /\ loc' \in {"bg", "waiting"}
      /\ kids' = Append(kids, Kid) /\ Len(kids') = Len(kids) + 1
      /\ DOMAIN kids = 1..Len(kids)
      /\ \A i \in DOMAIN kids : kids'[i] = kids[i]
      /\ kids'[Len(kids) + 1] = Kid
  BY ForkStep DEF Children
<1>2. Len(kids) \in Nat /\ first \in Nat
  BY <1>1, LenProperties DEF CountInv
<1>3. /\ UNCHANGED <<line, cmd_pos, is_after_pipe, first, base>> /\ Program
      /\ UNCHANGED <<pipes, pfd_before, pfd_after>>
  BY DEF exe_proc, Fork, lineVars
<1>4. PICK m \in Nat : Place(m) /\ Ran(m) /\ InFront(m + 1)
  BY <1>1 DEF JobsInv
<1>5. Ended(line) /\ cmd_pos <= Len(line)
  BY <1>1 DEF LineInv, Complete, Busy
<1>6. m \in 0..Len(InOrder(line)) /\ cmd_pos = Begin(line, m + 1)
  BY <1>4 DEF Place
<1>7. m + 1 \in 1..Len(InOrder(line)) /\ Len(InOrder(line)) \in Nat
  BY <1>5, <1>6, NextEnd, InOrderProperties
<1> DEFINE meant == Meaning(line)[m + 1]
<1>8. meant = [job |-> Job(line, cmd_pos, is_after_pipe),
               lp  |-> IF is_after_pipe THEN Bars(line, m) ELSE 0,
               rp  |-> IF Piped(line, m + 1) THEN Bars(line, m + 1) ELSE 0]
  BY <1>4, <1>5, <1>6, JobIsMeant DEF Place
<1> HIDE DEF meant
<1>9. PICK new, start : new = Len(kids) + 1 /\ start = first
  OBVIOUS
<1>10. Started(new)' = meant
  <2>2. Kid.job = Job(line, cmd_pos, is_after_pipe)
    BY DEF Kid
  <2>3. base \in Nat
    BY DEF PipeInv
  <2>4. /\ Bars(line, m) \in Nat
        /\ Piped(line, m) => Bars(line, m) > 0
        /\ Bars(line, m + 1) \in Nat
        /\ Piped(line, m + 1) => Bars(line, m + 1) > 0
    <3>1. m + 1 \in Nat
      OBVIOUS
    <3> QED  BY <3>1, BarsStep
  <2>5. InLine(Kid.lp) = IF is_after_pipe THEN Bars(line, m) ELSE 0
    <3>1. Kid.lp = IF is_after_pipe THEN base + Bars(line, m) ELSE 0
      BY <1>4 DEF Kid, Place
    <3>2. is_after_pipe => Piped(line, m)
      BY <1>4 DEF Place
    <3> HIDE DEF Kid
    <3> QED  BY <2>3, <2>4, <3>1, <3>2 DEF InLine
  <2>6. InLine(Kid.rp) = IF Piped(line, m + 1) THEN Bars(line, m + 1) ELSE 0
    <3>1. Piped(line, m + 1) = (token = "PIPE")
      <4>1. token = line[InOrder(line)[m + 1]].token /\ m + 1 > 0
        BY <1>5, <1>6, NextEnd DEF token
      <4> QED  BY <4>1 DEF Piped
    <3>2. Kid.rp = IF Piped(line, m + 1) THEN base + Bars(line, m + 1) ELSE 0
      BY <1>4, <3>1 DEF Kid, InFront, Laid
    <3> QED  BY <2>3, <2>4, <3>2 DEF InLine
  <2>7. Started(new)' = [job |-> Kid.job, lp |-> InLine(Kid.lp), rp |-> InLine(Kid.rp)]
    <3>1. kids'[new] = Kid /\ base' = base
      BY <1>1, <1>3, <1>9
    <3> QED  BY <3>1 DEF Started, InLine
  <2> QED  BY <1>8, <2>2, <2>5, <2>6, <2>7
<1>11. IsProgram(meant)
  <2>1. meant.job = Job(line, cmd_pos, is_after_pipe)
    BY <1>8
  <2>2. Job(line, cmd_pos, is_after_pipe).cmd = cmd
    BY DEF Job, cmd
  <2>3. cmd \notin Builtins \cup {""}
    BY <1>3 DEF Program
  <2>4. meant.job.cmd \notin Builtins \cup {""}
    BY <2>1, <2>2, <2>3, Zenon
  <2> QED  BY <2>4, Zenon DEF IsProgram
<1> DEFINE r == Runs(line)[m]
           n == Runs(line)[m + 1]
<1>12. /\ n = Append(r, meant)
       /\ \E X : r \in Seq(X)
  <2>1. m \in 0..(Len(InOrder(line)) - 1)
    BY <1>7
  <2>2. /\ n = IF IsProgram(meant) THEN Append(r, meant) ELSE r
        /\ \E X : r \in Seq(X)
    BY <1>5, <1>6, <2>1, RunsStep DEF meant
  <2> HIDE DEF r, n
  <2> QED  BY <1>10, <1>11, <2>2
<1>13. PICK X : r \in Seq(X)
  BY <1>12
<1> HIDE DEF r, n
<1>14. /\ Len(r) \in Nat /\ Len(n) = Len(r) + 1
       /\ \A k \in 1..Len(r) : n[k] = r[k]
       /\ n[Len(r) + 1] = meant
  BY <1>12, <1>13, AppendAny
<1>15. Len(kids) = first + Len(r) /\ \A k \in 1..Len(r) : Started(first + k) = r[k]
  BY <1>4 DEF Ran, r
<1>16. Len(kids') = first + Len(n)
  BY <1>1, <1>2, <1>14, <1>15
<1>17. ASSUME NEW k \in 1..Len(n)
       PROVE  Started(start + k)' = n[k]
  <2>1. CASE k \in 1..Len(r)
    <3>1. start + k \in DOMAIN kids
      BY <1>1, <1>2, <1>14, <1>15, <1>9, <2>1
    <3>2. kids'[start + k] = kids[start + k] /\ base' = base
      BY <1>1, <1>3, <3>1
    <3>3. Started(start + k)' = Started(start + k)
      BY <3>2 DEF Started, InLine
    <3> QED  BY <1>14, <1>15, <1>9, <2>1, <3>3
  <2>2. CASE k = Len(r) + 1
    <3>1. start + k = new
      BY <1>2, <1>14, <1>15, <1>9, <2>2
    <3> QED  BY <1>10, <1>14, <2>2, <3>1
  <2> QED  BY <1>14, <2>1, <2>2
<1>18. Ran(m + 1)'
  <2>1. first' = start /\ line' = line
    BY <1>3, <1>9
  <2> QED  BY <1>16, <1>17, <1>3, <2>1 DEF Ran, n
<1>19. Place(m)' /\ InFront(m + 1)'
  BY <1>3, <1>4 DEF Place, InFront, Laid
<1> QED  BY <1>1, <1>18, <1>19 DEF JobsInv

\* The shell's own commands, and the empty word, make no process.
LEMMA BuiltinJobs ==
  ASSUME LineInv, JobsInv, builtin_proc, Advance
  PROVE  JobsInv'
<1>0. loc = "command" /\ kids' = kids /\ pipes' = pipes
  BY DEF builtin_proc, kidVars, fdVars
<1>1. PICK m \in Nat : Place(m) /\ Ran(m) /\ InFront(m + 1)
  BY <1>0 DEF JobsInv
<1>2. Ended(line) /\ cmd_pos <= Len(line)
  BY <1>0 DEF LineInv, Complete, Busy
<1>3. m \in 0..Len(InOrder(line)) /\ cmd_pos = Begin(line, m + 1)
  BY <1>1 DEF Place
<1>4. m + 1 \in 1..Len(InOrder(line)) /\ Len(InOrder(line)) \in Nat
  BY <1>2, <1>3, NextEnd, InOrderProperties
<1> DEFINE meant == Meaning(line)[m + 1]
<1>5. meant = [job |-> Job(line, cmd_pos, is_after_pipe),
               lp  |-> IF is_after_pipe THEN Bars(line, m) ELSE 0,
               rp  |-> IF Piped(line, m + 1) THEN Bars(line, m + 1) ELSE 0]
  BY <1>1, <1>2, <1>3, JobIsMeant DEF Place
<1> HIDE DEF meant
<1>6. ~IsProgram(meant)
  <2>1. meant.job = Job(line, cmd_pos, is_after_pipe)
    BY <1>5
  <2>2. Job(line, cmd_pos, is_after_pipe).cmd = cmd
    BY DEF Job, cmd
  <2>3. cmd \in Builtins \cup {""}
    BY Zenon DEF builtin_proc, Builtins
  <2>4. meant.job.cmd \in Builtins \cup {""}
    BY <2>1, <2>2, <2>3, Zenon
  <2> QED  BY <2>4, Zenon DEF IsProgram
<1>7. Runs(line)[m + 1] = Runs(line)[m]
  <2>1. m \in 0..(Len(InOrder(line)) - 1)
    BY <1>3, <1>4
  <2> QED  BY <1>2, <1>6, <2>1, RunsStep DEF meant
<1>8. Ran(m + 1)
  BY <1>1, <1>7 DEF Ran
<1>9. UNCHANGED <<kids, first, line, base>> /\ loc' = "running"
  BY <1>0 DEF Advance
<1>10. Place(m + 1)' /\ Laid(m + 1)'
  BY <1>0, <1>1, <1>2, AdvancePlace
<1>11. Ran(m + 1)'
  BY <1>8, <1>9, SameRan
<1>12. m + 1 \in Nat
  BY <1>4
<1> QED  BY <1>9, <1>10, <1>11, <1>12 DEF JobsInv

\* The process has been started, or has ended well.
LEMMA DoneJobs ==
  ASSUME LineInv, JobsInv, loc \in {"bg", "waiting"}, Advance, UNCHANGED <<kids, pipes>>
  PROVE  JobsInv'
<1>1. PICK m \in Nat : Place(m) /\ Ran(m + 1) /\ InFront(m + 1)
  BY DEF JobsInv
<1>2. Ended(line) /\ cmd_pos <= Len(line)
  BY DEF LineInv, Complete, Busy
<1>3. UNCHANGED <<kids, first, line, base>> /\ loc' = "running"
  BY DEF Advance
<1>4. Place(m + 1)' /\ Laid(m + 1)' /\ Ran(m + 1)' /\ m + 1 \in Nat
  BY <1>1, <1>2, <1>3, AdvancePlace, SameRan
<1> QED  BY <1>3, <1>4 DEF JobsInv

\* What leaves the line and its processes alone.
LEMMA SameJobs ==
  ASSUME JobsInv, loc' \in {loc, "stopped", "exited"},
         UNCHANGED <<kids, first, base, line, cmd_pos, is_after_pipe>>,
         UNCHANGED <<pipes, pfd_before, pfd_after>>
  PROVE  JobsInv'
<1>1. \A i : Started(i)' = Started(i)
  BY DEF Started, InLine
<1>2. \A m : (Ran(m)' <=> Ran(m))
  <2>1. UNCHANGED <<Len(kids), first, line>>
    OBVIOUS
  <2> QED  BY <1>1, <2>1 DEF Ran
<1>3. \A m : (Place(m)' <=> Place(m)) /\ (Laid(m)' <=> Laid(m)) /\ (InFront(m)' <=> InFront(m))
  BY DEF Place, Laid, InFront
<1> QED  BY <1>2, <1>3 DEF JobsInv

\* The pipe for the "|" behind the command at cmd_pos is made.
LEMMA NextJobs ==
  ASSUME LineInv, PipeInv, JobsInv, NextCommand, ~Prompt
  PROVE  JobsInv'
<1>1. /\ loc = "running" /\ loc' = "command" /\ ~(cmd_pos > Len(line))
      /\ UNCHANGED <<kids, line, cmd_pos, is_after_pipe, pfd_after, first, base>>
      /\ IF token = "PIPE" THEN pipes' = pipes + 1 /\ pfd_before' = pipes + 1
                           ELSE UNCHANGED <<pipes, pfd_before>>
  BY DEF NextCommand, kidVars
<1>2. PICK m \in Nat : Place(m) /\ Ran(m) /\ Laid(m)
  BY <1>1 DEF JobsInv
<1>3. Ended(line) /\ cmd_pos <= Len(line)
  BY <1>1, LenProperties DEF LineInv, Complete
<1>4. m + 1 > 0 /\ m + 1 \in Nat
  OBVIOUS
<1>5. Piped(line, m + 1) = (token = "PIPE")
  BY <1>2, <1>3, <1>4, NextEnd DEF Piped, Place, token
<1>6. /\ Bars(line, m) \in Nat
      /\ Bars(line, m + 1) = Bars(line, m) + One(Piped(line, m + 1))
  BY BarsStep
<1>7. pipes' = base + Bars(line, m + 1)
  <2>1. pipes = base + Bars(line, m) /\ base \in Nat
    BY <1>2 DEF Laid, PipeInv
  <2>2. CASE token = "PIPE"
    <3>1. Bars(line, m + 1) = Bars(line, m) + 1
      BY <1>5, <1>6, <2>2 DEF One
    <3>2. pipes' = pipes + 1
      BY <1>1, <2>2
    <3> QED  BY <1>6, <2>1, <3>1, <3>2
  <2>3. CASE token # "PIPE"
    <3>0. One(Piped(line, m + 1)) = 0
      BY <1>5, <2>3 DEF One
    <3>1. Bars(line, m + 1) = Bars(line, m)
      BY <1>6, <3>0
    <3>2. pipes' = pipes
      BY <1>1, <2>3
    <3> QED  BY <2>1, <3>1, <3>2
  <2> QED  BY <2>2, <2>3
<1>8. InFront(m + 1)'
  BY <1>1, <1>5, <1>7 DEF InFront, Laid
<1>9. Place(m)' /\ Ran(m)'
  BY <1>1, <1>2, SameRan DEF Place
<1> QED  BY <1>1, <1>8, <1>9 DEF JobsInv

LEMMA JobsInit == Init => JobsInv
BY EmptySeq DEF Init, JobsInv

LEMMA JobsStep == JobsInv /\ LineInv /\ CountInv /\ PipeInv /\ [Next]_vars => JobsInv'
<1> SUFFICES ASSUME JobsInv, LineInv, CountInv, PipeInv, [Next]_vars PROVE JobsInv'
  OBVIOUS
<1> USE DEF lineVars, kidVars, fdVars
<1>0. Children
  BY DEF PipeInv
<1>1. CASE exe_proc
  BY <1>0, <1>1, ForkJobs
<1>2. CASE Prompt /\ kids' = kids /\ pipes' = pipes
  BY <1>2, PromptJobs
<1>3. CASE builtin_proc
  BY <1>2, <1>3, BuiltinJobs DEF builtin_proc
<1>4. CASE Background
  BY <1>4, DoneJobs DEF Background
<1>5. CASE Wait
  BY <1>2, <1>5, DoneJobs DEF Wait, Reap
<1>6. CASE gettoken
  <2>1. CASE ~is_continue
    <3>1. /\ loc = "reading" /\ loc' \in {"reading", "checking"}
          /\ UNCHANGED <<kids, first, base, pipes, cmd_pos, is_after_pipe>>
      BY <1>6, <2>1 DEF gettoken
    <3> QED  BY <3>1 DEF JobsInv
  <2> QED  BY <1>2, <1>6, <2>1 DEF gettoken
<1>7. CASE Check
  <2>1. CASE loc = "checking" /\ loc' = "running" /\ UNCHANGED <<kids, pipes, lineVars>>
    <3>1. Ended(line) /\ Len(InOrder(line)) \in Nat
      BY <2>1, InOrderProperties DEF LineInv, Complete
    <3>2. Runs(line)[0] = << >>
      BY <3>1, RunsStep
    <3>3. Len(kids) = first /\ cmd_pos = 1 /\ is_after_pipe = FALSE /\ pipes = base
      BY <2>1 DEF JobsInv
    <3>4. first \in Nat /\ base \in Nat
      BY LenProperties DEF CountInv, PipeInv
    <3>5. Place(0)
      <4>1. Begin(line, 0 + 1) = 1 /\ 0 \in 0..Len(InOrder(line)) /\ Piped(line, 0) = FALSE
        BY <3>1 DEF Begin, Piped
      <4> QED  BY <3>3, <4>1 DEF Place
    <3>6. Ran(0) /\ Laid(0)
      BY <3>2, <3>3, <3>4, EmptySeq, BarsStep DEF Ran, Laid
    <3>7. Place(0)' /\ Ran(0)' /\ Laid(0)'
      BY <2>1, <3>5, <3>6, SameRan DEF Place, Laid
    <3> QED  BY <2>1, <3>7 DEF JobsInv
  <2> QED  BY <1>2, <1>7, <2>1 DEF Check
<1>8. CASE NextCommand
  <2>1. CASE Prompt
    <3>1. kids' = kids /\ pipes' = pipes
      BY <1>8, <2>1 DEF NextCommand, Prompt
    <3> QED  BY <1>2, <2>1, <3>1
  <2> QED  BY <1>8, <2>1, NextJobs
<1>9. CASE Interrupted \/ NoFork \/ wait_EINTR
  BY <1>2, <1>9 DEF Interrupted, NoFork, wait_EINTR
<1>10. CASE \/ Type \/ TooMany \/ Stopped \/ exit_proc \/ bg_handler_runs \/ print_new_line
            \/ UNCHANGED vars
  BY <1>10, SameJobs DEF Type, TooMany, Stopped, exit_proc, bg_handler_runs, print_new_line, vars
<1>11. ASSUME NEW i \in DOMAIN kids, Setup(i) \/ Finish(i) \/ Quit(i)
       PROVE  JobsInv'
  BY <1>11, SameJobs DEF Setup, Finish, Quit
<1> QED  BY <1>1, <1>3, <1>4, <1>5, <1>6, <1>7, <1>8, <1>9, <1>10, <1>11 DEF Next, ShellStep

\* What the line's processes are is the beginning of what it means.
LEMMA RanPrefix ==
  ASSUME Ended(line), NEW m \in 0..Len(InOrder(line)), Ran(m), first \in Nat
  PROVE  IsPrefix([k \in 1..(Len(kids) - first) |-> Started(first + k)], Programs(line))
<1> DEFINE r == Runs(line)[m]
<1>1. IsPrefix(r, Programs(line)) /\ \E X : r \in Seq(X)
  BY RunsStep
<1>2. /\ Len(kids) = first + Len(r)
      /\ \A k \in 1..Len(r) : Started(first + k) = r[k]
  BY DEF Ran
<1> HIDE DEF r
<1>3. Len(r) \in Nat /\ r = [k \in 1..Len(r) |-> r[k]]
  BY <1>1, LenProperties
<1>4. Len(kids) - first = Len(r)
  BY <1>2, <1>3
<1>5. [k \in 1..Len(r) |-> Started(first + k)] = r
  BY <1>2, <1>3
<1> QED  BY <1>1, <1>4, <1>5

\* The processes of a line are those it means, in that order, each with its
\* files, between the pipes that the "|" beside it stand for, and in the
\* background if and only if it was asked for; whatever fails, ends or
\* interrupts the line only cuts them short.
THEOREM LinesRunAsTyped == Spec => []RunsWhatWasTyped
<1> DEFINE Inv == JobsInv /\ LineInv /\ CountInv /\ PipeInv
<1>1. Init => Inv
  BY JobsInit, LineInit, CountInit, PipeInit
<1>2. Inv /\ [Next]_vars => Inv'
  BY JobsStep, LineStep, CountStep, PipeStep DEF PipeInv
<1>3. Inv => RunsWhatWasTyped
  <2> SUFFICES ASSUME Inv, loc \in {"running", "command", "bg", "waiting"}
               PROVE  IsPrefix([k \in 1..(Len(kids) - first) |-> Started(first + k)],
                               Programs(line))
    BY DEF RunsWhatWasTyped
  <2>1. Ended(line) /\ first \in Nat
    BY DEF LineInv, Complete, CountInv
  <2>2. \E m \in 0..Len(InOrder(line)) : Ran(m)
    <3>1. CASE loc \in {"running", "command"}
      BY <3>1 DEF JobsInv, Place
    <3>2. CASE loc \in {"bg", "waiting"}
      <4>1. PICK m \in Nat : Place(m) /\ Ran(m + 1)
        BY <3>2 DEF JobsInv
      <4>2. cmd_pos <= Len(line)
        BY <3>2 DEF LineInv, Busy
      <4>3. m + 1 \in 1..Len(InOrder(line)) /\ Len(InOrder(line)) \in Nat
        BY <2>1, <4>1, <4>2, NextEnd, InOrderProperties DEF Place
      <4> QED  BY <4>1, <4>3
    <3> QED  BY <3>1, <3>2
  <2> QED  BY <2>1, <2>2, RanPrefix
<1> QED  BY <1>1, <1>2, <1>3, PTL DEF Spec

=============================================================================
