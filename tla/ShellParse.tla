------------------------------ MODULE ShellParse ------------------------------
(***************************************************************************)
(* A command line of myshell, as main.c sees it: gettoken cuts it into     *)
(* words, each with the character that ended it, so that                   *)
(*                                                                         *)
(*     sort < f | wc &      is    <<sort, IN>> <<f, PIPE>> <<wc, BG>>      *)
(*                                <<"", EOL>>                              *)
(*                                                                         *)
(* A word stands for all that is between two such characters; "" is no     *)
(* character at all and " " are only spaces.                               *)
(***************************************************************************)
EXTENDS Integers, Sequences, FiniteSets, SequencesExt

Redirs   == {"IN", "OUT"}
Tokens   == Redirs \cup {"PIPE", "BG", "EOL", "EOF"}
Builtins == {"cd", "pwd", "exit"}

\* The elements of s at the positions in T: those among the first i, as a
\* function of i, and all of them.
Sifted(s, T) ==
    LET sifted[i \in 0..Len(s)] ==
            IF i = 0 THEN << >>
            ELSE IF i \in T THEN Append(sifted[i - 1], s[i]) ELSE sifted[i - 1]
    IN  sifted
Sift(s, T) == Sifted(s, T)[Len(s)]

\* The first check of main: a blank word is an error, except behind a "&".
HasBlank(line) ==
    \E k \in DOMAIN line : /\ line[k].word \in {"", " "}
                           /\ k > 1 => line[k - 1].token # "BG"

\* Where the redirections of the command at k end: line[End(line, k)] has the
\* character that ends the command.
End(line, k) == CHOOSE e \in k..Len(line) :
                    /\ line[e].token \notin Redirs
                    /\ \A j \in k..(e - 1) : line[j].token \in Redirs

\* in_files and out_files of the command at k: the word behind each of its
\* redirections of type t.
Files(line, k, t) ==
    LET redirs == 1..(End(line, k) - k)
    IN  Sift([j \in redirs |-> line[k + j].word],
             {j \in redirs : line[k + j - 1].token = t})

\* What a child makes of a file descriptor that at first is the terminal: the
\* last file, and then, before everything, the pipe.
Plug(files, piped) == IF piped THEN "pipe"
                      ELSE IF files = << >> THEN "tty" ELSE Last(files)

\* The process for the command at k.
Job(line, k, is_after_pipe) ==
    LET token == line[End(line, k)].token
    IN  [cmd |-> line[k].word, bg |-> token = "BG",
         in  |-> Plug(Files(line, k, "IN"), is_after_pipe),
         out |-> Plug(Files(line, k, "OUT"), token = "PIPE")]
-----------------------------------------------------------------------------
(* What a line means, said without the loop of main *)

\* The commands of a line lie between its "|" and "&" and its end.
Ends(line) == {k \in DOMAIN line : line[k].token \notin Redirs}

\* They, in order, and where the m-th command begins.
InOrder(line)  == Sift([k \in DOMAIN line |-> k], Ends(line))
Begin(line, m) == IF m = 1 THEN 1 ELSE InOrder(line)[m - 1] + 1

\* The word that the redirection of type t at or after k, before e, says last.
LastFile(line, k, e, t) ==
    LET at == {j \in k..(e - 1) : line[j].token = t}
    IN  IF at = {} THEN "tty" ELSE line[(CHOOSE j \in at : \A i \in at : i <= j) + 1].word

\* Whether a "|" ends the m-th command, and how many do up to it: the pipes of
\* a line are counted in the order of its "|".
Piped(line, m) == m > 0 /\ line[InOrder(line)[m]].token = "PIPE"
Bars(line, m)  == Cardinality({j \in 1..m : Piped(line, j)})

\* The process for each command, and the pipes that it is to read and to write,
\* 0 for none.
Meaning(line) ==
    LET ends == InOrder(line)
    IN  [m \in DOMAIN ends |->
            [job |-> [cmd |-> line[Begin(line, m)].word,
                      bg  |-> line[ends[m]].token = "BG",
                      in  |-> IF Piped(line, m - 1) THEN "pipe"
                              ELSE LastFile(line, Begin(line, m), ends[m], "IN"),
                      out |-> IF Piped(line, m) THEN "pipe"
                              ELSE LastFile(line, Begin(line, m), ends[m], "OUT")],
             lp  |-> IF Piped(line, m - 1) THEN Bars(line, m - 1) ELSE 0,
             rp  |-> IF Piped(line, m) THEN Bars(line, m) ELSE 0]]

\* Only programs get a process: not the shell's own commands, and not the
\* empty word behind a "&".  (Spaces there do: execve then fails.)
IsProgram(p) == p.job.cmd \notin Builtins \cup {""}

\* What a line runs, up to its m-th command, and in all.
Runs(line) == Sifted(Meaning(line), {m \in DOMAIN Meaning(line) : IsProgram(Meaning(line)[m])})
Programs(line) == Runs(line)[Len(Meaning(line))]
=============================================================================
