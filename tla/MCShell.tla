------------------------------- MODULE MCShell -------------------------------
(* Instances of Shell: lines of up to three commands. *)
EXTENDS Shell

W(w, t) == [word |-> w, token |-> t]

\* What the parser has to tell apart: redirections on both sides of a pipe and
\* several of them, each separator before each other, blanks, the shell's own
\* commands in a pipe, one word too many, and the end of the input.
MCLines == {
    << W("a", "EOL") >>,                                            \* a
    << W("a", "BG"), W("", "EOL") >>,                               \* a &
    << W("a", "BG"), W(" ", "EOL") >>,                              \* a & with a space
    << W("a", "PIPE"), W(" ", "EOL") >>,                            \* a | with a space
    << W("a", "PIPE"), W("b", "PIPE"), W("c", "EOL") >>,            \* a | b | c
    << W("a", "IN"), W("f", "OUT"), W("g", "PIPE"), W("b", "EOL") >>,  \* a < f > g | b
    << W("a", "PIPE"), W("b", "OUT"), W("f", "OUT"), W("g", "EOL") >>, \* a | b > f > g
    << W("a", "PIPE"), W("b", "BG"), W("c", "EOL") >>,              \* a | b & c
    << W("a", "BG"), W("b", "PIPE"), W("c", "EOL") >>,              \* a & b | c
    << W("a", "PIPE"), W("cd", "PIPE"), W("b", "EOL") >>,           \* a | cd | b
    << W("yes", "PIPE"), W("b", "EOL") >>,                          \* yes | b
    << W("exit", "EOL") >>,                                         \* exit
    << W("a", "PIPE"), W("b", "PIPE"), W("c", "PIPE"), W("a", "PIPE"), W("b", "EOL") >>,  \* too long
    << W("a", "EOF") >>                                             \* a, and Ctrl-D
  }
MCBig == {"yes"}
=============================================================================
