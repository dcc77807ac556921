-------------------------------- MODULE MCFtp --------------------------------
(* Instances of Ftp: one path for each way a path can fail or succeed. *)
EXTENDS Ftp

CONSTANTS f, g, h, d, e, b, x, o, cut, none, s1, s2, c1, c2, c3

MCNames  == {f, g, h, d, e, b, x, o, cut}
MCBlocks == {s1, s2, c1, c2, c3, cut}

File(body) == [kind |-> "file", body |-> body]
Other(k)   == [kind |-> k, body |-> << >>]

\* d, e, b, h are directories (of 2, 0 and 3 entries, and the listener's own),
\* x cannot be reached, o fails with another errno, g is missing.
Layout(ff, gg) == [n \in MCNames |->
    CASE n = f -> ff
      [] n = g -> gg
      [] n \in {d, e, b, h} -> Other("dir")
      [] n = x -> Other("denied")
      [] n = o -> Other("odd")
      [] OTHER -> Other("none")]

MCServerFiles == Layout(File(<<s1, s2>>), File(<< >>))
MCClientFiles == Layout(File(<<c1, c2, c3>>), Other("none"))
MCFiles == [n \in MCNames |-> CASE n = b -> 3 [] n \in {d, h} -> 2 [] OTHER -> 0]

Command(op, a, c) == [op |-> op, src |-> a, dst |-> c]

\* Each procedure with each of its outcomes.
MCCommands ==
    {Command("pwd", f, f)}
    \cup {Command("cd", n, n)  : n \in {f, g, d, x, o}}
    \cup {Command("dir", n, n) : n \in {f, d, e, b, x, o}}
    \cup {Command("get", n, m) : n \in {f, g}, m \in {f, g}}
    \cup {Command("get", n, f) : n \in {d, x, o}} \cup {Command("get", n, x) : n \in {f, g}}
    \cup {Command("put", f, n) : n \in {f, g, d, x, o, cut}}
    \cup {Command("put", d, f)}
=============================================================================
