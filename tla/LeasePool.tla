------------------------------ MODULE LeasePool ------------------------------
(***************************************************************************)
(* What mydhcpd promises, without lists, timers, signals or messages: each *)
(* peer holds at most one line of the config file and each line is held by *)
(* at most one peer; a line is offered, possibly offered a second time,    *)
(* then granted, and may be taken back at any point.                       *)
(***************************************************************************)
EXTENDS Naturals

CONSTANTS Clients, Lines

NoLine == 0  \* lines are numbered from 1

VARIABLES line,  \* the line each client holds, or NoLine
          phase  \* "none", "offered", "reoffered" or "granted"

vars == <<line, phase>>

Init == /\ line  = [p \in Clients |-> NoLine]
        /\ phase = [p \in Clients |-> "none"]

Become(p, f) == phase' = [phase EXCEPT ![p] = f]

Offer(p) == /\ phase[p] = "none"
            /\ \E n \in Lines : /\ \A q \in Clients : line[q] # n
                                /\ line' = [line EXCEPT ![p] = n]
            /\ Become(p, "offered")

Reoffer(p) == phase[p] = "offered" /\ Become(p, "reoffered") /\ UNCHANGED line

Grant(p) == phase[p] \in {"offered", "reoffered"} /\ Become(p, "granted") /\ UNCHANGED line

Drop(p) == /\ phase[p] # "none"
           /\ Become(p, "none")
           /\ line' = [line EXCEPT ![p] = NoLine]

Next == \E p \in Clients : Offer(p) \/ Reoffer(p) \/ Grant(p) \/ Drop(p)

Spec == Init /\ [][Next]_vars
=============================================================================
