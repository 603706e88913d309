------------------------------- MODULE Balancer -------------------------------
(***************************************************************************)
(* What the XDP program promises, without CPUs, frames or steps: every     *)
(* frame is given to a link and counted there at one instant, by the state *)
(* the links have at that instant.  Xdp is shown to implement this         *)
(* specification.                                                          *)
(***************************************************************************)
EXTENDS Integers

CONSTANTS Copy,    \* loaded copies of the program, each with its counters
          Source,  \* where frames come from
          Home     \* the link of each source, 0 or 1

VARIABLES online,   \* per copy and link: 1 if the link is up, else 0
          waiting,  \* per copy and source: frames without a link
          sent      \* per copy and link: frames given to it

balancerVars == <<online, waiting, sent>>

Init ==
  /\ online = [g \in Copy |-> [w \in {0, 1} |-> 0]]
  /\ waiting = [g \in Copy |-> [s \in Source |-> 0]]
  /\ sent = [g \in Copy |-> [w \in {0, 1} |-> 0]]

Turn(g, w) ==
  /\ online' = [online EXCEPT ![g][w] = 1 - @]
  /\ UNCHANGED <<waiting, sent>>

Arrive(g, s) ==
  /\ waiting' = [waiting EXCEPT ![g][s] = @ + 1]
  /\ UNCHANGED <<online, sent>>

Balance(g, s) ==
  LET w == IF online[g][Home[s]] = 1 THEN Home[s] ELSE 1 - Home[s]
  IN  /\ waiting[g][s] > 0
      /\ waiting' = [waiting EXCEPT ![g][s] = @ - 1]
      /\ sent' = [sent EXCEPT ![g][w] = @ + 1]
      /\ UNCHANGED online

Next ==
  \E g \in Copy :
    \/ \E w \in {0, 1} : Turn(g, w)
    \/ \E s \in Source : Arrive(g, s) \/ Balance(g, s)

Spec == Init /\ [][Next]_balancerVars

=============================================================================
