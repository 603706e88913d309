--------------------------- MODULE TicketLifecycle ---------------------------
(***************************************************************************)
(* What a hotspot ticket promises its buyer, without Redis, requests or    *)
(* races: a ticket is issued once for a number of hours, may be held and   *)
(* released any number of times, and expires at most once, never before    *)
(* the hours it was sold for have gone by since it was issued.  Hotspot    *)
(* is shown to implement this specification.                               *)
(***************************************************************************)
EXTENDS Integers

CONSTANTS Ticket,      \* ticket ids
          Durations    \* the hours a ticket can be sold for

VARIABLES clock,       \* the time
          phase,       \* per ticket: none, running, held or expired
          issued,      \* per ticket: when it was issued (0: not yet)
          hours        \* per ticket: what it was sold for (0: not yet)

vars == <<clock, phase, issued, hours>>

Init ==
  /\ clock = 1
  /\ phase = [id \in Ticket |-> "none"]
  /\ issued = [id \in Ticket |-> 0]
  /\ hours = [id \in Ticket |-> 0]

Issue(id) ==
  /\ phase[id] = "none"
  /\ \E at \in 1 .. clock, h \in Durations :
        /\ issued' = [issued EXCEPT ![id] = at]
        /\ hours' = [hours EXCEPT ![id] = h]
  /\ phase' = [phase EXCEPT ![id] = "running"]
  /\ UNCHANGED clock

Hold(id) ==
  /\ phase[id] = "running"
  /\ phase' = [phase EXCEPT ![id] = "held"]
  /\ UNCHANGED <<clock, issued, hours>>

Release(id) ==
  /\ phase[id] = "held"
  /\ phase' = [phase EXCEPT ![id] = "running"]
  /\ UNCHANGED <<clock, issued, hours>>

Expire(id) ==
  /\ phase[id] \in {"running", "held"}
  /\ clock >= issued[id] + hours[id]
  /\ phase' = [phase EXCEPT ![id] = "expired"]
  /\ UNCHANGED <<clock, issued, hours>>

Advance ==
  /\ clock' = clock + 1
  /\ UNCHANGED <<phase, issued, hours>>

Next ==
  \/ Advance
  \/ \E id \in Ticket : Issue(id) \/ Hold(id) \/ Release(id) \/ Expire(id)

Spec == Init /\ [][Next]_vars

=============================================================================
