------------------------------ MODULE MCHotspot ------------------------------
(***************************************************************************)
(* Instances of Hotspot for TLC: the entry points each run lets the        *)
(* environment call.                                                       *)
(***************************************************************************)
EXTENDS Hotspot, TLC

AllOperations == {"create", "batch", "activate", "auto", "pause", "resume"}
PauseOperations == {"batch", "pause", "resume"}
LoginOperations == {"create", "activate", "pause"}
CorridoOperations == {"batch", "activate"}
CreditOperations == {"create", "pause", "resume"}

(* What the next steps and the properties of a run depend on: no action    *)
(* reads session, ticketIp, online, metadata, shaper or batchTickets, and  *)
(* the answer of a finished call is only an answer.  active_clients is not *)
(* read either, so the ledger properties do without it.                    *)
Answers ==
  [r \in Request |-> IF req[r].pc \in Answered THEN IdleCall ELSE req[r]]
LedgerView ==
  <<clock, records, hotspotTickets, shadow, macTicket, Answers, sweep>>
AccessView == <<LedgerView, activeClients, openedFor>>

(* Which slot serves a call or a sweep makes no difference to safety.      *)
Symmetry == Permutations(Request) \cup Permutations(Sweep)

=============================================================================
