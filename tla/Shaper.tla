------------------------------- MODULE Shaper --------------------------------
(***************************************************************************)
(* NetworkManager.applyShaper (src/network.ts) on the hotspot interface,   *)
(* as activateTicket calls it (src/hotspot.ts): delete the root qdisc, add *)
(* an htb one, add a class that limits the rate, each a tc command that is *)
(* awaited.  Logins overlap, so calls interleave between the commands; a   *)
(* command may fail and the process may die between two of them.           *)
(*                                                                         *)
(* tc is external: adding a root or a class that exists fails, and so does *)
(* adding a class without a root; deleting a root deletes its classes.     *)
(***************************************************************************)
CONSTANTS
  Login,   \* calls of applyShaper that may be in progress at once
  Rate,    \* the rates of the plans
  NoRate,
  Faults   \* whether tc commands may fail for reasons of their own

ASSUME RateAssumption == NoRate \notin Rate /\ Faults \in BOOLEAN

VARIABLES
  root,    \* there is an htb qdisc at the root of eth0.10
  class,   \* the rate of class 1:1, NoRate without one
  login,   \* the calls in progress
  asked,   \* history: some call has got as far as touching the qdisc
  broken   \* history: a command failed of its own, or the process died, since
           \* a limit was last put in place

vars == <<root, class, login, asked, broken>>

Call == [pc : {"idle", "del", "add", "class"}, rate : Rate \cup {NoRate}]
Idle == [pc |-> "idle", rate |-> NoRate]

Init ==
  /\ root = FALSE /\ class = NoRate
  /\ login = [c \in Login |-> Idle]
  /\ asked = FALSE /\ broken = FALSE

At(c, pc) == login[c].pc = pc
Goto(c, pc) == login' = [login EXCEPT ![c].pc = pc]
Leave(c) == login' = [login EXCEPT ![c] = Idle]

(* A command fails although its effect was possible.                       *)
Fault == Faults /\ broken' = TRUE /\ UNCHANGED <<root, class>>

-----------------------------------------------------------------------------

(* Faulty variant: a plan missing from the table has no rate               *)
BeginNoDefault(c) ==
  /\ At(c, "idle")
  /\ \E r \in Rate \cup {NoRate} :
       login' = [login EXCEPT ![c] = [pc |-> "del", rate |-> r]]
  /\ UNCHANGED <<root, class, asked, broken>>

(* shaperMap[ticket.plan] || '10mbit': there is always a rate.             *)
Begin(c) ==
  /\ At(c, "idle")
  /\ \E r \in Rate : login' = [login EXCEPT ![c] = [pc |-> "del", rate |-> r]]
  /\ UNCHANGED <<root, class, asked, broken>>

(* tc qdisc del: a failure, for want of a root or any other, is ignored.   *)
Del(c) ==
  /\ At(c, "del") /\ Goto(c, "add") /\ asked' = TRUE
  /\ \/ root' = FALSE /\ class' = NoRate /\ UNCHANGED broken
     \/ Fault

(* Faulty variant: a root that exists is deleted on the way out            *)
AddCleansUp(c) ==
  /\ At(c, "add") /\ UNCHANGED asked
  /\ \/ ~ root /\ root' = TRUE /\ Goto(c, "class") /\ UNCHANGED <<class, broken>>
     \/ root /\ Leave(c) /\ root' = FALSE /\ class' = NoRate /\ UNCHANGED broken
     \/ Fault /\ Leave(c)

(* tc qdisc add: fails when another call has added a root meanwhile, and   *)
(* then the call is over.                                                  *)
Add(c) ==
  /\ At(c, "add") /\ UNCHANGED asked
  /\ \/ ~ root /\ root' = TRUE /\ Goto(c, "class") /\ UNCHANGED <<class, broken>>
     \/ root /\ Leave(c) /\ UNCHANGED <<root, class, broken>>
     \/ Fault /\ Leave(c)

(* tc class add: fails without a root (another call deleted it) and when   *)
(* another call's class is there.                                          *)
AddClass(c) ==
  /\ At(c, "class") /\ Leave(c) /\ UNCHANGED asked
  /\ \/ /\ root /\ class = NoRate
        /\ class' = login[c].rate /\ broken' = FALSE /\ UNCHANGED root
     \/ /\ ~ root \/ class # NoRate
        /\ UNCHANGED <<root, class, broken>>
     \/ Fault

(* The process dies; the kernel keeps what has been set up.                *)
Crash ==
  /\ login' = [c \in Login |-> Idle]
  /\ broken' = (broken \/ \E c \in Login : login[c].pc \in {"add", "class"})
  /\ UNCHANGED <<root, class, asked>>

Next == Crash \/ \E c \in Login : Begin(c) \/ Del(c) \/ Add(c) \/ AddClass(c)

Spec == Init /\ [][Next]_vars

-----------------------------------------------------------------------------

(* Type correctness: a class only under a root, and a rate in every call.  *)
TypeOK ==
  /\ root \in BOOLEAN /\ class \in Rate \cup {NoRate}
  /\ class # NoRate => root
  /\ login \in [Login -> Call]
  /\ \A c \in Login : login[c].pc # "idle" => login[c].rate \in Rate
  /\ asked \in BOOLEAN /\ broken \in BOOLEAN

(* The calls delete each other's qdisc and give up when they find another  *)
(* one's.  When all have returned the class with the limit is there all    *)
(* the same, unless a command failed of its own or the process died since. *)
(* (What traffic gets to the class is not said: the htb names no default,  *)
(* whatever the comment at network.ts:176 calls it.)                       *)
LimitSurvivesOverlap ==
  asked /\ ~ broken /\ (\A c \in Login : login[c].pc \in {"idle", "del"})
    => class # NoRate

=============================================================================
