--------------------------------- MODULE Wan ---------------------------------
(***************************************************************************)
(* NetworkManager.checkWANHealth and switchWAN (src/network.ts), called by *)
(* the 5 s interval of src/index.ts, and the metrics the same callback     *)
(* publishes.  setInterval does not wait for its own previous call, so     *)
(* several checks may be in progress; each is a process that goes on from  *)
(* one await to the next.                                                  *)
(*                                                                         *)
(* ip and ping are external: a link answers or not, the kernel drops a     *)
(* default route when its interface goes away, and                         *)
(* `ip route replace default via g dev w` fails unless w is there and g is *)
(* the gateway on that link.                                               *)
(***************************************************************************)
EXTENDS Naturals

CONSTANTS
  Check,      \* checks that may be in progress at once
  MaxChanges  \* bound on changes of the links and on routes set by hand

ASSUME BoundsAssumption == MaxChanges \in Nat

Link == {"eth1", "eth2"}
Quality == {"absent", "mute", "fast", "slow"}   \* slow: over 100 ms
Gateway == {"fixed", "leased"}                  \* fixed: the address in switchWAN
NoRoute == "none"

VARIABLES
  link,      \* link[w]: what the outside makes of w
  changes,   \* how often the outside has intervened
  decimals,  \* whether ping prints decimals of times over 100 ms (busybox does,
             \* iputils does not)
  gateway,   \* the gateway there really is on eth2
  listed,    \* eth2 has a default route of its own, of lower priority
  route,     \* the interface of the main default route
  wan,       \* the hashes wan:eth1 and wan:eth2
  metrics,   \* the hash metrics:wan
  check

outside == <<link, changes, decimals, gateway, listed>>
vars == <<outside, route, wan, metrics, check>>

Status == [status : {"", "online", "offline"}, latency : {"", "fast", "slow"}]

(* getWANStatus: anything but "online" is offline, a missing latency is 0. *)
Reported(s) == [s EXCEPT !.status = IF @ = "online" THEN @ ELSE "offline"]

Progress ==
  [pc   : {"idle", "probe", "record", "gateway", "route",
           "read1", "read2", "publish"},
   wan  : Link,                              \* the link of this iteration
   seen : {"", "lost", "fast", "slow"},      \* what its ping showed
   via  : Gateway \cup {""},                 \* the gateway switchWAN found
   read : [Link -> Status]]                  \* what updateMetrics has read

NoStatus == [status |-> "", latency |-> ""]
Idle == [pc |-> "idle", wan |-> "eth1", seen |-> "", via |-> "",
         read |-> [w \in Link |-> NoStatus]]

Init ==
  /\ link = [w \in Link |-> "fast"] /\ changes = 0
  /\ decimals \in BOOLEAN /\ gateway \in Gateway /\ listed \in BOOLEAN
  /\ route = "eth1"
  /\ wan = [w \in Link |-> NoStatus] /\ metrics = [w \in Link |-> NoStatus]
  /\ check = [c \in Check |-> Idle]

At(c, pc) == check[c].pc = pc

(* Faulty variant: a failing ping leaves the loop, not the iteration       *)
FollowingUnlessLost(c) ==
  IF check[c].wan = "eth1" /\ check[c].seen # "lost"
  THEN [check[c] EXCEPT !.pc = "probe", !.wan = "eth2", !.seen = "", !.via = ""]
  ELSE [Idle EXCEPT !.pc = "read1"]

(* The end of an iteration of the loop over the two links.                 *)
Following(c) ==
  IF check[c].wan = "eth1"
  THEN [check[c] EXCEPT !.pc = "probe", !.wan = "eth2", !.seen = "", !.via = ""]
  ELSE [Idle EXCEPT !.pc = "read1"]

-----------------------------------------------------------------------------
(* The outside                                                             *)

LinkChange(w) ==
  /\ changes < MaxChanges /\ changes' = changes + 1
  /\ \E q \in Quality \ {link[w]} : link' = [link EXCEPT ![w] = q]
  /\ route' = IF link'[w] = "absent" /\ route = w THEN NoRoute ELSE route
  /\ UNCHANGED <<decimals, gateway, listed, wan, metrics, check>>

(* DHCP or an administrator makes w the main default route.                *)
RouteSet(w) ==
  /\ changes < MaxChanges /\ changes' = changes + 1
  /\ link[w] # "absent" /\ route # w
  /\ route' = w
  /\ UNCHANGED <<link, decimals, gateway, listed, wan, metrics, check>>

-----------------------------------------------------------------------------
(* checkWANHealth                                                          *)

CheckStart(c) ==
  /\ At(c, "idle")
  /\ check' = [check EXCEPT ![c].pc = "probe"]
  /\ UNCHANGED <<outside, route, wan, metrics>>

(* What is read off ping's output; "" when the pattern, which asks for     *)
(* decimals, does not match.                                               *)
Measured(q) ==
  CASE q \in {"absent", "mute"} -> "lost"
    [] q = "fast" -> "fast"
    [] q = "slow" -> IF decimals THEN "slow" ELSE ""

(* ip link show and ping: a link that fails either is lost.  An output     *)
(* that does not match ends the iteration without a command.               *)
Probe(c) ==
  /\ At(c, "probe")
  /\ LET m == Measured(link[check[c].wan])
     IN  check' = [check EXCEPT ![c] =
           IF m = "" THEN Following(c)
           ELSE [@ EXCEPT !.pc = "record", !.seen = m]]
  /\ UNCHANGED <<outside, route, wan, metrics>>

(* Faulty variant: the catch block also writes a latency                   *)
RecordOverwrites(c) ==
  /\ At(c, "record")
  /\ wan' = [wan EXCEPT ![check[c].wan] =
       [status |-> IF check[c].seen = "lost" THEN "offline" ELSE "online",
        latency |-> check[c].seen]]
  /\ check' = [check EXCEPT ![c] =
       IF check[c].seen = "slow" /\ check[c].wan = "eth1"
       THEN [@ EXCEPT !.pc = "gateway"] ELSE Following(c)]
  /\ UNCHANGED <<outside, route, metrics>>

(* The hash is written from what ping showed; the catch block leaves the   *)
(* latency of an earlier check in place.  Only a slow eth1 is switched.    *)
Record(c) ==
  /\ At(c, "record")
  /\ LET w == check[c].wan
         s == check[c].seen
     IN  /\ wan' = [wan EXCEPT ![w] =
              IF s = "lost" THEN [@ EXCEPT !.status = "offline"]
              ELSE [status |-> "online", latency |-> s]]
         /\ check' = [check EXCEPT ![c] =
              IF s = "slow" /\ w = "eth1" THEN [@ EXCEPT !.pc = "gateway"]
              ELSE Following(c)]
  /\ UNCHANGED <<outside, route, metrics>>

(* Faulty variant: the gateway is always the one in the code               *)
FindGatewayFixed(c) ==
  /\ At(c, "gateway")
  /\ check' = [check EXCEPT ![c] =
       IF link["eth2"] = "absent" THEN Following(c)
       ELSE [@ EXCEPT !.pc = "route", !.via = "fixed"]]
  /\ UNCHANGED <<outside, route, wan, metrics>>

(* switchWAN('eth2'): ip route show default dev eth2, which fails without  *)
(* the device; with no route in the output the address in the code is used.*)
FindGateway(c) ==
  /\ At(c, "gateway")
  /\ check' = [check EXCEPT ![c] =
       IF link["eth2"] = "absent" THEN Following(c)
       ELSE [@ EXCEPT !.pc = "route",
                      !.via = IF listed \/ route = "eth2" THEN gateway
                              ELSE "fixed"]]
  /\ UNCHANGED <<outside, route, wan, metrics>>

ReplaceRoute(c) ==
  /\ At(c, "route")
  /\ route' = IF link["eth2"] # "absent" /\ check[c].via = gateway
              THEN "eth2" ELSE route
  /\ check' = [check EXCEPT ![c] = Following(c)]
  /\ UNCHANGED <<outside, wan, metrics>>

-----------------------------------------------------------------------------
(* updateMetrics, at the end of the same callback                          *)

ReadStatus(c, pc, w, next) ==
  /\ At(c, pc)
  /\ check' = [check EXCEPT ![c].pc = next, ![c].read[w] = Reported(wan[w])]
  /\ UNCHANGED <<outside, route, wan, metrics>>

ReadFirst(c)  == ReadStatus(c, "read1", "eth1", "read2")
ReadSecond(c) == ReadStatus(c, "read2", "eth2", "publish")

(* Faulty variant: the status of eth1 stands for both                      *)
PublishFirst(c) ==
  /\ At(c, "publish")
  /\ metrics' = [w \in Link |-> check[c].read["eth1"]]
  /\ check' = [check EXCEPT ![c] = Idle]
  /\ UNCHANGED <<outside, route, wan>>

Publish(c) ==
  /\ At(c, "publish")
  /\ metrics' = check[c].read
  /\ check' = [check EXCEPT ![c] = Idle]
  /\ UNCHANGED <<outside, route, wan>>

-----------------------------------------------------------------------------

CheckContinues(c) ==
  \/ Probe(c) \/ Record(c) \/ FindGateway(c) \/ ReplaceRoute(c)
  \/ ReadFirst(c) \/ ReadSecond(c) \/ Publish(c)

Next ==
  \/ \E w \in Link : LinkChange(w) \/ RouteSet(w)
  \/ \E c \in Check : CheckStart(c) \/ CheckContinues(c)

(* The interval fires again and again, commands return (ping -W 1 gives    *)
(* up after a second) and Bun resumes the callback.  The outside owes      *)
(* nothing.                                                                *)
Fairness ==
  \A c \in Check : WF_vars(CheckStart(c)) /\ WF_vars(CheckContinues(c))

Spec == Init /\ [][Next]_vars /\ Fairness

-----------------------------------------------------------------------------
(* Properties                                                              *)

(* Type correctness of the hashes, the route and the checks in progress.   *)
TypeOK ==
  /\ link \in [Link -> Quality] /\ changes \in 0 .. MaxChanges
  /\ decimals \in BOOLEAN /\ gateway \in Gateway /\ listed \in BOOLEAN
  /\ route \in Link \cup {NoRoute}
  /\ wan \in [Link -> Status] /\ metrics \in [Link -> Status]
  /\ check \in [Check -> Progress]

Lost(w) == link[w] \in {"absent", "mute"}

(* However old the pings that overlapping checks still have to record, a   *)
(* link that stays lost is offline in wan:{w} for good, and one that stays *)
(* fast is online with that latency.                                       *)
StatusSettles ==
  \A w \in Link :
    /\ <>[]Lost(w) => <>[](wan[w].status = "offline")
    /\ <>[](link[w] = "fast")
         => <>[](wan[w] = [status |-> "online", latency |-> "fast"])

(* The metrics are put together from two reads by callbacks that overtake  *)
(* one another; they still settle on the state of both links.              *)
MetricsSettle ==
  <>[](Lost("eth1") /\ link["eth2"] = "fast")
    => <>[]( metrics["eth1"].status = "offline" /\ metrics["eth2"].status = "online")

(* "Si latencia > 100ms, cambiar a otra WAN" (src/network.ts): traffic     *)
(* leaves a primary link that stays slow, provided ping's output can be    *)
(* read and the gateway of eth2 is either in the routing table or the one  *)
(* in the code; a route set by hand in between does not stop it.           *)
SlowPrimaryLeft ==
  <>[](/\ decimals /\ (listed \/ gateway = "fixed")
       /\ link["eth1"] = "slow" /\ link["eth2"] # "absent")
    => <>[](route = "eth2")

(* "ip route show | grep default  # Should switch to dev eth2 if WAN1      *)
(* down" (docs/network/TROUBLESHOOTING.md; docs/DEPLOYMENT.md describes    *)
(* the same test).                                                         *)
LostPrimaryLeft ==
  <>[](link["eth1"] = "mute" /\ link["eth2"] = "fast") => <>(route = "eth2")

=============================================================================
