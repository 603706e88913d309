----------------------------- MODULE RouterProofs -----------------------------
(***************************************************************************)
(* What the ruleset lets through, and what the process keeps in order      *)
(* however often it starts, stops, crashes and loses power, for any        *)
(* addresses, any whitelist and any number of sessions.                    *)
(*                                                                         *)
(* The invariants the runs check need three facts about where things are:  *)
(* once the ruleset is loaded its tables pppoe, management and filter are  *)
(* there until the machine reboots (Guarded); a signal that found the      *)
(* process operative is handled while nothing is being started any more,   *)
(* so what its handler removes stays removed (Orderly); and a session that *)
(* is about to be indexed has its hash (HashFirst).                        *)
(***************************************************************************)
EXTENDS Router, TLAPS

-----------------------------------------------------------------------------
(* The ruleset                                                             *)

(* With tables hotspot and pppoe both loaded no packet at all is           *)
(* forwarded: each of the two forward chains drops what the other accepts. *)
THEOREM NothingForwarded ==
  ASSUME NEW T, "hotspot" \in T, "pppoe" \in T, NEW C, NEW D,
         NEW p \in Packet
  PROVE  ~ Forwarded(p, T, C, D)
BY DEF Forwarded, HotspotForward, PppoeForward

(* Without table hotspot the customers' packets are.                       *)
THEOREM CustomersForwarded ==
  ASSUME NEW C, NEW D, NEW p \in Packet,
         p.iif = "eth0.20", p.oif \in Uplink, p.saddr \in D
  PROVE  Forwarded(p, Table \ {"hotspot"}, C, D)
BY DEF Forwarded, Enters, PppoeForward, FilterForward, Vlan

(* With table hotspot or without it, a forwarded packet is a customer's.   *)
LEMMA ForwardChecked ==
  ASSUME NEW T, {"pppoe", "management", "filter"} \subseteq T, NEW C, NEW D,
         NEW p \in Packet, Forwarded(p, T, C, D)
  PROVE  p.oif \in Uplink /\ p.iif = "eth0.20" /\ p.saddr \in D
BY DEF Forwarded, PppoeForward

(* With table management loaded only the management addresses and the      *)
(* router itself reach a service of it: its input chain drops the DNS, the *)
(* DHCP, the portal and the answers that table filter accepts.             *)
THEOREM OnlyManagementReached ==
  ASSUME NEW T, "management" \in T, NEW C, NEW p \in Packet, Delivered(p, T, C)
  PROVE  p.iif = "lo" \/ (p.iif = "eth0.99" /\ p.saddr \in Whitelist)
BY DEF Delivered, ManagementInput

-----------------------------------------------------------------------------
(* The process                                                             *)

(* AttachSecond runs only after AttachFirst has succeeded.                 *)
FirstAttached == boot = "xdp_eth2" => "eth1" \in xdp

Guarded == loaded => {"pppoe", "management", "filter"} \subseteq tables

Orderly ==
  whole => /\ boot = "running"
           /\ stop \in {"pppoe", "exit"} => "hotspot" \notin tables /\ ~ bareHotspot
           /\ stop = "exit" => ~ accel

HashFirst == creating \subseteq pppoe

RInv ==
  /\ RouterTypeOK /\ FirstAttached /\ Guarded /\ Orderly /\ HashFirst
  /\ IndexedSessionExists

LEMMA InitRInv == RouterInit => RInv
<1> SUFFICES ASSUME RouterInit PROVE RInv
  OBVIOUS
<1>1. link \in [Vlan -> LinkState]
  BY DEF RouterInit, LinkState
<1>2. RouterTypeOK
  BY <1>1 DEF RouterInit, RouterTypeOK, BootStep, StopStep, Vlan
<1>3. FirstAttached /\ Guarded /\ Orderly /\ HashFirst /\ IndexedSessionExists
  BY DEF RouterInit, FirstAttached, Guarded, Orderly, HashFirst,
     IndexedSessionExists
<1> QED
  BY <1>2, <1>3 DEF RInv

(* The parts of the state that move together                               *)
LEMMA ProcessNext ==
  ASSUME RInv, [RouterNext]_routerVars
  PROVE  /\ boot' \in BootStep /\ vlan' \in Vlan /\ stop' \in StopStep
         /\ whole' \in BOOLEAN /\ crashes' \in Nat /\ reboots' \in Nat
         /\ files' \subseteq File
<1> USE DEF RInv, RouterTypeOK, BootStep, StopStep
<1>1. CASE UNCHANGED process
  BY <1>1 DEF process
<1>2. CASE NextVlan
  BY <1>2 DEF NextVlan, Vlan, VlanAfter
<1>3. ASSUME NEW step \in BootStep, BootTo(step)
      PROVE  /\ boot' \in BootStep /\ vlan' \in Vlan /\ stop' \in StopStep
             /\ whole' \in BOOLEAN /\ crashes' \in Nat /\ reboots' \in Nat
             /\ files' \subseteq File
  BY <1>3 DEF BootTo
<1>4. CASE BootContinues
  <2>1. NextVlan \/ \E step \in BootStep : BootTo(step)
    BY <1>4 DEF BootContinues, AddVlan, VlanUp, VlanAddress, EnableForwarding,
       AttachFirst, AttachSecond, LoadRules, StartAccel, StartPortal,
       StartDashboard
  <2> QED
    BY <1>2, <1>3, <2>1
<1>5. CASE Signal
  <2>1. whole' \in BOOLEAN
    BY <1>5 DEF Signal
  <2> QED
    BY <1>5, <2>1 DEF Signal
<1>7. CASE Start \/ StopHotspot \/ StopPppoe
  BY <1>7 DEF Start, StopHotspot, StopPppoe, Vlan
<1>8. CASE Exit \/ ProcessDies \/ Reboot
  <2>1. /\ boot' \in BootStep /\ vlan' \in Vlan /\ stop' \in StopStep
        /\ whole' \in BOOLEAN
    BY <1>8 DEF Exit, ProcessDies, Reboot, Gone, Vlan
  <2>2. crashes' \in Nat /\ reboots' \in Nat /\ files' \subseteq File
    BY <1>8 DEF Exit, ProcessDies, Reboot
  <2> QED
    BY <2>1, <2>2
<1>6. CASE (\E a \in Address : Admit(a) \/ Revoke(a) \/ Connect(a) \/ Disconnect(a))
           \/ (\E id \in Session : CreateSession(id) \/ IndexSession(id))
  BY <1>1, <1>6 DEF Admit, Revoke, Connect, Disconnect, CreateSession,
     IndexSession
<1> QED
  BY <1>1, <1>4, <1>5, <1>6, <1>7, <1>8
  DEF RouterNext, StopContinues, routerVars

LEMMA NetworkNext ==
  ASSUME RInv, [RouterNext]_routerVars
  PROVE  /\ link' \in [Vlan -> LinkState] /\ forwarding' \in BOOLEAN
         /\ xdp' \in {{}, {"eth1"}, Uplink} /\ FirstAttached'
<1> USE DEF RInv, RouterTypeOK, FirstAttached, network
<1>1. CASE AddVlan \/ VlanUp \/ VlanAddress
  BY <1>1 DEF AddVlan, VlanUp, VlanAddress, BootTo, NextVlan, LinkState
<1>2. CASE EnableForwarding
  BY <1>2 DEF EnableForwarding, BootTo
<1>3. CASE AttachFirst
  <2>1. CASE "router_kern.o" \in files /\ "eth1" \notin xdp
    <3>1. xdp = {}
      BY <2>1 DEF Uplink
    <3> QED
      BY <1>3, <2>1, <3>1 DEF AttachFirst
  <2>2. CASE ~ ("router_kern.o" \in files /\ "eth1" \notin xdp)
    BY <1>3, <2>2 DEF AttachFirst, BootTo
  <2> QED
    BY <2>1, <2>2
<1>4. CASE AttachSecond
  <2>1. xdp' = Uplink
    BY <1>4 DEF AttachSecond, Uplink
  <2> QED
    BY <1>4, <2>1 DEF AttachSecond, BootTo
<1>5. CASE Reboot
  BY <1>5 DEF Reboot, Gone, LinkState
<1>6. CASE UNCHANGED network /\ boot' # "xdp_eth2"
  BY <1>6
<1>7. CASE UNCHANGED network /\ boot' = boot
  BY <1>7
<1>8. CASE LoadRules \/ StartAccel \/ StartPortal \/ StartDashboard \/ Start
           \/ StopContinues \/ Signal \/ ProcessDies
  <2>1. UNCHANGED network
    BY <1>8 DEF LoadRules, StartAccel, StartPortal, StartDashboard, Start,
       StopContinues, StopHotspot, StopPppoe, Exit, Signal, ProcessDies
  <2>2. boot' # "xdp_eth2" \/ boot' = boot
    BY <1>8 DEF LoadRules, StartAccel, StartPortal, StartDashboard, Start,
       StopContinues, StopHotspot, StopPppoe, Exit, Signal, ProcessDies, BootTo,
       Gone
  <2> QED
    BY <1>6, <1>7, <2>1, <2>2
<1>9. CASE (\E a \in Address : Admit(a) \/ Revoke(a) \/ Connect(a) \/ Disconnect(a))
           \/ (\E id \in Session : CreateSession(id) \/ IndexSession(id))
           \/ UNCHANGED routerVars
  BY <1>7, <1>9 DEF Admit, Revoke, Connect, Disconnect, CreateSession,
     IndexSession, process, routerVars
<1> QED
  BY <1>1, <1>2, <1>3, <1>4, <1>5, <1>8, <1>9 DEF RouterNext, BootContinues

(* The tables and what is in them                                          *)
TablesOK ==
  /\ tables \subseteq Table /\ bareHotspot \in BOOLEAN
  /\ clients \subseteq Address /\ customers \subseteq Address
  /\ clients # {} => bareHotspot \/ "hotspot" \in tables
  /\ customers # {} => "pppoe" \in tables
  /\ loaded \in BOOLEAN
  /\ Guarded

LEMMA TablesNext ==
  ASSUME RInv, [RouterNext]_routerVars
  PROVE  TablesOK'
<1> TablesOK
  BY DEF RInv, RouterTypeOK, TablesOK
<1> USE DEF TablesOK, Guarded
<1>1. CASE UNCHANGED ruleset
  BY <1>1 DEF ruleset
<1>2. CASE LoadRules
  BY <1>1, <1>2 DEF LoadRules, Table
<1>3. CASE StartPortal
  BY <1>3 DEF StartPortal
<1>4. CASE StopHotspot
  BY <1>4 DEF StopHotspot
<1>5. CASE Reboot
  BY <1>5 DEF Reboot
<1>6. ASSUME NEW a \in Address, Admit(a) \/ Revoke(a) \/ Connect(a) \/ Disconnect(a)
      PROVE  TablesOK'
  BY <1>6 DEF Admit, Revoke, Connect, Disconnect
<1>7. CASE AddVlan \/ VlanUp \/ VlanAddress \/ EnableForwarding \/ AttachFirst
           \/ AttachSecond \/ StartAccel \/ StartDashboard
  BY <1>1, <1>7 DEF AddVlan, VlanUp, VlanAddress, EnableForwarding, AttachFirst,
     AttachSecond, StartAccel, StartDashboard
<1>8. CASE Start \/ StopPppoe \/ Exit \/ Signal \/ ProcessDies
           \/ (\E id \in Session : CreateSession(id) \/ IndexSession(id))
           \/ UNCHANGED routerVars
  BY <1>1, <1>8 DEF Start, StopPppoe, Exit, Signal, ProcessDies, CreateSession,
     IndexSession, routerVars
<1> QED
  BY <1>2, <1>3, <1>4, <1>5, <1>6, <1>7, <1>8
  DEF RouterNext, BootContinues, StopContinues

LEMMA OrderlyNext ==
  ASSUME RInv, [RouterNext]_routerVars
  PROVE  Orderly' /\ accel' \in BOOLEAN
<1> Orderly /\ accel \in BOOLEAN
  BY DEF RInv, RouterTypeOK
<1> USE DEF Orderly
<1>1. CASE BootContinues
  <2>1. boot # "running" /\ whole' = whole /\ accel' \in BOOLEAN
    BY <1>1 DEF BootContinues, AddVlan, VlanUp, VlanAddress, EnableForwarding,
       AttachFirst, AttachSecond, LoadRules, StartAccel, StartPortal,
       StartDashboard, BootTo, NextVlan
  <2> QED
    BY <2>1
<1>2. CASE Signal
  <2>1. whole' => boot' = "running"
    BY <1>2 DEF Signal
  <2>2. stop' = "hotspot" /\ accel' = accel
    BY <1>2 DEF Signal
  <2> QED
    BY <2>1, <2>2
<1>5. CASE Start \/ ProcessDies \/ Reboot \/ Exit
  <2>1. accel' \in BOOLEAN
    BY <1>5 DEF Start, ProcessDies, Reboot, Exit
  <2>2. ~ whole'
    BY <1>5 DEF Start, ProcessDies, Reboot, Exit, Gone
  <2> QED
    BY <2>1, <2>2
<1>6. CASE StopHotspot
  BY <1>6 DEF StopHotspot
<1>7. CASE StopPppoe
  BY <1>7 DEF StopPppoe, ruleset
<1>3. ASSUME NEW a \in Address, Admit(a) \/ Revoke(a) \/ Connect(a) \/ Disconnect(a)
      PROVE  Orderly' /\ accel' \in BOOLEAN
  BY <1>3 DEF Admit, Revoke, Connect, Disconnect, process
<1>4. CASE (\E id \in Session : CreateSession(id) \/ IndexSession(id))
           \/ UNCHANGED routerVars
  BY <1>4 DEF CreateSession, IndexSession, routerVars, process, ruleset
<1> QED
  BY <1>1, <1>2, <1>3, <1>4, <1>5, <1>6, <1>7 DEF RouterNext, StopContinues

SessionsOK ==
  /\ pppoe \subseteq Session /\ pppoeIds \subseteq Session
  /\ creating \subseteq Session
  /\ HashFirst /\ IndexedSessionExists

LEMMA SessionsNext ==
  ASSUME RInv, [RouterNext]_routerVars
  PROVE  SessionsOK'
<1> SessionsOK
  BY DEF RInv, RouterTypeOK, SessionsOK
<1> USE DEF SessionsOK, HashFirst, IndexedSessionExists
<1>1. CASE UNCHANGED redis
  BY <1>1 DEF redis
<1>2. ASSUME NEW id \in Session, CreateSession(id) PROVE SessionsOK'
  BY <1>2 DEF CreateSession
<1>3. ASSUME NEW id \in Session, IndexSession(id) PROVE SessionsOK'
  BY <1>3 DEF IndexSession
<1>4. CASE Exit \/ ProcessDies \/ Reboot
  BY <1>4 DEF Exit, ProcessDies, Reboot, Gone
<1>5. CASE BootContinues
  BY <1>1, <1>5 DEF BootContinues, AddVlan, VlanUp, VlanAddress,
     EnableForwarding, AttachFirst, AttachSecond, LoadRules, StartAccel,
     StartPortal, StartDashboard
<1>6. CASE Start \/ StopHotspot \/ StopPppoe \/ Signal \/ UNCHANGED routerVars
  BY <1>1, <1>6 DEF Start, StopHotspot, StopPppoe, Signal, routerVars
<1>7. ASSUME NEW a \in Address, Admit(a) \/ Revoke(a) \/ Connect(a) \/ Disconnect(a)
      PROVE  SessionsOK'
  BY <1>1, <1>7 DEF Admit, Revoke, Connect, Disconnect
<1> QED
  BY <1>2, <1>3, <1>4, <1>5, <1>6, <1>7 DEF RouterNext, StopContinues

LEMMA NextRInv == RInv /\ [RouterNext]_routerVars => RInv'
<1> SUFFICES ASSUME RInv, [RouterNext]_routerVars PROVE RInv'
  OBVIOUS
<1> QED
  BY ProcessNext, NetworkNext, TablesNext, OrderlyNext, SessionsNext
  DEF RInv, RouterTypeOK, TablesOK, SessionsOK

LEMMA SpecRInv == RouterSpec => []RInv
BY InitRInv, NextRInv, PTL DEF RouterSpec

-----------------------------------------------------------------------------
(* Type correctness, for any addresses and sessions                        *)
THEOREM RouterTypeCorrect == RouterSpec => []RouterTypeOK
<1>1. RInv => RouterTypeOK
  BY DEF RInv
<1> QED
  BY <1>1, SpecRInv, PTL

(* Once loaded, the ruleset forwards only what is permitted, whatever the  *)
(* process goes through.                                                   *)
THEOREM PermittedForwarded == RouterSpec => []OnlyPermittedForwarded
<1>1. RInv => OnlyPermittedForwarded
  <2> SUFFICES ASSUME RInv, loaded, NEW p \in Packet,
                      Forwarded(p, tables, clients, customers)
               PROVE  /\ p.oif \in Uplink
                      /\ p.iif = "eth0.20" /\ p.saddr \in customers
    BY DEF OnlyPermittedForwarded, MayPass
  <2> QED
    BY ForwardChecked DEF RInv, Guarded
<1> QED
  BY <1>1, SpecRInv, PTL

(* ... and keeps from the router itself what is not.                       *)
THEOREM PermittedDelivered == RouterSpec => []OnlyPermittedDelivered
<1>1. RInv => OnlyPermittedDelivered
  <2> SUFFICES ASSUME RInv, loaded, NEW p \in Packet, Delivered(p, tables, clients)
               PROVE  p.iif = "lo" \/ (p.iif = "eth0.99" /\ p.saddr \in Whitelist)
    BY DEF OnlyPermittedDelivered, MayEnter
  <2> QED
    BY OnlyManagementReached DEF RInv, Guarded
<1> QED
  BY <1>1, SpecRInv, PTL

(* A signal that finds the process operative leaves neither the table      *)
(* hotspot nor accel-pppd behind.                                          *)
THEOREM StopComplete == RouterSpec => []StopLeavesNothing
<1>1. RInv => StopLeavesNothing
  BY DEF RInv, Orderly, StopLeavesNothing
<1> QED
  BY <1>1, SpecRInv, PTL

(* Every indexed PPPoE session has its hash, whenever the process dies.    *)
THEOREM SessionsIndexed == RouterSpec => []IndexedSessionExists
<1>1. RInv => IndexedSessionExists
  BY DEF RInv
<1> QED
  BY <1>1, SpecRInv, PTL

=============================================================================
