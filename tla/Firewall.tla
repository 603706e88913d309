------------------------------- MODULE Firewall -------------------------------
(***************************************************************************)
(* The verdict of the kernel on a packet under src/config/nftables.conf.   *)
(*                                                                         *)
(* Every base chain of a hook sees the packet: an accept ends its own      *)
(* chain only, a drop (by a rule or by the policy) is final.  So a packet  *)
(* passes a hook when every chain of it that is loaded accepts.  A chain   *)
(* is the condition under which it accepts: its rules in order, then its   *)
(* policy.  Left out are the chains that accept everything: pppoe          *)
(* prerouting, management forward, filter output and those of table nat.   *)
(***************************************************************************)
CONSTANTS
  Address,     \* source addresses
  Whitelist    \* set whitelist of table management

ASSUME WhitelistAssumption == Whitelist \subseteq Address

Vlan   == {"eth0.10", "eth0.20", "eth0.99"}
Uplink == {"eth1", "eth2"}

(* "ppp0" stands for the interfaces accel-ppp makes for its sessions.      *)
Interface == Vlan \cup Uplink \cup {"ppp0", "lo"}

(* What a packet wants, as far as a rule asks for it or a document         *)
(* promises it                                                             *)
Service == {"ssh", "dns", "dhcp", "portal", "other"}

(* iif, oif: where it comes in and is routed to; saddr: its source;        *)
(* known: conntrack's state is established or related.                     *)
Packet == [iif : Interface, oif : Interface, saddr : Address,
           service : Service, known : BOOLEAN]

Table == {"hotspot", "pppoe", "management", "filter"}

-----------------------------------------------------------------------------
(* The chains; clients and customers are the sets active_clients of tables *)
(* hotspot and pppoe.                                                      *)

HotspotPrerouting(p, clients) == p.iif = "eth0.10" => p.saddr \in clients

HotspotForward(p, clients) ==
  p.iif = "eth0.10" /\ p.oif \in Uplink /\ p.saddr \in clients

PppoeForward(p, customers) ==
  p.iif = "eth0.20" /\ p.oif \in Uplink /\ p.saddr \in customers

(* Faulty variant: the VLAN is enough, whoever uses it                     *)
ManagementInputUnlisted(p) == p.iif \in {"eth0.99", "lo"}

ManagementInput(p) ==
  (p.iif = "eth0.99" /\ p.saddr \in Whitelist) \/ p.iif = "lo"

FilterInput(p) ==
  \/ p.known \/ p.iif = "lo"
  \/ p.iif = "eth0.99" /\ p.service = "ssh"
  \/ p.service \in {"dns", "dhcp"}

FilterForward(p) == p.known \/ (p.iif \in Vlan /\ p.oif \in Uplink)

-----------------------------------------------------------------------------
(* The hooks, with the tables that are loaded                              *)

Enters(p, tables, clients) ==
  "hotspot" \in tables => HotspotPrerouting(p, clients)

(* A packet for somebody else                                              *)
Forwarded(p, tables, clients, customers) ==
  /\ Enters(p, tables, clients)
  /\ "hotspot" \in tables => HotspotForward(p, clients)
  /\ "pppoe" \in tables => PppoeForward(p, customers)
  /\ "filter" \in tables => FilterForward(p)

(* A packet for the router itself                                          *)
Delivered(p, tables, clients) ==
  /\ Enters(p, tables, clients)
  /\ "management" \in tables => ManagementInput(p)
  /\ "filter" \in tables => FilterInput(p)

=============================================================================
