-------------------------------- MODULE Router --------------------------------
(***************************************************************************)
(* The process as a whole (src/index.ts) and what it sets up in the        *)
(* kernel: initialize() with the steps of NetworkManager (src/network.ts), *)
(* PPPoEManager and HotspotManager it calls, the SIGINT handler, crashes,  *)
(* restarts and reboots, the ruleset, and the PPPoE sessions in Redis.     *)
(*                                                                         *)
(* An action is one awaited command with the code around it.  The signal   *)
(* handler runs while initialize() does.  A crash also stands for the two  *)
(* ways initialize() ends in exit(1) (sysctl or the listening socket       *)
(* fails) and for the SIGTERM of systemd, which nothing handles.           *)
(*                                                                         *)
(* A command here fails for a state that makes it fail (the link exists,   *)
(* a program is attached, the table is not there) or for a file that is    *)
(* missing: the code names files under the home of a developer.            *)
(*                                                                         *)
(* Left out: the start and stop of unbound and tailscaled, which have the  *)
(* form of accel-ppp's; the monitoring intervals, which have modules of    *)
(* their own; and the user, password and plan of a PPPoE session.          *)
(***************************************************************************)
EXTENDS Firewall, Naturals

CONSTANTS
  Session,     \* ids of PPPoE sessions
  MaxCrash,    \* bound on crashes and signals
  MaxReboot    \* bound on reboots

ASSUME RouterBounds == MaxCrash \in Nat /\ MaxReboot \in Nat

VARIABLES
  boot,        \* where initialize() is; "off" when there is no process
  vlan,        \* the VLAN that initVLANs has got to
  stop,        \* where the SIGINT handler is
  whole,       \* history: initialize() was over when the signal came
  crashes, reboots,
  files,       \* which of the files and programs the code names exist
  link,        \* the VLAN interfaces
  forwarding,  \* net.ipv4.ip_forward
  xdp,         \* the interfaces with an XDP program
  tables,      \* the tables loaded from nftables.conf
  bareHotspot, \* there is a table hotspot without its rules
  clients, customers,   \* the sets active_clients of hotspot and pppoe
  loaded,      \* history: the ruleset was loaded since the machine booted
  accel,       \* accel-pppd is running
  pppoe,       \* the hashes pppoe:{id}
  pppoeIds,    \* the set pppoe_sessions
  creating     \* the sessions createSession is about to put into the set

process == <<boot, vlan, stop, whole, crashes, reboots, files>>
network == <<link, forwarding, xdp>>
ruleset == <<tables, bareHotspot, clients, customers, loaded>>
redis   == <<pppoe, pppoeIds, creating>>
routerVars    == <<process, network, ruleset, accel, redis>>

File == {"nftables.conf", "router_kern.o", "accel-pppd"}

(* initialize(): the three commands of each VLAN in turn, then the rest    *)
BootStep ==
  {"off", "add", "up", "addr", "sysctl", "xdp_eth1", "xdp_eth2", "rules",
   "accel", "portal", "dashboard", "running"}
VlanAfter == [v \in Vlan |-> IF v = "eth0.10" THEN "eth0.20" ELSE "eth0.99"]

StopStep == {"no", "hotspot", "pppoe", "exit"}
LinkState == {"absent", "down", "up", "ready"}

BootTo(step) ==
  /\ boot' = step
  /\ UNCHANGED <<vlan, stop, whole, crashes, reboots, files>>

(* The next turn of the loop over the VLANs, and what comes after it       *)
NextVlan ==
  /\ IF vlan = "eth0.99" THEN boot' = "sysctl" /\ UNCHANGED vlan
     ELSE boot' = "add" /\ vlan' = VlanAfter[vlan]
  /\ UNCHANGED <<stop, whole, crashes, reboots, files>>

-----------------------------------------------------------------------------
RouterInit ==
  /\ boot = "off" /\ vlan = "eth0.10" /\ stop = "no" /\ whole = FALSE
  /\ crashes = 0 /\ reboots = 0
  /\ files \in SUBSET File
  /\ link = [v \in Vlan |-> "absent"] /\ forwarding = FALSE /\ xdp = {}
  /\ tables = {} /\ bareHotspot = FALSE /\ clients = {} /\ customers = {}
  /\ loaded = FALSE /\ accel = FALSE
  /\ pppoe = {} /\ pppoeIds = {} /\ creating = {}

(* systemd starts the process (Restart=always).                            *)
Start ==
  /\ boot = "off"
  /\ boot' = "add" /\ vlan' = "eth0.10"
  /\ UNCHANGED <<stop, whole, crashes, reboots, files>>
  /\ UNCHANGED <<network, ruleset, accel, redis>>

-----------------------------------------------------------------------------
(* initVLANs                                                               *)

(* Faulty variant: an interface that exists ends the initialization        *)
AddVlanThrows ==
  /\ boot = "add"
  /\ IF link[vlan] = "absent"
     THEN link' = [link EXCEPT ![vlan] = "down"] /\ BootTo("up")
     ELSE BootTo("off") /\ UNCHANGED link
  /\ UNCHANGED <<forwarding, xdp, ruleset, accel, redis>>

(* ip link add; it fails when the interface exists, and then the other two *)
(* commands are skipped.                                                   *)
AddVlan ==
  /\ boot = "add"
  /\ IF link[vlan] = "absent"
     THEN link' = [link EXCEPT ![vlan] = "down"] /\ BootTo("up")
     ELSE NextVlan /\ UNCHANGED link
  /\ UNCHANGED <<forwarding, xdp, ruleset, accel, redis>>

VlanUp ==
  /\ boot = "up" /\ BootTo("addr")
  /\ link' = [link EXCEPT ![vlan] = "up"]
  /\ UNCHANGED <<forwarding, xdp, ruleset, accel, redis>>

VlanAddress ==
  /\ boot = "addr" /\ NextVlan
  /\ link' = [link EXCEPT ![vlan] = "ready"]
  /\ UNCHANGED <<forwarding, xdp, ruleset, accel, redis>>

(* setupNAT                                                                *)
EnableForwarding ==
  /\ boot = "sysctl" /\ BootTo("xdp_eth1")
  /\ forwarding' = TRUE
  /\ UNCHANGED <<link, xdp, ruleset, accel, redis>>

(* Faulty variant: both commands name eth2                                 *)
AttachFirstElsewhere ==
  /\ boot = "xdp_eth1"
  /\ IF "router_kern.o" \in files /\ "eth2" \notin xdp
     THEN xdp' = xdp \cup {"eth2"} /\ BootTo("xdp_eth2")
     ELSE UNCHANGED xdp /\ BootTo("rules")
  /\ UNCHANGED <<link, forwarding, ruleset, accel, redis>>

(* loadEBPF, as root: one try for both commands, so that a program already *)
(* attached to eth1 leaves eth2 alone.                                     *)
AttachFirst ==
  /\ boot = "xdp_eth1"
  /\ IF "router_kern.o" \in files /\ "eth1" \notin xdp
     THEN xdp' = xdp \cup {"eth1"} /\ BootTo("xdp_eth2")
     ELSE UNCHANGED xdp /\ BootTo("rules")
  /\ UNCHANGED <<link, forwarding, ruleset, accel, redis>>

AttachSecond ==
  /\ boot = "xdp_eth2" /\ BootTo("rules")
  /\ xdp' = xdp \cup {"eth2"}
  /\ UNCHANGED <<link, forwarding, ruleset, accel, redis>>

(* loadNftablesRules: flush and load are one transaction of nft -f; a      *)
(* failure is reported and ignored.                                        *)
LoadRules ==
  /\ boot = "rules" /\ BootTo("accel")
  /\ IF "nftables.conf" \in files
     THEN /\ tables' = Table /\ bareHotspot' = FALSE
          /\ clients' = {} /\ customers' = {} /\ loaded' = TRUE
     ELSE UNCHANGED ruleset
  /\ UNCHANGED <<network, accel, redis>>

(* PPPoEManager.start; a second accel-pppd finds its port taken.           *)
StartAccel ==
  /\ boot = "accel" /\ BootTo("portal")
  /\ accel' = (accel \/ "accel-pppd" \in files)
  /\ UNCHANGED <<network, ruleset, redis>>

(* HotspotManager.start: what exists stays.  The accept rule it adds       *)
(* changes no verdict, and the redirect is refused in a filter chain.      *)
StartPortal ==
  /\ boot = "portal" /\ BootTo("dashboard")
  /\ bareHotspot' = ("hotspot" \notin tables)
  /\ UNCHANGED <<tables, clients, customers, loaded, network, accel, redis>>

StartDashboard ==
  /\ boot = "dashboard" /\ BootTo("running")
  /\ UNCHANGED <<network, ruleset, accel, redis>>

-----------------------------------------------------------------------------
(* The end of the process                                                  *)

(* SIGINT, also while initialize() is under way (a second one repeats the  *)
(* same commands)                                                          *)
Signal ==
  /\ boot # "off" /\ stop = "no" /\ crashes < MaxCrash
  /\ stop' = "hotspot" /\ crashes' = crashes + 1
  /\ whole' = (boot = "running")
  /\ UNCHANGED <<boot, vlan, reboots, files, network, ruleset, accel, redis>>

(* Faulty variant: the whole ruleset goes                                  *)
StopHotspotFlushes ==
  /\ stop = "hotspot" /\ stop' = "pppoe"
  /\ tables' = {} /\ bareHotspot' = FALSE /\ clients' = {}
  /\ UNCHANGED <<boot, vlan, whole, crashes, reboots, files, network, customers,
                 loaded, accel, redis>>

(* HotspotManager.stop: nft delete table inet hotspot                      *)
StopHotspot ==
  /\ stop = "hotspot" /\ stop' = "pppoe"
  /\ tables' = tables \ {"hotspot"} /\ bareHotspot' = FALSE /\ clients' = {}
  /\ UNCHANGED <<boot, vlan, whole, crashes, reboots, files, network, customers,
                 loaded, accel, redis>>

(* Faulty variant: the daemon is forgotten                                 *)
StopPppoeForgets ==
  /\ stop = "pppoe" /\ stop' = "exit"
  /\ UNCHANGED <<boot, vlan, whole, crashes, reboots, files, network, ruleset,
                 accel, redis>>

(* PPPoEManager.stop: pkill accel-pppd                                     *)
StopPppoe ==
  /\ stop = "pppoe" /\ stop' = "exit"
  /\ accel' = FALSE
  /\ UNCHANGED <<boot, vlan, whole, crashes, reboots, files, network, ruleset, redis>>

Gone ==
  /\ boot' = "off" /\ vlan' = "eth0.10" /\ stop' = "no" /\ whole' = FALSE
  /\ creating' = {}

Exit ==
  /\ stop = "exit" /\ Gone
  /\ UNCHANGED <<crashes, reboots, files, network, ruleset, accel, pppoe,
                 pppoeIds>>

ProcessDies ==
  /\ boot # "off" /\ crashes < MaxCrash /\ Gone
  /\ crashes' = crashes + 1
  /\ UNCHANGED <<reboots, files, network, ruleset, accel, pppoe, pppoeIds>>

(* Power is lost: of all this only the disk remains, with Redis on it.     *)
Reboot ==
  /\ reboots < MaxReboot /\ Gone
  /\ reboots' = reboots + 1
  /\ link' = [v \in Vlan |-> "absent"] /\ forwarding' = FALSE /\ xdp' = {}
  /\ tables' = {} /\ bareHotspot' = FALSE /\ clients' = {} /\ customers' = {}
  /\ loaded' = FALSE /\ accel' = FALSE
  /\ UNCHANGED <<crashes, files, pppoe, pppoeIds>>

-----------------------------------------------------------------------------
(* Serving                                                                 *)

Serving == boot = "running"

(* nft add/delete element in hotspot active_clients, by a login, a pause,  *)
(* an expiry (module Hotspot) or the timeout of the element                *)
Admit(a) ==
  /\ Serving /\ (bareHotspot \/ "hotspot" \in tables)
  /\ a \notin clients /\ clients' = clients \cup {a}
  /\ UNCHANGED <<process, network, tables, bareHotspot, customers, loaded,
                 accel, redis>>

Revoke(a) ==
  /\ a \in clients /\ clients' = clients \ {a}
  /\ UNCHANGED <<process, network, tables, bareHotspot, customers, loaded,
                 accel, redis>>

(* The same for pppoe active_clients, by the scripts that accel-ppp runs   *)
(* when a session comes up or goes down, which are not in the repository   *)
Connect(a) ==
  /\ accel /\ "pppoe" \in tables
  /\ a \notin customers /\ customers' = customers \cup {a}
  /\ UNCHANGED <<process, network, tables, bareHotspot, clients, loaded,
                 accel, redis>>

Disconnect(a) ==
  /\ a \in customers /\ customers' = customers \ {a}
  /\ UNCHANGED <<process, network, tables, bareHotspot, clients, loaded,
                 accel, redis>>

(* Faulty variant: the id is indexed before the hash is written            *)
CreateSessionIndexFirst(id) ==
  /\ Serving /\ id \notin pppoe
  /\ pppoeIds' = pppoeIds \cup {id} /\ creating' = creating \cup {id}
  /\ UNCHANGED <<process, network, ruleset, accel, pppoe>>

(* POST /api/pppoe/create -> createSession, any number at once: the hash ... *)
CreateSession(id) ==
  /\ Serving /\ id \notin pppoe
  /\ pppoe' = pppoe \cup {id} /\ creating' = creating \cup {id}
  /\ UNCHANGED <<process, network, ruleset, accel, pppoeIds>>

(* ... and its place in the set                                            *)
IndexSession(id) ==
  /\ id \in creating
  /\ pppoeIds' = pppoeIds \cup {id} /\ creating' = creating \ {id}
  /\ UNCHANGED <<process, network, ruleset, accel, pppoe>>

BootContinues ==
  \/ AddVlan \/ VlanUp \/ VlanAddress
  \/ EnableForwarding \/ AttachFirst \/ AttachSecond \/ LoadRules
  \/ StartAccel \/ StartPortal \/ StartDashboard
StopContinues == StopHotspot \/ StopPppoe \/ Exit

RouterNext ==
  \/ Start \/ BootContinues \/ StopContinues
  \/ Signal \/ ProcessDies \/ Reboot
  \/ \E a \in Address : Admit(a) \/ Revoke(a) \/ Connect(a) \/ Disconnect(a)
  \/ \E id \in Session : CreateSession(id) \/ IndexSession(id)

RouterSpec == RouterInit /\ [][RouterNext]_routerVars

(* The commands end, and systemd restarts the process.                     *)
RouterFairness ==
  /\ WF_routerVars(Start) /\ WF_routerVars(BootContinues) /\ WF_routerVars(StopContinues)

FairRouterSpec == RouterSpec /\ RouterFairness

-----------------------------------------------------------------------------
(* What the comments of nftables.conf and the documents permit, and with   *)
(* it all they permit: VLANs and clients are kept apart, VLAN 99 is for    *)
(* its whitelist ("Management (VLAN 99) whitelist only", DEPLOYMENT.md:309)*)
(* and from the WAN only answers come in.                                  *)

(* nftables.conf:27, 53, 83 and 129                                        *)
MayPass(p) ==
  \/ /\ p.oif \in Uplink
     /\ \/ p.iif = "eth0.10" /\ p.saddr \in clients
        \/ p.iif \in {"eth0.20", "ppp0"} /\ p.saddr \in customers
        \/ p.iif = "eth0.99" /\ p.saddr \in Whitelist
  \/ p.iif \in Uplink /\ p.known

(* nftables.conf:72, 76, 108, 117 and 121, and the portal to which         *)
(* ARCHITECTURE.md:10 sends a client that is not active                    *)
MayEnter(p) ==
  \/ p.iif = "lo"
  \/ p.iif = "eth0.99" /\ p.saddr \in Whitelist
  \/ p.iif # "eth0.99" /\ (p.known \/ p.service \in {"dns", "dhcp"})
  \/ p.iif = "eth0.10" /\ p.service = "portal"

-----------------------------------------------------------------------------
(* Type correctness: with it, there are addresses in a set only while its  *)
(* table exists, and no program is attached to eth2 alone.                 *)
RouterTypeOK ==
  /\ boot \in BootStep /\ vlan \in Vlan /\ stop \in StopStep /\ whole \in BOOLEAN
  /\ crashes \in Nat /\ reboots \in Nat /\ files \subseteq File
  /\ link \in [Vlan -> LinkState] /\ forwarding \in BOOLEAN
  /\ xdp \in {{}, {"eth1"}, Uplink}
  /\ tables \subseteq Table /\ bareHotspot \in BOOLEAN
  /\ clients \subseteq Address /\ customers \subseteq Address
  /\ clients # {} => bareHotspot \/ "hotspot" \in tables
  /\ customers # {} => "pppoe" \in tables
  /\ loaded \in BOOLEAN /\ accel \in BOOLEAN
  /\ pppoe \subseteq Session /\ pppoeIds \subseteq Session
  /\ creating \subseteq Session

(* From the moment the ruleset is loaded until the machine reboots, the    *)
(* router forwards nothing that MayPass does not name: also while the      *)
(* process starts, stops, has crashed or has deleted the table hotspot on  *)
(* its way out, and whatever connection the packet belongs to.  That what  *)
(* it names is forwarded is another matter: see PermittedGetsThrough.      *)
OnlyPermittedForwarded ==
  loaded /\ forwarding =>
    \A p \in Packet : Forwarded(p, tables, clients, customers) => MayPass(p)

(* In the same time nothing reaches a service of the router that MayEnter  *)
(* does not name: in VLAN 99 the whitelist only, and ssh, but for the      *)
(* packets of a connection, only from there.                               *)
OnlyPermittedDelivered ==
  loaded => \A p \in Packet : Delivered(p, tables, clients) => MayEnter(p)

(* A signal that comes after initialize() is over leaves neither the table *)
(* hotspot nor accel-pppd behind.                                          *)
StopLeavesNothing ==
  stop = "exit" /\ whole => "hotspot" \notin tables /\ ~ bareHotspot /\ ~ accel

(* getAllSessions and the metrics read the set: every id in it has a hash, *)
(* whenever the process dies.                                              *)
IndexedSessionExists == pppoeIds \subseteq pppoe

(* Whatever an earlier start left half done in the kernel, the next one    *)
(* gets through: the router is operative in the end.                       *)
ComesBack == <>[](boot = "running")

-----------------------------------------------------------------------------
(* What documents and comments say                                         *)

(* What they permit gets through: once the router is operative with its    *)
(* ruleset and has a client, the packets of active clients to the WAN      *)
(* links, the answers to them ("conntrack permite (estado ESTABLISHED)",   *)
(* ARCHITECTURE.md:32) and the whitelisted of VLAN 99 are forwarded, and   *)
(* DNS, DHCP and the portal are delivered.                                 *)
PermittedGetsThrough ==
  Serving /\ stop = "no" /\ "hotspot" \in tables /\ clients # {} =>
    \A p \in Packet :
      /\ MayPass(p) => Forwarded(p, tables, clients, customers)
      /\ MayEnter(p) => Delivered(p, tables, clients)

(* "VLANs 10, 20, 99 configuradas" (index.ts:31): the process is operative *)
(* only when every VLAN has its address.                                   *)
OperativeHasVlans == Serving => \A v \in Vlan : link[v] = "ready"

=============================================================================
