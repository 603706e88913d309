# SmartRouter Monolith: TLA+ models, checks and proofs

SmartRouter is the control program of a small ISP router: a Bun/TypeScript
process that sells prepaid hotspot tickets, keeps them in Redis, opens and
closes the nftables firewall for the addresses of logged-in devices, watches
two WAN links and starts the daemons around it. This directory models the parts
of it where state, time and concurrency meet: first of all the life of a hotspot
ticket, then the WAN links, the traffic shaper, the system monitor, the process
with the ruleset and the interfaces it sets up, and the XDP program.

Paths below are relative to the root of the repository (`src/hotspot.ts` is the
file that `PROJECT.json` names `src/src/hotspot.ts`).

## 1. Inventory

| Component | State it keeps | Operations | Hard behaviour |
|---|---|---|---|
| HotspotManager, tickets (`src/hotspot.ts`) | `ticket:{id}`, `hotspot_tickets`, `ticket:batch:*`, `shadow:{id}`, `ex:session:{ip}`, `mac_to_ticket:{mac}`, `ticket_to_ip:{id}`, `hs:online`, `metadata:{ip}`; the nftables set `active_clients` | createTicket, createTicketBatch, activateTicket, pauseTicket, resumeTicket, checkExpiredTickets, batch pause/resume, stop | every operation is a read, some awaits and writes computed from the read; several run at once; a crash between two writes |
| HotspotManager, session checker | `hs:online`, `metadata:*` | sessionChecker, disconnectClient | key mismatch between writer and reader; stale reads |
| Dashboard API (`src/dashboard.ts`) | none of its own | HTTP routes: create, pause/resume, check-auto, activate, metrics, ARP, PPPoE create | check-auto decides on three successive reads |
| Captive portal (`src/dashboard.ts`, `src/portal/`) | the browser's page | client-ip, arp, check-auto, activate | order and repetition of calls |
| Orchestrator (`src/index.ts`, `config/smartrouter.service`) | `isRunning` | initialize, 5 s interval, 30 s interval, SIGINT | `setInterval` overlaps itself; crash and restart |
| Firewall (`config/nftables.conf`) | sets and chains | flush and load; add/delete element | element timeout; several base chains on one hook, each with the last word |
| NetworkManager (`src/network.ts`) | `wan:eth1`, `wan:eth2`, default route, tc qdiscs, VLAN interfaces, attached XDP programs | checkWANHealth, switchWAN, applyShaper, initVLANs, setupNAT, loadEBPF, loadNftablesRules | failover decisions; a tc sequence that fails halfway; start-up over what an earlier process left |
| PPPoEManager (`src/pppoe.ts`) | `pppoe:{id}`, `pppoe_sessions`, the daemon | start, stop, createSession, disconnectSession | two-command creation, several at once |
| SystemMonitor (`src/utils/monitor.ts`) | `logs:system:*`, `failures:*`, `system:health` | collect, detect, score | overlapping collections over one list |
| XDP balancer (`kernel/router_kern.c`) | `wan_status`, `wan_stats`, one pair for each loaded copy | one run per frame, on any CPU | byte order, hash, fallback, shared counters |
| BPF loader (`src/utils/bpf_loader.ts`) | none | loadXDP, unloadXDP | a copy replaced while it runs |
| DNS, Tailscale, Redis and logger helpers, scripts | none that matters here | start/stop of daemons | none |

How they interact: the dashboard calls HotspotManager from any number of HTTP
requests; the orchestrator calls `checkWANHealth`, `checkExpiredTickets`,
`checkActiveSessions` and `sessionChecker` from a timer that does not wait for
its own previous call. They share nothing but Redis and the kernel's tables,
and take no lock and use no transaction. `createTicketBatch` and the batch
pause/resume have no caller in the repository; they are public operations of the
class, so the model lets the environment call createTicketBatch (it is the only
way to get a *corrido* ticket).

What makes each part correct:

* tickets: nobody gets less than the time sold, an expired ticket stays expired,
  the ledger (`created_at`, `expires_at`, `total_paused_ms`) agrees with the sale
  whatever interleaves, a *corrido* ticket has one first login, a spent ticket
  is expired in the end;
* access: a paused ticket has no access, the device of a valid ticket keeps its
  binding, the answer of a login says what happened to the firewall;
* session checker: a device that stops answering is disconnected once, and its
  ticket is not charged;
* WAN: traffic is on a link that is up whenever one is; monitor: a failure that
  its command shows for good is reported;
* firewall: nothing is let through that is not permitted, from the first load on,
  whatever the process goes through, and what is permitted is let through (it is
  not); process: the router comes back after every
  crash and reboot, and leaves nothing behind when it is told to stop;
* XDP: every frame is counted once, a source keeps its link, a dead link is
  avoided while the other is alive.

The hazards behind these, with their lines, are in `PROJECT.json`.

## 2. Modules

| Module | Models |
|---|---|
| `TicketTime` | the arithmetic on timestamps that `hotspot.ts` spreads over four functions |
| `Hotspot` | HotspotManager and the routes that call it, as a state machine; all properties |
| `TicketLifecycle` | the abstract ticket: issue, hold, release, expire, the passing of time |
| `MCHotspot` | sets of entry points, the views and the symmetry of the runs |
| `HotspotProofs` | the inductive invariant and the theorems about Hotspot |
| `BindingProofs` | that bindings and open addresses are safe for any number of overlapping calls |
| `SerialProofs` | what holds as long as calls about one ticket (or one device) do not overlap |
| `Wan` | checkWANHealth, switchWAN, getWANStatus and the WAN half of updateMetrics |
| `WanProofs` | its type correctness, and when there is no failover |
| `Shaper` | applyShaper, its tc commands interleaved with those of other logins |
| `ShaperProofs` | its inductive invariant and theorems |
| `Monitor` | SystemMonitor's rounds over the shared list of logs |
| `MonitorProofs` | its type correctness, the bound of the list, and what a report can contain |
| `Firewall` | the verdict of all loaded base chains on a packet, as operators |
| `Router` | the process: start-up, signal, crash, restart, reboot; VLANs, XDP attachment, ruleset, PPPoE daemon and sessions |
| `RouterProofs` | the theorems about Firewall and Router |
| `Xdp` | the XDP program on several CPUs, with the maps of its copies |
| `Balancer` | the abstract balancer: a frame arrives, is given to a link, a link turns on or off |
| `XdpProofs` | the theorems about what it computes and what it counts |
| `MCKernel` | Shaper, Xdp and Router side by side for the run `kernel` |

Hotspot uses TicketTime and maps onto TicketLifecycle. Router uses Firewall. Xdp
maps onto Balancer. The
other modules share no state with one another (different keys, different kernel
objects), so each is checked on its own. Where two meet, the one that uses a part
has it as one step: Hotspot calls applyShaper in one step and sees the ruleset as
the set `active_clients`; Router sees the logins, pauses and expiries of Hotspot
as an address that enters or leaves that set.

### 2.1 How Hotspot corresponds to the code

*State.* One variable per Redis key family (`ticket`, `hotspotTickets`,
`batchTickets`, `shadow`, `session`, `macTicket`, `ticketIp`, `online`,
`metadata`), the nftables set (`activeClients`), the plan last given to the
shaper, the process (`up`, `crashes`), the clock, and one record per handler in
progress: `req[r]` for an HTTP call, `sweep[l]` for a `checkExpiredTickets`.
Two variables are history: `sold`, what each ticket was created with, and
`openedFor`, the ticket an address was last opened for (the set holds addresses
only, and several tickets may be used at one). A handler's record holds where it is, its arguments, and the hash it read (`snap`) as long as
the code still uses it.

*Steps.* JavaScript runs a handler without interruption up to its next `await`,
so an action is exactly one continuation: it uses what the handler has read,
reads the clock if the code calls `Date.now()` there, and issues one Redis or nft
command, whose effect is immediate. The two are one step because HotspotManager
uses a single Redis connection, which executes commands in the order they are
sent; nothing else can come between the code that decides and its command. (The
dashboard has a second connection of its own, used for `mac_to_ticket` and for
the first read of check-auto; the model lets those commands take effect at any
point, since every call may pause before any step.) Where the code issues no
command between two computations they are in one action. A few reads that could
not change anything in between are merged and say so in the module.

*Handlers.*

| Code | Actions |
|---|---|
| `createTicket` | CreateTicket, CreateIndex |
| `createTicketBatch` | CreateTicketBatch, then BatchTicket, BatchMember, BatchIndex for each ticket |
| check-auto route | CheckAuto, AutoTicket, AutoUnbind or AutoTime, AutoVerdict, then a login |
| `activateTicket`, corrido | ActStart, then ActClock or ActSpent |
| `activateTicket`, pausado | ActTtl, ActWrite, ActSession, ActShadow |
| `activateTicket`, both | ActMac, ActIp, ActGrant, ActOnline, ActMeta (ends in the ReferenceError), ActShape (no address) |
| `pauseTicket` | PauseTicket, PauseWrite, PauseRevoke |
| `resumeTicket` | ResumeTicket, ResumeWrite, ResumeGrant |
| `checkExpiredTickets` | SweepStart, then SweepRead, SweepTime, SweepSpare or SweepExpire, SweepRevoke, SweepUnshadow, SweepUnsession for each ticket |
| timer, kernel, systemd | Tick, ElementTimeout, Crash, Stop, Restart |

*Abstractions.* Names, plans and passwords are dropped. The rounding of `ttl()`
to seconds, the 24 h and 30 d expiry of `ticket_to_ip` and `mac_to_ticket`,
`hotspot_batches` and the hash of a batch are dropped (nothing reads them).
A field that the code leaves absent, `''` or `'null'` is 0. Ids drawn by
`Math.random` never collide. An nft command succeeds, or fails when
`NftFaults` (its callers catch the failure); tables and chains exist, and
`nftables.conf` is where `loadNftablesRules` looks for it (if it were not, the
restart would be the failing case of `NftFaults`). SIGINT is one step: calls
that outlive the table's deletion can only fail to change the set.

*Faulty variants.* The modules also define, next to an operator or
action, variants with a plausible bug (a forgotten field, a reset, a missing
guard). Nothing uses them; each shows that one property can fail, and
`PROJECT.json` pairs them.

### 2.2 Wan, Shaper and Monitor

All three have the same form as Hotspot: one record per callback or call in
progress, one action per continuation.

| Code | Actions |
|---|---|
| `checkWANHealth` | CheckStart, then Probe and Record for each link |
| `switchWAN` | FindGateway, ReplaceRoute |
| `updateMetrics`, `getWANStatus` | ReadFirst, ReadSecond, Publish |
| `applyShaper` | Begin (the rate of the plan), Del, Add, AddClass |
| `collectLogs` | Start, CollectEbpf/Nftables/Unbound/Tailscale, Push, Trim |
| `detectFailures` | FindEbpf/Nftables/Unbound/Tailscale, Report |
| `updateSystemHealth` | Score (the read), PublishHealth (the write) |

*Wan.* A link is absent, mute, fast or slow (over 100 ms); a latency is one of
the two words. `ip link show` and `ping` are one step, because whichever fails,
the same catch block is reached, and the step can be taken at either moment.
Whether ping prints decimals of times over 100 ms is chosen at the start
(iputils prints whole milliseconds from 100 ms on, busybox always three
decimals); so is whether eth2 has a default route of its own and whether its
gateway is the one in the code. The kernel drops the main route with its
interface; DHCP or an administrator may set it again.

*Shaper.* As applyShaper is called for `eth0.10` only, there is one root and one
class. Only logins without an address get there today (see `login_reply`).
`broken` and `asked` are history variables.
That the interface is limited means that its class is there: the htb is added
without a default class and no filter sends anything to the class, so what the kernel
does with the traffic is another question, which no property is about.

*Monitor.* The table `Says` gives the entry each command leaves, for each condition
of its component; Break and Repair change the condition.

| Component | Condition | Entry | Reported | Counts as healthy |
|---|---|---|---|---|
| ebpf | up, or unloaded: bpftool prints "xdp:" either way | xdp | no | no |
| | mute: bpftool fails | error | no | no |
| nftables | up (also without table management) | tables | no | yes |
| | partial: hotspot or pppoe missing | missing | yes | yes |
| | none: no table | empty | yes | no |
| | mute: nft fails | error | no | no |
| unbound | up | running | no | yes |
| | down: systemctl and pgrep fail | error | no | no |
| tailscale | up | running | no | yes |
| | worded: up, with "not" or "stopped" in its status | stopped | yes | no |
| | down: tailscale fails | error | no | no |

Of the seven components of a log three are left out: accel_ppp is probed as unbound
is; network has an entry that nobody reads and that counts as that of ebpf does; and
redis answers whenever there is a log to store (when it is down the round ends in an
exception and nothing is stored). Left out besides: the logs' lapse after 24 h (a list
of 100 covers 50 minutes), and of `failures:*` all but the newest.

### 2.3 Router, Firewall and Xdp

| Code | Actions |
|---|---|
| `initialize`: `initVLANs` | AddVlan, VlanUp, VlanAddress for each VLAN |
| `setupNAT`, `loadEBPF`, `loadNftablesRules` | EnableForwarding; AttachFirst, AttachSecond; LoadRules |
| `PPPoEManager.start`, `HotspotManager.start`, `DashboardServer.start` | StartAccel, StartPortal, StartDashboard |
| SIGINT handler | Signal, StopHotspot, StopPppoe, Exit |
| systemd, kernel | Start, ProcessDies, Reboot |
| `/api/pppoe/create` -> `createSession` | CreateSession, IndexSession |
| `nft add/delete element`, timeouts | Admit, Revoke (clients), Connect, Disconnect (customers) |
| `router_kern.c` | Receive (bounds checks, protocol, hash), Lookup (status, fallback), Count |
| `loadXDP`, `unloadXDP`, a writer of `wan_status` | Load, Unload, SetStatus |

*Firewall.* A chain is the condition under which it accepts; a packet passes a
hook when every loaded base chain of that hook accepts it, since an accept ends
only its own chain. A packet is what the rules ask about: interfaces, source,
service, connection state. What the chains do is in Firewall; what the comments over
the rules and the documents say they should do is in Router, in `MayPass` (forward)
and `MayEnter` (input), with the lines.

*Router.* The signal handler runs beside `initialize`, one command of either at a
time. A command fails where the state makes it fail (the link exists, a program
is attached, the table is missing) or where a file is missing; `files` is any
subset of those the code names, so a machine without a compiled program or
without accel-pppd is covered. `whole` and `loaded` are history variables.
`RouterNext` contains the whole life of a machine: the process dies at any
command, the kernel keeps what was done, a reboot keeps Redis only.

*Xdp.* Frames are their length, the two bytes of `h_proto` and the source
address; multi-byte fields are read in the byte order of the machine
(`LittleEndian`), which is where the hash differs between machines. A run touches
shared memory twice, so it takes three steps, between which others run, links
change and the program is detached. `seen` and `pick` are history variables.

## 3. Runs

| Run | Instance | Question |
|---|---|---|
| `serial` | 1 ticket of 2 units, 1 device, 1 address, 1 call at a time, 1 sweep, clock to 3, 1 crash | all entry points interleaved with the expiry loop and crashes |
| `races` | 1 ticket of 1 unit, 2 calls, 2 sweeps, clock to 4, no address | overlapping pauses, resumes and expiry loops on one ticket |
| `expiry` | 1 ticket of 1 unit, 1 address, 1 call, 1 sweep, clock to 2, nft may fail, 1 crash, fairness | a spent ticket is expired in the end |
| `login_reply`, `pause_credit`, `corrido_clock`, `moved_address`, `forwarding` | the smallest that shows the case | what the code does that a document, comment or message denies |
| `wan` | 2 checks, 2 changes of links or routes, fairness | status, metrics and route against the links |
| `failover` | 1 check, 1 change | does a dead primary link lose the traffic, as the documents say |
| `monitor` | 2 rounds, lists of 2, 1 failure and its repair, 1 crash, fairness | what overlapping rounds report and score |
| `kernel`, part tc | 3 logins, 2 rates, failing commands, crashes | what overlapping calls of applyShaper leave behind |
| `kernel`, part xdp | 2 CPUs, 1 interface, 2 loads, 2 frames for each copy, 2 sources, little-endian | what overlapping runs count and decide |
| `kernel`, part router | 3 addresses, 1 session, any files, 1 crash or signal, 1 reboot, fairness | what the process leaves in the kernel and whether it comes back |

### 3.1 What the passing runs show

`serial` (`AccessView`, deadlock checked):

* `TypeOK`: the shape of the keys, the calls and the sweeps.
* `PausedHasNoAccess`: when no call is about a paused ticket, the address it is
  recorded at is not open on its behalf, also after a crash between the two
  writes of `pauseTicket`. (It may be open for another ticket: two devices behind
  one address, or an address that DHCP gave to the next client. A statement
  about the address alone is false with two tickets; with the one of this run
  nothing shows it, the attempt to prove it did.)
* `BoundTicketStarted`: a device is never bound to a *corrido* ticket whose clock
  has not started (proved for any number of overlapping calls).
* `OpenTicketStarted`: every address that is open was last opened for a ticket that
  was issued and, if *corrido*, has its start, so that its time will run out;
  also where the hash was made by pausing an id nobody was given (proved for any
  number of overlapping calls, with failing commands).
* `AllowanceNeverShrinks`, `BalanceNeverGrowsInUse`, `FirstLoginFixesStart`,
  `BindingKept`: what a step may never do to a ticket or a binding.
* `LifecycleSpec`: the service implements the abstract ticket.

`races` (`LedgerView`, symmetry): `LedgerBalanced`, `PauseWithinElapsed` and
`SnapshotsSound` hold although handlers write from stale reads, and the abstract
ticket is still implemented.

`expiry`: `IndexedSpentExpires`.

`wan`: `StatusSettles` and `MetricsSettle` (a link that stays as it is shows in
`wan:*` and `metrics:wan` in the end, whatever old pings and reads overlapping
callbacks still have to write) and `SlowPrimaryLeft` (traffic leaves a primary
link that stays slow). The last needs a ping that prints decimals and a gateway
that can be known; without either the code never switches.

`kernel`, tc: `LimitSurvivesOverlap`. The callers delete each other's qdisc and
give up, and a limit is left all the same, though not always that of the last
login.

`kernel`, xdp: `EveryFrameCounted` (no frame is lost or counted twice, although
CPUs overlap and the program is replaced under a run), `OnlyOwnLinkMoves` (a
source changes its link only when its own link changes: the fallback looks at no
other), `AvoidsDeadLink` and `BalancerSpec` (the steps of overlapping runs add up to
frames balanced one at a time: each run has one instant at which it chose, and the
link that was right at that instant gets the count, although the link may have
changed by the time the counter does). Nothing in the repository writes `wan_status`, so as
it is deployed both links read as down for ever and every source is counted at
the other link's index; the properties hold for that as for any writer.

`kernel`, router: `OnlyPermittedForwarded` and `OnlyPermittedDelivered`: from the
first load of the ruleset to the next reboot no packet is forwarded or delivered that
`MayPass` or `MayEnter` does not name: clients, customers and VLANs stay apart, from
the WAN only answers come in, VLAN 99 is for its whitelist, and a new ssh connection
only from there; also while the process starts over, is killed, or has deleted table
hotspot on its way out. (It is the drop policies of the other tables that keep this
up.) This is one half of what the ruleset is for. The other half, that what they name
gets through, does not hold: it is the run `forwarding` (3.2), and as long as
both tables hotspot and pppoe are loaded the first half holds of the forward hook
because nothing passes it.
`StopLeavesNothing` needs a signal that finds the process operative: one during
start-up can delete the table before LoadRules loads it again.
`IndexedSessionExists`: a session is never listed without its hash.
`RouterComesBack`: whatever a crash left half done, the next start gets through.
In `RouterTypeOK`: no address is in a set whose table is gone, and no program is
ever on eth2 alone.

`monitor`: `LastingFailureReported` (what its command shows at fault for good is in
the newest report for good), `NoFalseAlarm` (what its command never shows at fault is
in no report), `ScoreRecovers`, and in `TypeOK` the bound of the list. The first two
are about what the commands show, which is not always how things are, in two ways.
Much is never shown: an XDP program that is not loaded, a daemon that is down (an
error, and no `running` field for `detectFailures` to find false), nft failing
altogether; `FailuresUnseen` proves that no report names ebpf or unbound. And a
tailscale that runs is shown as stopped while its status has the word "not" in it:
`LastingFailureReported` says that it is then reported for good. The score that
`ScoreRecovers` ends in is three of four, since the entry of ebpf has neither
`running` nor `active`; in the code, with that of network, five of seven.

Five properties of `serial` are promises to a user who makes one call at a time
about a ticket (or a device) and do **not** survive overlapping ones; the run has
one request slot for that reason. With two slots and one ticket TLC finds that
overlapping pauses and resumes can shrink `expires_at` (`AllowanceNeverShrinks`)
or credit a pause to a ticket in use (`BalanceNeverGrowsInUse`), that a login in
progress can open the address a pause has just closed (`PausedHasNoAccess`, which
a failing nft command also breaks), that check-auto can delete a binding which a
login has meanwhile pointed at a valid ticket (`BindingKept`; `dashboard.ts:140`),
and the race of `corrido_clock`. The condition they need is exactly that, and not
that the whole router serves one call at a time: `SerialProofs` proves them for
any number of calls in progress that are about different tickets
(`ApartTickets`; for `BindingKept`, different devices: `ApartDevices`). The ledger
properties of `races` hold regardless, and are proved for any number of calls.

### 3.2 What the violations show

* `forwarding`: what the comments permit does not get through. Tables hotspot and
  pppoe each have a forward chain with policy drop on the same hook. What the rule
  for active clients accepts, the chain of pppoe drops; the answers ("Permitir
  conexiones establecidas", step 10 of `docs/ARCHITECTURE.md`) and the whitelisted
  of VLAN 99 are dropped by both. With the ruleset as it is no packet is
  forwarded at all (`NothingForwarded` proves it for any sets), and only after a stop
  has deleted table hotspot are the packets of listed PPPoE addresses
  (`CustomersForwarded`), but not the answers to them. On the input hook table filter
  accepts DNS, DHCP and established connections, and the policy of table management
  drops them unless they come from its whitelist (`OnlyManagementReached`); so the
  portal, to which step 2 of the document sends a new client, cannot be reached
  either, nor does `nslookup google.com 192.168.10.1` "resolve"
  (`docs/network/TROUBLESHOOTING.md:101`).
* `login_reply`: `activateTicket` names `remainingMs` (line 270) outside the two
  blocks that declare it. Every login with an address has opened the firewall by
  then and is answered as a failure; the shaper is never reached.
* `pause_credit`: `resumeTicket` adds the pause to `total_paused_ms` and to
  `expires_at`; `getTicketTimeUsed` counts both in favour of the ticket. An hour
  of pause is an hour of free time, for every ticket and every pause (`PauseGiven`
proves it). (So the lifetime that `LedgerBalanced` fixes
  is what the code computes, not what the plan document promises.)
* `corrido_clock`: two overlapping first logins both find `start_time` empty; the
  later write moves the start of a ticket that "runs always since the first
  connection".
* `moved_address`: a second login at another address overwrites `ip` without
  removing the first from `active_clients`; a pause then removes only the
  second.
* `failover`: a primary link that stops answering is recorded as offline by the
  catch block, which calls nothing else; the default route stays on it for ever.
  (`NoFailover` proves how general this is: the code touches the route only after an
  answer of eth1 that is slow and that the pattern can read.)

The monitor has two more, which 3.1 describes and a theorem or a property states as
they are: failures it never sees (`FailuresUnseen`) and a tailscale it reports though
it runs.

Two further weak spots have a property in their module and no run of their own.
`Hotspot.SpentExpires` is `IndexedSpentExpires` without the index: TLC violates it
by a crash between `hSet` and `sAdd` of `createTicket`, which leaves a ticket that
can be used and that no expiry loop ever sees. `Router.OperativeHasVlans` is what
the message "VLANs 10, 20, 99 configuradas" says: TLC violates it by a crash
between `ip link add` and `ip addr add`; the next start finds that the interface
exists and skips the rest, so the VLAN has no address until the machine reboots.
Likewise a crash between the two XDP commands keeps the program from eth2: the
first fails from then on, and both are in one `try`.

### 3.3 Bounds, views and symmetry

Tickets do not interact except through a device's binding and an address, so one
ticket exercises every path of a handler; what a second ticket at the same address
or device adds is covered by the theorems of `SerialProofs`. Two calls and two sweeps are the smallest number that can be stale
with respect to one another; a third adds no new pair of a reader and a writer.
The clock needs the sold time to run out at least once plus a pause before
it (`serial`: 2 + 1), and room for two nested pauses in `races` (1 + 3).
One crash suffices because the only state that outlives a crash is Redis and the
kernel, whose contents a second crash would find in a state the first could find.

`LedgerView` leaves out keys that no action reads (`session`, `ticketIp`,
`online`, `metadata`, `shaper`, `batchTickets`, and `activeClients` and `openedFor`, which
`AccessView` puts back) and the reply of a finished call. No guard and no primed
viewed variable depends on them, and the properties of those runs read only
viewed variables, so two states with one view have the same viewed futures; only
`TypeOK` mentions the others, and it is proved. `races` uses symmetry of the
slots for calls and sweeps, with safety properties only. `expiry` uses neither,
nor do the runs of the other modules.

`wan`: two changes are enough for a link to fail and a route to be set back by
hand while a check that saw an earlier state is held up. `monitor`: one
failure, of any component or its command, and its repair, and lists just long enough for trimming and for a score of several logs; one crash
between a push and its trim. (Two failures at a time would take the run past a
million states; what it would add for `NoFalseAlarm` and `TypeOK` is proved.)

`kernel`: the parts share no variable, so only one of them moves in a behaviour
(`part`), and the run is the sum of three, not their product. tc: with three calls
one can delete what a second has added while a third fails on it. xdp: two CPUs
can be in the same copy or in an old and a new one; the two sources hash to
different links; the lengths are on either side of both bounds checks, and the
types include IPv4 with its bytes swapped. router: one crash or signal at any
command, and one reboot, leave every half-done state there is for the next start;
addresses are one client, one customer, one administrator. The theorems of
section 4 cover the rest: any number of calls, CPUs, copies, frames, addresses and
sessions, and both byte orders. Two assumptions of MCKernel compare the parities
that Xdp takes for the hash, and its 16-bit swap, with the bit operations of the
code on sample values.

### 3.4 Fairness

`Fairness` is weak fairness of the continuations of each call and sweep (Redis
answers, Bun resumes an awaited handler), of `SweepStart` (the interval keeps
firing while the process is up; `checkExpiredTickets` catches its own
exceptions) and of `Restart` (`Restart=always`). No fairness is assumed of the
API's users, of the clock or of crashes. `IndexedSpentExpires` is stated so that a
resume or a first login, which give a ticket time again, discharge it.
In Router it is that of the restart and of the commands of `initialize` and of the
signal handler, each of which ends; crashes, signals and reboots are bounded, and
no call of the API is owed to anyone. In `Wan` and `Monitor` fairness is that of the same two intervals and of the
continuations of each callback (`ping -W 1` gives up after a second); the links,
the system and crashes owe nothing. The 5 s loop calls `checkWANHealth` first and shares one `try` with it; the
assumption includes that this call returns, which it does: it catches its errors.

## 4. Proofs

`HotspotProofs` proves, for every value of the constants:

| Theorem | Statement |
|---|---|
| `TypeCorrect` | `Spec => []TypeOK` |
| `LedgerSafe` | `Spec => []LedgerBalanced` |
| `PauseCreditSafe` | `Spec => []PauseWithinElapsed` |
| `SnapshotSafe` | `Spec => []SnapshotsSound` |
| `Refinement` | `Spec => LifecycleSpec` |

Assumptions: the null values are not values, durations are positive
(`DurationsAssumption`), and the typing of the other constants.

*The invariant.* `LedgerBalanced` alone is not inductive: `resumeTicket` writes
`s.expires + (now - s.pausedAt)` and `s.totalPaused + (now - s.pausedAt)` from a
hash `s` it read earlier, so one has to know that `s` was balanced too, that it
was read from the same ticket, and that its pause had begun by now. `IInv`
therefore says of every hash still held what it says of the tickets themselves:
`SoundAt` (balanced, created when the ticket was, pauses that fit into the time
gone by, a start between creation and now). `SoundAt` mentions only the clock,
which grows, and two values fixed at issue, so what a handler holds stays sound
whatever the others do (`CallLater`, `LoopLater`): a step needs to be examined
only for the handler that takes it. The remaining conjuncts say what each
program point relies on (a ticket is named, an address is given, a hash is held)
and that the ids a batch will still draw are nobody else's.

*The argument.* `CallStep` and `LoopStep` are what a step of one handler
establishes for itself, one lemma per group of actions (those that write no
hash, those that write one, those that issue a ticket); `CallFrame` and
`LoopFrame` extend it to all handlers, `Assemble` gathers `IInv'`, `NextIInv`
covers `Next`.

*Refinement.* An expiry may be decided on a stale hash `s` and an older clock. It
maps to `Expire` because a sound `s` satisfies
`Lifetime(s) = sold + s.totalPaused` and its running time is at most
`now - created`, so `s` looking exhausted implies `now >= created + sold`, which
no later step can undo. A login of a corrido ticket that has no start is
measured as 0, so it cannot expire at once. Everything else maps to one
abstract step or a stutter.

`BindingProofs` proves `BindingSafe` (`Spec => []BoundTicketStarted`) for any number
of overlapping calls, where `serial` checks it for one. A login binds the device
some awaits after it read the ticket, so the invariant follows it there
(`LoginOK`): a corrido login writes `start_time` unless its hash had one, and then
the ticket still has one, since no step ever clears a start (`Kept`); a pausado
login is about a ticket that stays pausado. It uses the invariant of
HotspotProofs for the rest. `AccessSold` (`Spec => []OpenTicketStarted`) adds
`GrantOK`, that a call about to open an address is about a started ticket, and
`AddressesOK`, that every ticket with an address is started. The second is what a
resume needs, since it opens the address its hash had without looking at anything
else: only a login ever writes one there, after `start_time`. A pause of an unknown
id makes a hash without one.

`SerialProofs` proves the other five properties of `serial`, for any number of
tickets, devices, calls, sweeps and crashes, from a condition on the behaviour
that stands next to `Spec`:

| Theorem | Statement |
|---|---|
| `CallsApart` | `Spec /\ []ApartTickets => []SInv` |
| `AllowanceKept` | `Spec /\ []ApartTickets => AllowanceNeverShrinks` |
| `BalanceSpent` | `Spec /\ []ApartTickets => BalanceNeverGrowsInUse` |
| `StartFixed` | `Spec /\ []ApartTickets => FirstLoginFixesStart` |
| `PausedBlocked` | the same `=> []PausedHasNoAccess`, if nft commands succeed (`~ NftFaults`) |
| `BindingsApart` | `Spec /\ []ApartDevices => BindingKept` |
| `PauseGiven` | `Spec /\ []ApartTickets => ResumeGivesPause` |

The condition is one on the callers, which the code does not enforce: it takes no
lock. `serial` is the instance of it with one slot. Expiry loops are not restricted, and
neither are crashes. What has to be carried along is that what a call holds is
*current*, where `IInv` says only that it is sound: between a call's read and its
write only a sweep can touch its ticket, and a sweep writes nothing but the status
(`SweepWrites`, `CallTouchesOne`). So `Current` lists, per program point, the
fields the rest of the call uses: the pause and `expires_at` for a resume, the start
for a login, "not paused" from the test of a login to its grant, the address for
a pause. A login that found the ticket unpaused at the test would open a paused
one if this were not kept; with `ApartTickets` it is. `PausedBlocked` adds
`AccessClosing`: a paused ticket with access has a call at the point where it
removes the address; a crash loses that call, but the process is then down and its
restart empties the set. `BindingsApart` follows the clean-up of check-auto: the
binding and the expired status it decided on are still there, the first because
only calls about the device write it, the second because an expired ticket stays
expired (`ExpiredStays`, with ids that are never issued twice). `BlankUntilIssued`
covers the hash that pausing an unknown id creates. `ResumeGivesPause`, which no run
checks, puts a number on the violation of `pause_credit`: the balance after a resume
is the balance before it plus the pause. It needs that the call holds the pause the
ticket is in (`Current`) and that every pause has a beginning (`HeldSince`).

`ShaperProofs` proves `TypeCorrect` and `LimitSafe` (`Spec =>
[]LimitSurvivesOverlap`) for any set of overlapping calls and rates. The property
is strengthened to `SomebodyCompletes`: as long as the limit is missing (and no
command failed of its own), a call is at the command that puts the missing part
back. A deletion leaves its own caller at `add`; whoever adds the root is next at
`class`; a call that gives up found the part it wanted to add, or, losing its
root, left it to the one that deleted it.

`RouterProofs` proves the safety properties of Router for any addresses, whitelist,
sessions and bounds, and the three facts about the ruleset named in 3.2
(`NothingForwarded`, `CustomersForwarded`, `OnlyManagementReached`). The first
two properties follow from `Guarded`: once the ruleset has been loaded the tables
pppoe, management and filter are there, since only table hotspot is ever deleted
and a load is one transaction. `Orderly` says what a stop has removed so far and
that no start-up runs beside it once `whole` is set; `HashFirst` that a session
about to be listed has its hash; `FirstAttached` that AttachSecond follows a
success.

`XdpProofs` proves, of the program's arithmetic for every frame and both byte
orders, `EtherTypeTest` (the test accepts the bytes 08 00 and no others),
`HashIsParity` and `SubnetSharesWan` (on a little-endian machine only the first and
third octet of the address count, so a whole /24 shares one link), and, for any
number of CPUs, copies and frames, `FramesCounted`, `Sticky`, `DeadLinkAvoided` and
the types. `EveryFrameCounted` is inductive with the types. `Sticky` needs
`PicksCurrent` (a recorded decision is the one the source's link, as it is now,
calls for) and `RunsAtHome` (a run still asks about the link its source hashes to).
`Refinement` (`XdpSpec => BalancerSpec`) maps the frames that wait for a link to the
runs at the lookup, and the frames given to a link to its counter plus the runs
that are about to count there. Receive maps to Arrive, SetStatus to Turn, Lookup to
Balance; Count moves a frame from the runs to the counter and is a stutter, as are
Load and Unload. `RunsAtHome` is what makes the lookup's choice the abstract one.

`WanProofs` and `MonitorProofs` prove type correctness. Wan needs `Measures`: a check
that goes on to record has measured something. Monitor needs the exact bound of
the list (`Bounded`): what lTrim keeps, one log for each round at its lTrim, and
one for each round at that point in each crash. Besides:

* `NoFailover`: `Spec /\ [](~ SlowHeard) => RouteLeftAlone`, where `SlowHeard` says
  that eth1 is slow and ping prints decimals. Its invariant `NoSwitch` follows a
  check from the ping to the command: none is at switchWAN, or about to record a
  slow eth1. With iputils `SlowHeard` is false for ever, so nothing is ever switched.
* `NothingInvented` (`Spec => NoFalseAlarm`) and `FailuresUnseen`
  (`Spec => [](report \subseteq {"nftables", "tailscale"})`), both from
  `Unblamed(k)`: no log, no round and no report holds anything against `k`. A step
  keeps this as long as the command for `k` shows no failure (`Inconspicuous`), which
  is assumed by `NoFalseAlarm` and follows for ebpf and unbound from the table `Says`.

*Only model-checked:* everything that is liveness, which is beyond the prover
(`IndexedSpentExpires`, `StatusSettles`, `MetricsSettle`, `SlowPrimaryLeft`,
`LastingFailureReported`, `ScoreRecovers`, `RouterComesBack`), and what the
violating runs show. Every invariant and every action property of a passing run is
stated by a theorem. The comparison of the hash with the bit operations is made on
samples, since the modules of bit operations are recursive.

## 5. Not modelled

* *Session checker* (`sessionChecker`, `disconnectClient`). It never acts:
  `sessionChecker` looks up `metadata:{name}` for the names in `hs:online`, which
  are ticket ids; `activateTicket` writes `metadata:{ip}`, and without a field `ip`
  in it. An action that can never be taken shows nothing.
* *DNS and Tailscale managers*: they start and stop a daemon each, in the form of
  accel-ppp's in Router, and keep no state.
* *Captive portal and HTML pages*: Hotspot lets the browser make its calls in any
  order and any number of times.
* *`router_kern_minimal.c`, `bpf_maps.h`, the class BPFLoader*: the first two are
  built into nothing, the third has no caller; its load and unload are actions of
  Xdp. `vmlinux.h` is 166,925 lines of generated kernel declarations, of which the
  program uses `ethhdr`, `iphdr` and `xdp_md`; those are modelled.
* *PPPoEManager.disconnectSession*: it has no caller, hands nft a session id for an
  address, and catches the refusal before it writes anything. The other methods
  read.
* *Build, deployment and test scripts, logging, the Redis connection.*
* *Access for as long as a ticket has time left.* Elements of `active_clients`
  lapse after 1 h and nothing adds them again; the lapse is an action of Hotspot,
  and a property that denies it would say the opposite of the ruleset.

Observations made on the way that no property is about: `HotspotManager.start` asks for a redirect in
a chain of type filter, where nft refuses it; PPPoE sessions come in on `ppp0` and
the like, not on `eth0.20` as the rules expect; the XDP program is attached to eth1
and eth2 and so sees sources from the internet, where the document has it on eth0;
each copy has maps of its own, so a status written for one says nothing to the
other; `smartrouter.service` starts the program in one directory and the code
loads its configuration from another.
