------------------------------- MODULE Hotspot -------------------------------
(***************************************************************************)
(* HotspotManager (src/hotspot.ts) and the dashboard handlers that call it *)
(* (src/dashboard.ts): prepaid tickets kept in Redis, the nftables set     *)
(* active_clients that lets an address through, and the expiry loop.       *)
(*                                                                         *)
(* Grain of atomicity.  The program is one JavaScript thread whose         *)
(* handlers interleave at every await.  An action is one continuation: the *)
(* code from one await to the next, including the Redis command or the nft *)
(* process it issues.  A command takes effect in the order of issue, since *)
(* HotspotManager sends all of its commands over one connection.  What a   *)
(* handler read stays in req[r].snap (sweep[l].snap) until it is last      *)
(* used, however stale it has become; Date.now() is the clock of the       *)
(* continuation that calls it.                                             *)
(*                                                                         *)
(* Abstracted: user, plan, password and mac fields of a ticket, that no    *)
(* control depends on; activated_at and last_seen, never read; the hash of *)
(* a batch and hotspot_batches, never read; rounding of ttl() to seconds;  *)
(* the 24 h and 30 d expiry of ticket_to_ip and mac_to_ticket; the contents *)
(* of metadata:{ip} other than its username.                               *)
(***************************************************************************)
EXTENDS TicketTime, FiniteSets

CONSTANTS
  Ticket, NoTicket,    \* ticket ids, and none
  Mac, NoMac,          \* MAC addresses, and ''
  Ip, NoIp,            \* IPv4 addresses, and ''
  Request,             \* slots for HTTP calls in progress
  Sweep,               \* slots for overlapping checkExpiredTickets calls
  Durations,           \* lifetimes a ticket is sold for
  BatchSize,           \* count of createTicketBatch
  Operation,           \* the entry points the environment calls
  NftFaults,           \* may an nft command fail?
  MaxTime,             \* bound on the clock
  MaxCrash             \* bound on the crashes

ASSUME NullAssumption ==
  NoTicket \notin Ticket /\ NoMac \notin Mac /\ NoIp \notin Ip
ASSUME DurationsAssumption == Durations \subseteq Nat \ {0}
ASSUME BatchAssumption == BatchSize \in Nat \ {0}
ASSUME FaultAssumption == NftFaults \in BOOLEAN
ASSUME BoundsAssumption == MaxTime \in Nat /\ MaxCrash \in Nat

VARIABLES
  now,             \* the clock
  up, crashes,     \* is the process running; crashes so far
  ticket,          \* ticket:{id}
  sold,            \* history: the lifetime each ticket was created with
  hotspotTickets,  \* hotspot_tickets, the index the expiry loop scans
  batchTickets,    \* ticket:batch:{id}:tickets, over all batches
  shadow,          \* shadow:{id}: the instant it lapses, 0 if absent
  session,         \* ex:session:{ip}: the ticket it names
  macTicket,       \* mac_to_ticket:{mac}
  ticketIp,        \* ticket_to_ip:{id}
  online,          \* hs:online
  metadata,        \* metadata:{ip}.username
  activeClients,   \* the nftables set inet hotspot active_clients
  openedFor,       \* history: the ticket each address was last opened for
  shaper,          \* the ticket whose plan eth0.10 was last shaped for
  req,             \* the HTTP calls in progress
  sweep            \* the checkExpiredTickets calls in progress

clock   == <<now, up, crashes>>
records == <<ticket, sold>>
index   == <<hotspotTickets, batchTickets>>
keys    == <<shadow, session, macTicket, ticketIp, online, metadata>>
kernel  == <<activeClients, openedFor, shaper>>
vars    == <<clock, records, index, keys, kernel, req, sweep>>

-----------------------------------------------------------------------------
(* Records                                                                 *)

Profile == {"pausado", "corrido"}

Record ==
  [status : {"none", "active", "expired"}, profile : Profile,
   ip : Ip \cup {NoIp}, created : Nat, expires : Nat, start : Nat,
   paused : BOOLEAN, pausedAt : Nat, totalPaused : Nat, remaining : Nat]

(* hGetAll of a key that does not exist: {}, which is truthy               *)
Blank ==
  [status |-> "none", profile |-> "pausado", ip |-> NoIp, created |-> 0,
   expires |-> 0, start |-> 0, paused |-> FALSE, pausedAt |-> 0,
   totalPaused |-> 0, remaining |-> 0]

NewTicket(profile, at, d, remaining) ==
  [Blank EXCEPT !.status = "active", !.profile = profile, !.created = at,
                !.expires = at + d, !.remaining = remaining]

(* Where a call is: the command it issues next.                            *)
Answered == {"free", "ok", "failed"}
ActivateStep ==
  {"act_start", "act_clock", "act_ttl", "act_write", "act_session",
   "act_shadow", "act_mac", "act_ip", "act_grant", "act_online", "act_meta",
   "act_shape"}
RequestStep ==
  Answered \cup ActivateStep \cup
  {"create_index", "batch_ticket", "batch_member", "batch_index",
   "auto_ticket", "auto_unbind", "auto_time", "auto_verdict",
   "pause_write", "pause_revoke", "resume_write", "resume_grant"}
SweepStep ==
  {"idle", "read", "time", "verdict", "revoke", "unshadow", "unsession"}

Call ==
  [pc : RequestStep, id : Ticket \cup {NoTicket}, mac : Mac \cup {NoMac},
   ip : Ip \cup {NoIp}, at : Nat, snap : Record, batch : SUBSET Ticket]
Loop ==
  [pc : SweepStep, at : Nat, todo : SUBSET Ticket,
   id : Ticket \cup {NoTicket}, ip : Ip \cup {NoIp}, snap : Record]

IdleCall ==
  [pc |-> "free", id |-> NoTicket, mac |-> NoMac, ip |-> NoIp, at |-> 0,
   snap |-> Blank, batch |-> {}]
IdleLoop ==
  [pc |-> "idle", at |-> 0, todo |-> {}, id |-> NoTicket, ip |-> NoIp,
   snap |-> Blank]

Running(t) == t.status = "active" /\ ~ t.paused

(* A ticket that was issued and whose clock runs                           *)
Started(t) == t.status # "none" /\ (t.profile = "corrido" => t.start # 0)

Issued(id) == ticket[id].status # "none"

Phase(id) ==
  CASE ticket[id].status = "none"    -> "none"
    [] ticket[id].status = "expired" -> "expired"
    [] ticket[id].status = "active" /\ ticket[id].paused   -> "held"
    [] ticket[id].status = "active" /\ ~ ticket[id].paused -> "running"

(* Ids are random and never come up twice; batch holds those a call of     *)
(* createTicketBatch will draw.                                            *)
Fresh(id) == ~ Issued(id) /\ \A r \in Request : id \notin req[r].batch

Begin(r, op) == up /\ op \in Operation /\ req[r].pc \in Answered
At(r, step) == req[r].pc = step
Answer(r, reply) == req' = [req EXCEPT ![r] = [IdleCall EXCEPT !.pc = reply]]

(* An nft command changes the set, or fails; every caller catches that.    *)
Nft(result) == {result} \cup (IF NftFaults THEN {activeClients} ELSE {})

-----------------------------------------------------------------------------
Init ==
  /\ now = 1 /\ up = TRUE /\ crashes = 0
  /\ ticket = [id \in Ticket |-> Blank]
  /\ sold = [id \in Ticket |-> 0]
  /\ hotspotTickets = {} /\ batchTickets = {}
  /\ shadow = [id \in Ticket |-> 0]
  /\ session = [ip \in Ip \cup {NoIp} |-> NoTicket]
  /\ macTicket = [m \in Mac |-> NoTicket]
  /\ ticketIp = [id \in Ticket |-> NoIp]
  /\ online = {}
  /\ metadata = [ip \in Ip |-> NoTicket]
  /\ activeClients = {} /\ openedFor = [ip \in Ip |-> NoTicket]
  /\ shaper = NoTicket
  /\ req = [r \in Request |-> IdleCall]
  /\ sweep = [l \in Sweep |-> IdleLoop]

-----------------------------------------------------------------------------
(* Creating tickets                                                        *)

(* POST /api/hotspot/create -> createTicket.  No profile, start_time or    *)
(* remaining_ms is written, so the ticket is pausado.                      *)
CreateTicket(r) ==
  /\ Begin(r, "create")
  /\ \E id \in Ticket, d \in Durations :
        /\ Fresh(id)
        /\ ticket' = [ticket EXCEPT ![id] = NewTicket("pausado", now, d, 0)]
        /\ sold' = [sold EXCEPT ![id] = d]
        /\ req' = [req EXCEPT ![r] =
                     [IdleCall EXCEPT !.pc = "create_index", !.id = id]]
  /\ UNCHANGED <<clock, index, keys, kernel, sweep>>

CreateIndex(r) ==
  /\ At(r, "create_index")
  /\ hotspotTickets' = hotspotTickets \cup {req[r].id}
  /\ Answer(r, "ok")
  /\ UNCHANGED <<clock, records, batchTickets, keys, kernel, sweep>>

(* createTicketBatch: the clock is read once for the whole batch; the      *)
(* ticket every member starts as is kept in snap.                          *)
CreateTicketBatch(r) ==
  /\ Begin(r, "batch")
  /\ \E p \in Profile, d \in Durations, ids \in SUBSET Ticket :
        /\ Cardinality(ids) = BatchSize /\ \A id \in ids : Fresh(id)
        /\ req' = [req EXCEPT ![r] =
                     [IdleCall EXCEPT !.pc = "batch_ticket", !.batch = ids,
                                      !.snap = NewTicket(p, now, d, d)]]
  /\ UNCHANGED <<clock, records, index, keys, kernel, sweep>>

BatchTicket(r) ==
  /\ At(r, "batch_ticket")
  /\ \E id \in req[r].batch :
        /\ ticket' = [ticket EXCEPT ![id] = req[r].snap]
        /\ sold' = [sold EXCEPT ![id] = Lifetime(req[r].snap)]
        /\ req' = [req EXCEPT ![r].pc = "batch_member", ![r].id = id,
                              ![r].batch = @ \ {id}]
  /\ UNCHANGED <<clock, index, keys, kernel, sweep>>

BatchMember(r) ==
  /\ At(r, "batch_member")
  /\ batchTickets' = batchTickets \cup {req[r].id}
  /\ req' = [req EXCEPT ![r].pc = "batch_index"]
  /\ UNCHANGED <<clock, records, hotspotTickets, keys, kernel, sweep>>

BatchIndex(r) ==
  /\ At(r, "batch_index")
  /\ hotspotTickets' = hotspotTickets \cup {req[r].id}
  /\ IF req[r].batch # {}
     THEN req' = [req EXCEPT ![r].pc = "batch_ticket", ![r].id = NoTicket]
     ELSE Answer(r, "ok")
  /\ UNCHANGED <<clock, records, batchTickets, keys, kernel, sweep>>

-----------------------------------------------------------------------------
(* Logging in: POST /api/hotspot/activate, and POST /api/hotspot/check-auto *)
(* for a device that has logged in before                                  *)

(* Faulty variant: {} taken for a ticket, as pauseTicket does              *)
ReadForLoginUnknown(r, id, mac, ip) ==
  LET t == ticket[id]
      first == IF t.profile = "corrido" THEN "act_start" ELSE "act_ttl"
  IN  IF t.status # "expired" /\ ~ t.paused
      THEN req' = [req EXCEPT ![r] =
                     [IdleCall EXCEPT !.pc = first, !.id = id, !.mac = mac,
                                      !.ip = ip, !.snap = t]]
      ELSE Answer(r, "failed")

(* The read activateTicket starts with, and its two early errors           *)
ReadForLogin(r, id, mac, ip) ==
  LET t == ticket[id]
      first == IF t.profile = "corrido" THEN "act_start" ELSE "act_ttl"
  IN  IF Running(t)
      THEN req' = [req EXCEPT ![r] =
                     [IdleCall EXCEPT !.pc = first, !.id = id, !.mac = mac,
                                      !.ip = ip, !.snap = t]]
      ELSE Answer(r, "failed")

Activate(r) ==
  /\ Begin(r, "activate")
  /\ \E id \in Ticket, mac \in Mac \cup {NoMac}, ip \in Ip \cup {NoIp} :
        ReadForLogin(r, id, mac, ip)
  /\ UNCHANGED <<clock, records, index, keys, kernel, sweep>>

(* check-auto: redis.get(mac_to_ticket:{mac})                              *)
CheckAuto(r) ==
  /\ Begin(r, "auto")
  /\ \E mac \in Mac, ip \in Ip \cup {NoIp} :
        IF macTicket[mac] = NoTicket
        THEN Answer(r, "failed")
        ELSE req' = [req EXCEPT ![r] =
                       [IdleCall EXCEPT !.pc = "auto_ticket", !.mac = mac,
                                        !.ip = ip, !.id = macTicket[mac]]]
  /\ UNCHANGED <<clock, records, index, keys, kernel, sweep>>

(* Faulty variant: a paused ticket is unbound as well                      *)
AutoTicketUnbindsPaused(r) ==
  /\ At(r, "auto_ticket")
  /\ req' = [req EXCEPT ![r].pc =
               IF Running(ticket[req[r].id]) THEN "auto_time" ELSE "auto_unbind"]
  /\ UNCHANGED <<clock, records, index, keys, kernel, sweep>>

(* The first hGetAll.  The paused flag of this read refuses the call; the  *)
(* code does so only after the time check, with nothing written between.   *)
AutoTicket(r) ==
  /\ At(r, "auto_ticket")
  /\ LET t == ticket[req[r].id]
     IN  IF t.status = "active" /\ t.paused
         THEN Answer(r, "failed")
         ELSE req' = [req EXCEPT ![r].pc =
                        IF Running(t) THEN "auto_time" ELSE "auto_unbind"]
  /\ UNCHANGED <<clock, records, index, keys, kernel, sweep>>

(* redis.del(mac_to_ticket:{mac}), whatever the key names by now           *)
AutoUnbind(r) ==
  /\ At(r, "auto_unbind")
  /\ macTicket' = [macTicket EXCEPT ![req[r].mac] = NoTicket]
  /\ Answer(r, "failed")
  /\ UNCHANGED <<clock, records, index, shadow, session, ticketIp, online,
                 metadata, kernel, sweep>>

(* getTicketTimeUsed reads the hash again                                  *)
AutoTime(r) ==
  /\ At(r, "auto_time")
  /\ req' = [req EXCEPT ![r].pc = "auto_verdict", ![r].snap = ticket[req[r].id]]
  /\ UNCHANGED <<clock, records, index, keys, kernel, sweep>>

AutoVerdict(r) ==
  /\ At(r, "auto_verdict")
  /\ IF Remaining(req[r].snap, now) = 0
     THEN Answer(r, "failed")
     ELSE ReadForLogin(r, req[r].id, req[r].mac, req[r].ip)
  /\ UNCHANGED <<clock, records, index, keys, kernel, sweep>>

(* Faulty variants: start_time forgotten, or written at every login        *)
ActStartUnset(r) ==
  /\ At(r, "act_start")
  /\ ticket' = [ticket EXCEPT ![req[r].id].ip = req[r].ip]
  /\ req' = [req EXCEPT ![r].pc = "act_clock", ![r].at = now]
  /\ UNCHANGED <<clock, sold, index, keys, kernel, sweep>>
ActStartAlways(r) ==
  /\ At(r, "act_start")
  /\ ticket' = [ticket EXCEPT ![req[r].id].ip = req[r].ip,
                              ![req[r].id].start = now]
  /\ req' = [req EXCEPT ![r].pc = "act_clock", ![r].at = now]
  /\ UNCHANGED <<clock, sold, index, keys, kernel, sweep>>

(* corrido: start_time is written when the hash AS READ had none           *)
ActStart(r) ==
  /\ At(r, "act_start")
  /\ LET id == req[r].id
     IN  ticket' = [ticket EXCEPT
                      ![id].ip = req[r].ip,
                      ![id].start = IF req[r].snap.start = 0 THEN now ELSE @]
  /\ req' = [req EXCEPT ![r].pc = "act_clock", ![r].at = now]
  /\ UNCHANGED <<clock, sold, index, keys, kernel, sweep>>

(* The command after shadow:{id} is set: bind the device if there is a     *)
(* MAC, record the address if there is one, else shape the interface.      *)
AfterShadow(r) ==
  IF req[r].mac # NoMac THEN "act_mac"
  ELSE IF req[r].ip # NoIp THEN "act_ip" ELSE "act_shape"

(* corrido: set shadow:{id} for the time left ...                          *)
ActClock(r) ==
  LET id   == req[r].id
      left == Lifetime(req[r].snap) - Elapsed(req[r].snap, req[r].at)
  IN  /\ At(r, "act_clock")
      /\ left > 0
      /\ shadow' = [shadow EXCEPT ![id] = now + left]
      /\ req' = [req EXCEPT ![r].pc = AfterShadow(r), ![r].at = 0,
                            ![r].snap = Blank]
      /\ UNCHANGED <<clock, records, index, session, macTicket, ticketIp,
                     online, metadata, kernel, sweep>>

(* ... or expire the ticket and refuse; active_clients is not touched.     *)
ActSpent(r) ==
  /\ At(r, "act_clock")
  /\ Elapsed(req[r].snap, req[r].at) >= Lifetime(req[r].snap)
  /\ ticket' = [ticket EXCEPT ![req[r].id].status = "expired"]
  /\ Answer(r, "failed")
  /\ UNCHANGED <<clock, sold, index, keys, kernel, sweep>>

(* pausado: the balance from the TTL of shadow:{id} or the hash as read    *)
ActTtl(r) ==
  /\ At(r, "act_ttl")
  /\ req' = [req EXCEPT ![r].pc = "act_write", ![r].snap = Blank,
               ![r].at = PausadoBalance(req[r].snap, shadow[req[r].id], now)]
  /\ UNCHANGED <<clock, records, index, keys, kernel, sweep>>

(* Faulty variant: a login also renews expires_at                          *)
ActWriteRenews(r) ==
  /\ At(r, "act_write")
  /\ ticket' = [ticket EXCEPT ![req[r].id].ip = req[r].ip,
                              ![req[r].id].remaining = req[r].at,
                              ![req[r].id].expires = now + req[r].at]
  /\ req' = [req EXCEPT ![r].pc = "act_session"]
  /\ UNCHANGED <<clock, sold, index, keys, kernel, sweep>>

ActWrite(r) ==
  /\ At(r, "act_write")
  /\ ticket' = [ticket EXCEPT ![req[r].id].ip = req[r].ip,
                              ![req[r].id].remaining = req[r].at]
  /\ req' = [req EXCEPT ![r].pc =
               IF req[r].at > 0 THEN "act_session" ELSE AfterShadow(r)]
  /\ UNCHANGED <<clock, sold, index, keys, kernel, sweep>>

ActSession(r) ==
  /\ At(r, "act_session")
  /\ session' = [session EXCEPT ![req[r].ip] = req[r].id]
  /\ req' = [req EXCEPT ![r].pc = "act_shadow"]
  /\ UNCHANGED <<clock, records, index, shadow, macTicket, ticketIp, online,
                 metadata, kernel, sweep>>

ActShadow(r) ==
  /\ At(r, "act_shadow")
  /\ shadow' = [shadow EXCEPT ![req[r].id] = now + req[r].at]
  /\ req' = [req EXCEPT ![r].pc = AfterShadow(r), ![r].at = 0]
  /\ UNCHANGED <<clock, records, index, session, macTicket, ticketIp, online,
                 metadata, kernel, sweep>>

(* Both profiles from here on                                              *)
ActMac(r) ==
  /\ At(r, "act_mac")
  /\ macTicket' = [macTicket EXCEPT ![req[r].mac] = req[r].id]
  /\ req' = [req EXCEPT ![r].pc =
               IF req[r].ip # NoIp THEN "act_ip" ELSE "act_shape"]
  /\ UNCHANGED <<clock, records, index, shadow, session, ticketIp, online,
                 metadata, kernel, sweep>>

ActIp(r) ==
  /\ At(r, "act_ip")
  /\ ticketIp' = [ticketIp EXCEPT ![req[r].id] = req[r].ip]
  /\ req' = [req EXCEPT ![r].pc = "act_grant"]
  /\ UNCHANGED <<clock, records, index, shadow, session, macTicket, online,
                 metadata, kernel, sweep>>

ActGrant(r) ==
  /\ At(r, "act_grant")
  /\ activeClients' \in Nft(activeClients \cup {req[r].ip})
  /\ openedFor' = [openedFor EXCEPT ![req[r].ip] = req[r].id]
  /\ req' = [req EXCEPT ![r].pc = "act_online"]
  /\ UNCHANGED <<clock, records, index, keys, shaper, sweep>>

ActOnline(r) ==
  /\ At(r, "act_online")
  /\ online' = online \cup {req[r].id}
  /\ req' = [req EXCEPT ![r].pc = "act_meta"]
  /\ UNCHANGED <<clock, records, index, shadow, session, macTicket, ticketIp,
                 metadata, kernel, sweep>>

(* After this write the code names remainingMs outside the blocks that     *)
(* declare it: a ReferenceError, which the handler answers with a failure. *)
ActMeta(r) ==
  /\ At(r, "act_meta")
  /\ metadata' = [metadata EXCEPT ![req[r].ip] = req[r].id]
  /\ Answer(r, "failed")
  /\ UNCHANGED <<clock, records, index, shadow, session, macTicket, ticketIp,
                 online, kernel, sweep>>

(* Reached only without an address: NetworkManager.applyShaper('eth0.10')  *)
ActShape(r) ==
  /\ At(r, "act_shape")
  /\ shaper' = req[r].id
  /\ Answer(r, "ok")
  /\ UNCHANGED <<clock, records, index, keys, activeClients, openedFor, sweep>>

-----------------------------------------------------------------------------
(* PATCH /api/hotspot/ticket/{id}                                          *)

(* pauseTicket.  Only the flag is looked at: an unknown id reads as {},    *)
(* and an expired ticket can be paused.                                    *)
PauseTicket(r) ==
  /\ Begin(r, "pause")
  /\ \E id \in Ticket :
        IF ticket[id].paused
        THEN Answer(r, "failed")
        ELSE req' = [req EXCEPT ![r] =
                       [IdleCall EXCEPT !.pc = "pause_write", !.id = id,
                                        !.ip = ticket[id].ip]]
  /\ UNCHANGED <<clock, records, index, keys, kernel, sweep>>

PauseWrite(r) ==
  /\ At(r, "pause_write")
  /\ ticket' = [ticket EXCEPT ![req[r].id].paused = TRUE,
                              ![req[r].id].pausedAt = now]
  /\ IF req[r].ip = NoIp
     THEN Answer(r, "ok")
     ELSE req' = [req EXCEPT ![r].pc = "pause_revoke"]
  /\ UNCHANGED <<clock, sold, index, keys, kernel, sweep>>

PauseRevoke(r) ==
  /\ At(r, "pause_revoke")
  /\ activeClients' \in Nft(activeClients \ {req[r].ip})
  /\ Answer(r, "ok")
  /\ UNCHANGED <<clock, records, index, keys, openedFor, shaper, sweep>>

(* resumeTicket                                                            *)
ResumeTicket(r) ==
  /\ Begin(r, "resume")
  /\ \E id \in Ticket :
        LET t == ticket[id]
        IN  IF t.status = "active" /\ t.paused
            THEN req' = [req EXCEPT ![r] =
                           [IdleCall EXCEPT !.pc = "resume_write", !.id = id,
                                            !.ip = t.ip, !.snap = t]]
            ELSE Answer(r, "failed")
  /\ UNCHANGED <<clock, records, index, keys, kernel, sweep>>

ResumeWrite(r) ==
  LET id == req[r].id
  IN  /\ At(r, "resume_write")
      /\ ticket' = [ticket EXCEPT ![id] = Resumed(@, req[r].snap, now)]
      /\ IF req[r].ip = NoIp
         THEN Answer(r, "ok")
         ELSE req' = [req EXCEPT ![r].pc = "resume_grant", ![r].snap = Blank]
      /\ UNCHANGED <<clock, sold, index, keys, kernel, sweep>>

ResumeGrant(r) ==
  /\ At(r, "resume_grant")
  /\ activeClients' \in Nft(activeClients \cup {req[r].ip})
  /\ openedFor' = [openedFor EXCEPT ![req[r].ip] = req[r].id]
  /\ Answer(r, "ok")
  /\ UNCHANGED <<clock, records, index, keys, shaper, sweep>>

-----------------------------------------------------------------------------
(* checkExpiredTickets, from the 5 s monitoring interval.  setInterval     *)
(* does not wait for the previous call, so several may be in progress.     *)

(* The rest of the loop once a ticket has been dealt with                  *)
NextTicket(s) ==
  IF s.todo = {} THEN IdleLoop
  ELSE [IdleLoop EXCEPT !.pc = "read", !.at = s.at, !.todo = s.todo]

SweepStart(l) ==
  /\ up /\ sweep[l].pc = "idle"
  /\ hotspotTickets # {}
  /\ sweep' = [sweep EXCEPT ![l] = [IdleLoop EXCEPT !.pc = "read",
                                                    !.todo = hotspotTickets]]
  /\ UNCHANGED <<clock, records, index, keys, kernel, req>>

(* Faulty variant: paused tickets skipped                                  *)
SweepReadSkipsPaused(l) ==
  /\ sweep[l].pc = "read"
  /\ \E id \in sweep[l].todo :
        LET t  == ticket[id]
            s  == [sweep[l] EXCEPT !.todo = @ \ {id},
                                   !.at = IF @ = 0 THEN now ELSE @]
        IN  sweep' = [sweep EXCEPT ![l] =
              IF ~ Running(t) THEN NextTicket(s)
              ELSE [s EXCEPT !.id = id, !.ip = t.ip, !.snap = t,
                      !.pc = IF t.profile = "corrido" THEN "verdict"
                             ELSE "time"]]
  /\ UNCHANGED <<clock, records, index, keys, kernel, req>>

(* hGetAll of the next ticket; const now is taken before the first one and *)
(* kept for the whole loop.                                                *)
SweepRead(l) ==
  /\ sweep[l].pc = "read"
  /\ \E id \in sweep[l].todo :
        LET t  == ticket[id]
            s  == [sweep[l] EXCEPT !.todo = @ \ {id},
                                   !.at = IF @ = 0 THEN now ELSE @]
        IN  sweep' = [sweep EXCEPT ![l] =
              IF t.status # "active" THEN NextTicket(s)
              ELSE [s EXCEPT !.id = id, !.ip = t.ip, !.snap = t,
                      !.pc = IF t.profile = "corrido" THEN "verdict"
                             ELSE "time"]]
  /\ UNCHANGED <<clock, records, index, keys, kernel, req>>

(* pausado: getTicketTimeUsed reads the hash again                         *)
SweepTime(l) ==
  /\ sweep[l].pc = "time"
  /\ sweep' = [sweep EXCEPT ![l].pc = "verdict",
                            ![l].snap = ticket[sweep[l].id]]
  /\ UNCHANGED <<clock, records, index, keys, kernel, req>>

SweepSpare(l) ==
  /\ sweep[l].pc = "verdict"
  /\ ~ Exhausted(sweep[l].snap, sweep[l].at, now)
  /\ sweep' = [sweep EXCEPT ![l] = NextTicket(sweep[l])]
  /\ UNCHANGED <<clock, records, index, keys, kernel, req>>

(* The address to revoke is that of the first read.                        *)
SweepExpire(l) ==
  LET s == sweep[l]
  IN  /\ s.pc = "verdict"
      /\ Exhausted(s.snap, s.at, now)
      /\ ticket' = [ticket EXCEPT ![s.id].status = "expired"]
      /\ sweep' = [sweep EXCEPT ![l] =
                     IF s.ip = NoIp THEN NextTicket(s)
                     ELSE [s EXCEPT !.pc = "revoke", !.snap = Blank]]
      /\ UNCHANGED <<clock, sold, index, keys, kernel, req>>

SweepRevoke(l) ==
  /\ sweep[l].pc = "revoke"
  /\ activeClients' \in Nft(activeClients \ {sweep[l].ip})
  /\ sweep' = [sweep EXCEPT ![l].pc = "unshadow"]
  /\ UNCHANGED <<clock, records, index, keys, openedFor, shaper, req>>

SweepUnshadow(l) ==
  /\ sweep[l].pc = "unshadow"
  /\ shadow' = [shadow EXCEPT ![sweep[l].id] = 0]
  /\ sweep' = [sweep EXCEPT ![l].pc = "unsession"]
  /\ UNCHANGED <<clock, records, index, session, macTicket, ticketIp, online,
                 metadata, kernel, req>>

SweepUnsession(l) ==
  /\ sweep[l].pc = "unsession"
  /\ session' = [session EXCEPT ![sweep[l].ip] = NoTicket]
  /\ sweep' = [sweep EXCEPT ![l] = NextTicket(sweep[l])]
  /\ UNCHANGED <<clock, records, index, shadow, macTicket, ticketIp, online,
                 metadata, kernel, req>>

-----------------------------------------------------------------------------
(* The environment                                                         *)

Tick ==
  /\ now < MaxTime
  /\ now' = now + 1
  /\ UNCHANGED <<up, crashes, records, index, keys, kernel, req, sweep>>

(* nftables.conf gives active_clients a timeout of 1 h, which the code     *)
(* never refreshes: the kernel drops an element at any time.               *)
ElementTimeout ==
  /\ \E ip \in activeClients : activeClients' = activeClients \ {ip}
  /\ UNCHANGED <<clock, records, index, keys, openedFor, shaper, req, sweep>>

(* The process dies: Redis and the kernel's tables stay.                   *)
Halt ==
  /\ up /\ crashes < MaxCrash
  /\ up' = FALSE /\ crashes' = crashes + 1
  /\ req' = [r \in Request |-> IdleCall]
  /\ sweep' = [l \in Sweep |-> IdleLoop]
  /\ UNCHANGED <<now, records, index, keys, openedFor, shaper>>

Crash == Halt /\ UNCHANGED activeClients

(* SIGINT: HotspotManager.stop deletes the table before exit(0).           *)
Stop == Halt /\ activeClients' \in Nft({})

(* Faulty variant: the ruleset is not flushed                              *)
RestartKeepsSet ==
  /\ ~ up
  /\ up' = TRUE
  /\ UNCHANGED <<now, crashes, records, index, keys, kernel, req, sweep>>

(* systemd restarts the process; loading nftables.conf flushes the ruleset. *)
Restart ==
  /\ ~ up
  /\ up' = TRUE
  /\ activeClients' \in Nft({})
  /\ UNCHANGED <<now, crashes, records, index, keys, openedFor, shaper, req,
                 sweep>>

CallBegins(r) ==
  \/ CreateTicket(r) \/ CreateTicketBatch(r) \/ Activate(r) \/ CheckAuto(r)
  \/ PauseTicket(r) \/ ResumeTicket(r)

CallContinues(r) ==
  \/ CreateIndex(r)
  \/ BatchTicket(r) \/ BatchMember(r) \/ BatchIndex(r)
  \/ AutoTicket(r) \/ AutoUnbind(r) \/ AutoTime(r) \/ AutoVerdict(r)
  \/ ActStart(r) \/ ActClock(r) \/ ActSpent(r)
  \/ ActTtl(r) \/ ActWrite(r) \/ ActSession(r) \/ ActShadow(r)
  \/ ActMac(r) \/ ActIp(r) \/ ActGrant(r) \/ ActOnline(r) \/ ActMeta(r)
  \/ ActShape(r)
  \/ PauseWrite(r) \/ PauseRevoke(r)
  \/ ResumeWrite(r) \/ ResumeGrant(r)

SweepContinues(l) ==
  \/ SweepRead(l) \/ SweepTime(l) \/ SweepSpare(l) \/ SweepExpire(l)
  \/ SweepRevoke(l) \/ SweepUnshadow(l) \/ SweepUnsession(l)

Next ==
  \/ \E r \in Request : CallBegins(r) \/ CallContinues(r)
  \/ \E l \in Sweep : SweepStart(l) \/ SweepContinues(l)
  \/ Tick \/ ElementTimeout \/ Crash \/ Stop \/ Restart

Spec == Init /\ [][Next]_vars

(* Redis answers every command, systemd restarts the process, and the      *)
(* monitoring interval keeps calling.  Nobody is obliged to call the API.  *)
Fairness ==
  /\ \A r \in Request : WF_vars(CallContinues(r))
  /\ \A l \in Sweep : WF_vars(SweepStart(l)) /\ WF_vars(SweepContinues(l))
  /\ WF_vars(Restart)

FairSpec == Spec /\ Fairness

-----------------------------------------------------------------------------
(* Invariants                                                              *)

(* Type correctness: every key and every in-flight call has the shape the  *)
(* handlers rely on.                                                       *)
TypeOK ==
  /\ now \in Nat \ {0} /\ up \in BOOLEAN /\ crashes \in Nat
  /\ ticket \in [Ticket -> Record]
  /\ sold \in [Ticket -> Nat]
  /\ hotspotTickets \subseteq Ticket /\ batchTickets \subseteq Ticket
  /\ shadow \in [Ticket -> Nat]
  /\ session \in [Ip \cup {NoIp} -> Ticket \cup {NoTicket}]
  /\ macTicket \in [Mac -> Ticket \cup {NoTicket}]
  /\ ticketIp \in [Ticket -> Ip \cup {NoIp}]
  /\ online \subseteq Ticket
  /\ metadata \in [Ip -> Ticket \cup {NoTicket}]
  /\ activeClients \subseteq Ip
  /\ openedFor \in [Ip -> Ticket \cup {NoTicket}]
  /\ shaper \in Ticket \cup {NoTicket}
  /\ req \in [Request -> Call]
  /\ sweep \in [Sweep -> Loop]

(* t is a state the ticket id has been in: what it was sold for, plus the  *)
(* pauses credited to it, is what separates creation from expiry, and the  *)
(* pauses fit into the time that has gone by.                              *)
Balanced(t, id) == t.expires = t.created + sold[id] + t.totalPaused

PausesFit(t) ==
  t.created + t.totalPaused <= (IF t.paused THEN t.pausedAt ELSE now)

Sound(t, id) ==
  /\ t.status # "none"
  /\ t.created = ticket[id].created
  /\ Balanced(t, id)
  /\ PausesFit(t)
  /\ t.pausedAt <= now
  /\ t.start # 0 => t.created <= t.start /\ t.start <= now

(* resumeTicket writes total_paused_ms and expires_at from a hash that may *)
(* be stale: whatever pauses, resumes, logins and expiries interleave, the *)
(* two fields keep agreeing with what was sold.                            *)
LedgerBalanced == \A id \in Ticket : Issued(id) => Balanced(ticket[id], id)

(* However resumes overlap, a ticket is never credited more pause than has *)
(* gone by since it was created: its used time is never negative.          *)
PauseWithinElapsed == \A id \in Ticket : Issued(id) => PausesFit(ticket[id])

(* Every hash a handler still holds is a sound past state of its ticket;   *)
(* this is what makes writing from a stale read harmless to the ledger.    *)
SnapshotsSound ==
  /\ \A r \in Request : req[r].id # NoTicket /\ req[r].snap.status # "none"
        => Issued(req[r].id) /\ Sound(req[r].snap, req[r].id)
  /\ \A l \in Sweep : sweep[l].snap.status # "none"
        => /\ sweep[l].id # NoTicket /\ Issued(sweep[l].id)
           /\ Sound(sweep[l].snap, sweep[l].id)

(* A device is only bound to a ticket that exists and, if its clock runs   *)
(* always (corrido), whose clock has been started: check-auto never        *)
(* reconnects a device for free.                                           *)
BoundTicketStarted ==
  \A m \in Mac : macTicket[m] # NoTicket => Started(ticket[macTicket[m]])

(* Whoever the firewall lets through has a ticket that will run out: each  *)
(* open address was last opened for a ticket that was issued and, if it is *)
(* a corrido one, has its start, also where calls overlap, commands fail   *)
(* or a hash was made by pausing an id nobody was ever given.              *)
OpenTicketStarted ==
  \A ip \in activeClients :
    openedFor[ip] # NoTicket /\ Started(ticket[openedFor[ip]])

(* No call is in progress.                                                 *)
Quiet == up /\ \A r \in Request : req[r].pc \in Answered

(* The calls in progress are about different tickets.                      *)
ApartTickets ==
  \A r, q \in Request : r # q /\ req[r].id = req[q].id => req[r].id = NoTicket

(* The calls in progress are about different devices.                      *)
ApartDevices ==
  \A r, q \in Request : r # q /\ req[r].mac = req[q].mac => req[r].mac = NoMac

(* The firewall lets the address recorded in the ticket through, and it    *)
(* does so on behalf of that ticket.                                       *)
HasAccess(id) ==
  ticket[id].ip \in activeClients /\ openedFor[ticket[id].ip] = id

(* Once the answer to a pause is out, the firewall no longer lets the      *)
(* paused ticket through at the address recorded in it; a crash between    *)
(* the two writes of pauseTicket does not leave it open, because a restart *)
(* empties the set.  The address may be open for the next ticket used at   *)
(* it.                                                                     *)
PausedHasNoAccess ==
  \A id \in Ticket :
    up /\ ticket[id].paused /\ (\A r \in Request : req[r].id # id)
      => ~ HasAccess(id)

(* The ticket that last logged in at an address the firewall lets through  *)
(* has status=active, paused=false (docs/network/TROUBLESHOOTING.md,       *)
(* "Client hotspot can't browse").                                         *)
AccessNeedsLiveTicket ==
  Quiet /\ (\A l \in Sweep : sweep[l].pc = "idle") =>
    \A ip \in activeClients :
      metadata[ip] # NoTicket => Running(ticket[metadata[ip]])

-----------------------------------------------------------------------------
(* Action properties                                                       *)

(* No step takes away hours: expires_at never moves back.                  *)
AllowanceNeverShrinks ==
  [][\A id \in Ticket : ticket'[id].expires >= ticket[id].expires]_vars

(* The balance of a pausado ticket in use only goes down, also over a      *)
(* pause, a login or a reconnection.                                       *)
BalanceNeverGrowsInUse ==
  [][\A id \in Ticket :
       Running(ticket[id]) /\ ticket[id].profile = "pausado"
         => Remaining(ticket'[id], now') <= Remaining(ticket[id], now)]_vars

(* The clock of a corrido ticket runs from its first login and is never    *)
(* set back by a later one.                                                *)
FirstLoginFixesStart ==
  [][\A id \in Ticket : ticket[id].start # 0
       => ticket'[id].start = ticket[id].start]_vars

(* check-auto's clean-up never loses the binding of a device whose ticket  *)
(* can still be used.                                                      *)
BindingKept ==
  [][\A m \in Mac : \A id \in Ticket :
       macTicket[m] = id /\ ticket[id].status = "active"
         => macTicket'[m] # NoTicket]_vars

(* Resuming gives back the balance the ticket was paused with ("tiempo     *)
(* SOLO corre cuando WiFi = ON", PROJECT-PLAN.md).                         *)
ResumeKeepsBalance ==
  [][\A id \in Ticket :
       Phase(id) = "held" /\ ticket'[id].status = "active"
                          /\ ~ ticket'[id].paused
         => Remaining(ticket'[id], now') = Remaining(ticket[id], now)]_vars

(* A login whose answer is a failure has not opened the firewall (the      *)
(* portal page tells the user which of the two happened).                  *)
RefusalGrantsNothing ==
  [][\A r \in Request :
       req[r].pc \in ActivateStep /\ req'[r].pc = "failed"
         => req[r].ip \notin activeClients]_vars

-----------------------------------------------------------------------------
(* Liveness                                                                *)

Spent(id) == ticket[id].status = "active" /\ Exhausted(ticket[id], now, now)

(* The expiry loop gets every ticket that has run out of time and is in    *)
(* its index, across crashes, unless a resume or a first login comes first *)
(* and gives it time again.                                                *)
IndexedSpentExpires ==
  \A id \in Ticket : (Spent(id) /\ id \in hotspotTickets) ~> ~ Spent(id)

(* The same without the index: "Verificar y expirar tickets".              *)
SpentExpires == \A id \in Ticket : Spent(id) ~> ~ Spent(id)

-----------------------------------------------------------------------------
(* What the tickets promise                                                *)

Lifecycle == INSTANCE TicketLifecycle WITH
  clock  <- now,
  phase  <- [id \in Ticket |-> Phase(id)],
  issued <- [id \in Ticket |-> ticket[id].created],
  hours  <- sold

(* Every behaviour of the service is one of the abstract ticket: issued    *)
(* once, expired at most once and for good, never before the sold time has *)
(* gone by, whatever stale hash the expiry loop or a login decides on.     *)
LifecycleSpec == Lifecycle!Spec

=============================================================================
