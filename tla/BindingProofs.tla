---------------------------- MODULE BindingProofs ----------------------------
(***************************************************************************)
(* A device is never bound to a corrido ticket whose clock stands still,   *)
(* however many logins, clean-ups and expiries overlap (the run serial     *)
(* checks it with one call at a time).                                     *)
(*                                                                         *)
(* ActMac binds what the login was about some awaits ago.  The invariant   *)
(* follows the login up to there: a corrido login writes start_time unless *)
(* its hash had one, and a start once written is only ever replaced by     *)
(* another; a pausado login is about a ticket that stays pausado.          *)
(*                                                                         *)
(* The same holds of the addresses the firewall lets through, which logins *)
(* and resumes open: a resume opens the address its hash had, and only a   *)
(* login ever writes one there.                                            *)
(***************************************************************************)
EXTENDS HotspotProofs

(* Where a pausado login draws its balance                                 *)
DrawStep == {"act_ttl", "act_write", "act_session", "act_shadow"}
BoundStep == {"act_clock", "act_mac"}

(* What a login in progress knows of its ticket in tk                      *)
LoginOK(c, tk) ==
  /\ c.pc = "act_start" /\ c.snap.start # 0 => tk[c.id].start # 0
  /\ c.pc \in DrawStep => tk[c.id].status # "none" /\ tk[c.id].profile = "pausado"
  /\ c.pc \in BoundStep => Started(tk[c.id])

LoginsOK == \A r \in Request : LoginOK(req[r], ticket)

BInv == IInv /\ LoginsOK /\ BoundTicketStarted

-----------------------------------------------------------------------------
(* What a step never takes from an issued ticket                           *)

Kept(id) ==
  ticket[id].status # "none" =>
    /\ ticket'[id].status # "none"
    /\ ticket'[id].profile = ticket[id].profile
    /\ ticket[id].start # 0 => ticket'[id].start # 0

LEMMA WriteKeeps ==
  ASSUME IInv, NEW r \in Request, WriteAction(r), NEW o \in Ticket
  PROVE  Kept(o)
<1>1. req[r].id \in Ticket
  <2>1. req[r].pc \in WithTicket
    BY DEF WriteAction, ActStart, ActWrite, ActSpent, PauseWrite, ResumeWrite, At,
           WithTicket, RequestStep, ActivateStep, Answered
  <2> QED
    BY <2>1, CallFacts DEF CallOK
<1> PICK id \in Ticket : id = req[r].id
  BY <1>1
<1>2. ticket \in [Ticket -> Record] /\ ticket[id] \in Record /\ now # 0
  BY DEF IInv, TypeOK
<1>3. CASE ActStart(r)
  <2>1. ticket' = [ticket EXCEPT ![id].ip = req[r].ip,
                     ![id].start = IF req[r].snap.start = 0 THEN now ELSE @]
    BY <1>3 DEF ActStart
  <2>2. /\ ticket'[id].status = ticket[id].status
        /\ ticket'[id].profile = ticket[id].profile
        /\ ticket[id].start # 0 => ticket'[id].start # 0
        /\ \A i \in Ticket \ {id} : ticket'[i] = ticket[i]
    BY <1>2, <2>1 DEF Record
  <2> QED
    BY <2>2 DEF Kept
<1>4. CASE ActWrite(r)
  <2>1. ticket' = [ticket EXCEPT ![id].ip = req[r].ip, ![id].remaining = req[r].at]
    BY <1>4 DEF ActWrite
  <2>2. /\ ticket'[id].status = ticket[id].status
        /\ ticket'[id].profile = ticket[id].profile
        /\ ticket'[id].start = ticket[id].start
        /\ \A i \in Ticket \ {id} : ticket'[i] = ticket[i]
    BY <1>2, <2>1 DEF Record
  <2> QED
    BY <2>2 DEF Kept
<1>5. CASE ActSpent(r)
  <2>1. ticket' = [ticket EXCEPT ![id].status = "expired"]
    BY <1>5 DEF ActSpent
  <2>2. /\ ticket'[id].status = "expired"
        /\ ticket'[id].profile = ticket[id].profile
        /\ ticket'[id].start = ticket[id].start
        /\ \A i \in Ticket \ {id} : ticket'[i] = ticket[i]
    BY <1>2, <2>1 DEF Record
  <2> QED
    BY <2>2 DEF Kept
<1>6. CASE PauseWrite(r)
  <2>1. ticket' = [ticket EXCEPT ![id].paused = TRUE, ![id].pausedAt = now]
    BY <1>6 DEF PauseWrite
  <2>2. /\ ticket'[id].status = ticket[id].status
        /\ ticket'[id].profile = ticket[id].profile
        /\ ticket'[id].start = ticket[id].start
        /\ \A i \in Ticket \ {id} : ticket'[i] = ticket[i]
    BY <1>2, <2>1 DEF Record
  <2> QED
    BY <2>2 DEF Kept
<1>7. CASE ResumeWrite(r)
  <2> DEFINE t == Resumed(ticket[id], req[r].snap, now)
  <2>1. ticket' = [ticket EXCEPT ![id] = t]
    BY <1>7 DEF ResumeWrite
  <2>2. /\ t.status = ticket[id].status /\ t.profile = ticket[id].profile
        /\ t.start = ticket[id].start
    BY <1>2 DEF Resumed, Record
  <2> HIDE DEF t
  <2>3. ticket'[id] = t /\ \A i \in Ticket \ {id} : ticket'[i] = ticket[i]
    BY <1>2, <2>1
  <2> QED
    BY <2>2, <2>3 DEF Kept
<1> QED
  BY <1>3, <1>4, <1>5, <1>6, <1>7 DEF WriteAction

LEMMA CallKeeps ==
  ASSUME IInv, NEW r \in Request, CallBegins(r) \/ CallContinues(r),
         NEW o \in Ticket
  PROVE  Kept(o)
<1>1. CASE CreateTicket(r) \/ BatchTicket(r)
  <2>1. PICK id \in Ticket : NewlyIssued(id)
    BY <1>1, CreateTicketStep, BatchTicketStep DEF NewlyIssued
  <2>2. ticket[id].status = "none" /\ \A i \in Ticket \ {id} : ticket'[i] = ticket[i]
    BY <2>1 DEF NewlyIssued, Issued, IInv, TypeOK
  <2> QED
    BY <2>2 DEF Kept
<1>2. CASE CreateTicketBatch(r)
  BY <1>2 DEF CreateTicketBatch, records, Kept
<1>3. CASE PcAction(r) \/ AnswerAction(r) \/ ReadAction(r)
  <2>1. UNCHANGED records
    BY <1>3, NoWriteStep
  <2> QED
    BY <2>1 DEF records, Kept
<1>4. CASE WriteAction(r)
  BY <1>4, WriteKeeps
<1> QED
  BY <1>1, <1>2, <1>3, <1>4, CallKinds

LEMMA SweepKeeps ==
  ASSUME IInv, NEW l \in Sweep, SweepStart(l) \/ SweepContinues(l),
         NEW o \in Ticket
  PROVE  Kept(o)
<1>1. CASE SweepExpire(l)
  <2>1. PICK id \in Ticket : id = sweep[l].id
    BY <1>1, SweepExpireStep
  <2>2. ticket \in [Ticket -> Record] /\ ticket[id] \in Record
    BY DEF IInv, TypeOK
  <2>3. ticket' = [ticket EXCEPT ![id].status = "expired"]
    BY <1>1, <2>1 DEF SweepExpire
  <2>4. /\ ticket'[id].status = "expired"
        /\ ticket'[id].profile = ticket[id].profile
        /\ ticket'[id].start = ticket[id].start
        /\ \A i \in Ticket \ {id} : ticket'[i] = ticket[i]
    BY <2>2, <2>3 DEF Record
  <2> QED
    BY <2>4 DEF Kept
<1>2. CASE ScanAction(l)
  <2>1. UNCHANGED records
    BY <1>2 DEF ScanAction, SweepStart, SweepRead, SweepTime, SweepSpare,
                SweepRevoke, SweepUnshadow, SweepUnsession
  <2> QED
    BY <2>1 DEF records, Kept
<1> QED
  BY <1>1, <1>2 DEF SweepContinues, ScanAction

-----------------------------------------------------------------------------
(* Logins and bindings under the steps of others                           *)

LEMMA LoginLater ==
  ASSUME IInv, NEW q \in Request, LoginOK(req[q], ticket),
         \A id \in Ticket : Kept(id)
  PROVE  LoginOK(req[q], ticket')
<1>1. CallOK(req[q], now, ticket, sold)
  BY CallFacts
<1>2. req[q].pc \in {"act_start"} \cup DrawStep \cup BoundStep => req[q].id \in Ticket
  BY <1>1 DEF CallOK, WithTicket, RequestStep, ActivateStep, Answered, DrawStep, BoundStep
<1>3. req[q].pc = "act_start" => ticket[req[q].id].status # "none"
  BY <1>1, <1>2, NullAssumption DEF CallOK
<1>4. req[q].pc = "act_start" /\ req[q].snap.start # 0 => ticket'[req[q].id].start # 0
  BY <1>2, <1>3 DEF LoginOK, Kept
<1>5. req[q].pc \in DrawStep => /\ ticket'[req[q].id].status # "none"
                                /\ ticket'[req[q].id].profile = "pausado"
  BY <1>2 DEF LoginOK, Kept
<1>6. req[q].pc \in BoundStep => Started(ticket'[req[q].id])
  BY <1>2 DEF LoginOK, Kept, Started
<1> QED
  BY <1>4, <1>5, <1>6 DEF LoginOK

LEMMA BindingsLater ==
  ASSUME IInv, BoundTicketStarted, \A id \in Ticket : Kept(id),
         \A m \in Mac : \/ macTicket'[m] \in {macTicket[m], NoTicket}
                        \/ macTicket'[m] \in Ticket /\ Started(ticket'[macTicket'[m]])
  PROVE  BoundTicketStarted'
<1>1. \A m \in Mac : macTicket[m] \in Ticket \cup {NoTicket}
  BY DEF IInv, TypeOK
<1>2. ASSUME NEW m \in Mac, macTicket'[m] # NoTicket
      PROVE  Started(ticket'[macTicket'[m]])
  <2>1. CASE macTicket'[m] = macTicket[m]
    <3>1. macTicket[m] \in Ticket
      BY <1>1, <1>2, <2>1
    <3>2. Started(ticket[macTicket[m]])
      BY <1>2, <2>1 DEF BoundTicketStarted, Started
    <3> QED
      BY <2>1, <3>1, <3>2 DEF Kept, Started
  <2> QED
    BY <1>2, <2>1
<1> QED
  BY <1>2 DEF BoundTicketStarted, Started

-----------------------------------------------------------------------------
(* The steps of a login                                                    *)

LEMMA ReadLogin ==
  ASSUME IInv, NEW r \in Request, NEW id \in Ticket, NEW mac \in Mac \cup {NoMac},
         NEW ip \in Ip \cup {NoIp}, ReadForLogin(r, id, mac, ip),
         UNCHANGED records
  PROVE  LoginOK(req'[r], ticket')
<1> DEFINE t == ticket[id]
           first == IF t.profile = "corrido" THEN "act_start" ELSE "act_ttl"
           c == [IdleCall EXCEPT !.pc = first, !.id = id, !.mac = mac,
                                 !.ip = ip, !.snap = t]
<1>0. req \in [Request -> Call] /\ t \in Record /\ ticket' = ticket
  BY DEF IInv, TypeOK, records
<1>1. CASE ~ Running(t)
  <2>1. req'[r].pc = "failed"
    BY <1>0, <1>1 DEF ReadForLogin, Answer, IdleCall
  <2> QED
    BY <2>1 DEF LoginOK, DrawStep, BoundStep
<1>2. CASE Running(t)
  <2>1. req'[r] = c
    BY <1>0, <1>2 DEF ReadForLogin
  <2>2. c.pc = first /\ c.id = id /\ c.snap = t
    BY DEF IdleCall
  <2>3. t.profile \in {"pausado", "corrido"} /\ t.status # "none"
    BY <1>0, <1>2 DEF Record, Profile, Running
  <2> HIDE DEF c
  <2>4. LoginOK(c, ticket)
    BY <2>2, <2>3 DEF LoginOK, DrawStep, BoundStep
  <2> QED
    BY <1>0, <2>1, <2>4
<1> QED
  BY <1>1, <1>2

LoginAction(r) ==
  ActStart(r) \/ ActClock(r) \/ ActTtl(r) \/ ActWrite(r) \/ ActSession(r) \/ ActShadow(r)

LEMMA LoginStep ==
  ASSUME BInv, NEW r \in Request, LoginAction(r), \A id \in Ticket : Kept(id)
  PROVE  LoginOK(req'[r], ticket')
<1>0. /\ IInv /\ LoginOK(req[r], ticket) /\ CallOK(req[r], now, ticket, sold)
      /\ req \in [Request -> Call] /\ ticket \in [Ticket -> Record] /\ now # 0
  BY CallFacts DEF BInv, LoginsOK, IInv, TypeOK
<1>1. req[r].pc \in WithTicket
  BY DEF LoginAction, ActStart, ActClock, ActTtl, ActWrite, ActSession, ActShadow, At,
         WithTicket, RequestStep, ActivateStep, Answered
<1> PICK id \in Ticket : id = req[r].id
  BY <1>0, <1>1 DEF CallOK
<1>2. AfterShadow(r) \in {"act_mac", "act_ip", "act_shape"}
  BY DEF AfterShadow
<1>3. CASE ActStart(r)
  <2>1. /\ req'[r].pc = "act_clock" /\ req'[r].id = id /\ req[r].pc = "act_start"
    BY <1>0, <1>3 DEF ActStart, At, Call
  <2>2. ticket[id].status # "none"
    BY <1>0, <2>1, NullAssumption DEF CallOK
  <2>3. ticket'[id].status # "none"
    BY <2>2 DEF Kept
  <2>4. ticket' = [ticket EXCEPT ![id].ip = req[r].ip,
                     ![id].start = IF req[r].snap.start = 0 THEN now ELSE @]
    BY <1>3 DEF ActStart
  <2>5. ticket[id] \in Record
    BY <1>0
  <2>6. ticket'[id].start # 0
    <3>1. CASE req[r].snap.start = 0
      BY <1>0, <2>4, <2>5, <3>1 DEF Record
    <3>2. CASE req[r].snap.start # 0
      <4>1. ticket[id].start # 0
        BY <1>0, <2>1, <3>2 DEF LoginOK
      <4> QED
        BY <2>2, <4>1 DEF Kept
    <3> QED
      BY <3>1, <3>2
  <2> QED
    BY <2>1, <2>3, <2>6 DEF LoginOK, DrawStep, BoundStep, Started
<1>4. CASE ActClock(r)
  <2>1. /\ req'[r].pc = AfterShadow(r) /\ req'[r].id = id
        /\ req[r].pc = "act_clock" /\ ticket' = ticket
    BY <1>0, <1>4 DEF ActClock, At, Call, records
  <2>2. Started(ticket[id])
    BY <1>0, <2>1 DEF LoginOK, BoundStep
  <2> QED
    BY <1>2, <2>1, <2>2 DEF LoginOK, DrawStep, BoundStep
<1>5. CASE ActTtl(r) \/ ActSession(r)
  <2>1. /\ req'[r].pc \in {"act_write", "act_shadow"} /\ req'[r].id = id
        /\ req[r].pc \in DrawStep /\ ticket' = ticket
    BY <1>0, <1>5 DEF ActTtl, ActSession, At, Call, records, DrawStep
  <2>2. ticket[id].status # "none" /\ ticket[id].profile = "pausado"
    BY <1>0, <2>1 DEF LoginOK
  <2> QED
    BY <2>1, <2>2 DEF LoginOK, DrawStep, BoundStep
<1>6. CASE ActWrite(r) \/ ActShadow(r)
  <2>1. /\ req'[r].pc \in {"act_session", "act_mac", "act_ip", "act_shape"}
        /\ req'[r].id = id /\ req[r].pc \in DrawStep
    BY <1>0, <1>2, <1>6 DEF ActWrite, ActShadow, At, Call, DrawStep
  <2>2. ticket[id].status # "none" /\ ticket[id].profile = "pausado"
    BY <1>0, <2>1 DEF LoginOK
  <2>3. ticket'[id].status # "none" /\ ticket'[id].profile = "pausado"
    BY <2>2 DEF Kept
  <2> QED
    BY <2>1, <2>3 DEF LoginOK, DrawStep, BoundStep, Started
<1> QED
  BY <1>3, <1>4, <1>5, <1>6 DEF LoginAction

(* The remaining steps of a call end in none of the states above.          *)
OtherAction(r) ==
  \/ CreateTicket(r) \/ CreateTicketBatch(r) \/ CheckAuto(r) \/ PauseTicket(r)
  \/ ResumeTicket(r) \/ CreateIndex(r) \/ BatchTicket(r) \/ BatchMember(r)
  \/ BatchIndex(r) \/ AutoTicket(r) \/ AutoUnbind(r) \/ AutoTime(r)
  \/ ActSpent(r) \/ ActMac(r) \/ ActIp(r) \/ ActGrant(r) \/ ActOnline(r)
  \/ ActMeta(r) \/ ActShape(r) \/ PauseWrite(r) \/ PauseRevoke(r)
  \/ ResumeWrite(r) \/ ResumeGrant(r)

LEMMA AnswerPc ==
  ASSUME IInv, NEW r \in Request, NEW reply, Answer(r, reply)
  PROVE  req'[r].pc = reply
<1>1. req \in [Request -> Call]
  BY DEF IInv, TypeOK
<1> QED
  BY <1>1 DEF Answer, IdleCall

LEMMA OtherStep ==
  ASSUME IInv, NEW r \in Request, OtherAction(r)
  PROVE  LoginOK(req'[r], ticket')
<1>0. req \in [Request -> Call] /\ req[r] \in Call
  BY DEF IInv, TypeOK
<1> DEFINE Outside(p) == p \notin {"act_start"} \cup DrawStep \cup BoundStep
<1>1. ASSUME NEW reply \in {"ok", "failed"}, Answer(r, reply)
      PROVE  Outside(req'[r].pc)
  BY <1>1, AnswerPc DEF DrawStep, BoundStep
<1>2. CASE CreateTicket(r)
  <2>1. PICK id \in Ticket :
          req' = [req EXCEPT ![r] = [IdleCall EXCEPT !.pc = "create_index", !.id = id]]
    BY <1>2 DEF CreateTicket
  <2>2. req'[r].pc = "create_index"
    BY <1>0, <2>1 DEF IdleCall
  <2> QED
    BY <2>2 DEF DrawStep, BoundStep, LoginOK
<1>3. CASE CreateTicketBatch(r)
  <2>1. PICK ids \in SUBSET Ticket, p \in Profile, d \in Durations :
          req' = [req EXCEPT ![r] =
                    [IdleCall EXCEPT !.pc = "batch_ticket", !.batch = ids,
                                     !.snap = NewTicket(p, now, d, d)]]
    BY <1>3 DEF CreateTicketBatch
  <2>2. req'[r].pc = "batch_ticket"
    BY <1>0, <2>1 DEF IdleCall
  <2> QED
    BY <2>2 DEF DrawStep, BoundStep, LoginOK
<1>4. CASE CheckAuto(r)
  <2>1. ASSUME NEW mac \in Mac, NEW ip \in Ip \cup {NoIp},
               req' = [req EXCEPT ![r] =
                         [IdleCall EXCEPT !.pc = "auto_ticket", !.mac = mac,
                                          !.ip = ip, !.id = macTicket[mac]]]
        PROVE  Outside(req'[r].pc)
    <3>1. req'[r].pc = "auto_ticket"
      BY <1>0, <2>1 DEF IdleCall
    <3> QED
      BY <3>1 DEF DrawStep, BoundStep
  <2>2. Outside(req'[r].pc)
    <3> HIDE DEF Outside
    <3> QED
      BY <1>1, <1>4, <2>1 DEF CheckAuto
  <2> QED
    BY <2>2 DEF LoginOK
<1>5. CASE PauseTicket(r)
  <2>1. ASSUME NEW id \in Ticket,
               req' = [req EXCEPT ![r] =
                         [IdleCall EXCEPT !.pc = "pause_write", !.id = id,
                                          !.ip = ticket[id].ip]]
        PROVE  Outside(req'[r].pc)
    <3>1. req'[r].pc = "pause_write"
      BY <1>0, <2>1 DEF IdleCall
    <3> QED
      BY <3>1 DEF DrawStep, BoundStep
  <2>2. Outside(req'[r].pc)
    <3> HIDE DEF Outside
    <3> QED
      BY <1>1, <1>5, <2>1 DEF PauseTicket
  <2> QED
    BY <2>2 DEF LoginOK
<1>6. CASE ResumeTicket(r)
  <2>1. ASSUME NEW id \in Ticket,
               req' = [req EXCEPT ![r] =
                         [IdleCall EXCEPT !.pc = "resume_write", !.id = id,
                                          !.ip = ticket[id].ip, !.snap = ticket[id]]]
        PROVE  Outside(req'[r].pc)
    <3>1. req'[r].pc = "resume_write"
      BY <1>0, <2>1 DEF IdleCall
    <3> QED
      BY <3>1 DEF DrawStep, BoundStep
  <2>2. Outside(req'[r].pc)
    <3> HIDE DEF Outside
    <3> QED
      BY <1>1, <1>6, <2>1 DEF ResumeTicket
  <2> QED
    BY <2>2 DEF LoginOK
<1>7. CASE AnswerAction(r) \/ ActSpent(r)
  <2>1. Answer(r, "ok") \/ Answer(r, "failed")
    BY <1>7 DEF AnswerAction, ActSpent, CreateIndex, AutoUnbind, ActMeta,
       ActShape, PauseRevoke, ResumeGrant
  <2> QED
    BY <1>1, <2>1 DEF LoginOK
<1>8. CASE BatchTicket(r) \/ BatchMember(r) \/ BatchIndex(r)
  <2>1. Answer(r, "ok")
        \/ req'[r].pc \in {"batch_member", "batch_index", "batch_ticket"}
    BY <1>0, <1>8 DEF BatchTicket, BatchMember, BatchIndex, Call
  <2>2. CASE Answer(r, "ok")
    BY <1>1, <2>2 DEF LoginOK
  <2> QED
    BY <2>1, <2>2 DEF DrawStep, BoundStep, LoginOK
<1>9. CASE AutoTicket(r) \/ AutoTime(r)
  <2>1. Answer(r, "failed")
        \/ req'[r].pc \in {"auto_time", "auto_unbind", "auto_verdict"}
    BY <1>0, <1>9 DEF AutoTicket, AutoTime, Call
  <2>2. CASE Answer(r, "failed")
    BY <1>1, <2>2 DEF LoginOK
  <2> QED
    BY <2>1, <2>2 DEF DrawStep, BoundStep, LoginOK
<1>10. CASE ActMac(r) \/ ActIp(r) \/ ActGrant(r) \/ ActOnline(r)
  <2>1. req'[r].pc \in {"act_ip", "act_shape", "act_grant", "act_online", "act_meta"}
    BY <1>0, <1>10 DEF ActMac, ActIp, ActGrant, ActOnline, Call
  <2> QED
    BY <2>1 DEF DrawStep, BoundStep, LoginOK
<1>11. CASE PauseWrite(r) \/ ResumeWrite(r)
  <2>1. Answer(r, "ok") \/ req'[r].pc \in {"pause_revoke", "resume_grant"}
    BY <1>0, <1>11 DEF PauseWrite, ResumeWrite, Call
  <2>2. CASE Answer(r, "ok")
    BY <1>1, <2>2 DEF LoginOK
  <2> QED
    BY <2>1, <2>2 DEF DrawStep, BoundStep, LoginOK
<1> QED
  BY <1>2, <1>3, <1>4, <1>5, <1>6, <1>7, <1>8, <1>9, <1>10, <1>11
  DEF OtherAction, AnswerAction

LEMMA MacStep ==
  ASSUME BInv, NEW r \in Request, CallBegins(r) \/ CallContinues(r),
         \A id \in Ticket : Kept(id)
  PROVE  BoundTicketStarted'
<1>0. /\ IInv /\ BoundTicketStarted /\ LoginOK(req[r], ticket)
      /\ CallOK(req[r], now, ticket, sold)
      /\ macTicket \in [Mac -> Ticket \cup {NoTicket}]
  BY CallFacts DEF BInv, LoginsOK, IInv, TypeOK
<1>1. CASE ActMac(r)
  <2>1. /\ macTicket' = [macTicket EXCEPT ![req[r].mac] = req[r].id]
        /\ req[r].pc = "act_mac" /\ ticket' = ticket
    BY <1>1 DEF ActMac, At, records
  <2>2. req[r].id \in Ticket
    BY <1>0, <2>1 DEF CallOK, WithTicket, RequestStep, ActivateStep, Answered
  <2>3. Started(ticket'[req[r].id])
    BY <1>0, <2>1 DEF LoginOK, BoundStep
  <2>4. \A m \in Mac : \/ macTicket'[m] \in {macTicket[m], NoTicket}
                       \/ macTicket'[m] \in Ticket /\ Started(ticket'[macTicket'[m]])
    BY <1>0, <2>1, <2>2, <2>3
  <2> QED
    BY <1>0, <2>4, BindingsLater
<1>2. CASE AutoUnbind(r)
  <2>1. \A m \in Mac : macTicket'[m] \in {macTicket[m], NoTicket}
    BY <1>0, <1>2 DEF AutoUnbind
  <2> QED
    BY <1>0, <2>1, BindingsLater
<1>3. CASE ~ ActMac(r) /\ ~ AutoUnbind(r)
  <2>1. macTicket' = macTicket
    BY <1>3 DEF CallBegins, CallContinues, CreateTicket, CreateTicketBatch, Activate,
       CheckAuto, PauseTicket, ResumeTicket, CreateIndex, BatchTicket, BatchMember,
       BatchIndex, AutoTicket, AutoTime, AutoVerdict, ActStart, ActClock, ActSpent,
       ActTtl, ActWrite, ActSession, ActShadow, ActIp, ActGrant, ActOnline, ActMeta,
       ActShape, PauseWrite, PauseRevoke, ResumeWrite, ResumeGrant, keys
  <2> QED
    BY <1>0, <2>1, BindingsLater
<1> QED
  BY <1>1, <1>2, <1>3

LEMMA CallBInv ==
  ASSUME BInv, NEW r \in Request, CallBegins(r) \/ CallContinues(r)
  PROVE  LoginsOK' /\ BoundTicketStarted'
<1>0. IInv /\ LoginsOK
  BY DEF BInv
<1>1. \A id \in Ticket : Kept(id)
  BY <1>0, CallKeeps
<1>2. LoginOK(req'[r], ticket')
  <2>1. CASE Activate(r)
    <3>1. PICK id \in Ticket, mac \in Mac \cup {NoMac}, ip \in Ip \cup {NoIp} :
            ReadForLogin(r, id, mac, ip)
      BY <2>1 DEF Activate
    <3>2. UNCHANGED records
      BY <2>1 DEF Activate
    <3> QED
      BY <1>0, <3>1, <3>2, ReadLogin
  <2>2. CASE AutoVerdict(r)
    <3>1. req[r].id \in Ticket /\ req[r].mac \in Mac \cup {NoMac}
          /\ req[r].ip \in Ip \cup {NoIp} /\ req[r].pc = "auto_verdict"
      BY <1>0, <2>2, CallFacts DEF AutoVerdict, At, CallOK, Call, WithTicket,
         RequestStep, ActivateStep, Answered
    <3>2. UNCHANGED records
      BY <2>2 DEF AutoVerdict
    <3>3. CASE ReadForLogin(r, req[r].id, req[r].mac, req[r].ip)
      BY <1>0, <3>1, <3>2, <3>3, ReadLogin
    <3>4. CASE Answer(r, "failed")
      <4>1. req \in [Request -> Call]
        BY <1>0 DEF IInv, TypeOK
      <4>2. req'[r].pc = "failed"
        BY <3>4, <4>1 DEF Answer, IdleCall
      <4> QED
        BY <4>2 DEF LoginOK, DrawStep, BoundStep
    <3> QED
      BY <2>2, <3>3, <3>4 DEF AutoVerdict
  <2>3. CASE LoginAction(r)
    BY <1>1, <2>3, LoginStep
  <2>4. CASE OtherAction(r)
    BY <1>0, <2>4, OtherStep
  <2> QED
    BY <2>1, <2>2, <2>3, <2>4 DEF CallBegins, CallContinues, LoginAction, OtherAction
<1>3. OnlyCall(r)
  BY <1>0, CallKinds, NoWriteStep, WriteStep, CreateTicketStep, BatchTicketStep,
     CreateTicketBatchStep DEF CallStep
<1>4. \A q \in Request \ {r} : LoginOK(req'[q], ticket')
  BY <1>0, <1>1, <1>3, LoginLater DEF LoginsOK, OnlyCall
<1> QED
  BY <1>1, <1>2, <1>4, MacStep DEF LoginsOK

-----------------------------------------------------------------------------
LEMMA InitBInv == Init => BInv
<1> SUFFICES ASSUME Init PROVE BInv
  OBVIOUS
<1>1. LoginsOK
  BY DEF Init, LoginsOK, LoginOK, IdleCall, DrawStep, BoundStep
<1>2. BoundTicketStarted
  BY DEF Init, BoundTicketStarted
<1> QED
  BY <1>1, <1>2, InitIInv DEF BInv

LEMMA NextBInv == BInv /\ [Next]_vars => BInv'
<1> SUFFICES ASSUME BInv, [Next]_vars PROVE BInv'
  OBVIOUS
<1>0. IInv /\ IInv' /\ LoginsOK /\ BoundTicketStarted
  BY NextIInv DEF BInv
<1>1. ASSUME NEW r \in Request, CallBegins(r) \/ CallContinues(r)
      PROVE  LoginsOK' /\ BoundTicketStarted'
  BY <1>1, CallBInv
<1>2. ASSUME NEW l \in Sweep, SweepStart(l) \/ SweepContinues(l)
      PROVE  LoginsOK' /\ BoundTicketStarted'
  <2>1. \A id \in Ticket : Kept(id)
    BY <1>0, <1>2, SweepKeeps
  <2>2. req' = req /\ macTicket' = macTicket
    BY <1>2 DEF SweepContinues, SweepStart, SweepRead, SweepTime, SweepSpare,
       SweepExpire, SweepRevoke, SweepUnshadow, SweepUnsession, keys
  <2>3. LoginsOK'
    BY <1>0, <2>1, <2>2, LoginLater DEF LoginsOK
  <2> QED
    BY <1>0, <2>1, <2>2, <2>3, BindingsLater
<1>3. CASE Tick \/ Restart \/ ElementTimeout \/ UNCHANGED vars
  <2>1. req' = req /\ macTicket' = macTicket /\ ticket' = ticket
    BY <1>3 DEF Tick, Restart, ElementTimeout, vars, keys, records
  <2>2. LoginsOK'
    BY <1>0, <2>1 DEF LoginsOK
  <2>3. \A id \in Ticket : Kept(id)
    BY <2>1 DEF Kept
  <2>4. \A m \in Mac : macTicket'[m] \in {macTicket[m], NoTicket}
    BY <2>1
  <2> QED
    BY <1>0, <2>2, <2>3, <2>4, BindingsLater DEF BInv
<1>4. CASE Crash \/ Stop
  <2>1. /\ req' = [r \in Request |-> IdleCall]
        /\ macTicket' = macTicket /\ ticket' = ticket
    BY <1>4 DEF Crash, Stop, Halt, keys, records
  <2>2. LoginsOK'
    BY <2>1 DEF LoginsOK, LoginOK, IdleCall, DrawStep, BoundStep
  <2>3. \A id \in Ticket : Kept(id)
    BY <2>1 DEF Kept
  <2>4. \A m \in Mac : macTicket'[m] \in {macTicket[m], NoTicket}
    BY <2>1
  <2> QED
    BY <1>0, <2>2, <2>3, <2>4, BindingsLater DEF BInv
<1> QED
  BY <1>0, <1>1, <1>2, <1>3, <1>4 DEF Next, BInv

(* A device is never bound to a ticket that does not exist, or to a        *)
(* corrido ticket whose clock has not started, for any number of devices,  *)
(* tickets, overlapping calls and sweeps: check-auto never reconnects a    *)
(* device for free.                                                        *)
THEOREM BindingSafe == Spec => []BoundTicketStarted
<1>1. Spec => []BInv
  BY InitBInv, NextBInv, PTL DEF Spec
<1> QED
  BY <1>1, PTL DEF BInv

-----------------------------------------------------------------------------
(* Open addresses                                                          *)

GrantStep == {"act_ip", "act_grant"}
ReleaseStep == {"resume_write", "resume_grant"}

(* What a call about to open an address, or to issue a ticket, knows       *)
GrantOK(c, tk) ==
  /\ c.pc \in GrantStep => Started(tk[c.id])
  /\ c.pc \in ReleaseStep /\ c.ip # NoIp => Started(tk[c.id])
  /\ c.pc \in BatchStep => c.snap.ip = NoIp

GrantsOK == \A r \in Request : GrantOK(req[r], ticket)

(* Only a login gives a ticket an address.                                 *)
AddressesOK == \A id \in Ticket : ticket[id].ip # NoIp => Started(ticket[id])

OInv == BInv /\ GrantsOK /\ AddressesOK /\ OpenTicketStarted

(* Steps of others leave a call in order.                                  *)
LEMMA GrantLater ==
  ASSUME IInv, NEW q \in Request, GrantOK(req[q], ticket),
         \A id \in Ticket : Kept(id)
  PROVE  GrantOK(req[q], ticket')
<1>1. req[q].pc \in GrantStep \cup ReleaseStep => req[q].id \in Ticket
  BY CallFacts DEF CallOK, WithTicket, RequestStep, ActivateStep, Answered, GrantStep,
     ReleaseStep
<1>2. \A id \in Ticket : Started(ticket[id]) => Started(ticket'[id])
  BY DEF Kept, Started
<1> QED
  BY <1>1, <1>2 DEF GrantOK

LEMMA OpenLater ==
  ASSUME IInv, OpenTicketStarted, \A id \in Ticket : Kept(id),
         \A ip \in activeClients' :
           \/ ip \in activeClients /\ openedFor'[ip] = openedFor[ip]
           \/ openedFor'[ip] \in Ticket /\ Started(ticket'[openedFor'[ip]])
  PROVE  OpenTicketStarted'
<1>1. activeClients \subseteq Ip /\ openedFor \in [Ip -> Ticket \cup {NoTicket}]
  BY DEF IInv, TypeOK
<1> SUFFICES ASSUME NEW ip \in activeClients'
             PROVE  openedFor'[ip] # NoTicket /\ Started(ticket'[openedFor'[ip]])
  BY DEF OpenTicketStarted
<1>2. CASE ip \in activeClients /\ openedFor'[ip] = openedFor[ip]
  <2>1. openedFor[ip] \in Ticket /\ Started(ticket[openedFor[ip]])
    BY <1>1, <1>2 DEF OpenTicketStarted
  <2> QED
    BY <1>2, <2>1, NullAssumption DEF Kept, Started
<1>3. CASE openedFor'[ip] \in Ticket /\ Started(ticket'[openedFor'[ip]])
  BY <1>3, NullAssumption
<1> QED
  BY <1>2, <1>3

(* A call records an address only where the ticket has started.            *)
LEMMA AddressStep ==
  ASSUME OInv, NEW r \in Request, CallBegins(r) \/ CallContinues(r),
         \A id \in Ticket : Kept(id)
  PROVE  AddressesOK'
<1>0. /\ IInv /\ BInv /\ AddressesOK /\ LoginOK(req[r], ticket)
      /\ GrantOK(req[r], ticket) /\ CallOK(req[r], now, ticket, sold)
      /\ ticket \in [Ticket -> Record] /\ req \in [Request -> Call]
  BY CallFacts DEF OInv, BInv, LoginsOK, GrantsOK, IInv, TypeOK
<1>1. ASSUME NEW id \in Ticket, \A o \in Ticket \ {id} : ticket'[o] = ticket[o],
             \/ ticket'[id].ip \in {ticket[id].ip, NoIp}
             \/ Started(ticket'[id])
      PROVE  AddressesOK'
  <2> SUFFICES ASSUME NEW o \in Ticket, ticket'[o].ip # NoIp PROVE Started(ticket'[o])
    BY DEF AddressesOK
  <2>1. Started(ticket[o]) => Started(ticket'[o])
    BY DEF Kept, Started
  <2>2. CASE o = id
    BY <1>0, <1>1, <2>1, <2>2 DEF AddressesOK
  <2>3. CASE o # id
    BY <1>0, <1>1, <2>3 DEF AddressesOK
  <2> QED
    BY <2>2, <2>3
<1>2. CASE UNCHANGED records
  BY <1>0, <1>2 DEF records, AddressesOK
<1>3. CASE CreateTicket(r)
  <2>1. PICK id \in Ticket, d \in Durations :
          ticket' = [ticket EXCEPT ![id] = NewTicket("pausado", now, d, 0)]
    BY <1>3 DEF CreateTicket
  <2>2. ticket'[id].ip = NoIp /\ \A o \in Ticket \ {id} : ticket'[o] = ticket[o]
    BY <1>0, <2>1 DEF NewTicket, Blank
  <2> QED
    BY <1>1, <2>2
<1>4. CASE BatchTicket(r)
  <2>1. PICK id \in req[r].batch : ticket' = [ticket EXCEPT ![id] = req[r].snap]
    BY <1>4 DEF BatchTicket
  <2>2. id \in Ticket /\ req[r].snap.ip = NoIp
    BY <1>0, <1>4 DEF BatchTicket, At, Call, GrantOK, BatchStep
  <2>3. ticket'[id].ip = NoIp /\ \A o \in Ticket \ {id} : ticket'[o] = ticket[o]
    BY <1>0, <2>1, <2>2
  <2> QED
    BY <1>1, <2>2, <2>3
<1>5. CASE WriteAction(r)
  <2>1. req[r].pc \in WithTicket
    BY <1>5 DEF WriteAction, ActStart, ActWrite, ActSpent, PauseWrite, ResumeWrite,
           At, WithTicket, RequestStep, ActivateStep, Answered
  <2> PICK id \in Ticket : id = req[r].id
    BY <1>0, <2>1 DEF CallOK
  <2>2. ticket[id] \in Record
    BY <1>0
  <2>3. CASE ActStart(r)
    <3>1. \A o \in Ticket \ {id} : ticket'[o] = ticket[o]
      BY <1>0, <2>3 DEF ActStart
    <3>2. req'[r].pc = "act_clock" /\ req'[r].id = id
      BY <1>0, <2>3 DEF ActStart, Call
    <3>3. Started(ticket'[id])
      BY <1>0, <2>3, <3>2, LoginStep DEF LoginAction, LoginOK, BoundStep
    <3> QED
      BY <1>1, <3>1, <3>3
  <2>4. CASE ActWrite(r)
    <3>1. \A o \in Ticket \ {id} : ticket'[o] = ticket[o]
      BY <1>0, <2>4 DEF ActWrite
    <3>2. Started(ticket[id])
      BY <1>0, <2>4 DEF ActWrite, At, LoginOK, DrawStep, Started
    <3>3. Started(ticket'[id])
      BY <3>2 DEF Kept, Started
    <3> QED
      BY <1>1, <3>1, <3>3
  <2>5. CASE ActSpent(r)
    <3>1. ticket' = [ticket EXCEPT ![id].status = "expired"]
      BY <2>5 DEF ActSpent
    <3>2. ticket'[id].ip = ticket[id].ip /\ \A o \in Ticket \ {id} : ticket'[o] = ticket[o]
      BY <1>0, <2>2, <3>1 DEF Record
    <3> QED
      BY <1>1, <3>2
  <2>6. CASE PauseWrite(r)
    <3>1. ticket' = [ticket EXCEPT ![id].paused = TRUE, ![id].pausedAt = now]
      BY <2>6 DEF PauseWrite
    <3>2. ticket'[id].ip = ticket[id].ip /\ \A o \in Ticket \ {id} : ticket'[o] = ticket[o]
      BY <1>0, <2>2, <3>1 DEF Record
    <3> QED
      BY <1>1, <3>2
  <2>7. CASE ResumeWrite(r)
    <3> DEFINE t == Resumed(ticket[id], req[r].snap, now)
    <3>1. ticket' = [ticket EXCEPT ![id] = t]
      BY <2>7 DEF ResumeWrite
    <3>2. t.ip = ticket[id].ip
      BY <2>2 DEF Resumed, Record
    <3> HIDE DEF t
    <3>3. ticket'[id].ip = ticket[id].ip /\ \A o \in Ticket \ {id} : ticket'[o] = ticket[o]
      BY <1>0, <3>1, <3>2
    <3> QED
      BY <1>1, <3>3
  <2> QED
    BY <1>5, <2>3, <2>4, <2>5, <2>6, <2>7 DEF WriteAction
<1>6. CASE CreateTicketBatch(r)
  BY <1>2, <1>6 DEF CreateTicketBatch
<1>7. CASE PcAction(r) \/ AnswerAction(r) \/ ReadAction(r)
  BY <1>0, <1>2, <1>7, NoWriteStep
<1> QED
  BY <1>3, <1>4, <1>5, <1>6, <1>7, CallKinds

(* The step of a login that comes before the grant                         *)
LEMMA OwnLogin ==
  ASSUME OInv, NEW r \in Request, \A id \in Ticket : Kept(id),
         \/ ActClock(r) \/ ActWrite(r) \/ ActShadow(r) \/ ActMac(r) \/ ActIp(r)
  PROVE  GrantOK(req'[r], ticket')
<1>0. /\ LoginOK(req[r], ticket) /\ GrantOK(req[r], ticket)
      /\ CallOK(req[r], now, ticket, sold) /\ req \in [Request -> Call]
  BY CallFacts DEF OInv, BInv, LoginsOK, GrantsOK, IInv, TypeOK
<1>1. AfterShadow(r) \in {"act_mac", "act_ip", "act_shape"}
  BY DEF AfterShadow
<1>2. /\ req[r].pc \in DrawStep \cup BoundStep \cup GrantStep
      /\ req'[r].id = req[r].id
      /\ req'[r].pc \in ActivateStep
  <2>1. CASE ActClock(r) \/ ActWrite(r) \/ ActShadow(r)
    BY <1>0, <1>1, <2>1 DEF ActClock, ActWrite, ActShadow, At, Call, DrawStep, BoundStep,
       ActivateStep
  <2>2. CASE ActMac(r) \/ ActIp(r)
    BY <1>0, <2>2 DEF ActMac, ActIp, At, Call, BoundStep, GrantStep, ActivateStep
  <2> QED
    BY <2>1, <2>2
<1>3. req[r].id \in Ticket
  BY <1>0, <1>2 DEF CallOK, WithTicket, RequestStep, ActivateStep, Answered, DrawStep,
     BoundStep, GrantStep
<1>4. Started(ticket[req[r].id])
  BY <1>0, <1>2 DEF LoginOK, GrantOK, DrawStep, Started
<1>5. Started(ticket'[req'[r].id])
  BY <1>2, <1>3, <1>4 DEF Kept, Started
<1>6. req'[r].pc \notin ReleaseStep \cup BatchStep
  BY <1>2 DEF ActivateStep, ReleaseStep, BatchStep
<1> QED
  BY <1>5, <1>6 DEF GrantOK

LEMMA OwnGrant ==
  ASSUME OInv, NEW r \in Request, CallBegins(r) \/ CallContinues(r),
         \A id \in Ticket : Kept(id)
  PROVE  GrantOK(req'[r], ticket')
<1>0. /\ IInv /\ AddressesOK /\ GrantOK(req[r], ticket)
      /\ CallOK(req[r], now, ticket, sold)
      /\ ticket \in [Ticket -> Record] /\ req \in [Request -> Call] /\ req[r] \in Call
  BY CallFacts DEF OInv, BInv, GrantsOK, IInv, TypeOK
<1> DEFINE Outside(p) == p \notin GrantStep \cup ReleaseStep \cup BatchStep
<1>1. ASSUME NEW reply \in {"ok", "failed"}, Answer(r, reply)
      PROVE  Outside(req'[r].pc)
  BY <1>0, <1>1, AnswerPc DEF GrantStep, ReleaseStep, BatchStep
<1>2. ASSUME NEW id, NEW mac, NEW ip, ReadForLogin(r, id, mac, ip)
      PROVE  Outside(req'[r].pc)
  <2>1. CASE ~ Running(ticket[id])
    <3> HIDE DEF Outside
    <3> QED
      BY <1>1, <1>2, <2>1 DEF ReadForLogin
  <2>2. CASE Running(ticket[id])
    <3>1. req'[r].pc = IF ticket[id].profile = "corrido" THEN "act_start" ELSE "act_ttl"
      BY <1>0, <1>2, <2>2 DEF ReadForLogin, IdleCall
    <3> QED
      BY <3>1 DEF GrantStep, ReleaseStep, BatchStep
  <2> QED
    BY <2>1, <2>2
<1>3. ASSUME Outside(req'[r].pc) PROVE GrantOK(req'[r], ticket')
  BY <1>3 DEF GrantOK
<1>4. CASE Activate(r) \/ AutoVerdict(r)
  <2>1. Outside(req'[r].pc)
    <3> HIDE DEF Outside
    <3> QED
      BY <1>1, <1>2, <1>4 DEF Activate, AutoVerdict
  <2> QED
    BY <1>3, <2>1
<1>5. CASE \/ CreateIndex(r) \/ AutoUnbind(r) \/ ActMeta(r) \/ ActShape(r)
           \/ ActSpent(r) \/ PauseRevoke(r) \/ ResumeGrant(r)
  <2>1. Answer(r, "ok") \/ Answer(r, "failed")
    BY <1>5 DEF CreateIndex, AutoUnbind, ActMeta, ActShape, ActSpent, PauseRevoke,
       ResumeGrant
  <2> QED
    BY <1>1, <1>3, <2>1
<1>6. CASE CreateTicket(r)
  <2>1. req'[r].pc = "create_index"
    BY <1>0, <1>6 DEF CreateTicket, IdleCall
  <2> QED
    BY <1>3, <2>1 DEF GrantStep, ReleaseStep, BatchStep
<1>7. CASE CreateTicketBatch(r)
  <2>1. PICK ids \in SUBSET Ticket, p \in Profile, d \in Durations :
          req' = [req EXCEPT ![r] =
                    [IdleCall EXCEPT !.pc = "batch_ticket", !.batch = ids,
                                     !.snap = NewTicket(p, now, d, d)]]
    BY <1>7 DEF CreateTicketBatch
  <2>2. req'[r].pc = "batch_ticket" /\ req'[r].snap = NewTicket(p, now, d, d)
    BY <1>0, <2>1 DEF IdleCall
  <2>3. req'[r].snap.ip = NoIp
    BY <2>2 DEF NewTicket, Blank
  <2> QED
    BY <2>2, <2>3 DEF GrantOK, GrantStep, ReleaseStep
<1>8. CASE BatchTicket(r) \/ BatchMember(r) \/ BatchIndex(r)
  <2>1. CASE Answer(r, "ok")
    BY <1>1, <1>3, <2>1
  <2>2. CASE ~ Answer(r, "ok")
    <3>1. req[r].pc \in BatchStep
      BY <1>8 DEF BatchTicket, BatchMember, BatchIndex, At, BatchStep
    <3>2. CASE BatchTicket(r)
      BY <1>0, <3>1, <3>2 DEF BatchTicket, Call, BatchStep, GrantOK, GrantStep,
         ReleaseStep
    <3>3. CASE BatchMember(r) \/ BatchIndex(r)
      <4>1. req'[r].snap = req[r].snap /\ req'[r].pc \in BatchStep
        BY <1>0, <2>2, <3>3 DEF BatchMember, BatchIndex, Call, BatchStep
      <4> QED
        BY <1>0, <3>1, <4>1 DEF GrantOK, GrantStep, ReleaseStep, BatchStep
    <3> QED
      BY <1>8, <3>2, <3>3
  <2> QED
    BY <2>1, <2>2
<1>9. CASE CheckAuto(r)
  <2>1. Answer(r, "failed") \/ req'[r].pc = "auto_ticket"
    BY <1>0, <1>9 DEF CheckAuto, IdleCall
  <2>2. CASE req'[r].pc = "auto_ticket"
    BY <1>3, <2>2 DEF GrantStep, ReleaseStep, BatchStep
  <2> QED
    BY <1>1, <1>3, <2>1, <2>2
<1>10. CASE PauseTicket(r)
  <2>1. Answer(r, "failed") \/ req'[r].pc = "pause_write"
    BY <1>0, <1>10 DEF PauseTicket, IdleCall
  <2>2. CASE req'[r].pc = "pause_write"
    BY <1>3, <2>2 DEF GrantStep, ReleaseStep, BatchStep
  <2> QED
    BY <1>1, <1>3, <2>1, <2>2
<1>11. CASE ResumeTicket(r)
  <2>1. PICK id \in Ticket :
          \/ Answer(r, "failed")
          \/ req' = [req EXCEPT ![r] = [IdleCall EXCEPT !.pc = "resume_write",
                       !.id = id, !.ip = ticket[id].ip, !.snap = ticket[id]]]
    BY <1>11 DEF ResumeTicket
  <2>2. ASSUME req' = [req EXCEPT ![r] = [IdleCall EXCEPT !.pc = "resume_write",
                       !.id = id, !.ip = ticket[id].ip, !.snap = ticket[id]]]
        PROVE  GrantOK(req'[r], ticket')
    <3>1. req'[r].pc = "resume_write" /\ req'[r].id = id /\ req'[r].ip = ticket[id].ip
      BY <1>0, <2>2 DEF IdleCall
    <3>2. ticket[id].ip # NoIp => Started(ticket'[id])
      BY <1>0 DEF AddressesOK, Kept, Started
    <3> QED
      BY <3>1, <3>2 DEF GrantOK, GrantStep, BatchStep
  <2> QED
    BY <1>1, <1>3, <2>1, <2>2
<1>12. CASE AutoTicket(r) \/ AutoTime(r)
  <2>1. \/ Answer(r, "failed")
        \/ req'[r].pc \in {"auto_time", "auto_unbind", "auto_verdict"}
    BY <1>0, <1>12 DEF AutoTicket, AutoTime, Call
  <2>2. CASE req'[r].pc \in {"auto_time", "auto_unbind", "auto_verdict"}
    BY <1>3, <2>2 DEF GrantStep, ReleaseStep, BatchStep
  <2> QED
    BY <1>1, <1>3, <2>1, <2>2
<1>13. CASE \/ ActStart(r) \/ ActTtl(r) \/ ActSession(r) \/ ActGrant(r) \/ ActOnline(r)
  <2>1. req'[r].pc \in {"act_clock", "act_write", "act_shadow", "act_online", "act_meta"}
    BY <1>0, <1>13 DEF ActStart, ActTtl, ActSession, ActGrant, ActOnline, Call
  <2> QED
    BY <1>3, <2>1 DEF GrantStep, ReleaseStep, BatchStep
<1>14. CASE \/ ActClock(r) \/ ActWrite(r) \/ ActShadow(r) \/ ActMac(r) \/ ActIp(r)
  BY <1>14, OwnLogin
<1>15. CASE PauseWrite(r)
  <2>1. Answer(r, "ok") \/ req'[r].pc = "pause_revoke"
    BY <1>0, <1>15 DEF PauseWrite, Call
  <2>2. CASE req'[r].pc = "pause_revoke"
    BY <1>3, <2>2 DEF GrantStep, ReleaseStep, BatchStep
  <2> QED
    BY <1>1, <1>3, <2>1, <2>2
<1>16. CASE ResumeWrite(r)
  <2>1. CASE Answer(r, "ok")
    BY <1>1, <1>3, <2>1
  <2>2. CASE ~ Answer(r, "ok")
    <3>1. /\ req[r].pc = "resume_write" /\ req[r].ip # NoIp
          /\ req'[r].pc = "resume_grant" /\ req'[r].id = req[r].id
      BY <1>0, <1>16, <2>2 DEF ResumeWrite, At, Call
    <3>2. req[r].id \in Ticket /\ Started(ticket[req[r].id])
      BY <1>0, <3>1 DEF GrantOK, ReleaseStep, CallOK, WithTicket, RequestStep,
         ActivateStep, Answered
    <3>3. Started(ticket'[req'[r].id])
      BY <3>1, <3>2 DEF Kept, Started
    <3> QED
      BY <3>1, <3>3 DEF GrantOK, GrantStep, BatchStep
  <2> QED
    BY <2>1, <2>2
<1> QED
  BY <1>4, <1>5, <1>6, <1>7, <1>8, <1>9, <1>10, <1>11, <1>12, <1>13, <1>14, <1>15, <1>16
  DEF CallBegins, CallContinues

(* Calls open an address for a ticket that has started.                    *)
LEMMA OpenStep ==
  ASSUME OInv, NEW r \in Request, CallBegins(r) \/ CallContinues(r),
         \A id \in Ticket : Kept(id)
  PROVE  OpenTicketStarted'
<1>0. /\ IInv /\ OpenTicketStarted /\ GrantOK(req[r], ticket)
      /\ CallOK(req[r], now, ticket, sold)
      /\ openedFor \in [Ip -> Ticket \cup {NoTicket}] /\ activeClients \subseteq Ip
  BY CallFacts DEF OInv, BInv, GrantsOK, IInv, TypeOK
<1>1. CASE ActGrant(r) \/ ResumeGrant(r)
  <2>1. /\ activeClients' \subseteq activeClients \cup {req[r].ip}
        /\ openedFor' = [openedFor EXCEPT ![req[r].ip] = req[r].id]
        /\ req[r].pc \in {"act_grant", "resume_grant"} /\ ticket' = ticket
    BY <1>1 DEF ActGrant, ResumeGrant, At, Nft, records
  <2>2. req[r].id \in Ticket /\ req[r].ip \in Ip
    BY <1>0, <2>1 DEF CallOK, WithTicket, WithIp, RequestStep, ActivateStep, Answered
  <2>3. Started(ticket'[req[r].id])
    BY <1>0, <2>1, <2>2, NullAssumption DEF GrantOK, GrantStep, ReleaseStep
  <2>4. \A ip \in activeClients' :
           \/ ip \in activeClients /\ openedFor'[ip] = openedFor[ip]
           \/ openedFor'[ip] \in Ticket /\ Started(ticket'[openedFor'[ip]])
    BY <1>0, <2>1, <2>2, <2>3
  <2> QED
    BY <1>0, <2>4, OpenLater
<1>2. CASE ~ ActGrant(r) /\ ~ ResumeGrant(r)
  <2>1. activeClients' \subseteq activeClients /\ openedFor' = openedFor
    <3>1. CASE PauseRevoke(r)
      BY <3>1 DEF PauseRevoke, Nft
    <3>2. CASE ~ PauseRevoke(r)
      BY <1>2, <3>2 DEF CallBegins, CallContinues, CreateTicket, CreateTicketBatch,
         Activate, CheckAuto, PauseTicket, ResumeTicket, CreateIndex, BatchTicket,
         BatchMember, BatchIndex, AutoTicket, AutoUnbind, AutoTime, AutoVerdict,
         ActStart, ActClock, ActSpent, ActTtl, ActWrite, ActSession, ActShadow, ActMac,
         ActIp, ActOnline, ActMeta, ActShape, PauseWrite, ResumeWrite, kernel
    <3> QED
      BY <3>1, <3>2
  <2> QED
    BY <1>0, <2>1, OpenLater
<1> QED
  BY <1>1, <1>2

LEMMA InitOInv == Init => OInv
<1> SUFFICES ASSUME Init PROVE OInv
  OBVIOUS
<1>1. GrantsOK
  BY DEF Init, GrantsOK, GrantOK, IdleCall, GrantStep, ReleaseStep, BatchStep
<1>2. AddressesOK /\ OpenTicketStarted
  BY DEF Init, AddressesOK, OpenTicketStarted, Blank
<1> QED
  BY <1>1, <1>2, InitBInv DEF OInv

LEMMA NextOInv == OInv /\ [Next]_vars => OInv'
<1> SUFFICES ASSUME OInv, [Next]_vars PROVE OInv'
  OBVIOUS
<1>0. BInv /\ BInv' /\ IInv /\ GrantsOK /\ AddressesOK /\ OpenTicketStarted
  BY NextBInv DEF OInv, BInv
<1>1. ASSUME NEW r \in Request, CallBegins(r) \/ CallContinues(r)
      PROVE  GrantsOK' /\ AddressesOK' /\ OpenTicketStarted'
  <2>1. \A id \in Ticket : Kept(id)
    BY <1>0, <1>1, CallKeeps
  <2>2. OnlyCall(r)
    BY <1>0, <1>1, CallKinds, NoWriteStep, WriteStep, CreateTicketStep, BatchTicketStep,
       CreateTicketBatchStep DEF CallStep
  <2>3. \A q \in Request \ {r} : GrantOK(req'[q], ticket')
    BY <1>0, <2>1, <2>2, GrantLater DEF GrantsOK, OnlyCall
  <2>4. GrantsOK'
    BY <1>1, <2>1, <2>3, OwnGrant DEF GrantsOK
  <2> QED
    BY <1>1, <2>1, <2>4, AddressStep, OpenStep
<1>2. ASSUME \A id \in Ticket : Kept(id),
             \A id \in Ticket : ticket'[id].ip = ticket[id].ip,
             activeClients' \subseteq activeClients, openedFor' = openedFor,
             req' = req \/ req' = [r \in Request |-> IdleCall]
      PROVE  GrantsOK' /\ AddressesOK' /\ OpenTicketStarted'
  <2>1. ASSUME req' = req PROVE GrantsOK'
    BY <1>0, <1>2, <2>1, GrantLater DEF GrantsOK
  <2>2. ASSUME req' = [r \in Request |-> IdleCall] PROVE GrantsOK'
    BY <2>2 DEF GrantsOK, GrantOK, IdleCall, GrantStep, ReleaseStep, BatchStep
  <2>3. AddressesOK'
    BY <1>0, <1>2 DEF AddressesOK, Kept, Started
  <2>4. OpenTicketStarted'
    BY <1>0, <1>2, OpenLater
  <2> QED
    BY <1>2, <2>1, <2>2, <2>3, <2>4
<1>3. ASSUME NEW l \in Sweep, SweepStart(l) \/ SweepContinues(l)
      PROVE  GrantsOK' /\ AddressesOK' /\ OpenTicketStarted'
  <2>1. \A id \in Ticket : Kept(id)
    BY <1>0, <1>3, SweepKeeps
  <2>2. /\ req' = req /\ openedFor' = openedFor
        /\ activeClients' \subseteq activeClients
    BY <1>3 DEF SweepContinues, SweepStart, SweepRead, SweepTime, SweepSpare,
       SweepExpire, SweepRevoke, SweepUnshadow, SweepUnsession, kernel, Nft
  <2>3. \A id \in Ticket : ticket'[id].ip = ticket[id].ip
    <3>1. CASE SweepExpire(l)
      <4>1. ticket' = [ticket EXCEPT ![sweep[l].id].status = "expired"]
        BY <3>1 DEF SweepExpire
      <4>2. ticket \in [Ticket -> Record]
        BY <1>0 DEF IInv, TypeOK
      <4> QED
        BY <4>1, <4>2 DEF Record
    <3>2. CASE ~ SweepExpire(l)
      BY <1>3, <3>2 DEF SweepContinues, SweepStart, SweepRead, SweepTime, SweepSpare,
         SweepRevoke, SweepUnshadow, SweepUnsession, records
    <3> QED
      BY <3>1, <3>2
  <2> QED
    BY <1>2, <2>1, <2>2, <2>3
<1>4. CASE Tick \/ Restart \/ ElementTimeout \/ UNCHANGED vars
  <2>1. /\ req' = req /\ ticket' = ticket /\ openedFor' = openedFor
        /\ activeClients' \subseteq activeClients
    BY <1>4 DEF Tick, Restart, ElementTimeout, vars, records, kernel, Nft
  <2>2. \A id \in Ticket : Kept(id)
    BY <2>1 DEF Kept
  <2> QED
    BY <1>0, <1>2, <2>1, <2>2 DEF OInv
<1>5. CASE Crash \/ Stop
  <2>1. /\ req' = [r \in Request |-> IdleCall] /\ ticket' = ticket
        /\ openedFor' = openedFor /\ activeClients' \subseteq activeClients
    BY <1>5 DEF Crash, Stop, Halt, Nft, records
  <2>2. \A id \in Ticket : Kept(id)
    BY <2>1 DEF Kept
  <2> QED
    BY <1>0, <1>2, <2>1, <2>2 DEF OInv
<1> QED
  BY <1>0, <1>1, <1>2, <1>3, <1>4, <1>5 DEF Next, OInv

(* The firewall lets nobody through whose ticket was never issued or, if   *)
(* corrido, has no start and would be measured from its creation only: for *)
(* any number of tickets, overlapping calls and sweeps, with failing nft   *)
(* commands, crashes and pauses of unknown ids.                            *)
THEOREM AccessSold == Spec => []OpenTicketStarted
<1>1. Spec => []OInv
  BY InitOInv, NextOInv, PTL DEF Spec
<1> QED
  BY <1>1, PTL DEF OInv

=============================================================================
