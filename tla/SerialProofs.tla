---------------------------- MODULE SerialProofs ----------------------------
(***************************************************************************)
(* What HotspotManager keeps as long as no two calls about the same ticket *)
(* (for BindingKept: the same device) overlap, whatever calls about others *)
(* do in the meantime, and with any number of sweeps and crashes.  Without *)
(* that condition each of these properties fails: the code neither locks a *)
(* ticket nor compares before it writes.                                   *)
(*                                                                         *)
(* The condition is []ApartTickets (or []ApartDevices), next to Spec.  The *)
(* invariant says that what a call read is still so: of everything a call  *)
(* holds, only the status may have moved, because only sweeps are left.    *)
(***************************************************************************)
EXTENDS BindingProofs

-----------------------------------------------------------------------------
(* What a call read is current                                             *)

(* s tells the pauses of the paused ticket t.                              *)
Agree(s, t) ==
  /\ t.paused
  /\ s.pausedAt = t.pausedAt
  /\ s.totalPaused = t.totalPaused
  /\ s.expires = t.expires

ReliesOnTicket ==
  {"resume_write", "resume_grant", "pause_write", "pause_revoke"}
    \cup ActivateStep

(* What the call c relies on in the hash t of its ticket                   *)
Current(c, t) ==
  /\ c.pc = "resume_write" => Agree(c.snap, t)
  /\ c.pc = "act_start" => c.snap.start = t.start
  /\ c.pc \in ActivateStep \cup {"resume_grant"} => ~ t.paused
  /\ c.pc \in {"pause_write", "pause_revoke"} => c.ip = t.ip

CallCurrent(r) == req[r].id # NoTicket => Current(req[r], ticket[req[r].id])

CallsCurrent == \A r \in Request : CallCurrent(r)

(* The hash of an id not issued yet holds at most a pause.                 *)
BlankUntilIssued ==
  \A id \in Ticket :
    ~ Issued(id) => ticket[id].expires = 0 /\ ticket[id].start = 0

SInv == IInv /\ CallsCurrent /\ BlankUntilIssued

-----------------------------------------------------------------------------
(* What a write does to the ticket                                         *)

SamePauses(t, u) ==
  /\ u.paused = t.paused /\ u.pausedAt = t.pausedAt
  /\ u.totalPaused = t.totalPaused
  /\ u.created = t.created /\ u.expires = t.expires
  /\ u.profile = t.profile

(* The five writes of calls, field by field                                *)
StartWrite(c, t, u) ==
  SamePauses(t, u) /\ u.start = IF c.snap.start = 0 THEN now ELSE t.start
BalanceWrite(t, u) == SamePauses(t, u) /\ u.start = t.start
HoldWrite(t, u) ==
  /\ u.paused /\ u.pausedAt = now
  /\ u.totalPaused = t.totalPaused
  /\ u.created = t.created /\ u.expires = t.expires
  /\ u.start = t.start /\ u.ip = t.ip
ReleaseWrite(s, t, u) ==
  /\ ~ u.paused
  /\ u.totalPaused = s.totalPaused + PauseLength(s, now)
  /\ u.created = t.created /\ u.expires = s.expires + PauseLength(s, now)
  /\ u.start = t.start /\ u.ip = t.ip

LEMMA WriteFields ==
  ASSUME IInv, NEW r \in Request, WriteAction(r), NEW id, id = req[r].id
  PROVE  /\ id \in Ticket
         /\ \A o \in Ticket \ {id} : ticket'[o] = ticket[o]
         /\ ticket'[id].status \in {ticket[id].status, "expired"}
         /\ ActStart(r) => StartWrite(req[r], ticket[id], ticket'[id])
         /\ ActWrite(r) \/ ActSpent(r) => BalanceWrite(ticket[id], ticket'[id])
         /\ PauseWrite(r) => HoldWrite(ticket[id], ticket'[id])
         /\ ResumeWrite(r) => ReleaseWrite(req[r].snap, ticket[id], ticket'[id])
<1>1. id \in Ticket
  <2>1. req[r].pc \in WithTicket
    BY DEF WriteAction, ActStart, ActWrite, ActSpent, PauseWrite, ResumeWrite, At,
           WithTicket, RequestStep, ActivateStep, Answered
  <2> QED
    BY <2>1, CallFacts DEF CallOK
<1>2. ticket \in [Ticket -> Record] /\ ticket[id] \in Record
  BY <1>1 DEF IInv, TypeOK
<1>3. ASSUME ActStart(r)
      PROVE  /\ StartWrite(req[r], ticket[id], ticket'[id])
             /\ ticket'[id].status \in {ticket[id].status, "expired"}
             /\ \A o \in Ticket \ {id} : ticket'[o] = ticket[o]
  <2>1. ticket' = [ticket EXCEPT ![id].ip = req[r].ip,
                     ![id].start = IF req[r].snap.start = 0 THEN now ELSE @]
    BY <1>3 DEF ActStart
  <2> QED
    BY <1>1, <1>2, <2>1 DEF StartWrite, SamePauses, Record
<1>4. ASSUME ActWrite(r)
      PROVE  /\ BalanceWrite(ticket[id], ticket'[id])
             /\ ticket'[id].status \in {ticket[id].status, "expired"}
             /\ \A o \in Ticket \ {id} : ticket'[o] = ticket[o]
  <2>1. ticket' = [ticket EXCEPT ![id].ip = req[r].ip, ![id].remaining = req[r].at]
    BY <1>4 DEF ActWrite
  <2> QED
    BY <1>1, <1>2, <2>1 DEF BalanceWrite, SamePauses, Record
<1>5. ASSUME ActSpent(r)
      PROVE  /\ BalanceWrite(ticket[id], ticket'[id])
             /\ ticket'[id].status \in {ticket[id].status, "expired"}
             /\ \A o \in Ticket \ {id} : ticket'[o] = ticket[o]
  <2>1. ticket' = [ticket EXCEPT ![id].status = "expired"]
    BY <1>5 DEF ActSpent
  <2> QED
    BY <1>1, <1>2, <2>1 DEF BalanceWrite, SamePauses, Record
<1>6. ASSUME PauseWrite(r)
      PROVE  /\ HoldWrite(ticket[id], ticket'[id])
             /\ ticket'[id].status \in {ticket[id].status, "expired"}
             /\ \A o \in Ticket \ {id} : ticket'[o] = ticket[o]
  <2>1. ticket' = [ticket EXCEPT ![id].paused = TRUE, ![id].pausedAt = now]
    BY <1>6 DEF PauseWrite
  <2> QED
    BY <1>1, <1>2, <2>1 DEF HoldWrite, Record
<1>7. ASSUME ResumeWrite(r)
      PROVE  /\ ReleaseWrite(req[r].snap, ticket[id], ticket'[id])
             /\ ticket'[id].status \in {ticket[id].status, "expired"}
             /\ \A o \in Ticket \ {id} : ticket'[o] = ticket[o]
  <2> DEFINE t == Resumed(ticket[id], req[r].snap, now)
  <2>1. ticket' = [ticket EXCEPT ![id] = t]
    BY <1>7 DEF ResumeWrite
  <2>2. ReleaseWrite(req[r].snap, ticket[id], t) /\ t.status = ticket[id].status
    BY <1>2 DEF ReleaseWrite, Resumed, Record
  <2> HIDE DEF t
  <2> QED
    BY <1>1, <1>2, <2>1, <2>2
<1> QED
  BY <1>1, <1>3, <1>4, <1>5, <1>6, <1>7 DEF WriteAction

(* A call writes the hash of no ticket but its own.                        *)
LEMMA OthersUntouched ==
  ASSUME IInv, NEW r \in Request, CallBegins(r) \/ CallContinues(r),
         NEW o \in Ticket, o # req[r].id, o # req'[r].id
  PROVE  ticket'[o] = ticket[o]
<1>0. req \in [Request -> Call] /\ ticket \in [Ticket -> Record]
  BY DEF IInv, TypeOK
<1>1. CASE CreateTicket(r) \/ BatchTicket(r)
  <2>1. CASE CreateTicket(r)
    <3>1. PICK id \in Ticket, d \in Durations :
            /\ ticket' = [ticket EXCEPT ![id] = NewTicket("pausado", now, d, 0)]
            /\ req' = [req EXCEPT ![r] =
                         [IdleCall EXCEPT !.pc = "create_index", !.id = id]]
      BY <2>1 DEF CreateTicket
    <3>2. req'[r].id = id
      BY <1>0, <3>1 DEF IdleCall
    <3> QED
      BY <1>0, <3>1, <3>2
  <2>2. CASE BatchTicket(r)
    <3>1. PICK id \in req[r].batch :
            /\ ticket' = [ticket EXCEPT ![id] = req[r].snap]
            /\ req' = [req EXCEPT ![r].pc = "batch_member", ![r].id = id,
                                  ![r].batch = @ \ {id}]
      BY <2>2 DEF BatchTicket
    <3>2. req'[r].id = id
      BY <1>0, <3>1 DEF Call
    <3> QED
      BY <1>0, <3>1, <3>2
  <2> QED
    BY <1>1, <2>1, <2>2
<1>2. CASE CreateTicketBatch(r)
  BY <1>2 DEF CreateTicketBatch, records
<1>3. CASE PcAction(r) \/ AnswerAction(r) \/ ReadAction(r)
  BY <1>3, NoWriteStep DEF records
<1>4. CASE WriteAction(r)
  BY <1>4, WriteFields
<1> QED
  BY <1>1, <1>2, <1>3, <1>4, CallKinds

-----------------------------------------------------------------------------
(* The step of a call leaves what it relies on from then on current        *)

(* The call is done, or at a step that relies on nothing.                  *)
LEMMA RestsOnNothing ==
  ASSUME NEW c, NEW t, c.pc \notin ReliesOnTicket
  PROVE  Current(c, t)
  BY DEF Current, ReliesOnTicket, ActivateStep

LEMMA ReadLoginCurrent ==
  ASSUME IInv, NEW r \in Request, NEW id \in Ticket, NEW mac \in Mac \cup {NoMac},
         NEW ip \in Ip \cup {NoIp}, ReadForLogin(r, id, mac, ip), ticket' = ticket
  PROVE  CallCurrent(r)'
<1> DEFINE t == ticket[id]
           first == IF t.profile = "corrido" THEN "act_start" ELSE "act_ttl"
           c == [IdleCall EXCEPT !.pc = first, !.id = id, !.mac = mac,
                                 !.ip = ip, !.snap = t]
<1>0. req \in [Request -> Call]
  BY DEF IInv, TypeOK
<1>1. CASE ~ Running(t)
  <2>1. Answer(r, "failed")
    BY <1>1 DEF ReadForLogin
  <2>2. req'[r].pc = "failed"
    BY <2>1, AnswerPc
  <2>3. req'[r].pc \notin ReliesOnTicket
    BY <2>2 DEF ReliesOnTicket, ActivateStep
  <2> QED
    BY <2>3, RestsOnNothing DEF CallCurrent
<1>2. CASE Running(t)
  <2>1. req'[r] = c
    BY <1>0, <1>2 DEF ReadForLogin
  <2>2. c.pc \in {"act_start", "act_ttl"} /\ c.id = id /\ c.snap = t
    BY DEF IdleCall
  <2>3. ~ t.paused
    BY <1>2 DEF Running
  <2> HIDE DEF c
  <2>4. Current(c, t)
    BY <2>2, <2>3 DEF Current
  <2> QED
    BY <2>1, <2>2, <2>4 DEF CallCurrent
<1> QED
  BY <1>1, <1>2

(* The steps after which the call relies on nothing                        *)
PlainAction(r) ==
  \/ CreateTicket(r) \/ CreateTicketBatch(r) \/ BatchTicket(r)
  \/ BatchMember(r) \/ BatchIndex(r) \/ CreateIndex(r)
  \/ CheckAuto(r) \/ AutoTicket(r) \/ AutoUnbind(r) \/ AutoTime(r)
  \/ ActMeta(r) \/ ActShape(r) \/ ActSpent(r) \/ PauseRevoke(r) \/ ResumeGrant(r)

LEMMA PlainStep ==
  ASSUME IInv, NEW r \in Request, PlainAction(r)
  PROVE  CallCurrent(r)'
<1>0. req \in [Request -> Call] /\ req[r] \in Call
  BY DEF IInv, TypeOK
<1>1. ASSUME NEW reply \in {"ok", "failed"}, Answer(r, reply)
      PROVE  req'[r].pc \notin ReliesOnTicket
  BY <1>1, AnswerPc DEF ReliesOnTicket, ActivateStep
<1>2. ASSUME CreateIndex(r) \/ AutoUnbind(r) \/ ActMeta(r) \/ ActShape(r)
             \/ ActSpent(r) \/ PauseRevoke(r) \/ ResumeGrant(r)
      PROVE  req'[r].pc \notin ReliesOnTicket
  BY <1>1, <1>2 DEF CreateIndex, AutoUnbind, ActMeta, ActShape, ActSpent,
                    PauseRevoke, ResumeGrant
<1>3. ASSUME CreateTicket(r) \/ CreateTicketBatch(r)
      PROVE  req'[r].pc \in {"create_index", "batch_ticket"}
  <2>1. ASSUME CreateTicket(r) PROVE req'[r].pc = "create_index"
    BY <1>0, <2>1 DEF CreateTicket, IdleCall
  <2>2. ASSUME CreateTicketBatch(r) PROVE req'[r].pc = "batch_ticket"
    BY <1>0, <2>2 DEF CreateTicketBatch, IdleCall
  <2> QED
    BY <1>3, <2>1, <2>2
<1>4. ASSUME BatchTicket(r) \/ BatchMember(r) \/ AutoTime(r)
      PROVE  req'[r].pc \in {"batch_member", "batch_index", "auto_verdict"}
  BY <1>0, <1>4 DEF BatchTicket, BatchMember, AutoTime, Call
<1>5. ASSUME BatchIndex(r) \/ AutoTicket(r), \A reply \in {"ok", "failed"} : ~ Answer(r, reply)
      PROVE  req'[r].pc \in {"batch_ticket", "auto_time", "auto_unbind"}
  BY <1>0, <1>5 DEF BatchIndex, AutoTicket, Call
<1>6. ASSUME CheckAuto(r), ~ Answer(r, "failed")
      PROVE  req'[r].pc = "auto_ticket"
  BY <1>0, <1>6 DEF CheckAuto, IdleCall
<1>7. {"create_index", "batch_ticket", "batch_member", "batch_index", "auto_ticket",
       "auto_time", "auto_unbind", "auto_verdict"} \cap ReliesOnTicket = {}
  BY DEF ReliesOnTicket, ActivateStep
<1>8. req'[r].pc \notin ReliesOnTicket
  BY <1>1, <1>2, <1>3, <1>4, <1>5, <1>6, <1>7 DEF PlainAction
<1> QED
  BY <1>8, RestsOnNothing DEF CallCurrent

(* The steps of a login that write no hash                                 *)
OnwardAction(r) ==
  \/ ActClock(r) \/ ActTtl(r) \/ ActSession(r) \/ ActShadow(r) \/ ActMac(r)
  \/ ActIp(r) \/ ActGrant(r) \/ ActOnline(r)

LEMMA OnwardStep ==
  ASSUME IInv, NEW r \in Request, CallCurrent(r), OnwardAction(r)
  PROVE  CallCurrent(r)'
<1>0. req \in [Request -> Call] /\ req[r] \in Call
  BY DEF IInv, TypeOK
<1>1. req[r].pc \in ActivateStep
  BY DEF OnwardAction, ActClock, ActTtl, ActSession, ActShadow, ActMac, ActIp,
         ActGrant, ActOnline, At, ActivateStep
<1>2. AfterShadow(r) \in {"act_mac", "act_ip", "act_shape"}
  BY DEF AfterShadow
<1>3. /\ req'[r].pc \in ActivateStep \ {"act_start"} /\ req'[r].id = req[r].id
  <2>1. CASE ActClock(r) \/ ActShadow(r)
    BY <1>0, <1>2, <2>1 DEF ActClock, ActShadow, Call, ActivateStep
  <2>2. CASE ActTtl(r) \/ ActSession(r)
    BY <1>0, <2>2 DEF ActTtl, ActSession, Call, ActivateStep
  <2>3. CASE ActMac(r) \/ ActIp(r) \/ ActGrant(r) \/ ActOnline(r)
    BY <1>0, <2>3 DEF ActMac, ActIp, ActGrant, ActOnline, Call, ActivateStep
  <2> QED
    BY <2>1, <2>2, <2>3 DEF OnwardAction
<1>4. ticket' = ticket
  BY DEF OnwardAction, ActClock, ActTtl, ActSession, ActShadow, ActMac, ActIp,
         ActGrant, ActOnline, records
<1>5. req[r].id # NoTicket => ~ ticket[req[r].id].paused
  BY <1>1 DEF CallCurrent, Current
<1>6. /\ req'[r].pc \notin {"resume_write", "act_start", "pause_write", "pause_revoke"}
  BY <1>3 DEF ActivateStep
<1> QED
  BY <1>3, <1>4, <1>5, <1>6 DEF CallCurrent, Current

LEMMA CallStaysCurrent ==
  ASSUME IInv, NEW r \in Request, CallCurrent(r), CallBegins(r) \/ CallContinues(r)
  PROVE  CallCurrent(r)'
<1>0. req \in [Request -> Call] /\ req[r] \in Call /\ ticket \in [Ticket -> Record]
  BY DEF IInv, TypeOK
<1>1. CASE Activate(r)
  <2>1. PICK id \in Ticket, mac \in Mac \cup {NoMac}, ip \in Ip \cup {NoIp} :
           ReadForLogin(r, id, mac, ip)
    BY <1>1 DEF Activate
  <2>2. ticket' = ticket
    BY <1>1 DEF Activate, records
  <2> QED
    BY <2>1, <2>2, ReadLoginCurrent
<1>2. CASE AutoVerdict(r)
  <2>1. /\ ticket' = ticket /\ req[r].id \in Ticket
        /\ req[r].mac \in Mac \cup {NoMac} /\ req[r].ip \in Ip \cup {NoIp}
    BY <1>0, <1>2, CallFacts DEF AutoVerdict, records, At, CallOK, WithTicket, RequestStep,
       Answered, Call
  <2>2. CASE Answer(r, "failed")
    <3>1. req'[r].pc \notin ReliesOnTicket
      BY <2>2, AnswerPc DEF ReliesOnTicket, ActivateStep
    <3> QED
      BY <3>1, RestsOnNothing DEF CallCurrent
  <2>3. CASE ReadForLogin(r, req[r].id, req[r].mac, req[r].ip)
    BY <2>1, <2>3, ReadLoginCurrent
  <2> QED
    BY <1>2, <2>2, <2>3 DEF AutoVerdict
<1>3. ASSUME NEW reply \in {"ok", "failed"}, Answer(r, reply)
      PROVE  CallCurrent(r)'
  <2>1. req'[r].pc \notin ReliesOnTicket
    BY <1>3, AnswerPc DEF ReliesOnTicket, ActivateStep
  <2> QED
    BY <2>1, RestsOnNothing DEF CallCurrent
<1>4. CASE PauseTicket(r)
  <2>1. PICK id \in Ticket :
          \/ Answer(r, "failed")
          \/ req' = [req EXCEPT ![r] = [IdleCall EXCEPT !.pc = "pause_write",
                                        !.id = id, !.ip = ticket[id].ip]]
    BY <1>4 DEF PauseTicket
  <2>2. CASE req' = [req EXCEPT ![r] = [IdleCall EXCEPT !.pc = "pause_write",
                                        !.id = id, !.ip = ticket[id].ip]]
    <3>1. req'[r].pc = "pause_write" /\ req'[r].id = id /\ req'[r].ip = ticket[id].ip
      BY <1>0, <2>2 DEF IdleCall
    <3>2. ticket' = ticket
      BY <1>4 DEF PauseTicket, records
    <3> QED
      BY <3>1, <3>2 DEF CallCurrent, Current, ActivateStep
  <2> QED
    BY <1>3, <2>1, <2>2
<1>5. CASE ResumeTicket(r)
  <2>1. PICK id \in Ticket :
          \/ Answer(r, "failed")
          \/ /\ ticket[id].paused
             /\ req' = [req EXCEPT ![r] = [IdleCall EXCEPT !.pc = "resume_write",
                          !.id = id, !.ip = ticket[id].ip, !.snap = ticket[id]]]
    BY <1>5 DEF ResumeTicket
  <2>2. CASE /\ ticket[id].paused
             /\ req' = [req EXCEPT ![r] = [IdleCall EXCEPT !.pc = "resume_write",
                          !.id = id, !.ip = ticket[id].ip, !.snap = ticket[id]]]
    <3>1. req'[r].pc = "resume_write" /\ req'[r].id = id /\ req'[r].snap = ticket[id]
      BY <1>0, <2>2 DEF IdleCall
    <3>2. ticket' = ticket
      BY <1>5 DEF ResumeTicket, records
    <3> QED
      BY <2>2, <3>1, <3>2 DEF CallCurrent, Current, Agree, ActivateStep
  <2> QED
    BY <1>3, <2>1, <2>2
<1>6. CASE ActStart(r) \/ ActWrite(r)
  <2>1. req[r].pc \in ActivateStep
    BY <1>6 DEF ActStart, ActWrite, At, ActivateStep
  <2>2. AfterShadow(r) \in {"act_mac", "act_ip", "act_shape"}
    BY DEF AfterShadow
  <2>3. req'[r].pc \in ActivateStep \ {"act_start"} /\ req'[r].id = req[r].id
    BY <1>0, <1>6, <2>2 DEF ActStart, ActWrite, Call, ActivateStep
  <2>4. req[r].id \in Ticket /\ ticket'[req[r].id].paused = ticket[req[r].id].paused
    BY <1>6, WriteFields DEF WriteAction, StartWrite, BalanceWrite, SamePauses
  <2>5. ~ ticket[req[r].id].paused
    BY <2>1, <2>4, NullAssumption DEF CallCurrent, Current
  <2>6. req'[r].pc \notin {"resume_write", "act_start", "pause_write", "pause_revoke"}
    BY <2>3 DEF ActivateStep
  <2> QED
    BY <2>3, <2>4, <2>5, <2>6 DEF CallCurrent, Current
<1>7. CASE PauseWrite(r)
  <2>1. CASE Answer(r, "ok")
    BY <1>3, <2>1
  <2>2. CASE req' = [req EXCEPT ![r].pc = "pause_revoke"]
    <3>1. req'[r].pc = "pause_revoke" /\ req'[r].id = req[r].id /\ req'[r].ip = req[r].ip
      BY <1>0, <2>2 DEF Call
    <3>2. req[r].id \in Ticket /\ ticket'[req[r].id].ip = ticket[req[r].id].ip
      BY <1>7, WriteFields DEF WriteAction, HoldWrite
    <3>3. req[r].ip = ticket[req[r].id].ip
      BY <1>7, <3>2, NullAssumption DEF PauseWrite, At, CallCurrent, Current
    <3> QED
      BY <3>1, <3>2, <3>3 DEF CallCurrent, Current, ActivateStep
  <2> QED
    BY <1>7, <2>1, <2>2 DEF PauseWrite
<1>8. CASE ResumeWrite(r)
  <2>1. CASE Answer(r, "ok")
    BY <1>3, <2>1
  <2>2. CASE req' = [req EXCEPT ![r].pc = "resume_grant", ![r].snap = Blank]
    <3>1. req'[r].pc = "resume_grant" /\ req'[r].id = req[r].id
      BY <1>0, <2>2 DEF Call
    <3>2. req[r].id \in Ticket /\ ~ ticket'[req[r].id].paused
      BY <1>8, WriteFields DEF WriteAction, ReleaseWrite
    <3> QED
      BY <3>1, <3>2 DEF CallCurrent, Current, ActivateStep
  <2> QED
    BY <1>8, <2>1, <2>2 DEF ResumeWrite
<1> QED
  BY <1>1, <1>2, <1>4, <1>5, <1>6, <1>7, <1>8, PlainStep, OnwardStep
  DEF CallBegins, CallContinues, PlainAction, OnwardAction

-----------------------------------------------------------------------------
(* The invariant is inductive                                              *)

(* A step of a call moves no other call.                                   *)
LEMMA CallTouchesOne ==
  ASSUME IInv, NEW r \in Request, CallBegins(r) \/ CallContinues(r)
  PROVE  OnlyCall(r)
<1>1. CASE CreateTicket(r) \/ BatchTicket(r)
  BY <1>1, CreateTicketStep, BatchTicketStep DEF CallStep
<1>2. CASE CreateTicketBatch(r)
  BY <1>2, CreateTicketBatchStep
<1>3. CASE PcAction(r) \/ AnswerAction(r) \/ ReadAction(r) \/ WriteAction(r)
  BY <1>3, NoWriteStep, WriteStep DEF CallStep
<1> QED
  BY <1>1, <1>2, <1>3, CallKinds

(* A call writes nothing but pauses, addresses and balances to the hash of *)
(* an id not issued.                                                       *)
LEMMA UnissuedUntouched ==
  ASSUME IInv, NEW r \in Request, CallBegins(r) \/ CallContinues(r),
         NEW o \in Ticket, ~ Issued(o)'
  PROVE  /\ ticket'[o].expires = ticket[o].expires
         /\ ticket'[o].start = ticket[o].start
<1>1. ~ Issued(o)
  BY CallKeeps DEF Kept, Issued
<1>2. CASE CreateTicket(r) \/ BatchTicket(r)
  <2>1. PICK id \in Ticket : NewlyIssued(id)
    BY <1>2, CreateTicketStep, BatchTicketStep DEF NewlyIssued
  <2>2. id # o
    BY <2>1 DEF NewlyIssued, Issued
  <2> QED
    BY <2>1, <2>2 DEF NewlyIssued, IInv, TypeOK
<1>3. CASE CreateTicketBatch(r)
  BY <1>3 DEF CreateTicketBatch, records
<1>4. CASE PcAction(r) \/ AnswerAction(r) \/ ReadAction(r)
  BY <1>4, NoWriteStep DEF records
<1>5. CASE WriteAction(r)
  <2>1. CASE o # req[r].id
    BY <1>5, <2>1, WriteFields
  <2>2. CASE o = req[r].id
    <3>1. ~ ActStart(r) /\ ~ ResumeWrite(r)
      <4>1. req[r].pc \notin {"act_start", "resume_write"}
        BY <1>1, <2>2, CallFacts, NullAssumption DEF CallOK, Issued
      <4> QED
        BY <4>1 DEF ActStart, ResumeWrite, At
    <3>2. ActWrite(r) \/ ActSpent(r) => BalanceWrite(ticket[o], ticket'[o])
      BY <1>5, <2>2, WriteFields
    <3>3. PauseWrite(r) => HoldWrite(ticket[o], ticket'[o])
      BY <1>5, <2>2, WriteFields
    <3> QED
      BY <1>5, <3>1, <3>2, <3>3 DEF WriteAction, BalanceWrite, SamePauses, HoldWrite
  <2> QED
    BY <2>1, <2>2
<1> QED
  BY <1>2, <1>3, <1>4, <1>5, CallKinds

(* A call touches nothing the other calls rely on.                         *)
LEMMA CallSInv ==
  ASSUME SInv, ApartTickets, ApartTickets',
         NEW r \in Request, CallBegins(r) \/ CallContinues(r)
  PROVE  CallsCurrent' /\ BlankUntilIssued'
<1>0. IInv
  BY DEF SInv
<1>1. CallCurrent(r)'
  BY <1>0, CallStaysCurrent DEF SInv, CallsCurrent
<1>2. ASSUME NEW q \in Request, q # r
      PROVE  CallCurrent(q)'
  <2>1. req'[q] = req[q]
    BY <1>0, <1>2, CallTouchesOne DEF OnlyCall
  <2>2. ASSUME req[q].id # NoTicket
        PROVE  ticket'[req[q].id] = ticket[req[q].id]
    <3>1. req[q].id \in Ticket
      BY <1>0, <2>2, CallFacts DEF Call
    <3>2. req[q].id # req[r].id /\ req[q].id # req'[r].id
      BY <1>2, <2>1, <2>2 DEF ApartTickets
    <3> QED
      BY <1>0, <3>1, <3>2, OthersUntouched
  <2>3. CallCurrent(q)
    BY DEF SInv, CallsCurrent
  <2> QED
    BY <2>1, <2>2, <2>3 DEF CallCurrent
<1>3. CallsCurrent'
  BY <1>1, <1>2 DEF CallsCurrent
<1>4. BlankUntilIssued'
  <2> SUFFICES ASSUME NEW o \in Ticket, ~ Issued(o)'
               PROVE  ticket'[o].expires = 0 /\ ticket'[o].start = 0
    BY DEF BlankUntilIssued
  <2>1. ~ Issued(o)
    BY <1>0, CallKeeps DEF Kept, Issued
  <2> QED
    BY <1>0, <2>1, UnissuedUntouched DEF SInv, BlankUntilIssued
<1> QED
  BY <1>3, <1>4

(* A sweep writes nothing but the status.                                  *)
SameButStatus(t, u) ==
  /\ u.paused = t.paused /\ u.pausedAt = t.pausedAt
  /\ u.totalPaused = t.totalPaused
  /\ u.created = t.created /\ u.expires = t.expires
  /\ u.start = t.start /\ u.ip = t.ip /\ u.profile = t.profile

LEMMA SweepWrites ==
  ASSUME IInv, NEW l \in Sweep, SweepStart(l) \/ SweepContinues(l),
         NEW o \in Ticket
  PROVE  SameButStatus(ticket[o], ticket'[o]) /\ req' = req /\ now' = now
<1>0. ticket \in [Ticket -> Record] /\ ticket[o] \in Record
  BY DEF IInv, TypeOK
<1>1. req' = req /\ now' = now
  BY DEF SweepStart, SweepContinues, SweepRead, SweepTime, SweepSpare, SweepExpire,
         SweepRevoke, SweepUnshadow, SweepUnsession, clock
<1>2. CASE SweepExpire(l)
  <2>1. ticket' = [ticket EXCEPT ![sweep[l].id].status = "expired"]
    BY <1>2 DEF SweepExpire
  <2> QED
    BY <1>0, <1>1, <2>1 DEF SameButStatus, Record
<1>3. CASE ~ SweepExpire(l)
  <2>1. ticket' = ticket
    BY <1>3 DEF SweepStart, SweepContinues, SweepRead, SweepTime, SweepSpare,
                SweepRevoke, SweepUnshadow, SweepUnsession, records
  <2> QED
    BY <1>1, <2>1 DEF SameButStatus
<1> QED
  BY <1>2, <1>3

LEMMA SweepSInv ==
  ASSUME SInv, NEW l \in Sweep, SweepStart(l) \/ SweepContinues(l)
  PROVE  CallsCurrent' /\ BlankUntilIssued'
<1>0. IInv
  BY DEF SInv
<1>1. \A o \in Ticket : SameButStatus(ticket[o], ticket'[o])
  BY <1>0, SweepWrites
<1>2. ASSUME NEW r \in Request
      PROVE  CallCurrent(r)'
  <2>1. req' = req
    BY <1>0, SweepWrites DEF SweepStart, SweepContinues, SweepRead, SweepTime,
       SweepSpare, SweepExpire, SweepRevoke, SweepUnshadow, SweepUnsession
  <2>2. ASSUME req[r].id # NoTicket
        PROVE  Current(req[r], ticket'[req[r].id])
    <3>1. req[r].id \in Ticket
      BY <1>0, <2>2, CallFacts DEF Call
    <3>2. Current(req[r], ticket[req[r].id])
      BY <2>2 DEF SInv, CallsCurrent, CallCurrent
    <3> QED
      BY <1>1, <3>1, <3>2 DEF Current, Agree, SameButStatus
  <2> QED
    BY <2>1, <2>2 DEF CallCurrent
<1>3. ASSUME NEW o \in Ticket, ~ Issued(o)'
      PROVE  ticket'[o].expires = 0 /\ ticket'[o].start = 0
  <2>1. ~ Issued(o)
    BY <1>0, <1>3, SweepKeeps DEF Kept, Issued
  <2> QED
    BY <1>1, <2>1 DEF SInv, BlankUntilIssued, SameButStatus
<1> QED
  BY <1>2, <1>3 DEF CallsCurrent, BlankUntilIssued

(* The steps of the environment leave the tickets alone and may end calls. *)
LEMMA EnvironmentSInv ==
  ASSUME SInv,
         Tick \/ Crash \/ Stop \/ Restart \/ ElementTimeout \/ UNCHANGED vars
  PROVE  CallsCurrent' /\ BlankUntilIssued'
<1>1. ticket' = ticket
  BY DEF Tick, Crash, Stop, Halt, Restart, ElementTimeout, vars, records
<1>2. \/ req' = req
      \/ req' = [r \in Request |-> IdleCall]
  BY DEF Tick, Crash, Stop, Halt, Restart, ElementTimeout, vars
<1>3. IdleCall.id = NoTicket
  BY DEF IdleCall
<1> QED
  BY <1>1, <1>2, <1>3 DEF SInv, CallsCurrent, CallCurrent, BlankUntilIssued, Issued

LEMMA InitSInv == Init => SInv
<1> SUFFICES ASSUME Init PROVE SInv
  OBVIOUS
<1>1. \A r \in Request : req[r].id = NoTicket
  BY DEF Init, IdleCall
<1>2. \A id \in Ticket : ticket[id].expires = 0 /\ ticket[id].start = 0
  BY DEF Init, Blank
<1> QED
  BY <1>1, <1>2, InitIInv DEF SInv, CallsCurrent, CallCurrent, BlankUntilIssued

LEMMA NextSInv == SInv /\ ApartTickets /\ ApartTickets' /\ [Next]_vars => SInv'
<1> SUFFICES ASSUME SInv, ApartTickets, ApartTickets', [Next]_vars PROVE SInv'
  OBVIOUS
<1>1. IInv'
  BY NextIInv DEF SInv
<1>2. ASSUME NEW r \in Request, CallBegins(r) \/ CallContinues(r)
      PROVE  CallsCurrent' /\ BlankUntilIssued'
  BY <1>2, CallSInv
<1>3. ASSUME NEW l \in Sweep, SweepStart(l) \/ SweepContinues(l)
      PROVE  CallsCurrent' /\ BlankUntilIssued'
  BY <1>3, SweepSInv
<1>4. CASE Tick \/ Crash \/ Stop \/ Restart \/ ElementTimeout \/ UNCHANGED vars
  BY <1>1, <1>4, EnvironmentSInv DEF SInv
<1> QED
  BY <1>1, <1>2, <1>3, <1>4 DEF Next, SInv

(* What every call holds is current as long as the calls about one ticket  *)
(* do not overlap.                                                         *)
THEOREM CallsApart == Spec /\ []ApartTickets => []SInv
  BY InitSInv, NextSInv, PTL DEF Spec

-----------------------------------------------------------------------------
(* What a step may do to a ticket                                          *)

(* The hash t of a ticket has become u, and the clock went from n to m:    *)
(* nothing was taken from the ticket or given to it.                       *)
Honest(t, u, n, m) ==
  /\ u.expires >= t.expires
  /\ t.start # 0 => u.start = t.start
  /\ Running(t) /\ t.profile = "pausado" => Remaining(u, m) <= Remaining(t, n)

LEMMA HonestTime ==
  ASSUME NEW t \in Record, NEW u, SameButStatus(t, u),
         NEW n \in Nat, NEW m \in Nat, n <= m
  PROVE  Honest(t, u, n, m)
<1>1. /\ t.created \in Nat /\ t.expires \in Nat /\ t.totalPaused \in Nat
      /\ t.pausedAt \in Nat
  BY DEF Record
<1>2. CASE t.paused
  BY <1>1, <1>2 DEF SameButStatus, Honest, Running
<1>3. CASE ~ t.paused
  <2>1. TimeUsed(t, n) = n - t.created - t.totalPaused
    BY <1>3 DEF TimeUsed
  <2>2. TimeUsed(u, m) = m - t.created - t.totalPaused
    BY <1>3 DEF TimeUsed, SameButStatus
  <2>3. TimeUsed(t, n) <= TimeUsed(u, m) /\ TimeUsed(t, n) \in Int /\ TimeUsed(u, m) \in Int
    BY <1>1, <2>1, <2>2
  <2>4. Lifetime(u) = Lifetime(t) /\ Lifetime(t) \in Int
    BY <1>1 DEF Lifetime, SameButStatus
  <2>5. Remaining(u, m) <= Remaining(t, n)
    BY <2>3, <2>4 DEF Remaining
  <2> QED
    BY <1>1, <2>5 DEF Honest, SameButStatus
<1> QED
  BY <1>2, <1>3

(* A login writes nothing the balance is computed from.                    *)
LEMMA HonestLogin ==
  ASSUME NEW t \in Record, NEW u, SamePauses(t, u), NEW n \in Nat,
         t.start # 0 => u.start = t.start
  PROVE  Honest(t, u, n, n)
<1>1. /\ t.created \in Nat /\ t.expires \in Nat /\ t.totalPaused \in Nat
      /\ t.pausedAt \in Nat
  BY DEF Record
<1>2. TimeUsed(u, n) = TimeUsed(t, n) /\ TimeUsed(t, n) \in Int
  BY <1>1 DEF TimeUsed, SamePauses
<1>3. Lifetime(u) = Lifetime(t) /\ Lifetime(t) \in Int
  BY <1>1 DEF Lifetime, SamePauses
<1>4. Remaining(u, n) = Remaining(t, n) /\ Remaining(t, n) \in Int
  BY <1>2, <1>3 DEF Remaining
<1> QED
  BY <1>1, <1>4 DEF Honest, SamePauses

(* A pause stops the clock at the balance it finds.                        *)
LEMMA HonestHold ==
  ASSUME IInv, NEW t \in Record, NEW u, HoldWrite(t, u)
  PROVE  Honest(t, u, now, now)
<1>1. /\ t.created \in Nat /\ t.expires \in Nat /\ t.totalPaused \in Nat
      /\ t.pausedAt \in Nat /\ now \in Nat /\ now # 0
  BY DEF Record, IInv, TypeOK
<1>2. ASSUME Running(t)
      PROVE  Remaining(u, now) <= Remaining(t, now)
  <2>1. TimeUsed(t, now) = now - t.created - t.totalPaused
    BY <1>2 DEF TimeUsed, Running
  <2>2. TimeUsed(u, now) = now - t.created - t.totalPaused
    BY <1>1 DEF TimeUsed, HoldWrite
  <2>3. Lifetime(u) = Lifetime(t) /\ Lifetime(t) \in Int
    BY <1>1 DEF Lifetime, HoldWrite
  <2>4. TimeUsed(t, now) \in Int
    BY <1>1, <2>1
  <2> QED
    BY <2>1, <2>2, <2>3, <2>4 DEF Remaining
<1> QED
  BY <1>1, <1>2 DEF Honest, HoldWrite

LEMMA WriteHonest ==
  ASSUME SInv, NEW r \in Request, WriteAction(r), NEW id, id = req[r].id
  PROVE  Honest(ticket[id], ticket'[id], now, now)
<1>0. IInv /\ CallCurrent(r)
  BY DEF SInv, CallsCurrent
<1>1. /\ id \in Ticket /\ ticket[id] \in Record /\ now \in Nat
      /\ ticket[id].status # "none" => ticket[id].pausedAt <= now
  BY <1>0, WriteFields, TicketFields DEF SoundAt
<1>2. id # NoTicket /\ Current(req[r], ticket[id])
  BY <1>0, <1>1, NullAssumption DEF CallCurrent
<1>3. CASE ActStart(r)
  <2>1. StartWrite(req[r], ticket[id], ticket'[id])
    BY <1>0, <1>3, WriteFields DEF WriteAction
  <2>2. req[r].snap.start = ticket[id].start
    BY <1>2, <1>3 DEF ActStart, At, Current
  <2> QED
    BY <1>1, <2>1, <2>2, HonestLogin DEF StartWrite
<1>4. CASE ActWrite(r) \/ ActSpent(r)
  <2>1. BalanceWrite(ticket[id], ticket'[id])
    BY <1>0, <1>4, WriteFields DEF WriteAction
  <2> QED
    BY <1>1, <2>1, HonestLogin DEF BalanceWrite
<1>5. CASE PauseWrite(r)
  <2>1. HoldWrite(ticket[id], ticket'[id])
    BY <1>0, <1>5, WriteFields DEF WriteAction
  <2> QED
    BY <1>0, <1>1, <2>1, HonestHold
<1>6. CASE ResumeWrite(r)
  <2>1. ReleaseWrite(req[r].snap, ticket[id], ticket'[id])
    BY <1>0, <1>6, WriteFields DEF WriteAction
  <2>2. req[r].pc = "resume_write"
    BY <1>6 DEF ResumeWrite, At
  <2>3. Agree(req[r].snap, ticket[id])
    BY <1>2, <2>2 DEF Current
  <2>4. ticket[id].status # "none"
    BY <1>0, <1>2, <2>2, CallFacts DEF CallOK
  <2>5. ticket[id].expires \in Nat /\ ticket[id].pausedAt \in Nat
    BY <1>0, <1>1, TicketFields
  <2>6. ticket'[id].expires >= ticket[id].expires
    BY <1>1, <2>1, <2>3, <2>4, <2>5 DEF ReleaseWrite, Agree, PauseLength
  <2>7. ~ Running(ticket[id])
    BY <2>3 DEF Agree, Running
  <2> QED
    BY <2>1, <2>6, <2>7 DEF Honest, ReleaseWrite
<1> QED
  BY <1>3, <1>4, <1>5, <1>6 DEF WriteAction

LEMMA CallHonest ==
  ASSUME SInv, NEW r \in Request, CallBegins(r) \/ CallContinues(r),
         NEW o \in Ticket
  PROVE  Honest(ticket[o], ticket'[o], now, now)
<1>0. IInv /\ ticket \in [Ticket -> Record] /\ ticket[o] \in Record /\ now \in Nat
  BY DEF SInv, IInv, TypeOK
<1>1. ASSUME ticket'[o] = ticket[o]
      PROVE  Honest(ticket[o], ticket'[o], now, now)
  BY <1>0, <1>1, HonestTime DEF SameButStatus
<1>2. CASE CreateTicket(r) \/ BatchTicket(r)
  <2>1. PICK id \in Ticket : NewlyIssued(id)
    BY <1>0, <1>2, CreateTicketStep, BatchTicketStep DEF NewlyIssued
  <2>2. CASE o # id
    BY <1>0, <1>1, <2>1, <2>2 DEF NewlyIssued
  <2>3. CASE o = id
    <3>1. ticket[o].status = "none" /\ ticket'[o] \in Record
      BY <2>1, <2>3 DEF NewlyIssued, Issued
    <3>2. ticket[o].expires = 0 /\ ticket[o].start = 0
      BY <3>1 DEF SInv, BlankUntilIssued, Issued
    <3>3. ticket'[o].expires \in Nat
      BY <3>1 DEF Record
    <3> QED
      BY <3>1, <3>2, <3>3 DEF Honest, Running
  <2> QED
    BY <2>2, <2>3
<1>3. CASE CreateTicketBatch(r)
  BY <1>1, <1>3 DEF CreateTicketBatch, records
<1>4. CASE PcAction(r) \/ AnswerAction(r) \/ ReadAction(r)
  BY <1>0, <1>1, <1>4, NoWriteStep DEF records
<1>5. CASE WriteAction(r)
  <2>1. CASE o = req[r].id
    BY <1>5, <2>1, WriteHonest
  <2>2. CASE o # req[r].id
    BY <1>0, <1>1, <1>5, <2>2, WriteFields
  <2> QED
    BY <2>1, <2>2
<1> QED
  BY <1>2, <1>3, <1>4, <1>5, CallKinds

LEMMA StepHonest ==
  ASSUME SInv, [Next]_vars, NEW o \in Ticket
  PROVE  Honest(ticket[o], ticket'[o], now, now')
<1>0. IInv /\ ticket[o] \in Record /\ now \in Nat
  BY DEF SInv, IInv, TypeOK
<1>1. ASSUME NEW r \in Request, CallBegins(r) \/ CallContinues(r)
      PROVE  Honest(ticket[o], ticket'[o], now, now')
  <2>1. now' = now
    BY <1>1 DEF CallBegins, CallContinues, CreateTicket, CreateTicketBatch, Activate,
         CheckAuto, PauseTicket, ResumeTicket, CreateIndex, BatchTicket,
         BatchMember, BatchIndex, AutoTicket, AutoUnbind, AutoTime, AutoVerdict,
         ActStart, ActClock, ActSpent, ActTtl, ActWrite, ActSession, ActShadow,
         ActMac, ActIp, ActGrant, ActOnline, ActMeta, ActShape, PauseWrite,
         PauseRevoke, ResumeWrite, ResumeGrant, clock
  <2> QED
    BY <1>1, <2>1, CallHonest
<1>2. ASSUME NEW l \in Sweep, SweepStart(l) \/ SweepContinues(l)
      PROVE  Honest(ticket[o], ticket'[o], now, now')
  BY <1>0, <1>2, SweepWrites, HonestTime
<1>3. CASE Tick \/ Crash \/ Stop \/ Restart \/ ElementTimeout \/ UNCHANGED vars
  <2>1. ticket' = ticket /\ now' \in {now, now + 1}
    BY <1>3 DEF Tick, Crash, Stop, Halt, Restart, ElementTimeout, vars, clock, records
  <2>2. SameButStatus(ticket[o], ticket'[o]) /\ now' \in Nat /\ now <= now'
    BY <1>0, <2>1 DEF SameButStatus
  <2> QED
    BY <1>0, <2>2, HonestTime
<1> QED
  BY <1>1, <1>2, <1>3 DEF Next

-----------------------------------------------------------------------------
(* What calls that do not overlap keep of a ticket                         *)

(* No pause, resume, login or expiry takes hours away: a resume adds to    *)
(* the expires_at that is still there.  With two resumes of one ticket in  *)
(* progress the older read wins.                                           *)
THEOREM AllowanceKept == Spec /\ []ApartTickets => AllowanceNeverShrinks
<1>1. SInv /\ [Next]_vars
        => [\A id \in Ticket : ticket'[id].expires >= ticket[id].expires]_vars
  BY StepHonest DEF Honest
<1> QED
  BY <1>1, CallsApart, PTL DEF Spec, AllowanceNeverShrinks

(* Time in use is never given back: only a held ticket is credited a       *)
(* pause.  With two resumes in progress the second credits a ticket that   *)
(* is running again.                                                       *)
THEOREM BalanceSpent == Spec /\ []ApartTickets => BalanceNeverGrowsInUse
<1>1. SInv /\ [Next]_vars
        => [\A id \in Ticket :
              Running(ticket[id]) /\ ticket[id].profile = "pausado"
                => Remaining(ticket'[id], now') <= Remaining(ticket[id], now)]_vars
  BY StepHonest DEF Honest
<1> QED
  BY <1>1, CallsApart, PTL DEF Spec, BalanceNeverGrowsInUse

(* The clock of a corrido ticket is started once.  With two first logins   *)
(* in progress the later one starts it again.                              *)
THEOREM StartFixed == Spec /\ []ApartTickets => FirstLoginFixesStart
<1>1. SInv /\ [Next]_vars
        => [\A id \in Ticket : ticket[id].start # 0
              => ticket'[id].start = ticket[id].start]_vars
  BY StepHonest DEF Honest
<1> QED
  BY <1>1, CallsApart, PTL DEF Spec, FirstLoginFixesStart

(* What is left of a ticket, below 0 when it is overdrawn                  *)
Balance(t, at) == Lifetime(t) - TimeUsed(t, at)

(* A resume adds the length of the pause to the balance the ticket was     *)
(* paused with: resumeTicket puts it into expires_at and into              *)
(* total_paused_ms, and getTicketTimeUsed credits both.                    *)
ResumeGivesPause ==
  [][\A r \in Request : ResumeWrite(r) =>
       LET id == req[r].id
       IN  Balance(ticket'[id], now)
             = Balance(ticket[id], now) + PauseLength(ticket[id], now)]_vars

(* Every pause has a beginning.                                            *)
HeldSince == \A id \in Ticket : ticket[id].paused => ticket[id].pausedAt # 0

LEMMA HeldKept ==
  ASSUME SInv, HeldSince, [Next]_vars
  PROVE  HeldSince'
<1>0. IInv /\ now \in Nat /\ now >= 1
  BY DEF SInv, IInv, TypeOK
<1> SUFFICES ASSUME NEW o \in Ticket
             PROVE  ticket'[o].paused => ticket'[o].pausedAt # 0
  BY DEF HeldSince
<1>1. ASSUME /\ ticket'[o].paused = ticket[o].paused
             /\ ticket'[o].pausedAt = ticket[o].pausedAt
      PROVE  ticket'[o].paused => ticket'[o].pausedAt # 0
  BY <1>1 DEF HeldSince
<1>2. ASSUME NEW r \in Request, CallBegins(r) \/ CallContinues(r)
      PROVE  ticket'[o].paused => ticket'[o].pausedAt # 0
  <2>1. CASE CreateTicket(r) \/ BatchTicket(r)
    <3>1. PICK id \in Ticket : NewlyIssued(id)
      BY <1>0, <2>1, CreateTicketStep, BatchTicketStep DEF NewlyIssued
    <3>2. o # id => ticket'[o] = ticket[o]
      BY <1>0, <3>1 DEF NewlyIssued, IInv, TypeOK
    <3> QED
      BY <1>1, <3>1, <3>2 DEF NewlyIssued
  <2>2. CASE CreateTicketBatch(r)
    BY <1>1, <2>2 DEF CreateTicketBatch, records
  <2>3. CASE PcAction(r) \/ AnswerAction(r) \/ ReadAction(r)
    BY <1>0, <1>1, <2>3, NoWriteStep DEF records
  <2>4. CASE WriteAction(r)
    <3>1. CASE o # req[r].id
      BY <1>0, <1>1, <2>4, <3>1, WriteFields
    <3>2. CASE o = req[r].id
      <4>1. CASE ActStart(r) \/ ActWrite(r) \/ ActSpent(r)
        <5>1. SamePauses(ticket[o], ticket'[o])
          BY <1>0, <2>4, <3>2, <4>1, WriteFields DEF StartWrite, BalanceWrite
        <5> QED
          BY <1>1, <5>1 DEF SamePauses
      <4>2. CASE PauseWrite(r)
        BY <1>0, <2>4, <3>2, <4>2, WriteFields DEF HoldWrite
      <4>3. CASE ResumeWrite(r)
        BY <1>0, <2>4, <3>2, <4>3, WriteFields DEF ReleaseWrite
      <4> QED
        BY <2>4, <4>1, <4>2, <4>3 DEF WriteAction
    <3> QED
      BY <3>1, <3>2
  <2> QED
    BY <1>2, <2>1, <2>2, <2>3, <2>4, CallKinds
<1>3. ASSUME NEW l \in Sweep, SweepStart(l) \/ SweepContinues(l)
      PROVE  ticket'[o].paused => ticket'[o].pausedAt # 0
  BY <1>0, <1>1, <1>3, SweepWrites DEF SameButStatus
<1>4. CASE Tick \/ Crash \/ Stop \/ Restart \/ ElementTimeout \/ UNCHANGED vars
  <2>1. ticket' = ticket
    BY <1>4 DEF Tick, Crash, Stop, Halt, Restart, ElementTimeout, vars, records
  <2> QED
    BY <1>1, <2>1
<1> QED
  BY <1>2, <1>3, <1>4 DEF Next

(* Time on hold is not just spared but given: for any ticket and any pause *)
(* a resume leaves more than there was before the pause, by the length of  *)
(* the pause, and one may pause again.  (With calls about one ticket that  *)
(* overlap it may also be another length.)                                 *)
THEOREM PauseGiven == Spec /\ []ApartTickets => ResumeGivesPause
<1>1. Init => HeldSince
  BY DEF Init, HeldSince, Blank
<1>2. SInv /\ HeldSince /\ [Next]_vars => HeldSince'
  BY HeldKept
<1>3. ASSUME SInv, HeldSince, NEW r \in Request, ResumeWrite(r), NEW id, id = req[r].id
      PROVE  Balance(ticket'[id], now)
               = Balance(ticket[id], now) + PauseLength(ticket[id], now)
  <2>0. IInv /\ CallCurrent(r) /\ req[r].pc = "resume_write"
    BY <1>3 DEF SInv, CallsCurrent, ResumeWrite, At
  <2>1. id \in Ticket /\ ReleaseWrite(req[r].snap, ticket[id], ticket'[id])
    BY <1>3, <2>0, WriteFields DEF WriteAction
  <2>2. Agree(req[r].snap, ticket[id])
    BY <1>3, <2>0, <2>1, NullAssumption DEF CallCurrent, Current
  <2>3. ticket[id] \in Record /\ now \in Nat
    BY <2>0, <2>1 DEF IInv, TypeOK
  <2>4. /\ ticket[id].paused /\ ticket[id].pausedAt # 0
        /\ ticket[id].pausedAt \in Nat /\ ticket[id].totalPaused \in Nat
        /\ ticket[id].created \in Nat /\ ticket[id].expires \in Nat
    BY <1>3, <2>1, <2>2, <2>3 DEF Agree, HeldSince, Record
  <2>5. /\ ~ ticket'[id].paused
        /\ ticket'[id].created = ticket[id].created
        /\ ticket'[id].totalPaused
             = ticket[id].totalPaused + (now - ticket[id].pausedAt)
        /\ ticket'[id].expires = ticket[id].expires + (now - ticket[id].pausedAt)
    BY <2>1, <2>2 DEF ReleaseWrite, Agree, PauseLength
  <2> QED
    BY <2>3, <2>4, <2>5 DEF Balance, Lifetime, TimeUsed, PauseLength
<1>4. SInv /\ HeldSince /\ [Next]_vars
        => [\A r \in Request : ResumeWrite(r) =>
              LET id == req[r].id
              IN  Balance(ticket'[id], now)
                    = Balance(ticket[id], now) + PauseLength(ticket[id], now)]_vars
  BY <1>3
<1> QED
  BY <1>1, <1>2, <1>4, CallsApart, PTL DEF Spec, ResumeGivesPause

-----------------------------------------------------------------------------
(* Access                                                                  *)

Closing(r, id) == req[r].id = id /\ req[r].pc = "pause_revoke"

(* A paused ticket that still has access is about to lose it.              *)
AccessClosing ==
  \A id \in Ticket :
    up /\ ticket[id].paused /\ HasAccess(id) => \E r \in Request : Closing(r, id)

AInv == SInv /\ AccessClosing

(* The steps of calls that change who has access                           *)
GateAction(r) == ActGrant(r) \/ ResumeGrant(r) \/ PauseRevoke(r)

LEMMA GatesKept ==
  ASSUME NEW r \in Request, CallBegins(r) \/ CallContinues(r), ~ GateAction(r)
  PROVE  activeClients' = activeClients /\ openedFor' = openedFor /\ up' = up
  BY DEF GateAction, CallBegins, CallContinues, CreateTicket, CreateTicketBatch, Activate,
         CheckAuto, PauseTicket, ResumeTicket, CreateIndex, BatchTicket,
         BatchMember, BatchIndex, AutoTicket, AutoUnbind, AutoTime, AutoVerdict,
         ActStart, ActClock, ActSpent, ActTtl, ActWrite, ActSession, ActShadow,
         ActMac, ActIp, ActOnline, ActMeta, ActShape, PauseWrite,
         ResumeWrite, clock, kernel

(* A call about to close an address does that next.                        *)
LEMMA ClosingCloses ==
  ASSUME NEW r \in Request, CallBegins(r) \/ CallContinues(r),
         req[r].pc = "pause_revoke"
  PROVE  PauseRevoke(r)
  BY DEF CallBegins, CallContinues, CreateTicket, CreateTicketBatch, Activate,
         CheckAuto, PauseTicket, ResumeTicket, CreateIndex, BatchTicket,
         BatchMember, BatchIndex, AutoTicket, AutoUnbind, AutoTime, AutoVerdict,
         ActStart, ActClock, ActSpent, ActTtl, ActWrite, ActSession, ActShadow,
         ActMac, ActIp, ActGrant, ActOnline, ActMeta, ActShape, PauseWrite,
         ResumeWrite, ResumeGrant, Begin, At, Answered

LEMMA GateAccess ==
  ASSUME ~ NftFaults, AInv, NEW r \in Request, GateAction(r)
  PROVE  AccessClosing'
<1>0. /\ IInv /\ CallCurrent(r) /\ OnlyCall(r) /\ ticket' = ticket /\ up' = up
      /\ openedFor \in [Ip -> Ticket \cup {NoTicket}] /\ activeClients \subseteq Ip
  <2>1. IInv /\ CallCurrent(r)
    BY DEF AInv, SInv, CallsCurrent
  <2>2. OnlyCall(r)
    BY <2>1, CallTouchesOne DEF GateAction, CallContinues
  <2>3. ticket' = ticket /\ up' = up
    BY DEF GateAction, ActGrant, ResumeGrant, PauseRevoke, records, clock
  <2> QED
    BY <2>1, <2>2, <2>3 DEF IInv, TypeOK
<1>1. req[r].id \in Ticket /\ req[r].ip \in Ip
  <2>1. req[r].pc \in WithTicket \cap WithIp
    BY DEF GateAction, ActGrant, ResumeGrant, PauseRevoke, At, WithTicket, WithIp,
           RequestStep, ActivateStep, Answered
  <2> QED
    BY <1>0, <2>1, CallFacts DEF CallOK
<1>2. Current(req[r], ticket[req[r].id])
  BY <1>0, <1>1, NullAssumption DEF CallCurrent
<1> SUFFICES ASSUME NEW id \in Ticket, up', ticket'[id].paused, HasAccess(id)'
             PROVE  \E q \in Request : Closing(q, id)'
  BY DEF AccessClosing
<1>3. ticket[id].paused /\ up
  BY <1>0
<1>4. HasAccess(id)
  <2>1. CASE ActGrant(r) \/ ResumeGrant(r)
    <3>1. req[r].pc \in ActivateStep \cup {"resume_grant"}
      BY <2>1 DEF ActGrant, ResumeGrant, At, ActivateStep
    <3>2. req[r].id # id
      BY <1>2, <1>3, <3>1 DEF Current
    <3>3. /\ activeClients' = activeClients \cup {req[r].ip}
          /\ openedFor' = [openedFor EXCEPT ![req[r].ip] = req[r].id]
      BY <2>1 DEF ActGrant, ResumeGrant, Nft
    <3>4. openedFor'[req[r].ip] = req[r].id
      BY <1>0, <1>1, <3>3
    <3>5. ticket[id].ip # req[r].ip
      BY <1>0, <3>2, <3>4 DEF HasAccess
    <3> QED
      BY <1>0, <3>3, <3>5 DEF HasAccess
  <2>2. CASE PauseRevoke(r)
    BY <1>0, <2>2 DEF PauseRevoke, Nft, HasAccess
  <2> QED
    BY <2>1, <2>2 DEF GateAction
<1>5. PICK q \in Request : Closing(q, id)
  BY <1>3, <1>4 DEF AInv, AccessClosing
<1>6. q # r
  <2>1. CASE ActGrant(r) \/ ResumeGrant(r)
    BY <1>5, <2>1 DEF ActGrant, ResumeGrant, At, Closing
  <2>2. CASE PauseRevoke(r)
    <3>1. activeClients' = activeClients \ {req[r].ip} /\ req[r].pc = "pause_revoke"
      BY <2>2 DEF PauseRevoke, Nft, At
    <3>2. req[r].ip = ticket[req[r].id].ip
      BY <1>2, <3>1 DEF Current
    <3>3. ticket[id].ip \in activeClients'
      BY <1>0 DEF HasAccess
    <3> QED
      BY <1>5, <3>1, <3>2, <3>3 DEF Closing
  <2> QED
    BY <2>1, <2>2 DEF GateAction
<1> QED
  BY <1>0, <1>5, <1>6 DEF Closing, OnlyCall

LEMMA CallAccess ==
  ASSUME AInv, NEW r \in Request, CallBegins(r) \/ CallContinues(r),
         ~ GateAction(r)
  PROVE  AccessClosing'
<1>0. IInv /\ CallCurrent(r) /\ OnlyCall(r)
  BY CallTouchesOne DEF AInv, SInv, CallsCurrent
<1>1. activeClients' = activeClients /\ openedFor' = openedFor /\ up' = up
  BY GatesKept
<1>2. req[r].pc # "pause_revoke"
  BY ClosingCloses DEF GateAction
<1> SUFFICES ASSUME NEW id \in Ticket, up', ticket'[id].paused, HasAccess(id)'
             PROVE  \E q \in Request : Closing(q, id)'
  BY DEF AccessClosing
<1>3. CASE ticket'[id] = ticket[id]
  <2>1. HasAccess(id) /\ ticket[id].paused /\ up
    BY <1>1, <1>3 DEF HasAccess
  <2>2. PICK q \in Request : Closing(q, id)
    BY <2>1 DEF AInv, AccessClosing
  <2>3. q # r
    BY <1>2, <2>2 DEF Closing
  <2> QED
    BY <1>0, <2>2, <2>3 DEF Closing, OnlyCall
<1>4. CASE CreateTicket(r) \/ BatchTicket(r)
  <2>1. PICK o \in Ticket : NewlyIssued(o)
    BY <1>0, <1>4, CreateTicketStep, BatchTicketStep DEF NewlyIssued
  <2>2. o # id
    BY <2>1 DEF NewlyIssued
  <2> QED
    BY <1>0, <1>3, <2>1, <2>2 DEF NewlyIssued, IInv, TypeOK
<1>5. CASE CreateTicketBatch(r)
  BY <1>3, <1>5 DEF CreateTicketBatch, records
<1>6. CASE PcAction(r) \/ AnswerAction(r) \/ ReadAction(r)
  BY <1>0, <1>3, <1>6, NoWriteStep DEF records
<1>7. CASE WriteAction(r)
  <2>1. CASE req[r].id # id
    BY <1>0, <1>3, <1>7, <2>1, WriteFields
  <2>2. CASE req[r].id = id
    <3>1. Current(req[r], ticket[id])
      BY <1>0, <2>2, NullAssumption DEF CallCurrent
    <3>2. ~ ActStart(r) /\ ~ ActWrite(r) /\ ~ ActSpent(r)
      <4>1. ASSUME ActStart(r) \/ ActWrite(r) \/ ActSpent(r) PROVE FALSE
        <5>1. ~ ticket[id].paused
          BY <3>1, <4>1 DEF ActStart, ActWrite, ActSpent, At, Current, ActivateStep
        <5>2. ticket'[id].paused = ticket[id].paused
          BY <1>0, <2>2, <4>1, WriteFields DEF WriteAction, StartWrite, BalanceWrite, SamePauses
        <5> QED
          BY <5>1, <5>2
      <4> QED
        BY <4>1
    <3>3. ~ ResumeWrite(r)
      BY <1>0, <2>2, WriteFields DEF WriteAction, ReleaseWrite
    <3>4. PauseWrite(r)
      BY <1>7, <3>2, <3>3 DEF WriteAction
    <3>5. ticket'[id].ip = ticket[id].ip
      BY <1>0, <2>2, <3>4, WriteFields DEF WriteAction, HoldWrite
    <3>6. req[r].ip = ticket[id].ip
      BY <3>1, <3>4 DEF PauseWrite, At, Current
    <3>7. req[r].ip # NoIp
      <4>1. ticket[id].ip \in activeClients
        BY <1>1, <3>5 DEF HasAccess
      <4> QED
        BY <1>0, <3>6, <4>1, NullAssumption DEF IInv, TypeOK
    <3>8. req' = [req EXCEPT ![r].pc = "pause_revoke"]
      BY <3>4, <3>7 DEF PauseWrite
    <3>9. req'[r].pc = "pause_revoke" /\ req'[r].id = id
      BY <1>0, <2>2, <3>8 DEF IInv, TypeOK, Call
    <3> QED
      BY <3>9 DEF Closing
  <2> QED
    BY <2>1, <2>2
<1> QED
  BY <1>4, <1>5, <1>6, <1>7, CallKinds

LEMMA SweepAccess ==
  ASSUME ~ NftFaults, AInv, NEW l \in Sweep, SweepStart(l) \/ SweepContinues(l)
  PROVE  AccessClosing'
<1>1. IInv /\ \A o \in Ticket : SameButStatus(ticket[o], ticket'[o])
  BY SweepWrites DEF AInv, SInv
<1>2. req' = req /\ up' = up /\ openedFor' = openedFor
  BY DEF SweepStart, SweepContinues, SweepRead, SweepTime, SweepSpare, SweepExpire,
         SweepRevoke, SweepUnshadow, SweepUnsession, clock, kernel
<1>3. activeClients' \subseteq activeClients
  BY DEF SweepStart, SweepContinues, SweepRead, SweepTime, SweepSpare, SweepExpire,
         SweepRevoke, SweepUnshadow, SweepUnsession, kernel, Nft
<1> SUFFICES ASSUME NEW id \in Ticket, up', ticket'[id].paused, HasAccess(id)'
             PROVE  \E q \in Request : Closing(q, id)'
  BY DEF AccessClosing
<1>4. up /\ ticket[id].paused /\ HasAccess(id)
  BY <1>1, <1>2, <1>3 DEF SameButStatus, HasAccess
<1> QED
  BY <1>2, <1>4 DEF AInv, AccessClosing, Closing

(* A restart finds no call in progress but leaves nobody access.           *)
LEMMA EnvironmentAccess ==
  ASSUME ~ NftFaults, AInv,
         Tick \/ Crash \/ Stop \/ Restart \/ ElementTimeout \/ UNCHANGED vars
  PROVE  AccessClosing'
<1>1. CASE Crash \/ Stop
  BY <1>1 DEF Crash, Stop, Halt, AccessClosing
<1>2. CASE Restart
  BY <1>2 DEF Restart, Nft, AccessClosing, HasAccess
<1>3. CASE Tick \/ ElementTimeout \/ UNCHANGED vars
  <2>1. /\ ticket' = ticket /\ req' = req /\ up' = up /\ openedFor' = openedFor
        /\ activeClients' \subseteq activeClients
    BY <1>3 DEF Tick, ElementTimeout, vars, clock, records, kernel
  <2> QED
    BY <2>1 DEF AInv, AccessClosing, HasAccess, Closing
<1> QED
  BY <1>1, <1>2, <1>3

(* As long as nft does its work and no two calls about one ticket overlap, *)
(* the firewall lets no paused ticket through at its address once the      *)
(* pause is answered; logins of others at that address, crashes and        *)
(* sweeps do not matter.                                                   *)
THEOREM PausedBlocked ==
  ASSUME ~ NftFaults
  PROVE  Spec /\ []ApartTickets => []PausedHasNoAccess
<1>1. Init => AInv
  BY InitSInv DEF AInv, AccessClosing, HasAccess, Init
<1>2. AInv /\ ApartTickets /\ ApartTickets' /\ [Next]_vars => AInv'
  <2> SUFFICES ASSUME AInv, ApartTickets, ApartTickets', [Next]_vars PROVE AInv'
    OBVIOUS
  <2>1. SInv'
    BY NextSInv DEF AInv
  <2>2. ASSUME NEW r \in Request, CallBegins(r) \/ CallContinues(r) PROVE AccessClosing'
    BY <2>2, GateAccess, CallAccess
  <2>3. ASSUME NEW l \in Sweep, SweepStart(l) \/ SweepContinues(l) PROVE AccessClosing'
    BY <2>3, SweepAccess
  <2>4. ASSUME Tick \/ Crash \/ Stop \/ Restart \/ ElementTimeout \/ UNCHANGED vars
        PROVE  AccessClosing'
    BY <2>4, EnvironmentAccess
  <2>5. AccessClosing'
    BY <2>2, <2>3, <2>4 DEF Next
  <2> QED
    BY <2>1, <2>5 DEF AInv
<1>3. AInv => PausedHasNoAccess
  BY DEF AInv, AccessClosing, PausedHasNoAccess, Closing
<1> QED
  BY <1>1, <1>2, <1>3, PTL DEF Spec

-----------------------------------------------------------------------------
(* The binding of a device                                                 *)

(* What the clean-up of check-auto relies on                               *)
Unbinding(c) == c.pc \in {"auto_ticket", "auto_unbind"}

CleanUp(c, mt, tk) ==
  /\ Unbinding(c) => mt[c.mac] = c.id
  /\ c.pc = "auto_unbind" => tk[c.id].status = "expired"

CleanUpsOK == \A r \in Request : CleanUp(req[r], macTicket, ticket)

CInv == BInv /\ CleanUpsOK

(* Only a binding and a clean-up write mac_to_ticket, for their device.    *)
LEMMA BindingWrites ==
  ASSUME IInv, NEW r \in Request, CallBegins(r) \/ CallContinues(r),
         NEW m \in Mac
  PROVE  \/ macTicket'[m] = macTicket[m]
         \/ m = req[r].mac /\ ActMac(r) /\ macTicket'[m] \in Ticket
         \/ m = req[r].mac /\ AutoUnbind(r)
<1>0. macTicket \in [Mac -> Ticket \cup {NoTicket}]
  BY DEF IInv, TypeOK
<1>1. CASE ActMac(r)
  <2>1. req[r].pc \in WithTicket /\ macTicket' = [macTicket EXCEPT ![req[r].mac] = req[r].id]
    BY <1>1 DEF ActMac, At, WithTicket, RequestStep, ActivateStep, Answered
  <2>2. req[r].id \in Ticket
    BY <2>1, CallFacts DEF CallOK
  <2> QED
    BY <1>0, <1>1, <2>1, <2>2
<1>2. CASE AutoUnbind(r)
  <2>1. macTicket' = [macTicket EXCEPT ![req[r].mac] = NoTicket]
    BY <1>2 DEF AutoUnbind
  <2> QED
    BY <1>0, <1>2, <2>1
<1>3. CASE ~ ActMac(r) /\ ~ AutoUnbind(r)
  <2>1. macTicket' = macTicket
    BY <1>3 DEF CallBegins, CallContinues, CreateTicket, CreateTicketBatch, Activate,
         CheckAuto, PauseTicket, ResumeTicket, CreateIndex, BatchTicket,
         BatchMember, BatchIndex, AutoTicket, AutoTime, AutoVerdict,
         ActStart, ActClock, ActSpent, ActTtl, ActWrite, ActSession, ActShadow,
         ActIp, ActGrant, ActOnline, ActMeta, ActShape, PauseWrite,
         PauseRevoke, ResumeWrite, ResumeGrant, keys
  <2> QED
    BY <2>1
<1> QED
  BY <1>1, <1>2, <1>3

(* An expired ticket stays so.                                             *)
LEMMA ExpiredStays ==
  ASSUME IInv, NEW r \in Request, CallBegins(r) \/ CallContinues(r),
         NEW o \in Ticket, ticket[o].status = "expired"
  PROVE  ticket'[o].status = "expired"
<1>1. CASE CreateTicket(r) \/ BatchTicket(r)
  <2>1. PICK id \in Ticket : NewlyIssued(id)
    BY <1>1, CreateTicketStep, BatchTicketStep DEF NewlyIssued
  <2> QED
    BY <2>1 DEF NewlyIssued, Issued, IInv, TypeOK
<1>2. CASE CreateTicketBatch(r)
  BY <1>2 DEF CreateTicketBatch, records
<1>3. CASE PcAction(r) \/ AnswerAction(r) \/ ReadAction(r)
  BY <1>3, NoWriteStep DEF records
<1>4. CASE WriteAction(r)
  <2>1. CASE o = req[r].id
    BY <1>4, <2>1, WriteFields
  <2>2. CASE o # req[r].id
    BY <1>4, <2>2, WriteFields
  <2> QED
    BY <2>1, <2>2
<1> QED
  BY <1>1, <1>2, <1>3, <1>4, CallKinds

(* Only CheckAuto and AutoTicket lead to the clean-up.                     *)
LEMMA PcAfter ==
  ASSUME IInv, NEW r \in Request, CallBegins(r) \/ CallContinues(r),
         ~ CheckAuto(r), ~ AutoTicket(r)
  PROVE  ~ Unbinding(req'[r])
<1>0. req \in [Request -> Call] /\ req[r] \in Call
  BY DEF IInv, TypeOK
<1>1. ASSUME NEW reply \in {"ok", "failed"}, Answer(r, reply)
      PROVE  ~ Unbinding(req'[r])
  BY <1>1, AnswerPc DEF Unbinding
<1>2. ASSUME NEW id, NEW mac, NEW ip, ReadForLogin(r, id, mac, ip)
      PROVE  ~ Unbinding(req'[r])
  <2>1. CASE ~ Running(ticket[id])
    BY <1>1, <1>2, <2>1 DEF ReadForLogin
  <2>2. CASE Running(ticket[id])
    <3>1. req'[r].pc = IF ticket[id].profile = "corrido" THEN "act_start" ELSE "act_ttl"
      BY <1>0, <1>2, <2>2 DEF ReadForLogin, IdleCall
    <3> QED
      BY <3>1 DEF Unbinding
  <2> QED
    BY <2>1, <2>2
<1>3. CASE Activate(r) \/ AutoVerdict(r)
  BY <1>1, <1>2, <1>3 DEF Activate, AutoVerdict
<1>4. CASE CreateIndex(r) \/ AutoUnbind(r) \/ ActMeta(r) \/ ActShape(r)
           \/ ActSpent(r) \/ PauseRevoke(r) \/ ResumeGrant(r)
  BY <1>1, <1>4 DEF CreateIndex, AutoUnbind, ActMeta, ActShape, ActSpent,
                    PauseRevoke, ResumeGrant
<1>5. CASE CreateTicket(r) \/ CreateTicketBatch(r)
  <2>1. ASSUME CreateTicket(r) PROVE req'[r].pc = "create_index"
    BY <1>0, <2>1 DEF CreateTicket, IdleCall
  <2>2. ASSUME CreateTicketBatch(r) PROVE req'[r].pc = "batch_ticket"
    BY <1>0, <2>2 DEF CreateTicketBatch, IdleCall
  <2> QED
    BY <1>5, <2>1, <2>2 DEF Unbinding
<1>6. CASE PauseTicket(r)
  <2>1. PICK id \in Ticket :
          \/ Answer(r, "failed")
          \/ req' = [req EXCEPT ![r] = [IdleCall EXCEPT !.pc = "pause_write",
                                        !.id = id, !.ip = ticket[id].ip]]
    BY <1>6 DEF PauseTicket
  <2>2. req'[r].pc = "pause_write" \/ Answer(r, "failed")
    BY <1>0, <2>1 DEF IdleCall
  <2> QED
    BY <1>1, <2>2 DEF Unbinding
<1>7. CASE ResumeTicket(r)
  <2>1. PICK id \in Ticket :
          \/ Answer(r, "failed")
          \/ req' = [req EXCEPT ![r] = [IdleCall EXCEPT !.pc = "resume_write",
                       !.id = id, !.ip = ticket[id].ip, !.snap = ticket[id]]]
    BY <1>7 DEF ResumeTicket
  <2>2. req'[r].pc = "resume_write" \/ Answer(r, "failed")
    BY <1>0, <2>1 DEF IdleCall
  <2> QED
    BY <1>1, <2>2 DEF Unbinding
<1>8. CASE BatchTicket(r) \/ BatchMember(r) \/ AutoTime(r)
  <2>1. req'[r].pc \in {"batch_member", "batch_index", "auto_verdict"}
    BY <1>0, <1>8 DEF BatchTicket, BatchMember, AutoTime, Call
  <2> QED
    BY <2>1 DEF Unbinding
<1>9. CASE BatchIndex(r) \/ PauseWrite(r) \/ ResumeWrite(r)
  <2>1. Answer(r, "ok") \/ req'[r].pc \in {"batch_ticket", "pause_revoke", "resume_grant"}
    BY <1>0, <1>9 DEF BatchIndex, PauseWrite, ResumeWrite, Call
  <2> QED
    BY <1>1, <2>1 DEF Unbinding
<1>10. CASE OnwardAction(r) \/ ActStart(r) \/ ActWrite(r)
  <2>1. AfterShadow(r) \in {"act_mac", "act_ip", "act_shape"}
    BY DEF AfterShadow
  <2>2. req'[r].pc \in ActivateStep
    <3>1. CASE ActClock(r) \/ ActShadow(r) \/ ActWrite(r) \/ ActStart(r)
      BY <1>0, <2>1, <3>1 DEF ActClock, ActShadow, ActWrite, ActStart, Call, ActivateStep
    <3>2. CASE ActTtl(r) \/ ActSession(r)
      BY <1>0, <3>2 DEF ActTtl, ActSession, Call, ActivateStep
    <3>3. CASE ActMac(r) \/ ActIp(r) \/ ActGrant(r) \/ ActOnline(r)
      BY <1>0, <3>3 DEF ActMac, ActIp, ActGrant, ActOnline, Call, ActivateStep
    <3> QED
      BY <1>10, <3>1, <3>2, <3>3 DEF OnwardAction
  <2> QED
    BY <2>2 DEF Unbinding, ActivateStep
<1> QED
  BY <1>3, <1>4, <1>5, <1>6, <1>7, <1>8, <1>9, <1>10
  DEF CallBegins, CallContinues, OnwardAction

(* The step of a call leaves its own clean-up in order ...                 *)
LEMMA OwnCleanUp ==
  ASSUME CInv, NEW r \in Request, CallBegins(r) \/ CallContinues(r)
  PROVE  CleanUp(req'[r], macTicket', ticket')
<1>0. /\ IInv /\ req \in [Request -> Call] /\ req[r] \in Call
      /\ ticket \in [Ticket -> Record]
  BY DEF CInv, BInv, IInv, TypeOK
<1>1. ASSUME NEW reply \in {"ok", "failed"}, Answer(r, reply)
      PROVE  ~ Unbinding(req'[r])
  BY <1>0, <1>1, AnswerPc DEF Unbinding
<1>2. CASE CheckAuto(r)
  <2>1. CASE Answer(r, "failed")
    BY <1>1, <2>1 DEF CleanUp, Unbinding
  <2>2. CASE ~ Answer(r, "failed")
    <3>1. PICK mac \in Mac, ip \in Ip \cup {NoIp} :
            req' = [req EXCEPT ![r] =
                       [IdleCall EXCEPT !.pc = "auto_ticket", !.mac = mac,
                                        !.ip = ip, !.id = macTicket[mac]]]
      BY <1>2, <2>2 DEF CheckAuto
    <3>2. /\ req'[r].pc = "auto_ticket" /\ req'[r].mac = mac
          /\ req'[r].id = macTicket[mac]
      BY <1>0, <3>1 DEF IdleCall
    <3>3. macTicket' = macTicket
      BY <1>2 DEF CheckAuto, keys
    <3> QED
      BY <3>2, <3>3 DEF CleanUp
  <2> QED
    BY <2>1, <2>2
<1>3. CASE AutoTicket(r)
  <2>1. CASE Answer(r, "failed")
    BY <1>1, <2>1 DEF CleanUp, Unbinding
  <2>2. CASE ~ Answer(r, "failed")
    <3>1. /\ req[r].pc = "auto_ticket" /\ macTicket' = macTicket /\ ticket' = ticket
          /\ ticket[req[r].id].status = "active" => ~ ticket[req[r].id].paused
          /\ req' = [req EXCEPT ![r].pc =
                       IF Running(ticket[req[r].id]) THEN "auto_time" ELSE "auto_unbind"]
      BY <1>3, <2>2 DEF AutoTicket, At, records, keys
    <3>2. /\ req'[r].mac = req[r].mac /\ req'[r].id = req[r].id
          /\ \/ req'[r].pc = "auto_time"
             \/ req'[r].pc = "auto_unbind" /\ ~ Running(ticket[req[r].id])
      BY <1>0, <3>1 DEF Call
    <3>3. req[r].id \in Ticket /\ req[r].mac \in Mac /\ macTicket[req[r].mac] = req[r].id
      BY <1>0, <3>1, CallFacts DEF CallOK, WithTicket, WithMac, RequestStep, Answered,
         CInv, CleanUpsOK, CleanUp, Unbinding
    <3>4. ticket[req[r].id].status # "none"
      BY <3>3, NullAssumption DEF CInv, BInv, BoundTicketStarted, Started
    <3>5. ticket[req[r].id].status \in {"none", "active", "expired"}
      BY <1>0, <3>3 DEF Record
    <3>6. ~ Running(ticket[req[r].id]) => ticket[req[r].id].status = "expired"
      BY <3>1, <3>4, <3>5 DEF Running
    <3> QED
      BY <3>1, <3>2, <3>3, <3>6 DEF CleanUp
  <2> QED
    BY <2>1, <2>2
<1>4. CASE ~ CheckAuto(r) /\ ~ AutoTicket(r)
  <2>1. ~ Unbinding(req'[r])
    BY <1>0, <1>1, <1>4, PcAfter DEF Unbinding
  <2> QED
    BY <2>1 DEF CleanUp, Unbinding
<1> QED
  BY <1>2, <1>3, <1>4

(* ... and, with another device, everybody else's.                         *)
LEMMA OthersCleanUp ==
  ASSUME CInv, ApartDevices, NEW r \in Request, CallBegins(r) \/ CallContinues(r),
         NEW q \in Request, q # r
  PROVE  CleanUp(req'[q], macTicket', ticket')
<1>0. IInv /\ CleanUp(req[q], macTicket, ticket) /\ CallOK(req[q], now, ticket, sold)
  BY CallFacts DEF CInv, BInv, CleanUpsOK
<1>1. req'[q] = req[q]
  BY <1>0, CallTouchesOne DEF OnlyCall
<1>2. ASSUME Unbinding(req[q])
      PROVE  macTicket'[req[q].mac] = macTicket[req[q].mac]
  <2>1. req[q].mac \in Mac
    BY <1>0, <1>2 DEF CallOK, WithMac, Unbinding
  <2>2. req[q].mac # req[r].mac
    BY <2>1, NullAssumption DEF ApartDevices
  <2> QED
    BY <1>0, <2>1, <2>2, BindingWrites
<1>3. ASSUME req[q].pc = "auto_unbind"
      PROVE  ticket'[req[q].id].status = "expired"
  <2>1. req[q].id \in Ticket
    BY <1>0, <1>3 DEF CallOK, WithTicket, RequestStep, Answered
  <2> QED
    BY <1>0, <1>3, <2>1, ExpiredStays DEF CleanUp
<1> QED
  BY <1>0, <1>1, <1>2, <1>3 DEF CleanUp

LEMMA InitCInv == Init => CInv
<1> SUFFICES ASSUME Init PROVE CInv
  OBVIOUS
<1>1. \A r \in Request : req[r].pc = "free"
  BY DEF Init, IdleCall
<1> QED
  BY <1>1, InitBInv DEF CInv, CleanUpsOK, CleanUp, Unbinding

LEMMA NextCInv == CInv /\ ApartDevices /\ [Next]_vars => CInv'
<1> SUFFICES ASSUME CInv, ApartDevices, [Next]_vars PROVE CInv'
  OBVIOUS
<1>0. BInv' /\ IInv
  BY NextBInv DEF CInv, BInv
<1>1. ASSUME NEW r \in Request, CallBegins(r) \/ CallContinues(r) PROVE CleanUpsOK'
  BY <1>1, OwnCleanUp, OthersCleanUp DEF CleanUpsOK
<1>2. ASSUME NEW l \in Sweep, SweepStart(l) \/ SweepContinues(l) PROVE CleanUpsOK'
  <2>1. /\ req' = req /\ macTicket' = macTicket
        /\ \/ ticket' = ticket
           \/ ticket' = [ticket EXCEPT ![sweep[l].id].status = "expired"]
    BY <1>2 DEF SweepContinues, SweepStart, SweepRead, SweepTime, SweepSpare,
       SweepExpire, SweepRevoke, SweepUnshadow, SweepUnsession, keys, records
  <2>2. ticket \in [Ticket -> Record]
    BY <1>0 DEF IInv, TypeOK
  <2>3. \A o \in Ticket : ticket[o].status = "expired" => ticket'[o].status = "expired"
    BY <2>1, <2>2 DEF Record
  <2>4. \A r \in Request : req[r].pc = "auto_unbind" => req[r].id \in Ticket
    BY <1>0, CallFacts DEF CallOK, WithTicket, RequestStep, Answered
  <2> QED
    BY <2>1, <2>3, <2>4 DEF CInv, CleanUpsOK, CleanUp
<1>3. ASSUME Tick \/ Crash \/ Stop \/ Restart \/ ElementTimeout \/ UNCHANGED vars
      PROVE  CleanUpsOK'
  <2>1. macTicket' = macTicket /\ ticket' = ticket
    BY <1>3 DEF Tick, Crash, Stop, Halt, Restart, ElementTimeout, vars, keys, records
  <2>2. req' = req \/ req' = [r \in Request |-> IdleCall]
    BY <1>3 DEF Tick, Crash, Stop, Halt, Restart, ElementTimeout, vars
  <2>3. IdleCall.pc = "free"
    BY DEF IdleCall
  <2> QED
    BY <2>1, <2>2, <2>3 DEF CInv, CleanUpsOK, CleanUp, Unbinding
<1>4. CleanUpsOK'
  BY <1>1, <1>2, <1>3 DEF Next
<1> QED
  BY <1>0, <1>4 DEF CInv

(* check-auto only forgets a device whose ticket is over, as long as no    *)
(* two calls about one device overlap.  Otherwise it may delete the        *)
(* binding that a login with a new ticket has just written.                *)
THEOREM BindingsApart == Spec /\ []ApartDevices => BindingKept
<1>1. Spec /\ []ApartDevices => []CInv
  BY InitCInv, NextCInv, PTL DEF Spec
<1>2. ASSUME CInv, [Next]_vars, NEW m \in Mac, NEW id \in Ticket,
             macTicket[m] = id, ticket[id].status = "active"
      PROVE  macTicket'[m] # NoTicket
  <2>0. IInv /\ id # NoTicket
    BY <1>2, NullAssumption DEF CInv, BInv
  <2>1. ASSUME NEW r \in Request, CallBegins(r) \/ CallContinues(r)
        PROVE  macTicket'[m] # NoTicket
    <3>1. ~ (m = req[r].mac /\ AutoUnbind(r))
      BY <1>2 DEF AutoUnbind, At, CInv, CleanUpsOK, CleanUp, Unbinding
    <3> QED
      BY <1>2, <2>0, <2>1, <3>1, BindingWrites, NullAssumption
  <2>2. ASSUME NEW l \in Sweep, SweepStart(l) \/ SweepContinues(l)
        PROVE  macTicket' = macTicket
    BY <2>2 DEF SweepContinues, SweepStart, SweepRead, SweepTime, SweepSpare,
       SweepExpire, SweepRevoke, SweepUnshadow, SweepUnsession, keys
  <2>3. ASSUME Tick \/ Crash \/ Stop \/ Restart \/ ElementTimeout \/ UNCHANGED vars
        PROVE  macTicket' = macTicket
    BY <2>3 DEF Tick, Crash, Stop, Halt, Restart, ElementTimeout, vars, keys
  <2> QED
    BY <1>2, <2>0, <2>1, <2>2, <2>3 DEF Next
<1>3. CInv /\ [Next]_vars
        => [\A m \in Mac : \A id \in Ticket :
              macTicket[m] = id /\ ticket[id].status = "active"
                => macTicket'[m] # NoTicket]_vars
  BY <1>2
<1> QED
  BY <1>1, <1>3, PTL DEF Spec, BindingKept

=============================================================================
