---------------------------- MODULE HotspotProofs ----------------------------
(***************************************************************************)
(* Theorems of Hotspot for any number of tickets, calls and sweeps, any    *)
(* durations and any bounds: type correctness, the ticket ledger and the   *)
(* refinement of TicketLifecycle.                                          *)
(*                                                                         *)
(* The inductive invariant says that every hash still held by a handler is *)
(* a sound past state of its ticket.  Soundness only mentions the clock,   *)
(* which grows, and two values fixed when the ticket is issued; so what a  *)
(* handler holds stays sound whatever the others do (CallLater, LoopLater) *)
(* and a step has only to be checked against the handler that takes it.    *)
(***************************************************************************)
EXTENDS Hotspot, TLAPS

-----------------------------------------------------------------------------
(* The inductive invariant                                                 *)

(* Sound, with the clock n, the creation time c and the sold time s made   *)
(* explicit                                                                *)
SoundAt(t, n, c, s) ==
  /\ t.status # "none"
  /\ t.created = c
  /\ t.expires = c + s + t.totalPaused
  /\ c + t.totalPaused <= (IF t.paused THEN t.pausedAt ELSE n)
  /\ t.pausedAt <= n
  /\ t.start # 0 => c <= t.start /\ t.start <= n

(* t is a ticket as createTicketBatch writes it.                           *)
Template(t, n) ==
  /\ t.status = "active" /\ t.created \in 1 .. n
  /\ Lifetime(t) \in Durations
  /\ ~ t.paused /\ t.pausedAt = 0 /\ t.totalPaused = 0 /\ t.start = 0

BatchStep == {"batch_ticket", "batch_member", "batch_index"}
WithTicket == RequestStep \ (Answered \cup {"batch_ticket"})
WithMac == {"auto_ticket", "auto_unbind", "auto_time", "auto_verdict", "act_mac"}
WithIp ==
  {"act_ip", "act_grant", "act_online", "act_meta", "pause_revoke",
   "resume_grant"}

(* What a call relies on, with the clock n, the tickets tk and the history *)
(* sd made explicit                                                        *)
CallOK(c, n, tk, sd) ==
  /\ c \in Call
  /\ c.pc \in WithTicket => c.id \in Ticket
  /\ c.pc \in WithMac => c.mac \in Mac
  /\ c.pc \in WithIp => c.ip \in Ip
  /\ c.pc \in {"act_start", "act_clock", "act_ttl", "resume_write"}
       => c.snap.status # "none"
  /\ c.pc = "resume_write" => c.snap.paused
  /\ c.pc = "act_clock" => c.at <= n
  /\ c.pc \in BatchStep => Template(c.snap, n)
  /\ c.pc \notin BatchStep => c.batch = {}
  /\ c.pc = "batch_ticket" => c.id = NoTicket
  /\ c.id # NoTicket /\ c.snap.status # "none"
       => /\ tk[c.id].status # "none"
          /\ SoundAt(c.snap, n, tk[c.id].created, sd[c.id])

LoopOK(s, n, tk, sd) ==
  /\ s \in Loop
  /\ s.at <= n
  /\ s.pc \in {"time", "verdict", "revoke", "unshadow", "unsession"}
       => s.id \in Ticket
  /\ s.pc \in {"time", "verdict"} => s.snap.status # "none"
  /\ s.snap.status # "none"
       => /\ s.id \in Ticket
          /\ tk[s.id].status # "none"
          /\ SoundAt(s.snap, n, tk[s.id].created, sd[s.id])

TicketsOK(n, tk, sd) ==
  \A id \in Ticket : tk[id].status # "none"
    => SoundAt(tk[id], n, tk[id].created, sd[id])

(* The ids a batch will still draw are nobody else's.                      *)
BatchesOK ==
  /\ \A r \in Request : \A id \in req[r].batch : ~ Issued(id)
  /\ \A r, q \in Request : r # q => req[r].batch \cap req[q].batch = {}

CallsOK == \A r \in Request : CallOK(req[r], now, ticket, sold)
LoopsOK == \A l \in Sweep : LoopOK(sweep[l], now, ticket, sold)

IInv ==
  /\ TypeOK
  /\ TicketsOK(now, ticket, sold)
  /\ CallsOK
  /\ LoopsOK
  /\ BatchesOK

-----------------------------------------------------------------------------
(* What a handler holds stays sound                                        *)

(* Time goes on and issued tickets keep their origin.                      *)
Later(n, tk, sd, m, tj, se) ==
  /\ n \in Nat /\ m \in Nat /\ n <= m
  /\ \A id \in Ticket : tk[id].status # "none"
       => /\ tj[id].status # "none"
          /\ tj[id].created = tk[id].created
          /\ se[id] = sd[id]

(* A call that is in order stays so while other handlers work.             *)
LEMMA CallLater ==
  ASSUME NEW n, NEW tk, NEW sd, NEW m, NEW tj, NEW se, NEW c,
         Later(n, tk, sd, m, tj, se), CallOK(c, n, tk, sd)
  PROVE  CallOK(c, m, tj, se)
<1>1. c \in Call /\ c.snap \in Record /\ c.at \in Nat
  BY DEF CallOK, Call
<1>2. c.snap.pausedAt \in Nat /\ c.snap.start \in Nat /\ c.snap.created \in Nat
      /\ c.snap.totalPaused \in Nat
  BY <1>1 DEF Record
<1>3. c.pc = "act_clock" => c.at <= m
  BY <1>1 DEF CallOK, Later
<1>4. c.pc \in BatchStep => Template(c.snap, m)
  BY <1>2 DEF CallOK, Later, Template
<1>5. ASSUME c.id # NoTicket, c.snap.status # "none"
      PROVE  tj[c.id].status # "none" /\ SoundAt(c.snap, m, tj[c.id].created, se[c.id])
  <2>1. c.id \in Ticket
    BY <1>1, <1>5 DEF Call
  <2>2. tk[c.id].status # "none" /\ SoundAt(c.snap, n, tk[c.id].created, sd[c.id])
    BY <1>5 DEF CallOK
  <2>3. tj[c.id].status # "none" /\ tj[c.id].created = tk[c.id].created
        /\ se[c.id] = sd[c.id]
    BY <2>1, <2>2 DEF Later
  <2>4. n \in Nat /\ m \in Nat /\ n <= m
    BY DEF Later
  <2>5. tk[c.id].created = c.snap.created
    BY <2>2 DEF SoundAt
  <2> QED
    BY <1>2, <2>2, <2>3, <2>4, <2>5 DEF SoundAt
<1> QED
  BY <1>3, <1>4, <1>5 DEF CallOK

(* The same for a sweep.                                                   *)
LEMMA LoopLater ==
  ASSUME NEW n, NEW tk, NEW sd, NEW m, NEW tj, NEW se, NEW s,
         Later(n, tk, sd, m, tj, se), LoopOK(s, n, tk, sd)
  PROVE  LoopOK(s, m, tj, se)
<1>1. s \in Loop /\ s.snap \in Record /\ s.at \in Nat
  BY DEF LoopOK, Loop
<1>2. s.snap.pausedAt \in Nat /\ s.snap.start \in Nat /\ s.snap.created \in Nat
      /\ s.snap.totalPaused \in Nat
  BY <1>1 DEF Record
<1>3. s.at <= m
  BY <1>1 DEF LoopOK, Later
<1>4. ASSUME s.snap.status # "none"
      PROVE  /\ s.id \in Ticket /\ tj[s.id].status # "none"
             /\ SoundAt(s.snap, m, tj[s.id].created, se[s.id])
  <2>1. s.id \in Ticket /\ tk[s.id].status # "none"
        /\ SoundAt(s.snap, n, tk[s.id].created, sd[s.id])
    BY <1>4 DEF LoopOK
  <2>2. tj[s.id].status # "none" /\ tj[s.id].created = tk[s.id].created
        /\ se[s.id] = sd[s.id]
    BY <2>1 DEF Later
  <2>3. n \in Nat /\ m \in Nat /\ n <= m
    BY DEF Later
  <2>4. tk[s.id].created = s.snap.created
    BY <2>1 DEF SoundAt
  <2> QED
    BY <1>2, <2>1, <2>2, <2>3, <2>4 DEF SoundAt
<1> QED
  BY <1>3, <1>4 DEF LoopOK

-----------------------------------------------------------------------------
(* Helpers                                                                 *)

(* A step of call r touches no other call.                                 *)
OnlyCall(r) ==
  req' \in [Request -> Call] /\ \A q \in Request \ {r} : req'[q] = req[q]

(* Call r is in order after the step and draws no new batch.               *)
CallStep(r) ==
  /\ OnlyCall(r)
  /\ CallOK(req'[r], now', ticket', sold')
  /\ req'[r].batch \subseteq req[r].batch

(* A call that only moves to another step stays a call, and no other call
   moves.                                                                  *)
LEMMA PcMove ==
  ASSUME IInv, NEW r \in Request, NEW p \in RequestStep,
         req' = [req EXCEPT ![r].pc = p]
  PROVE  OnlyCall(r)
<1>1. req \in [Request -> Call]
  BY DEF IInv, TypeOK
<1> DEFINE c == [req[r] EXCEPT !.pc = p]
<1>2. c \in Call
  BY <1>1 DEF Call
<1>3. req' = [req EXCEPT ![r] = c]
  OBVIOUS
<1> HIDE DEF c
<1> QED
  BY <1>1, <1>2, <1>3 DEF OnlyCall

LEMMA BlankType == Blank \in Record
  BY DEF Blank, Record, Profile

LEMMA IdleCallType == IdleCall \in Call /\ IdleCall.snap.status = "none"
  BY BlankType DEF IdleCall, Call, RequestStep, Answered, Blank

LEMMA IdleLoopType == IdleLoop \in Loop /\ IdleLoop.snap.status = "none"
  BY BlankType DEF IdleLoop, Loop, SweepStep, Blank

LEMMA NewTicketType ==
  ASSUME NEW p \in Profile, NEW at \in Nat, NEW d \in Nat, NEW rem \in Nat
  PROVE  NewTicket(p, at, d, rem) \in Record
<1>1. at + d \in Nat
  OBVIOUS
<1> QED
  BY <1>1, BlankType DEF NewTicket, Record

(* Answering leaves a call in order.                                       *)
LEMMA AnswerStep ==
  ASSUME IInv, NEW r \in Request, NEW reply \in {"ok", "failed"},
         Answer(r, reply)
  PROVE  CallStep(r)
<1> DEFINE c == [IdleCall EXCEPT !.pc = reply]
<1>1. c \in Call
  BY IdleCallType DEF Call, RequestStep, Answered
<1>2. c.pc = reply /\ c.id = NoTicket /\ c.batch = {} /\ c.snap.status = "none"
  BY IdleCallType DEF IdleCall
<1>3. CallOK(c, now', ticket', sold')
  <2>1. c.pc \notin WithTicket \cup WithMac \cup WithIp \cup BatchStep
    BY <1>2 DEF WithTicket, WithMac, WithIp, BatchStep, Answered
  <2> HIDE DEF c
  <2> QED
    BY <1>1, <1>2, <2>1 DEF CallOK
<1>4. req \in [Request -> Call]
  BY DEF IInv, TypeOK
<1>5. req' = [req EXCEPT ![r] = c]
  BY DEF Answer
<1>6. req'[r] = c /\ OnlyCall(r)
  <2> HIDE DEF c
  <2> QED
    BY <1>1, <1>4, <1>5 DEF OnlyCall
<1> QED
  BY <1>2, <1>3, <1>6 DEF CallStep

(* The facts about one call that the steps below start from.               *)
LEMMA CallFacts ==
  ASSUME IInv, NEW r \in Request
  PROVE  /\ CallOK(req[r], now, ticket, sold)
         /\ req[r] \in Call
         /\ req[r].snap \in Record
         /\ req[r].at \in Nat
         /\ now \in Nat /\ now >= 1
  BY DEF IInv, CallsOK, TypeOK, Call

(* Overwriting the record of a call that is kept in order                  *)
LEMMA MoveStep ==
  ASSUME IInv, NEW r \in Request,
         \E c \in Call : /\ req' = [req EXCEPT ![r] = c]
                         /\ CallOK(c, now', ticket', sold')
                         /\ c.batch \subseteq req[r].batch
  PROVE  CallStep(r)
  BY DEF IInv, TypeOK, CallStep, OnlyCall

-----------------------------------------------------------------------------
(* The steps of a login, the longest handler                               *)

LEMMA ReadForLoginStep ==
  ASSUME IInv, NEW r \in Request, NEW id \in Ticket, NEW mac \in Mac \cup {NoMac},
         NEW ip \in Ip \cup {NoIp}, ReadForLogin(r, id, mac, ip),
         UNCHANGED <<clock, records>>
  PROVE  CallStep(r)
<1> DEFINE t == ticket[id]
           first == IF t.profile = "corrido" THEN "act_start" ELSE "act_ttl"
           c == [IdleCall EXCEPT !.pc = first, !.id = id, !.mac = mac,
                                 !.ip = ip, !.snap = t]
<1>1. CASE ~ Running(t)
  BY <1>1, AnswerStep DEF ReadForLogin
<1>2. CASE Running(t)
  <2>1. req' = [req EXCEPT ![r] = c]
    BY <1>2 DEF ReadForLogin
  <2>2. t \in Record /\ t.status = "active"
    BY <1>2 DEF IInv, TypeOK, Running
  <2>3. c \in Call
    <3>1. first \in RequestStep
      BY DEF RequestStep, ActivateStep
    <3> HIDE DEF first, t
    <3> QED
      BY <2>2, <3>1, IdleCallType DEF Call
  <2>4. c.pc \in {"act_start", "act_ttl"} /\ c.id = id /\ c.snap = t /\ c.batch = {}
    BY DEF IdleCall
  <2>5. SoundAt(t, now, ticket[id].created, sold[id])
    BY <2>2 DEF IInv, TicketsOK
  <2>6. CallOK(c, now', ticket', sold')
    <3>1. c.pc \notin WithMac \cup WithIp \cup BatchStep
      BY <2>4 DEF WithMac, WithIp, BatchStep
    <3>2. now' = now /\ ticket' = ticket /\ sold' = sold
      BY DEF clock, records
    <3> HIDE DEF c
    <3> QED
      BY <2>2, <2>3, <2>4, <2>5, <3>1, <3>2 DEF CallOK
  <2> HIDE DEF c
  <2> QED
    BY <2>1, <2>3, <2>4, <2>6, MoveStep
<1> QED
  BY <1>1, <1>2

(* The step keeps time and the origin of the tickets.                      *)
Forward == Later(now, ticket, sold, now', ticket', sold')

LEMMA StillForward ==
  ASSUME IInv, UNCHANGED <<clock, records>>
  PROVE  Forward
  BY DEF IInv, TypeOK, clock, records, Forward, Later

(* Moving on to a command that reads nothing new: the call keeps what it   *)
(* is about, and drops what it read or keeps it.                           *)
LEMMA PcStep ==
  ASSUME IInv, NEW r \in Request, Forward, OnlyCall(r),
         req'[r].id = req[r].id, req'[r].mac = req[r].mac,
         req'[r].ip = req[r].ip, req'[r].batch = req[r].batch,
         req'[r].snap \in {req[r].snap, Blank},
         req'[r].pc \notin {"act_start", "act_clock", "act_ttl",
                            "resume_write", "batch_ticket"},
         req'[r].pc \in WithTicket => req[r].id \in Ticket,
         req'[r].pc \in WithMac => req[r].mac \in Mac,
         req'[r].pc \in WithIp => req[r].ip \in Ip,
         req'[r].pc \in BatchStep
           => req[r].pc \in BatchStep /\ req'[r].snap = req[r].snap,
         req[r].pc \in BatchStep => req'[r].pc \in BatchStep
  PROVE  CallStep(r)
<1> DEFINE c == req'[r]
<1>1. c \in Call
  BY DEF OnlyCall
<1>2. CallOK(req[r], now, ticket, sold) /\ req[r] \in Call
  BY CallFacts
<1>4. Blank.status = "none"
  BY DEF Blank
<1>5. c.snap.status # "none" => c.snap = req[r].snap
  BY <1>4
<1>6. c.pc \in BatchStep => Template(c.snap, now)
  BY <1>2 DEF CallOK
<1>7. c.pc \notin BatchStep => c.batch = {}
  BY <1>2 DEF CallOK
<1>8. c.id # NoTicket /\ c.snap.status # "none"
       => /\ ticket[c.id].status # "none"
          /\ SoundAt(c.snap, now, ticket[c.id].created, sold[c.id])
  BY <1>2, <1>5 DEF CallOK
<1>9. CallOK(c, now, ticket, sold)
  BY <1>1, <1>6, <1>7, <1>8 DEF CallOK
<1>10. CallOK(c, now', ticket', sold')
  <2>1. Later(now, ticket, sold, now', ticket', sold')
    BY DEF Forward
  <2> HIDE DEF c
  <2> QED
    BY <1>9, <2>1, CallLater
<1> QED
  BY <1>10 DEF CallStep

(* The steps of a login, the clean-up of check-auto and the nft commands   *)
(* that keep what the call is about                                        *)
PcAction(r) ==
  \/ AutoTicket(r) \/ ActClock(r) \/ ActSession(r) \/ ActShadow(r)
  \/ ActMac(r) \/ ActIp(r) \/ ActGrant(r) \/ ActOnline(r)

LEMMA PcActionStep ==
  ASSUME IInv, NEW r \in Request, PcAction(r)
  PROVE  CallStep(r)
<1>1. /\ CallOK(req[r], now, ticket, sold) /\ req[r] \in Call
      /\ req[r].snap \in Record /\ req[r].at \in Nat /\ now \in Nat
  BY CallFacts
<1>2. req \in [Request -> Call]
  BY DEF IInv, TypeOK
<1>3. /\ req[r].mac \in Mac \cup {NoMac} /\ req[r].ip \in Ip \cup {NoIp}
      /\ req[r].batch \in SUBSET Ticket /\ req[r].id \in Ticket \cup {NoTicket}
  BY <1>1 DEF Call
<1>4. AfterShadow(r) \in {"act_mac", "act_ip", "act_shape"}
  BY DEF AfterShadow
<1>5. AfterShadow(r) = "act_mac" => req[r].mac \in Mac
  BY <1>3 DEF AfterShadow
<1>6. AfterShadow(r) = "act_ip" => req[r].ip \in Ip
  BY <1>3 DEF AfterShadow
<1>7. CASE AutoTicket(r)
  <2>1. CASE Answer(r, "failed")
    BY <2>1, AnswerStep
  <2>2. CASE \E p \in {"auto_time", "auto_unbind"} : req' = [req EXCEPT ![r].pc = p]
    <3>1. PICK p \in {"auto_time", "auto_unbind"} : req' = [req EXCEPT ![r].pc = p]
      BY <2>2
    <3>2. req[r].pc = "auto_ticket"
      BY <1>7 DEF AutoTicket, At
    <3>3. req[r].id \in Ticket /\ req[r].mac \in Mac
      BY <1>1, <3>2 DEF CallOK, WithTicket, WithMac, RequestStep, Answered
    <3>4. OnlyCall(r)
      <4>1. p \in RequestStep
        BY DEF RequestStep
      <4> QED
        BY <3>1, <4>1, PcMove
    <3>5. /\ req'[r].pc = p /\ req'[r].id = req[r].id /\ req'[r].mac = req[r].mac
          /\ req'[r].ip = req[r].ip /\ req'[r].batch = req[r].batch
          /\ req'[r].snap = req[r].snap
      BY <1>1, <1>2, <3>1 DEF Call
    <3>6. p \notin WithIp /\ p \notin BatchStep /\ req[r].pc \notin BatchStep
      BY <3>2 DEF WithIp, BatchStep
    <3>7. UNCHANGED <<clock, records>>
      BY <1>7 DEF AutoTicket
    <3> QED
      BY <3>1, <3>3, <3>4, <3>5, <3>6, <3>7, StillForward, PcStep
  <2> QED
    BY <1>7, <2>1, <2>2 DEF AutoTicket
<1>8. CASE ActClock(r)
  <2>1. /\ req' = [req EXCEPT ![r].pc = AfterShadow(r), ![r].at = 0, ![r].snap = Blank]
        /\ req[r].pc = "act_clock" /\ UNCHANGED <<clock, records>>
    BY <1>8 DEF ActClock, At
  <2>2. req[r].id \in Ticket
    BY <1>1, <2>1 DEF CallOK, WithTicket, RequestStep, Answered, ActivateStep
  <2>3. OnlyCall(r)
    <3>1. AfterShadow(r) \in RequestStep
      BY <1>4 DEF RequestStep, ActivateStep
    <3> DEFINE c == [req[r] EXCEPT !.pc = AfterShadow(r), !.at = 0, !.snap = Blank]
    <3>2. c \in Call
      BY <1>1, <3>1, BlankType DEF Call
    <3>3. req' = [req EXCEPT ![r] = c]
      BY <2>1
    <3> HIDE DEF c
    <3> QED
      BY <1>2, <3>2, <3>3 DEF OnlyCall
  <2>4. /\ req'[r].pc = AfterShadow(r) /\ req'[r].id = req[r].id
        /\ req'[r].mac = req[r].mac /\ req'[r].ip = req[r].ip
        /\ req'[r].batch = req[r].batch /\ req'[r].snap = Blank
    BY <1>1, <1>2, <2>1 DEF Call
  <2>5. req[r].pc \notin BatchStep /\ AfterShadow(r) \notin BatchStep
    BY <1>4, <2>1 DEF BatchStep
  <2>6. AfterShadow(r) \in WithMac => req[r].mac \in Mac
    BY <1>4, <1>5 DEF WithMac
  <2>7. AfterShadow(r) \in WithIp => req[r].ip \in Ip
    BY <1>4, <1>6 DEF WithIp
  <2> QED
    BY <1>4, <2>1, <2>2, <2>3, <2>4, <2>5, <2>6, <2>7, StillForward, PcStep
<1>9. CASE ActShadow(r)
  <2>1. /\ req' = [req EXCEPT ![r].pc = AfterShadow(r), ![r].at = 0]
        /\ req[r].pc = "act_shadow" /\ UNCHANGED <<clock, records>>
    BY <1>9 DEF ActShadow, At
  <2>2. req[r].id \in Ticket
    BY <1>1, <2>1 DEF CallOK, WithTicket, RequestStep, Answered, ActivateStep
  <2>3. OnlyCall(r)
    <3>1. AfterShadow(r) \in RequestStep
      BY <1>4 DEF RequestStep, ActivateStep
    <3> DEFINE c == [req[r] EXCEPT !.pc = AfterShadow(r), !.at = 0]
    <3>2. c \in Call
      BY <1>1, <3>1 DEF Call
    <3>3. req' = [req EXCEPT ![r] = c]
      BY <2>1
    <3> HIDE DEF c
    <3> QED
      BY <1>2, <3>2, <3>3 DEF OnlyCall
  <2>4. /\ req'[r].pc = AfterShadow(r) /\ req'[r].id = req[r].id
        /\ req'[r].mac = req[r].mac /\ req'[r].ip = req[r].ip
        /\ req'[r].batch = req[r].batch /\ req'[r].snap = req[r].snap
    BY <1>1, <1>2, <2>1 DEF Call
  <2>5. req[r].pc \notin BatchStep /\ AfterShadow(r) \notin BatchStep
    BY <1>4, <2>1 DEF BatchStep
  <2>6. AfterShadow(r) \in WithMac => req[r].mac \in Mac
    BY <1>4, <1>5 DEF WithMac
  <2>7. AfterShadow(r) \in WithIp => req[r].ip \in Ip
    BY <1>4, <1>6 DEF WithIp
  <2> QED
    BY <1>4, <2>1, <2>2, <2>3, <2>4, <2>5, <2>6, <2>7, StillForward, PcStep
<1>10. CASE ActSession(r) \/ ActMac(r) \/ ActIp(r) \/ ActGrant(r) \/ ActOnline(r)
  <2>1. /\ req[r].pc \in {"act_session", "act_mac", "act_ip", "act_grant", "act_online"}
        /\ UNCHANGED <<clock, records>>
    BY <1>10 DEF ActSession, ActMac, ActIp, ActGrant, ActOnline, At
  <2>2. PICK q \in {"act_shadow", "act_ip", "act_shape", "act_grant", "act_online", "act_meta"} :
           /\ req' = [req EXCEPT ![r].pc = q]
           /\ q \in WithIp => req[r].ip # NoIp
    <3>1. CASE ActSession(r)
      BY <3>1 DEF ActSession, WithIp
    <3>2. CASE ActMac(r)
      BY <3>2 DEF ActMac, WithIp
    <3>3. CASE ActIp(r) \/ ActGrant(r) \/ ActOnline(r)
      <4>1. req[r].pc \in WithIp
        BY <3>3 DEF ActIp, ActGrant, ActOnline, At, WithIp
      <4>2. req[r].ip \in Ip
        BY <1>1, <4>1 DEF CallOK
      <4>3. req[r].ip # NoIp
        BY <4>2, NullAssumption
      <4> QED
        BY <3>3, <4>3 DEF ActIp, ActGrant, ActOnline
    <3> QED
      BY <1>10, <3>1, <3>2, <3>3
  <2>3. req[r].id \in Ticket
    BY <1>1, <2>1 DEF CallOK, WithTicket, RequestStep, Answered, ActivateStep
  <2>4. OnlyCall(r)
    <3>1. q \in RequestStep
      BY DEF RequestStep, ActivateStep
    <3> QED
      BY <2>2, <3>1, PcMove
  <2>5. /\ req'[r].pc = q /\ req'[r].id = req[r].id
        /\ req'[r].mac = req[r].mac /\ req'[r].ip = req[r].ip
        /\ req'[r].batch = req[r].batch /\ req'[r].snap = req[r].snap
    BY <1>1, <1>2, <2>2 DEF Call
  <2>6. req[r].pc \notin BatchStep /\ q \notin BatchStep /\ q \notin WithMac
    BY <2>1, <2>2 DEF BatchStep, WithMac
  <2>7. q \in WithIp => req[r].ip \in Ip
    BY <1>3, <2>2
  <2> QED
    BY <2>1, <2>2, <2>3, <2>4, <2>5, <2>6, <2>7, StillForward, PcStep
<1> QED
  BY <1>7, <1>8, <1>9, <1>10 DEF PcAction

(* Steps that leave the tickets alone and hand the call what it reads      *)
ReadAction(r) ==
  \/ Activate(r) \/ CheckAuto(r) \/ AutoTime(r) \/ AutoVerdict(r) \/ ActTtl(r)
  \/ PauseTicket(r) \/ ResumeTicket(r) \/ BatchMember(r) \/ BatchIndex(r)

(* The steps whose answer ends the call                                    *)
AnswerAction(r) ==
  \/ CreateIndex(r) \/ AutoUnbind(r) \/ ActMeta(r) \/ ActShape(r)
  \/ PauseRevoke(r) \/ ResumeGrant(r)

LEMMA AnswerActionStep ==
  ASSUME IInv, NEW r \in Request, AnswerAction(r)
  PROVE  CallStep(r)
  BY AnswerStep DEF AnswerAction, CreateIndex, AutoUnbind, ActMeta, ActShape,
     PauseRevoke, ResumeGrant

LEMMA ReadActionStep ==
  ASSUME IInv, NEW r \in Request, ReadAction(r)
  PROVE  CallStep(r)
<1>1. /\ CallOK(req[r], now, ticket, sold) /\ req[r] \in Call
      /\ req[r].snap \in Record /\ req[r].at \in Nat /\ now \in Nat
  BY CallFacts
<1>2. req \in [Request -> Call] /\ ticket \in [Ticket -> Record]
      /\ macTicket \in [Mac -> Ticket \cup {NoTicket}]
      /\ shadow \in [Ticket -> Nat]
  BY DEF IInv, TypeOK
<1>3. /\ req[r].mac \in Mac \cup {NoMac} /\ req[r].ip \in Ip \cup {NoIp}
      /\ req[r].batch \in SUBSET Ticket /\ req[r].id \in Ticket \cup {NoTicket}
  BY <1>1 DEF Call
<1>4. UNCHANGED <<clock, records>>
  BY DEF ReadAction, Activate, CheckAuto, AutoTime, AutoVerdict, ActTtl,
         PauseTicket, ResumeTicket, BatchMember, BatchIndex
<1>5. now' = now /\ ticket' = ticket /\ sold' = sold
  BY <1>4 DEF clock, records
<1>6. IdleCall.batch = {} /\ IdleCall.snap = Blank /\ Blank.status = "none"
  BY DEF IdleCall, Blank
<1>7. CASE Activate(r)
  BY <1>4, <1>7, ReadForLoginStep DEF Activate
<1>8. CASE CheckAuto(r)
  <2>1. CASE Answer(r, "failed")
    BY <2>1, AnswerStep
  <2>2. ASSUME ~ Answer(r, "failed")
        PROVE  CallStep(r)
    <3>1. PICK mac \in Mac, ip \in Ip \cup {NoIp} :
            /\ macTicket[mac] # NoTicket
            /\ req' = [req EXCEPT ![r] =
                         [IdleCall EXCEPT !.pc = "auto_ticket", !.mac = mac,
                                          !.ip = ip, !.id = macTicket[mac]]]
      BY <1>8, <2>2 DEF CheckAuto
    <3> DEFINE c == [IdleCall EXCEPT !.pc = "auto_ticket", !.mac = mac,
                                     !.ip = ip, !.id = macTicket[mac]]
    <3>2. macTicket[mac] \in Ticket
      BY <1>2, <3>1
    <3>3. c \in Call
      BY <3>2, IdleCallType DEF Call, RequestStep
    <3>4. /\ c.pc = "auto_ticket" /\ c.id \in Ticket /\ c.mac \in Mac
          /\ c.batch = {} /\ c.snap.status = "none"
      BY <1>6, <3>2, IdleCallType DEF IdleCall
    <3>5. "auto_ticket" \notin WithIp \cup BatchStep
      BY DEF WithIp, BatchStep
    <3> HIDE DEF c
    <3>6. CallOK(c, now', ticket', sold')
      BY <3>3, <3>4, <3>5 DEF CallOK
    <3> QED
      BY <3>1, <3>3, <3>4, <3>6, MoveStep DEF c
  <2> QED
    BY <2>1, <2>2
<1>9. CASE AutoVerdict(r)
  <2>1. CASE Answer(r, "failed")
    BY <2>1, AnswerStep
  <2>2. CASE ReadForLogin(r, req[r].id, req[r].mac, req[r].ip)
    <3>1. req[r].pc = "auto_verdict"
      BY <1>9 DEF AutoVerdict, At
    <3>2. req[r].id \in Ticket
      BY <1>1, <3>1 DEF CallOK, WithTicket, RequestStep, Answered
    <3> QED
      BY <1>3, <1>4, <2>2, <3>2, ReadForLoginStep
  <2> QED
    BY <1>9, <2>1, <2>2 DEF AutoVerdict
<1>10. CASE AutoTime(r)
  <2> DEFINE c == [req[r] EXCEPT !.pc = "auto_verdict", !.snap = ticket[req[r].id]]
  <2>1. req[r].pc = "auto_time" /\ req' = [req EXCEPT ![r] = c]
    BY <1>10 DEF AutoTime, At
  <2>2. req[r].id \in Ticket /\ req[r].mac \in Mac /\ req[r].batch = {}
    BY <1>1, <2>1 DEF CallOK, WithTicket, WithMac, BatchStep, RequestStep, Answered
  <2>3. ticket[req[r].id] \in Record
    BY <1>2, <2>2
  <2>4. c \in Call
    BY <1>1, <2>3 DEF Call, RequestStep
  <2>5. /\ c.pc = "auto_verdict" /\ c.id = req[r].id /\ c.mac = req[r].mac
        /\ c.batch = req[r].batch /\ c.snap = ticket[req[r].id]
    BY <1>1 DEF Call
  <2>6. "auto_verdict" \notin WithIp \cup BatchStep
    BY DEF WithIp, BatchStep
  <2>7. ticket[req[r].id].status # "none"
          => SoundAt(ticket[req[r].id], now, ticket[req[r].id].created, sold[req[r].id])
    BY <2>2 DEF IInv, TicketsOK
  <2> HIDE DEF c
  <2>8. CallOK(c, now', ticket', sold')
    BY <1>5, <2>2, <2>4, <2>5, <2>6, <2>7 DEF CallOK
  <2> QED
    BY <2>1, <2>4, <2>5, <2>8, MoveStep
<1>11. CASE ActTtl(r)
  <2> DEFINE b == PausadoBalance(req[r].snap, shadow[req[r].id], now)
  <2>1. /\ req[r].pc = "act_ttl"
        /\ req' = [req EXCEPT ![r].pc = "act_write", ![r].snap = Blank, ![r].at = b]
    BY <1>11 DEF ActTtl, At
  <2>2. req[r].id \in Ticket /\ req[r].snap.status # "none"
    BY <1>1, <2>1 DEF CallOK, WithTicket, RequestStep, Answered, ActivateStep
  <2>3. SoundAt(req[r].snap, now, ticket[req[r].id].created, sold[req[r].id])
    BY <1>1, <2>2, NullAssumption DEF CallOK
  <2>4. b \in Nat
    <3>1. sold[req[r].id] \in Nat /\ shadow[req[r].id] \in Nat
      BY <1>2, <2>2 DEF IInv, TypeOK
    <3>2. /\ req[r].snap.remaining \in Nat /\ req[r].snap.totalPaused \in Nat
          /\ req[r].snap.created \in Nat /\ req[r].snap.expires \in Nat
      BY <1>1 DEF Record
    <3>3. Lifetime(req[r].snap) \in Nat
      BY <2>3, <3>1, <3>2 DEF SoundAt, Lifetime
    <3>4. ShadowLeft(shadow[req[r].id], now) \in Nat
      BY <1>1, <3>1 DEF ShadowLeft
    <3> QED
      BY <3>2, <3>3, <3>4 DEF PausadoBalance
  <2> HIDE DEF b
  <2> DEFINE c == [req[r] EXCEPT !.pc = "act_write", !.snap = Blank, !.at = b]
  <2>5. c \in Call
    BY <1>1, <2>4, BlankType DEF Call, RequestStep, ActivateStep
  <2>6. req' = [req EXCEPT ![r] = c]
    BY <2>1
  <2>7. /\ c.pc = "act_write" /\ c.id = req[r].id /\ c.mac = req[r].mac
        /\ c.ip = req[r].ip /\ c.batch = req[r].batch /\ c.snap = Blank
    BY <1>1 DEF Call
  <2> HIDE DEF c
  <2>8. OnlyCall(r) /\ req'[r] = c
    BY <1>2, <2>5, <2>6 DEF OnlyCall
  <2>9. "act_write" \notin WithMac \cup WithIp \cup BatchStep
        /\ req[r].pc \notin BatchStep
    BY <2>1 DEF WithMac, WithIp, BatchStep
  <2> QED
    BY <1>4, <2>2, <2>7, <2>8, <2>9, StillForward, PcStep
<1>12. CASE PauseTicket(r)
  <2>1. PICK id \in Ticket :
          \/ Answer(r, "failed")
          \/ req' = [req EXCEPT ![r] = [IdleCall EXCEPT !.pc = "pause_write",
                                        !.id = id, !.ip = ticket[id].ip]]
    BY <1>12 DEF PauseTicket
  <2>2. CASE Answer(r, "failed")
    BY <2>2, AnswerStep
  <2> DEFINE c == [IdleCall EXCEPT !.pc = "pause_write", !.id = id, !.ip = ticket[id].ip]
  <2>3. CASE req' = [req EXCEPT ![r] = c]
    <3>1. ticket[id].ip \in Ip \cup {NoIp}
      BY <1>2 DEF Record
    <3>2. c \in Call
      BY <3>1, IdleCallType DEF Call, RequestStep
    <3>3. /\ c.pc = "pause_write" /\ c.id \in Ticket /\ c.batch = {}
          /\ c.snap.status = "none"
      BY <1>6, IdleCallType DEF IdleCall
    <3>4. "pause_write" \notin WithMac \cup WithIp \cup BatchStep
      BY DEF WithMac, WithIp, BatchStep
    <3> HIDE DEF c
    <3>5. CallOK(c, now', ticket', sold')
      BY <3>2, <3>3, <3>4 DEF CallOK
    <3> QED
      BY <2>3, <3>2, <3>3, <3>5, MoveStep
  <2> QED
    BY <2>1, <2>2, <2>3
<1>13. CASE ResumeTicket(r)
  <2>1. PICK id \in Ticket :
          \/ Answer(r, "failed")
          \/ /\ ticket[id].status = "active" /\ ticket[id].paused
             /\ req' = [req EXCEPT ![r] =
                          [IdleCall EXCEPT !.pc = "resume_write", !.id = id,
                                   !.ip = ticket[id].ip, !.snap = ticket[id]]]
    BY <1>13 DEF ResumeTicket
  <2>2. CASE Answer(r, "failed")
    BY <2>2, AnswerStep
  <2> DEFINE c == [IdleCall EXCEPT !.pc = "resume_write", !.id = id,
                                   !.ip = ticket[id].ip, !.snap = ticket[id]]
  <2>3. CASE /\ ticket[id].status = "active" /\ ticket[id].paused
             /\ req' = [req EXCEPT ![r] = c]
    <3>1. ticket[id].ip \in Ip \cup {NoIp} /\ ticket[id] \in Record
      BY <1>2 DEF Record
    <3>2. c \in Call
      BY <3>1, IdleCallType DEF Call, RequestStep
    <3>3. /\ c.pc = "resume_write" /\ c.id = id /\ c.batch = {}
          /\ c.snap = ticket[id]
      BY <1>6, IdleCallType DEF IdleCall
    <3>4. "resume_write" \notin WithMac \cup WithIp \cup BatchStep
      BY DEF WithMac, WithIp, BatchStep
    <3>5. SoundAt(ticket[id], now, ticket[id].created, sold[id])
      BY <2>3 DEF IInv, TicketsOK
    <3> HIDE DEF c
    <3>6. CallOK(c, now', ticket', sold')
      BY <1>5, <2>3, <3>2, <3>3, <3>4, <3>5 DEF CallOK
    <3> QED
      BY <2>3, <3>2, <3>3, <3>6, MoveStep
  <2> QED
    BY <2>1, <2>2, <2>3
<1>14. CASE BatchMember(r)
  <2>1. /\ req[r].pc = "batch_member" /\ req' = [req EXCEPT ![r].pc = "batch_index"]
    BY <1>14 DEF BatchMember, At
  <2>2. req[r].id \in Ticket
    BY <1>1, <2>1 DEF CallOK, WithTicket, RequestStep, Answered
  <2>3. OnlyCall(r)
    <3>1. "batch_index" \in RequestStep
      BY DEF RequestStep
    <3> QED
      BY <2>1, <3>1, PcMove
  <2>4. /\ req'[r].pc = "batch_index" /\ req'[r].id = req[r].id
        /\ req'[r].mac = req[r].mac /\ req'[r].ip = req[r].ip
        /\ req'[r].batch = req[r].batch /\ req'[r].snap = req[r].snap
    BY <1>1, <1>2, <2>1 DEF Call
  <2>5. /\ "batch_index" \notin WithMac \cup WithIp /\ "batch_index" \in BatchStep
        /\ "batch_member" \in BatchStep
    BY DEF WithMac, WithIp, BatchStep
  <2> QED
    BY <1>4, <2>1, <2>2, <2>3, <2>4, <2>5, StillForward, PcStep
<1>15. CASE BatchIndex(r)
  <2>1. CASE Answer(r, "ok")
    BY <2>1, AnswerStep
  <2> DEFINE c == [req[r] EXCEPT !.pc = "batch_ticket", !.id = NoTicket]
  <2>2. CASE req' = [req EXCEPT ![r] = c]
    <3>1. req[r].pc = "batch_index"
      BY <1>15 DEF BatchIndex, At
    <3>2. Template(req[r].snap, now)
      BY <1>1, <3>1 DEF CallOK, BatchStep
    <3>3. c \in Call
      BY <1>1 DEF Call, RequestStep
    <3>4. /\ c.pc = "batch_ticket" /\ c.id = NoTicket /\ c.snap = req[r].snap
          /\ c.batch = req[r].batch
      BY <1>1 DEF Call
    <3>5. "batch_ticket" \notin WithTicket \cup WithMac \cup WithIp
      BY DEF WithTicket, WithMac, WithIp
    <3>6. "batch_ticket" \in BatchStep
      BY DEF BatchStep
    <3> HIDE DEF c
    <3>7. CallOK(c, now', ticket', sold')
      BY <1>5, <3>2, <3>3, <3>4, <3>5, <3>6 DEF CallOK
    <3> QED
      BY <2>2, <3>3, <3>4, <3>7, MoveStep
  <2>3. \/ req' = [req EXCEPT ![r] = c]
        \/ Answer(r, "ok")
    BY <1>15 DEF BatchIndex
  <2> QED
    BY <2>1, <2>2, <2>3
<1> QED
  BY <1>7, <1>8, <1>9, <1>10, <1>11, <1>12, <1>13, <1>14, <1>15 DEF ReadAction

-----------------------------------------------------------------------------
(* Writes to one ticket                                                    *)

(* What a write to the hash of an issued ticket has to respect             *)
OneTicket(id) ==
  /\ id \in Ticket
  /\ ticket' \in [Ticket -> Record]
  /\ \A o \in Ticket \ {id} : ticket'[o] = ticket[o]
  /\ ticket[id].status = "none" => ticket'[id].status = "none"
  /\ ticket[id].status # "none"
       => SoundAt(ticket'[id], now, ticket[id].created, sold[id])

(* The tickets after the step: as sound as before, and none newly issued   *)
SameTickets ==
  /\ Forward
  /\ ticket' \in [Ticket -> Record]
  /\ TicketsOK(now', ticket', sold')
  /\ \A id \in Ticket : ~ Issued(id) => ~ Issued(id)'

LEMMA OneTicketWrite ==
  ASSUME IInv, NEW id, OneTicket(id), now' = now, sold' = sold
  PROVE  SameTickets
<1>1. now \in Nat
  BY DEF IInv, TypeOK
<1>2. Forward
  BY <1>1 DEF Forward, Later, OneTicket, SoundAt
<1>3. TicketsOK(now', ticket', sold')
  BY DEF TicketsOK, IInv, OneTicket, SoundAt
<1>4. \A o \in Ticket : ~ Issued(o) => ~ Issued(o)'
  BY DEF Issued, OneTicket
<1> QED
  BY <1>2, <1>3, <1>4 DEF SameTickets, OneTicket

(* The types of the fields a proof computes with                           *)
LEMMA TicketFields ==
  ASSUME IInv, NEW id \in Ticket
  PROVE  /\ ticket[id] \in Record
         /\ ticket[id].created \in Nat /\ ticket[id].expires \in Nat
         /\ ticket[id].start \in Nat /\ ticket[id].pausedAt \in Nat
         /\ ticket[id].totalPaused \in Nat /\ ticket[id].paused \in BOOLEAN
         /\ sold[id] \in Nat
         /\ now \in Nat /\ now >= 1
         /\ ticket[id].status # "none"
              => SoundAt(ticket[id], now, ticket[id].created, sold[id])
  BY DEF IInv, TypeOK, TicketsOK, Record

LEMMA ActStartStep ==
  ASSUME IInv, NEW r \in Request, ActStart(r)
  PROVE  SameTickets /\ CallStep(r)
<1> DEFINE id == req[r].id
           c == [req[r] EXCEPT !.pc = "act_clock", !.at = now]
<1>1. /\ CallOK(req[r], now, ticket, sold) /\ req[r] \in Call
      /\ req[r].ip \in Ip \cup {NoIp}
  BY CallFacts DEF Call
<1>2. /\ req[r].pc = "act_start" /\ now' = now /\ sold' = sold
      /\ ticket' = [ticket EXCEPT ![id].ip = req[r].ip,
                       ![id].start = IF req[r].snap.start = 0 THEN now ELSE @]
      /\ req' = [req EXCEPT ![r].pc = "act_clock", ![r].at = now]
  BY DEF ActStart, At, clock
<1>3. id \in Ticket /\ req[r].snap.status # "none"
  BY <1>1, <1>2 DEF CallOK, WithTicket, RequestStep, Answered, ActivateStep
<1>4. ticket[id].status # "none"
      /\ SoundAt(req[r].snap, now, ticket[id].created, sold[id])
  BY <1>1, <1>3, NullAssumption DEF CallOK
<1>5. /\ ticket[id] \in Record /\ now \in Nat
      /\ ticket[id].created \in Nat /\ ticket[id].totalPaused \in Nat
      /\ ticket[id].start \in Nat /\ ticket[id].pausedAt \in Nat
      /\ SoundAt(ticket[id], now, ticket[id].created, sold[id])
  BY <1>3, <1>4, TicketFields
<1>6. OneTicket(id)
  <2> DEFINE t == [ticket[id] EXCEPT !.ip = req[r].ip,
                     !.start = IF req[r].snap.start = 0 THEN now ELSE @]
  <2>1. ticket \in [Ticket -> Record]
    BY DEF IInv, TypeOK
  <2>2. t \in Record
    BY <1>1, <1>5 DEF Record
  <2>3. ticket' = [ticket EXCEPT ![id] = t]
    BY <1>2
  <2>4. SoundAt(t, now, ticket[id].created, sold[id])
    <3>1. /\ t.status = ticket[id].status /\ t.created = ticket[id].created
          /\ t.expires = ticket[id].expires /\ t.paused = ticket[id].paused
          /\ t.pausedAt = ticket[id].pausedAt
          /\ t.totalPaused = ticket[id].totalPaused
          /\ t.start \in {now, ticket[id].start}
      BY <1>5 DEF Record
    <3>2. ticket[id].created <= now
      BY <1>5 DEF SoundAt
    <3> HIDE DEF t
    <3> QED
      BY <1>5, <3>1, <3>2 DEF SoundAt
  <2> HIDE DEF t, id
  <2> QED
    BY <1>3, <1>4, <2>1, <2>2, <2>3, <2>4 DEF OneTicket
<1>7. SameTickets
  BY <1>2, <1>6, OneTicketWrite
<1>8. c \in Call /\ req' = [req EXCEPT ![r] = c]
  BY <1>1, <1>2, <1>5 DEF Call, RequestStep, ActivateStep
<1>9. /\ c.pc = "act_clock" /\ c.at = now /\ c.id = req[r].id /\ c.snap = req[r].snap
      /\ c.batch = req[r].batch
  BY <1>1 DEF Call
<1>10. CallOK(c, now, ticket, sold)
  <2>1. "act_clock" \notin WithMac \cup WithIp \cup BatchStep
    BY DEF WithMac, WithIp, BatchStep
  <2>2. req[r].batch = {}
    BY <1>1, <1>2 DEF CallOK, BatchStep
  <2> HIDE DEF c
  <2> QED
    BY <1>3, <1>4, <1>5, <1>8, <1>9, <2>1, <2>2 DEF CallOK
<1>11. CallOK(c, now', ticket', sold')
  <2>1. Later(now, ticket, sold, now', ticket', sold')
    BY <1>7 DEF SameTickets, Forward
  <2> HIDE DEF c
  <2> QED
    BY <1>10, <2>1, CallLater
<1> HIDE DEF c
<1> QED
  BY <1>7, <1>8, <1>9, <1>11, MoveStep

LEMMA ActWriteStep ==
  ASSUME IInv, NEW r \in Request, ActWrite(r)
  PROVE  SameTickets /\ CallStep(r)
<1> DEFINE id == req[r].id
           p == IF req[r].at > 0 THEN "act_session" ELSE AfterShadow(r)
<1>1. /\ CallOK(req[r], now, ticket, sold) /\ req[r] \in Call
      /\ req[r].ip \in Ip \cup {NoIp} /\ req[r].at \in Nat
      /\ req[r].mac \in Mac \cup {NoMac}
  BY CallFacts DEF Call
<1>2. /\ req[r].pc = "act_write" /\ now' = now /\ sold' = sold
      /\ ticket' = [ticket EXCEPT ![id].ip = req[r].ip, ![id].remaining = req[r].at]
      /\ req' = [req EXCEPT ![r].pc = p]
  BY DEF ActWrite, At, clock
<1>3. id \in Ticket
  BY <1>1, <1>2 DEF CallOK, WithTicket, RequestStep, Answered, ActivateStep
<1>4. ticket[id] \in Record /\ (ticket[id].status # "none"
        => SoundAt(ticket[id], now, ticket[id].created, sold[id]))
  BY <1>3, TicketFields
<1>5. OneTicket(id)
  <2> DEFINE t == [ticket[id] EXCEPT !.ip = req[r].ip, !.remaining = req[r].at]
  <2>1. ticket \in [Ticket -> Record]
    BY DEF IInv, TypeOK
  <2>2. t \in Record
    BY <1>1, <1>4 DEF Record
  <2>3. ticket' = [ticket EXCEPT ![id] = t]
    BY <1>2
  <2>4. /\ t.status = ticket[id].status /\ t.created = ticket[id].created
        /\ t.expires = ticket[id].expires /\ t.paused = ticket[id].paused
        /\ t.pausedAt = ticket[id].pausedAt /\ t.start = ticket[id].start
        /\ t.totalPaused = ticket[id].totalPaused
    BY <1>4 DEF Record
  <2> HIDE DEF t, id
  <2> QED
    BY <1>3, <1>4, <2>1, <2>2, <2>3, <2>4 DEF OneTicket, SoundAt
<1>6. SameTickets
  BY <1>2, <1>5, OneTicketWrite
<1>7. p \in {"act_session", "act_mac", "act_ip", "act_shape"}
  BY DEF AfterShadow
<1>8. p = "act_mac" => req[r].mac \in Mac
  BY <1>1 DEF AfterShadow
<1>9. p = "act_ip" => req[r].ip \in Ip
  BY <1>1 DEF AfterShadow
<1> HIDE DEF p
<1>10. OnlyCall(r)
  <2>1. p \in RequestStep
    BY <1>7 DEF RequestStep, ActivateStep
  <2>2. req \in [Request -> Call]
    BY DEF IInv, TypeOK
  <2> QED
    BY <1>2, <2>1, <2>2 DEF OnlyCall, Call
<1>11. /\ req'[r].pc = p /\ req'[r].id = req[r].id
       /\ req'[r].mac = req[r].mac /\ req'[r].ip = req[r].ip
       /\ req'[r].batch = req[r].batch /\ req'[r].snap = req[r].snap
  <2>1. req \in [Request -> Call]
    BY DEF IInv, TypeOK
  <2> QED
    BY <1>1, <1>2, <2>1 DEF Call
<1>12. /\ req[r].pc \notin BatchStep /\ p \notin BatchStep
       /\ (p \in WithMac => p = "act_mac") /\ (p \in WithIp => p = "act_ip")
  BY <1>2, <1>7 DEF BatchStep, WithMac, WithIp
<1>13. CallStep(r)
  BY <1>3, <1>6, <1>7, <1>8, <1>9, <1>10, <1>11, <1>12, PcStep DEF SameTickets
<1> QED
  BY <1>6, <1>13

(* Expiring an issued ticket                                               *)
LEMMA ExpireWrite ==
  ASSUME IInv, NEW id \in Ticket, ticket[id].status # "none",
         ticket' = [ticket EXCEPT ![id].status = "expired"],
         now' = now, sold' = sold
  PROVE  SameTickets
<1> DEFINE t == [ticket[id] EXCEPT !.status = "expired"]
<1>1. ticket \in [Ticket -> Record] /\ ticket' = [ticket EXCEPT ![id] = t]
  BY DEF IInv, TypeOK
<1>2. ticket[id] \in Record /\ SoundAt(ticket[id], now, ticket[id].created, sold[id])
  BY TicketFields
<1>3. t \in Record
  BY <1>2 DEF Record
<1>4. /\ t.status = "expired" /\ t.created = ticket[id].created
      /\ t.expires = ticket[id].expires /\ t.paused = ticket[id].paused
      /\ t.pausedAt = ticket[id].pausedAt /\ t.start = ticket[id].start
      /\ t.totalPaused = ticket[id].totalPaused
  BY <1>2 DEF Record
<1>5. OneTicket(id)
  <2> HIDE DEF t
  <2> QED
    BY <1>1, <1>2, <1>3, <1>4 DEF OneTicket, SoundAt
<1> QED
  BY <1>5, OneTicketWrite

(* A login may expire a ticket on a stale start_time; the sold time has    *)
(* gone by all the same.                                                   *)
LEMMA ActSpentStep ==
  ASSUME IInv, NEW r \in Request, ActSpent(r)
  PROVE  /\ SameTickets /\ CallStep(r)
         /\ req[r].id \in Ticket
         /\ Issued(req[r].id)
         /\ now >= ticket[req[r].id].created + sold[req[r].id]
<1> DEFINE id == req[r].id
           s == req[r].snap
<1>1. /\ CallOK(req[r], now, ticket, sold) /\ req[r] \in Call
      /\ s \in Record /\ req[r].at \in Nat /\ now \in Nat
  BY CallFacts
<1>2. /\ req[r].pc = "act_clock" /\ now' = now /\ sold' = sold
      /\ ticket' = [ticket EXCEPT ![id].status = "expired"]
      /\ Answer(r, "failed")
      /\ Elapsed(s, req[r].at) >= Lifetime(s)
  BY DEF ActSpent, At, clock
<1>3. id \in Ticket /\ s.status # "none" /\ req[r].at <= now
  BY <1>1, <1>2 DEF CallOK, WithTicket, RequestStep, Answered, ActivateStep
<1>4. ticket[id].status # "none" /\ SoundAt(s, now, ticket[id].created, sold[id])
  BY <1>1, <1>3, NullAssumption DEF CallOK
<1>5. SameTickets
  BY <1>2, <1>3, <1>4, ExpireWrite
<1>6. now >= ticket[id].created + sold[id]
  <2>1. /\ sold[id] \in Nat /\ s.totalPaused \in Nat /\ s.start \in Nat
        /\ s.created \in Nat /\ s.expires \in Nat /\ ticket[id].created \in Nat
        /\ s.pausedAt \in Nat
    BY <1>1, <1>3, TicketFields DEF Record
  <2>2. /\ s.created = ticket[id].created
        /\ s.expires = ticket[id].created + sold[id] + s.totalPaused
        /\ ticket[id].created + s.totalPaused <= now
        /\ s.start # 0 => ticket[id].created <= s.start
    BY <1>1, <1>4, <2>1 DEF SoundAt
  <2>3. Lifetime(s) = sold[id] + s.totalPaused
    BY <2>1, <2>2 DEF Lifetime
  <2> HIDE DEF s, id
  <2> QED
    BY <1>1, <1>2, <1>3, <2>1, <2>2, <2>3 DEF Elapsed
<1> QED
  BY <1>2, <1>3, <1>4, <1>5, <1>6, AnswerStep DEF Issued

LEMMA PauseWriteStep ==
  ASSUME IInv, NEW r \in Request, PauseWrite(r)
  PROVE  SameTickets /\ CallStep(r) /\ req[r].id \in Ticket
<1> DEFINE id == req[r].id
           t == [ticket[id] EXCEPT !.paused = TRUE, !.pausedAt = now]
<1>1. /\ CallOK(req[r], now, ticket, sold) /\ req[r] \in Call
      /\ req[r].ip \in Ip \cup {NoIp}
  BY CallFacts DEF Call
<1>2. /\ req[r].pc = "pause_write" /\ now' = now /\ sold' = sold
      /\ ticket' = [ticket EXCEPT ![id].paused = TRUE, ![id].pausedAt = now]
      /\ \/ req[r].ip = NoIp /\ Answer(r, "ok")
         \/ req[r].ip # NoIp /\ req' = [req EXCEPT ![r].pc = "pause_revoke"]
  BY DEF PauseWrite, At, clock
<1>3. id \in Ticket
  BY <1>1, <1>2 DEF CallOK, WithTicket, RequestStep, Answered
<1>4. /\ ticket[id] \in Record /\ now \in Nat /\ ticket[id].created \in Nat
      /\ ticket[id].totalPaused \in Nat /\ ticket[id].pausedAt \in Nat
      /\ ticket[id].status # "none"
           => SoundAt(ticket[id], now, ticket[id].created, sold[id])
  BY <1>3, TicketFields
<1>5. OneTicket(id)
  <2>1. ticket \in [Ticket -> Record] /\ ticket' = [ticket EXCEPT ![id] = t]
    BY <1>2 DEF IInv, TypeOK
  <2>2. t \in Record
    BY <1>4 DEF Record
  <2>3. /\ t.status = ticket[id].status /\ t.created = ticket[id].created
        /\ t.expires = ticket[id].expires /\ t.paused = TRUE
        /\ t.pausedAt = now /\ t.start = ticket[id].start
        /\ t.totalPaused = ticket[id].totalPaused
    BY <1>4 DEF Record
  <2> HIDE DEF t, id
  <2> QED
    BY <1>3, <1>4, <2>1, <2>2, <2>3 DEF OneTicket, SoundAt
<1>6. SameTickets
  BY <1>2, <1>5, OneTicketWrite
<1>7. CASE Answer(r, "ok")
  BY <1>3, <1>6, <1>7, AnswerStep
<1>8. CASE req[r].ip # NoIp /\ req' = [req EXCEPT ![r].pc = "pause_revoke"]
  <2>1. req \in [Request -> Call]
    BY DEF IInv, TypeOK
  <2>2. OnlyCall(r)
    <3>1. "pause_revoke" \in RequestStep
      BY DEF RequestStep
    <3> QED
      BY <1>8, <3>1, PcMove
  <2>3. /\ req'[r].pc = "pause_revoke" /\ req'[r].id = req[r].id
        /\ req'[r].mac = req[r].mac /\ req'[r].ip = req[r].ip
        /\ req'[r].batch = req[r].batch /\ req'[r].snap = req[r].snap
    BY <1>1, <1>8, <2>1 DEF Call
  <2>4. /\ "pause_revoke" \notin WithMac \cup BatchStep
        /\ req[r].pc \notin BatchStep /\ req[r].ip \in Ip
    BY <1>1, <1>2, <1>8 DEF WithMac, BatchStep
  <2> QED
    BY <1>3, <1>6, <2>2, <2>3, <2>4, PcStep DEF SameTickets
<1> QED
  BY <1>2, <1>7, <1>8

(* The write of resumeTicket, from a hash that others may have changed     *)
(* since it was read, leaves the ticket sound.                             *)
LEMMA ResumeWriteStep ==
  ASSUME IInv, NEW r \in Request, ResumeWrite(r)
  PROVE  SameTickets /\ CallStep(r) /\ req[r].id \in Ticket
<1> DEFINE id == req[r].id
           s == req[r].snap
           t == Resumed(ticket[id], s, now)
<1>1. /\ CallOK(req[r], now, ticket, sold) /\ req[r] \in Call
      /\ req[r].ip \in Ip \cup {NoIp} /\ s \in Record
  BY CallFacts DEF Call
<1>2. /\ req[r].pc = "resume_write" /\ now' = now /\ sold' = sold
      /\ ticket' = [ticket EXCEPT ![id] = t]
      /\ \/ req[r].ip = NoIp /\ Answer(r, "ok")
         \/ /\ req[r].ip # NoIp
            /\ req' = [req EXCEPT ![r].pc = "resume_grant", ![r].snap = Blank]
  BY DEF ResumeWrite, At, clock
<1>3. id \in Ticket /\ s.status # "none" /\ s.paused
  BY <1>1, <1>2 DEF CallOK, WithTicket, RequestStep, Answered
<1>4. ticket[id].status # "none" /\ SoundAt(s, now, ticket[id].created, sold[id])
  BY <1>1, <1>3, NullAssumption DEF CallOK
<1>5. /\ ticket[id] \in Record /\ now \in Nat /\ ticket[id].created \in Nat
      /\ ticket[id].start \in Nat /\ sold[id] \in Nat
      /\ SoundAt(ticket[id], now, ticket[id].created, sold[id])
  BY <1>3, <1>4, TicketFields
<1>6. /\ s.pausedAt \in Nat /\ s.totalPaused \in Nat /\ s.expires \in Nat
      /\ s.pausedAt <= now
      /\ ticket[id].created + s.totalPaused <= s.pausedAt
      /\ s.expires = ticket[id].created + sold[id] + s.totalPaused
  BY <1>1, <1>3, <1>4 DEF Record, SoundAt
<1> DEFINE d == now - s.pausedAt
<1>7. d \in Nat /\ s.totalPaused + d \in Nat /\ s.expires + d \in Nat
  BY <1>5, <1>6
<1>8. OneTicket(id)
  <2>1. ticket \in [Ticket -> Record]
    BY DEF IInv, TypeOK
  <2>2. t = [ticket[id] EXCEPT !.paused = FALSE, !.pausedAt = 0,
                !.totalPaused = s.totalPaused + d, !.expires = s.expires + d]
    BY DEF Resumed, PauseLength
  <2>3. t \in Record
    <3> HIDE DEF t, d, s, id
    <3> QED
      BY <1>5, <1>7, <2>2 DEF Record
  <2>4. /\ t.status = ticket[id].status /\ t.created = ticket[id].created
        /\ t.expires = s.expires + d /\ t.paused = FALSE
        /\ t.pausedAt = 0 /\ t.start = ticket[id].start
        /\ t.totalPaused = s.totalPaused + d
    <3> HIDE DEF t, d, s, id
    <3> QED
      BY <1>5, <2>2 DEF Record
  <2>5. SoundAt(t, now, ticket[id].created, sold[id])
    <3> HIDE DEF t, s, id
    <3> QED
      BY <1>4, <1>5, <1>6, <2>4 DEF SoundAt
  <2> HIDE DEF t, d, s, id
  <2> QED
    BY <1>2, <1>3, <1>4, <2>1, <2>3, <2>5 DEF OneTicket
<1>9. SameTickets
  BY <1>2, <1>8, OneTicketWrite
<1>10. CASE Answer(r, "ok")
  BY <1>3, <1>9, <1>10, AnswerStep
<1>11. CASE /\ req[r].ip # NoIp
            /\ req' = [req EXCEPT ![r].pc = "resume_grant", ![r].snap = Blank]
  <2>1. req \in [Request -> Call]
    BY DEF IInv, TypeOK
  <2>2. OnlyCall(r)
    <3> DEFINE c == [req[r] EXCEPT !.pc = "resume_grant", !.snap = Blank]
    <3>1. c \in Call /\ req' = [req EXCEPT ![r] = c]
      BY <1>1, <1>11, BlankType DEF Call, RequestStep
    <3> HIDE DEF c
    <3> QED
      BY <2>1, <3>1 DEF OnlyCall
  <2>3. /\ req'[r].pc = "resume_grant" /\ req'[r].id = req[r].id
        /\ req'[r].mac = req[r].mac /\ req'[r].ip = req[r].ip
        /\ req'[r].batch = req[r].batch /\ req'[r].snap = Blank
    BY <1>1, <1>11, <2>1 DEF Call
  <2>4. /\ "resume_grant" \notin WithMac \cup BatchStep
        /\ req[r].pc \notin BatchStep /\ req[r].ip \in Ip
    BY <1>1, <1>2, <1>11 DEF WithMac, BatchStep
  <2> QED
    BY <1>3, <1>9, <2>2, <2>3, <2>4, PcStep DEF SameTickets
<1> QED
  BY <1>2, <1>10, <1>11

-----------------------------------------------------------------------------
(* Issuing tickets                                                         *)

(* The tickets after the step: sound, and only id newly issued             *)
NewlyIssued(id) ==
  /\ id \in Ticket /\ ~ Issued(id)
  /\ Forward
  /\ ticket' \in [Ticket -> Record] /\ sold' \in [Ticket -> Nat]
  /\ TicketsOK(now', ticket', sold')
  /\ now' = now
  /\ ticket' = [ticket EXCEPT ![id] = ticket'[id]]
  /\ sold' = [sold EXCEPT ![id] = sold'[id]]
  /\ ticket'[id].status = "active" /\ ~ ticket'[id].paused
  /\ ticket'[id].created \in 1 .. now /\ sold'[id] \in Durations

LEMMA IssueWrite ==
  ASSUME IInv, NEW id \in Ticket, ~ Issued(id),
         NEW t \in Record, Template(t, now), now' = now,
         ticket' = [ticket EXCEPT ![id] = t],
         sold' = [sold EXCEPT ![id] = Lifetime(t)]
  PROVE  NewlyIssued(id)
<1>1. now \in Nat /\ now >= 1 /\ ticket \in [Ticket -> Record] /\ sold \in [Ticket -> Nat]
  BY DEF IInv, TypeOK
<1>2. /\ t.created \in Nat /\ t.expires \in Nat /\ t.totalPaused = 0
      /\ t.pausedAt = 0 /\ t.start = 0 /\ t.status = "active" /\ ~ t.paused
      /\ t.created \in 1 .. now /\ Lifetime(t) \in Durations /\ Lifetime(t) \in Nat
  BY DurationsAssumption DEF Template, Record
<1>3. ticket'[id] = t /\ sold'[id] = Lifetime(t)
  BY <1>1
<1>4. SoundAt(t, now, t.created, Lifetime(t))
  BY <1>1, <1>2 DEF SoundAt, Lifetime
<1>5. TicketsOK(now', ticket', sold')
  <2> SUFFICES ASSUME NEW o \in Ticket, ticket'[o].status # "none"
               PROVE  SoundAt(ticket'[o], now, ticket'[o].created, sold'[o])
    BY DEF TicketsOK
  <2>1. CASE o = id
    BY <1>3, <1>4, <2>1
  <2>2. CASE o # id
    <3>1. ticket'[o] = ticket[o] /\ sold'[o] = sold[o]
      BY <1>1, <2>2
    <3> QED
      BY <3>1 DEF IInv, TicketsOK
  <2> QED
    BY <2>1, <2>2
<1>6. Forward
  BY <1>1 DEF Forward, Later, Issued
<1> QED
  BY <1>1, <1>2, <1>3, <1>5, <1>6 DEF NewlyIssued

LEMMA NewTicketTemplate ==
  ASSUME IInv, NEW p \in Profile, NEW d \in Durations, NEW rem \in Nat
  PROVE  /\ NewTicket(p, now, d, rem) \in Record
         /\ Template(NewTicket(p, now, d, rem), now)
         /\ Lifetime(NewTicket(p, now, d, rem)) = d
<1> DEFINE t == NewTicket(p, now, d, rem)
<1>1. now \in Nat /\ now >= 1 /\ d \in Nat
  BY DurationsAssumption DEF IInv, TypeOK
<1>2. t \in Record
  BY <1>1, NewTicketType
<1>3. /\ t.status = "active" /\ t.created = now /\ t.expires = now + d
      /\ ~ t.paused /\ t.pausedAt = 0 /\ t.totalPaused = 0 /\ t.start = 0
  BY DEF NewTicket, Blank
<1>4. Lifetime(t) = d
  BY <1>1, <1>3 DEF Lifetime
<1> HIDE DEF t
<1>5. Template(t, now)
  BY <1>1, <1>3, <1>4 DEF Template
<1> QED
  BY <1>2, <1>4, <1>5 DEF t

LEMMA CreateTicketStep ==
  ASSUME IInv, NEW r \in Request, CreateTicket(r)
  PROVE  \E id \in Ticket : Fresh(id) /\ NewlyIssued(id) /\ CallStep(r)
<1>1. PICK id \in Ticket, d \in Durations :
        /\ Fresh(id)
        /\ ticket' = [ticket EXCEPT ![id] = NewTicket("pausado", now, d, 0)]
        /\ sold' = [sold EXCEPT ![id] = d]
        /\ req' = [req EXCEPT ![r] =
                     [IdleCall EXCEPT !.pc = "create_index", !.id = id]]
  BY DEF CreateTicket
<1>2. now' = now
  BY DEF CreateTicket, clock
<1>3. /\ NewTicket("pausado", now, d, 0) \in Record
      /\ Template(NewTicket("pausado", now, d, 0), now)
      /\ Lifetime(NewTicket("pausado", now, d, 0)) = d
  BY NewTicketTemplate DEF Profile
<1>4. ~ Issued(id)
  BY <1>1 DEF Fresh
<1>5. NewlyIssued(id)
  BY <1>1, <1>2, <1>3, <1>4, IssueWrite
<1> DEFINE c == [IdleCall EXCEPT !.pc = "create_index", !.id = id]
<1>6. c \in Call
  BY IdleCallType DEF Call, RequestStep
<1>7. c.pc = "create_index" /\ c.id = id /\ c.batch = {} /\ c.snap.status = "none"
  BY IdleCallType DEF IdleCall
<1>8. "create_index" \notin WithMac \cup WithIp \cup BatchStep
  BY DEF WithMac, WithIp, BatchStep
<1>9. req' = [req EXCEPT ![r] = c]
  BY <1>1
<1> HIDE DEF c
<1>10. CallOK(c, now', ticket', sold')
  BY <1>6, <1>7, <1>8 DEF CallOK
<1>11. CallStep(r)
  BY <1>6, <1>7, <1>9, <1>10, MoveStep
<1> QED
  BY <1>1, <1>5, <1>11

LEMMA BatchTicketStep ==
  ASSUME IInv, NEW r \in Request, BatchTicket(r)
  PROVE  \E id \in req[r].batch :
           NewlyIssued(id) /\ CallStep(r) /\ req'[r].batch = req[r].batch \ {id}
<1>1. /\ CallOK(req[r], now, ticket, sold) /\ req[r] \in Call
      /\ req[r].snap \in Record /\ req[r].batch \in SUBSET Ticket
  BY CallFacts DEF Call
<1>2. PICK id \in req[r].batch :
        /\ ticket' = [ticket EXCEPT ![id] = req[r].snap]
        /\ sold' = [sold EXCEPT ![id] = Lifetime(req[r].snap)]
        /\ req' = [req EXCEPT ![r].pc = "batch_member", ![r].id = id,
                              ![r].batch = @ \ {id}]
  BY DEF BatchTicket
<1>3. now' = now /\ req[r].pc = "batch_ticket"
  BY DEF BatchTicket, clock, At
<1>4. Template(req[r].snap, now)
  BY <1>1, <1>3 DEF CallOK, BatchStep
<1>5. id \in Ticket /\ ~ Issued(id)
  BY <1>1 DEF IInv, BatchesOK
<1>6. NewlyIssued(id)
  BY <1>1, <1>2, <1>3, <1>4, <1>5, IssueWrite
<1> DEFINE c == [req[r] EXCEPT !.pc = "batch_member", !.id = id, !.batch = @ \ {id}]
<1>7. c \in Call
  <2>1. req[r].batch \ {id} \in SUBSET Ticket
    BY <1>1
  <2> QED
    BY <1>1, <1>5, <2>1 DEF Call, RequestStep
<1>8. /\ c.pc = "batch_member" /\ c.id = id /\ c.snap = req[r].snap
      /\ c.batch = req[r].batch \ {id}
  BY <1>1 DEF Call
<1>9. req' = [req EXCEPT ![r] = c]
  BY <1>2
<1>10. "batch_member" \notin WithMac \cup WithIp /\ "batch_member" \in BatchStep
  BY DEF WithMac, WithIp, BatchStep
<1>11. ticket'[id] = req[r].snap /\ sold'[id] = Lifetime(req[r].snap)
  BY <1>2, <1>5 DEF IInv, TypeOK
<1>12. SoundAt(ticket'[id], now', ticket'[id].created, sold'[id])
       /\ ticket'[id].status # "none"
  BY <1>6 DEF NewlyIssued, TicketsOK
<1> HIDE DEF c
<1>13. CallOK(c, now', ticket', sold')
  BY <1>3, <1>4, <1>5, <1>7, <1>8, <1>10, <1>11, <1>12 DEF CallOK
<1>14. CallStep(r)
  BY <1>7, <1>8, <1>9, <1>13, MoveStep
<1>15. req'[r] = c
  BY <1>9 DEF IInv, TypeOK
<1> QED
  BY <1>6, <1>8, <1>14, <1>15

(* createTicketBatch draws ids that are nobody's.                          *)
LEMMA CreateTicketBatchStep ==
  ASSUME IInv, NEW r \in Request, CreateTicketBatch(r)
  PROVE  /\ Forward /\ OnlyCall(r) /\ CallOK(req'[r], now', ticket', sold')
         /\ \A id \in req'[r].batch : id \in Ticket /\ Fresh(id)
<1>1. PICK p \in Profile, d \in Durations, ids \in SUBSET Ticket :
        /\ \A id \in ids : Fresh(id)
        /\ req' = [req EXCEPT ![r] =
                     [IdleCall EXCEPT !.pc = "batch_ticket", !.batch = ids,
                                      !.snap = NewTicket(p, now, d, d)]]
  BY DEF CreateTicketBatch
<1>2. UNCHANGED <<clock, records>>
  BY DEF CreateTicketBatch
<1>3. Forward
  BY <1>2, StillForward
<1>4. d \in Nat
  BY DurationsAssumption
<1>5. /\ NewTicket(p, now, d, d) \in Record
      /\ Template(NewTicket(p, now, d, d), now)
  BY <1>4, NewTicketTemplate
<1> DEFINE c == [IdleCall EXCEPT !.pc = "batch_ticket", !.batch = ids,
                                 !.snap = NewTicket(p, now, d, d)]
<1>6. c \in Call
  <2> HIDE DEF NewTicket
  <2> QED
    BY <1>5, IdleCallType DEF Call, RequestStep
<1>7. /\ c.pc = "batch_ticket" /\ c.id = NoTicket /\ c.batch = ids
      /\ c.snap = NewTicket(p, now, d, d)
  BY DEF IdleCall
<1>8. /\ "batch_ticket" \notin WithTicket \cup WithMac \cup WithIp
      /\ "batch_ticket" \in BatchStep
  BY DEF WithTicket, WithMac, WithIp, BatchStep
<1>9. req' = [req EXCEPT ![r] = c] /\ now' = now
  BY <1>1, <1>2 DEF clock
<1> HIDE DEF c
<1>10. CallOK(c, now', ticket', sold')
  BY <1>5, <1>6, <1>7, <1>8, <1>9 DEF CallOK
<1>11. req'[r] = c /\ OnlyCall(r)
  BY <1>6, <1>9 DEF IInv, TypeOK, OnlyCall
<1> QED
  BY <1>1, <1>3, <1>7, <1>10, <1>11

-----------------------------------------------------------------------------
(* The expiry loop                                                         *)

LoopStep(l) ==
  /\ sweep' \in [Sweep -> Loop]
  /\ \A k \in Sweep \ {l} : sweep'[k] = sweep[k]
  /\ LoopOK(sweep'[l], now', ticket', sold')

LEMMA LoopMove ==
  ASSUME IInv, NEW l \in Sweep,
         \E s \in Loop : /\ sweep' = [sweep EXCEPT ![l] = s]
                         /\ LoopOK(s, now', ticket', sold')
  PROVE  LoopStep(l)
  BY DEF IInv, TypeOK, LoopStep

LEMMA NextTicketOK ==
  ASSUME NEW s \in Loop, NEW n \in Nat, s.at <= n, NEW tk, NEW sd
  PROVE  NextTicket(s) \in Loop /\ LoopOK(NextTicket(s), n, tk, sd)
<1>1. s.at \in Nat /\ s.todo \in SUBSET Ticket
  BY DEF Loop
<1>2. CASE s.todo = {}
  <2>1. IdleLoop.pc = "idle" /\ IdleLoop.at = 0
    BY DEF IdleLoop
  <2> QED
    BY <1>2, <2>1, IdleLoopType DEF NextTicket, LoopOK
<1>3. CASE s.todo # {}
  <2> DEFINE t == [IdleLoop EXCEPT !.pc = "read", !.at = s.at, !.todo = s.todo]
  <2>1. t \in Loop
    BY <1>1, IdleLoopType DEF Loop, SweepStep
  <2>2. t.pc = "read" /\ t.at = s.at /\ t.snap.status = "none"
    BY IdleLoopType DEF IdleLoop
  <2>3. NextTicket(s) = t
    BY <1>3 DEF NextTicket
  <2> HIDE DEF t
  <2> QED
    BY <2>1, <2>2, <2>3 DEF LoopOK
<1> QED
  BY <1>2, <1>3

LEMMA LoopFacts ==
  ASSUME IInv, NEW l \in Sweep
  PROVE  /\ LoopOK(sweep[l], now, ticket, sold)
         /\ sweep[l] \in Loop /\ sweep[l].at \in Nat /\ sweep[l].at <= now
         /\ sweep[l].snap \in Record /\ sweep[l].todo \in SUBSET Ticket
         /\ sweep[l].ip \in Ip \cup {NoIp}
         /\ now \in Nat
  BY DEF IInv, LoopsOK, LoopOK, TypeOK, Loop

(* Steps of a sweep that leave the tickets alone                           *)
ScanAction(l) ==
  \/ SweepStart(l) \/ SweepRead(l) \/ SweepTime(l) \/ SweepSpare(l)
  \/ SweepRevoke(l) \/ SweepUnshadow(l) \/ SweepUnsession(l)

LEMMA ScanStep ==
  ASSUME IInv, NEW l \in Sweep, ScanAction(l)
  PROVE  Forward /\ LoopStep(l)
<1>1. /\ LoopOK(sweep[l], now, ticket, sold)
      /\ sweep[l] \in Loop /\ sweep[l].at \in Nat /\ sweep[l].at <= now
      /\ sweep[l].snap \in Record /\ sweep[l].todo \in SUBSET Ticket
      /\ sweep[l].ip \in Ip \cup {NoIp} /\ now \in Nat
  BY LoopFacts
<1>2. UNCHANGED <<clock, records>>
  BY DEF ScanAction, SweepStart, SweepRead, SweepTime, SweepSpare, SweepRevoke,
         SweepUnshadow, SweepUnsession
<1>3. now' = now /\ ticket' = ticket /\ sold' = sold
  BY <1>2 DEF clock, records
<1>4. Forward
  BY <1>2, StillForward
<1>5. ticket \in [Ticket -> Record] /\ hotspotTickets \in SUBSET Ticket
  BY DEF IInv, TypeOK
<1>6. CASE SweepStart(l)
  <2> DEFINE s == [IdleLoop EXCEPT !.pc = "read", !.todo = hotspotTickets]
  <2>1. sweep' = [sweep EXCEPT ![l] = s]
    BY <1>6 DEF SweepStart
  <2>2. s \in Loop
    BY <1>5, IdleLoopType DEF Loop, SweepStep
  <2>3. s.pc = "read" /\ s.at = 0 /\ s.snap.status = "none"
    BY IdleLoopType DEF IdleLoop
  <2> HIDE DEF s
  <2>4. LoopOK(s, now', ticket', sold')
    BY <1>1, <1>3, <2>2, <2>3 DEF LoopOK
  <2> QED
    BY <1>4, <2>1, <2>2, <2>4, LoopMove
<1>7. CASE SweepRead(l)
  <2>1. PICK id \in sweep[l].todo :
          LET t == ticket[id]
              s == [sweep[l] EXCEPT !.todo = @ \ {id}, !.at = IF @ = 0 THEN now ELSE @]
          IN  sweep' = [sweep EXCEPT ![l] =
                IF t.status # "active" THEN NextTicket(s)
                ELSE [s EXCEPT !.id = id, !.ip = t.ip, !.snap = t,
                        !.pc = IF t.profile = "corrido" THEN "verdict" ELSE "time"]]
    BY <1>7 DEF SweepRead
  <2> DEFINE t == ticket[id]
             s == [sweep[l] EXCEPT !.todo = @ \ {id}, !.at = IF @ = 0 THEN now ELSE @]
             p == IF t.profile = "corrido" THEN "verdict" ELSE "time"
             u == [s EXCEPT !.id = id, !.ip = t.ip, !.snap = t, !.pc = p]
  <2>2. id \in Ticket /\ t \in Record /\ t.ip \in Ip \cup {NoIp}
    BY <1>1, <1>5 DEF Record
  <2>3. s \in Loop /\ s.at <= now
    <3>1. sweep[l].todo \ {id} \in SUBSET Ticket
      BY <1>1
    <3>2. s \in Loop
      BY <1>1, <3>1 DEF Loop
    <3>3. s.at \in {now, sweep[l].at}
      BY <1>1 DEF Loop
    <3> QED
      BY <1>1, <3>2, <3>3
  <2>4. CASE t.status # "active"
    <3> HIDE DEF s
    <3>1. NextTicket(s) \in Loop /\ LoopOK(NextTicket(s), now', ticket', sold')
      BY <1>1, <1>3, <2>3, NextTicketOK
    <3> QED
      BY <1>4, <2>1, <2>4, <3>1, LoopMove DEF s
  <2>5. CASE t.status = "active"
    <3>1. p \in {"verdict", "time"} /\ p \in SweepStep
      BY DEF SweepStep
    <3>2. sweep' = [sweep EXCEPT ![l] = u]
      BY <2>1, <2>5
    <3> HIDE DEF p, s, t
    <3>3. u \in Loop
      BY <2>2, <2>3, <3>1 DEF Loop
    <3>4. u.pc = p /\ u.at = s.at /\ u.id = id /\ u.snap = t
      BY <2>3 DEF Loop
    <3>5. SoundAt(t, now, ticket[id].created, sold[id])
      BY <2>2, <2>5 DEF IInv, TicketsOK, t
    <3>6. ticket[id].status # "none"
      BY <2>5 DEF t
    <3> HIDE DEF u
    <3>7. LoopOK(u, now', ticket', sold')
      BY <1>3, <2>2, <2>3, <2>5, <3>3, <3>4, <3>5, <3>6 DEF LoopOK
    <3> QED
      BY <1>4, <3>2, <3>3, <3>7, LoopMove
  <2> QED
    BY <2>4, <2>5
<1>8. CASE SweepTime(l)
  <2> DEFINE u == [sweep[l] EXCEPT !.pc = "verdict", !.snap = ticket[sweep[l].id]]
  <2>1. sweep[l].pc = "time" /\ sweep' = [sweep EXCEPT ![l] = u]
    BY <1>8 DEF SweepTime
  <2>2. sweep[l].id \in Ticket /\ ticket[sweep[l].id].status # "none"
    BY <1>1, <2>1 DEF LoopOK
  <2>3. ticket[sweep[l].id] \in Record
    BY <1>5, <2>2
  <2>4. u \in Loop
    BY <1>1, <2>3 DEF Loop, SweepStep
  <2>5. u.pc = "verdict" /\ u.at = sweep[l].at /\ u.id = sweep[l].id
        /\ u.snap = ticket[sweep[l].id]
    BY <1>1 DEF Loop
  <2>6. SoundAt(ticket[sweep[l].id], now, ticket[sweep[l].id].created, sold[sweep[l].id])
    BY <2>2 DEF IInv, TicketsOK
  <2> HIDE DEF u
  <2>7. LoopOK(u, now', ticket', sold')
    BY <1>1, <1>3, <2>2, <2>4, <2>5, <2>6 DEF LoopOK
  <2> QED
    BY <1>4, <2>1, <2>4, <2>7, LoopMove
<1>9. CASE SweepSpare(l) \/ SweepUnsession(l)
  <2>1. sweep' = [sweep EXCEPT ![l] = NextTicket(sweep[l])]
    BY <1>9 DEF SweepSpare, SweepUnsession
  <2> QED
    BY <1>1, <1>3, <1>4, <2>1, NextTicketOK, LoopMove
<1>10. CASE SweepRevoke(l) \/ SweepUnshadow(l)
  <2>1. PICK p \in {"unshadow", "unsession"} : sweep' = [sweep EXCEPT ![l].pc = p]
    BY <1>10 DEF SweepRevoke, SweepUnshadow
  <2>2. sweep[l].pc \in {"revoke", "unshadow"}
    BY <1>10 DEF SweepRevoke, SweepUnshadow
  <2> DEFINE u == [sweep[l] EXCEPT !.pc = p]
  <2>3. u \in Loop /\ sweep' = [sweep EXCEPT ![l] = u]
    BY <1>1, <2>1 DEF Loop, SweepStep
  <2>4. u.pc = p /\ u.at = sweep[l].at /\ u.id = sweep[l].id /\ u.snap = sweep[l].snap
    BY <1>1 DEF Loop
  <2> HIDE DEF u
  <2>5. LoopOK(u, now', ticket', sold')
    BY <1>1, <1>3, <2>2, <2>3, <2>4 DEF LoopOK
  <2> QED
    BY <1>4, <2>3, <2>5, LoopMove
<1> QED
  BY <1>6, <1>7, <1>8, <1>9, <1>10 DEF ScanAction

(* The loop may decide on a hash read earlier; the sold time has gone by   *)
(* all the same.                                                           *)
LEMMA SweepExpireStep ==
  ASSUME IInv, NEW l \in Sweep, SweepExpire(l)
  PROVE  /\ SameTickets /\ LoopStep(l)
         /\ sweep[l].id \in Ticket
         /\ Issued(sweep[l].id)
         /\ now >= ticket[sweep[l].id].created + sold[sweep[l].id]
<1> DEFINE id == sweep[l].id
           s == sweep[l].snap
<1>1. /\ LoopOK(sweep[l], now, ticket, sold)
      /\ sweep[l] \in Loop /\ sweep[l].at \in Nat /\ sweep[l].at <= now
      /\ s \in Record /\ now \in Nat
  BY LoopFacts
<1>2. /\ sweep[l].pc = "verdict" /\ Exhausted(s, sweep[l].at, now)
      /\ ticket' = [ticket EXCEPT ![id].status = "expired"]
      /\ now' = now /\ sold' = sold
      /\ \/ sweep' = [sweep EXCEPT ![l] = NextTicket(sweep[l])]
         \/ sweep' = [sweep EXCEPT ![l] = [sweep[l] EXCEPT !.pc = "revoke", !.snap = Blank]]
  BY DEF SweepExpire, clock
<1>3. id \in Ticket /\ s.status # "none" /\ ticket[id].status # "none"
      /\ SoundAt(s, now, ticket[id].created, sold[id])
  BY <1>1, <1>2 DEF LoopOK
<1>4. SameTickets
  BY <1>2, <1>3, ExpireWrite
<1>5. now >= ticket[id].created + sold[id]
  <2>1. /\ sold[id] \in Nat /\ s.totalPaused \in Nat /\ s.start \in Nat
        /\ s.created \in Nat /\ s.expires \in Nat /\ s.pausedAt \in Nat
        /\ ticket[id].created \in Nat /\ s.paused \in BOOLEAN
    BY <1>1, <1>3, TicketFields DEF Record
  <2>2. /\ s.created = ticket[id].created
        /\ s.expires = ticket[id].created + sold[id] + s.totalPaused
        /\ s.start # 0 => ticket[id].created <= s.start
        /\ s.pausedAt <= now
    BY <1>1, <1>3, <2>1 DEF SoundAt
  <2>3. Lifetime(s) = sold[id] + s.totalPaused
    BY <2>1, <2>2 DEF Lifetime
  <2>4. CASE s.profile = "corrido"
    <3>1. sweep[l].at - RunningSince(s) >= Lifetime(s)
      BY <1>2, <2>4 DEF Exhausted
    <3>2. RunningSince(s) \in Nat /\ RunningSince(s) >= ticket[id].created
      BY <2>1, <2>2 DEF RunningSince
    <3> HIDE DEF s, id
    <3> QED
      BY <1>1, <2>1, <2>3, <3>1, <3>2
  <2>5. CASE s.profile # "corrido"
    <3>1. Remaining(s, now) = 0
      BY <1>2, <2>5 DEF Exhausted
    <3>2. TimeUsed(s, now) \in Int /\ TimeUsed(s, now) <= now - s.created - s.totalPaused
      <4> HIDE DEF s, id
      <4> QED
        BY <1>1, <2>1, <2>2 DEF TimeUsed
    <3>3. Lifetime(s) <= TimeUsed(s, now)
      <4> HIDE DEF s, id
      <4> QED
        BY <2>1, <2>3, <3>1, <3>2 DEF Remaining
    <3> HIDE DEF s, id
    <3> QED
      BY <1>1, <2>1, <2>2, <2>3, <3>2, <3>3
  <2> QED
    BY <2>4, <2>5
<1>6. LoopStep(l)
  <2>1. CASE sweep' = [sweep EXCEPT ![l] = NextTicket(sweep[l])]
    BY <1>1, <1>2, <2>1, NextTicketOK, LoopMove
  <2> DEFINE u == [sweep[l] EXCEPT !.pc = "revoke", !.snap = Blank]
  <2>2. CASE sweep' = [sweep EXCEPT ![l] = u]
    <3>1. u \in Loop
      BY <1>1, BlankType DEF Loop, SweepStep
    <3>2. u.pc = "revoke" /\ u.at = sweep[l].at /\ u.id = id /\ u.snap.status = "none"
      BY <1>1 DEF Loop, Blank
    <3> HIDE DEF u
    <3>3. LoopOK(u, now', ticket', sold')
      BY <1>1, <1>2, <1>3, <3>1, <3>2 DEF LoopOK
    <3> QED
      BY <2>2, <3>1, <3>3, LoopMove
  <2> QED
    BY <1>2, <2>1, <2>2
<1> QED
  BY <1>3, <1>4, <1>5, <1>6 DEF Issued

-----------------------------------------------------------------------------
(* The rest of the state                                                   *)

(* The conjuncts of TypeOK that soundness does not rest on                 *)
StoreOK ==
  /\ up \in BOOLEAN /\ crashes \in Nat
  /\ hotspotTickets \subseteq Ticket /\ batchTickets \subseteq Ticket
  /\ shadow \in [Ticket -> Nat]
  /\ session \in [Ip \cup {NoIp} -> Ticket \cup {NoTicket}]
  /\ macTicket \in [Mac -> Ticket \cup {NoTicket}]
  /\ ticketIp \in [Ticket -> Ip \cup {NoIp}]
  /\ online \subseteq Ticket
  /\ metadata \in [Ip -> Ticket \cup {NoTicket}]
  /\ activeClients \subseteq Ip
  /\ openedFor \in [Ip -> Ticket \cup {NoTicket}]
  /\ shaper \in Ticket \cup {NoTicket}

LEMMA StoreType == IInv => StoreOK
  BY DEF IInv, TypeOK, StoreOK

LEMMA StoreKept ==
  ASSUME StoreOK, UNCHANGED <<up, crashes, index, keys, kernel>>
  PROVE  StoreOK'
  BY DEF StoreOK, index, keys, kernel

(* Calls that write no key but their ticket's hash                         *)
LEMMA QuietCallStore ==
  ASSUME IInv, NEW r \in Request,
         \/ CallBegins(r) \/ BatchTicket(r)
         \/ AutoTicket(r) \/ AutoTime(r) \/ AutoVerdict(r)
         \/ ActStart(r) \/ ActSpent(r) \/ ActTtl(r) \/ ActWrite(r)
         \/ PauseWrite(r) \/ ResumeWrite(r)
  PROVE  StoreOK'
<1>1. UNCHANGED <<up, crashes, index, keys, kernel>>
  BY DEF CallBegins, CreateTicket, CreateTicketBatch, Activate, CheckAuto,
         PauseTicket, ResumeTicket, BatchTicket, AutoTicket, AutoTime,
         AutoVerdict, ActStart, ActSpent, ActTtl, ActWrite, PauseWrite,
         ResumeWrite, clock
<1> QED
  BY <1>1, StoreType, StoreKept

LEMMA CallContinuesStore ==
  ASSUME IInv, NEW r \in Request, CallContinues(r)
  PROVE  StoreOK'
<1>1. /\ CallOK(req[r], now, ticket, sold) /\ req[r] \in Call
      /\ req[r].at \in Nat /\ now \in Nat /\ req[r].snap \in Record
  BY CallFacts
<1>2. StoreOK
  BY StoreType
<1>3. req[r].pc \in WithTicket => req[r].id \in Ticket
  BY <1>1 DEF CallOK
<1>4. CASE CreateIndex(r) \/ BatchMember(r) \/ BatchIndex(r)
  <2>1. req[r].pc \in WithTicket
    BY <1>4 DEF CreateIndex, BatchMember, BatchIndex, At, WithTicket,
                RequestStep, Answered
  <2> QED
    BY <1>2, <1>3, <1>4, <2>1
    DEF CreateIndex, BatchMember, BatchIndex, StoreOK, clock, index, keys, kernel
<1>5. CASE AutoUnbind(r)
  BY <1>2, <1>5 DEF AutoUnbind, StoreOK, clock, index, kernel
<1>6. CASE ActClock(r)
  <2>1. Lifetime(req[r].snap) \in Int /\ Elapsed(req[r].snap, req[r].at) \in Int
    BY <1>1 DEF Lifetime, Elapsed, Record
  <2>2. \E n \in Nat : shadow' = [shadow EXCEPT ![req[r].id] = n]
    <3>1. now + (Lifetime(req[r].snap) - Elapsed(req[r].snap, req[r].at)) \in Nat
      BY <1>1, <1>6, <2>1 DEF ActClock
    <3> QED
      BY <1>6, <3>1 DEF ActClock
  <2>3. UNCHANGED <<clock, index, session, macTicket, ticketIp, online, metadata, kernel>>
    BY <1>6 DEF ActClock
  <2> QED
    BY <1>2, <2>2, <2>3 DEF StoreOK, clock, index, kernel
<1>7. CASE ActSession(r)
  <2>1. req[r].id \in Ticket
    BY <1>3, <1>7 DEF ActSession, At, WithTicket, RequestStep, ActivateStep, Answered
  <2> QED
    BY <1>2, <1>7, <2>1 DEF ActSession, StoreOK, clock, index, kernel
<1>8. CASE ActShadow(r)
  <2>1. now + req[r].at \in Nat
    BY <1>1
  <2> QED
    BY <1>2, <1>8, <2>1 DEF ActShadow, StoreOK, clock, index, kernel
<1>9. CASE ActMac(r)
  <2>1. req[r].id \in Ticket
    BY <1>3, <1>9 DEF ActMac, At, WithTicket, RequestStep, ActivateStep, Answered
  <2> QED
    BY <1>2, <1>9, <2>1 DEF ActMac, StoreOK, clock, index, kernel
<1>10. CASE ActIp(r)
  <2>1. req[r].ip \in Ip
    BY <1>1, <1>10 DEF ActIp, At, CallOK, WithIp
  <2> QED
    BY <1>2, <1>10, <2>1 DEF ActIp, StoreOK, clock, index, kernel
<1>11. CASE ActGrant(r) \/ PauseRevoke(r) \/ ResumeGrant(r)
  <2>1. req[r].ip \in Ip
    BY <1>1, <1>11 DEF ActGrant, PauseRevoke, ResumeGrant, At, CallOK, WithIp
  <2>2. activeClients' \subseteq Ip
    BY <1>2, <1>11, <2>1 DEF ActGrant, PauseRevoke, ResumeGrant, Nft, StoreOK
  <2>3. UNCHANGED <<clock, index, keys, shaper>>
    BY <1>11 DEF ActGrant, PauseRevoke, ResumeGrant
  <2>4. req[r].id \in Ticket
    BY <1>3, <1>11 DEF ActGrant, PauseRevoke, ResumeGrant, At, WithTicket,
                       RequestStep, ActivateStep, Answered
  <2>5. openedFor' \in [Ip -> Ticket \cup {NoTicket}]
    BY <1>2, <1>11, <2>4 DEF ActGrant, PauseRevoke, ResumeGrant, StoreOK
  <2> QED
    BY <1>2, <2>2, <2>3, <2>5 DEF StoreOK, clock, index, keys
<1>12. CASE ActOnline(r)
  <2>1. req[r].id \in Ticket
    BY <1>3, <1>12 DEF ActOnline, At, WithTicket, RequestStep, ActivateStep, Answered
  <2> QED
    BY <1>2, <1>12, <2>1 DEF ActOnline, StoreOK, clock, index, kernel
<1>13. CASE ActMeta(r)
  <2>1. req[r].id \in Ticket
    BY <1>3, <1>13 DEF ActMeta, At, WithTicket, RequestStep, ActivateStep, Answered
  <2> QED
    BY <1>2, <1>13, <2>1 DEF ActMeta, StoreOK, clock, index, kernel
<1>14. CASE ActShape(r)
  <2>1. req[r].id \in Ticket
    BY <1>3, <1>14 DEF ActShape, At, WithTicket, RequestStep, ActivateStep, Answered
  <2> QED
    BY <1>2, <1>14, <2>1 DEF ActShape, StoreOK, clock, index, keys
<1> QED
  BY <1>4, <1>5, <1>6, <1>7, <1>8, <1>9, <1>10, <1>11, <1>12, <1>13, <1>14,
     QuietCallStore
  DEF CallContinues

LEMMA SweepStore ==
  ASSUME IInv, NEW l \in Sweep, ScanAction(l) \/ SweepExpire(l)
  PROVE  StoreOK'
<1>1. StoreOK
  BY StoreType
<1>2. CASE SweepRevoke(l)
  BY <1>1, <1>2 DEF SweepRevoke, StoreOK, Nft, clock, index, keys
<1>3. CASE SweepUnshadow(l)
  BY <1>1, <1>3 DEF SweepUnshadow, StoreOK, clock, index, kernel
<1>4. CASE SweepUnsession(l)
  BY <1>1, <1>4 DEF SweepUnsession, StoreOK, clock, index, kernel
<1>5. CASE SweepStart(l) \/ SweepRead(l) \/ SweepTime(l) \/ SweepSpare(l) \/ SweepExpire(l)
  <2>1. UNCHANGED <<up, crashes, index, keys, kernel>>
    BY <1>5 DEF SweepStart, SweepRead, SweepTime, SweepSpare, SweepExpire, clock
  <2> QED
    BY <1>1, <2>1, StoreKept
<1> QED
  BY <1>2, <1>3, <1>4, <1>5 DEF ScanAction

-----------------------------------------------------------------------------
(* The invariant is inductive                                              *)

(* A step of one call leaves every call and every sweep in order.          *)
LEMMA CallFrame ==
  ASSUME IInv, NEW r \in Request, OnlyCall(r), Forward,
         CallOK(req'[r], now', ticket', sold'), sweep' = sweep
  PROVE  CallsOK' /\ LoopsOK'
<1>1. Later(now, ticket, sold, now', ticket', sold')
  BY DEF Forward
<1>2. ASSUME NEW q \in Request \ {r}
      PROVE  CallOK(req'[q], now', ticket', sold')
  <2>1. CallOK(req[q], now, ticket, sold) /\ req'[q] = req[q]
    BY DEF IInv, CallsOK, OnlyCall
  <2> QED
    BY <1>1, <2>1, CallLater
<1>3. ASSUME NEW l \in Sweep
      PROVE  LoopOK(sweep'[l], now', ticket', sold')
  <2>1. LoopOK(sweep[l], now, ticket, sold)
    BY DEF IInv, LoopsOK
  <2> QED
    BY <1>1, <2>1, LoopLater
<1> QED
  BY <1>2, <1>3 DEF CallsOK, LoopsOK

(* So does a step of one sweep.                                            *)
LEMMA LoopFrame ==
  ASSUME IInv, NEW l \in Sweep, LoopStep(l), Forward, req' = req
  PROVE  CallsOK' /\ LoopsOK'
<1>1. Later(now, ticket, sold, now', ticket', sold')
  BY DEF Forward
<1>2. ASSUME NEW r \in Request
      PROVE  CallOK(req'[r], now', ticket', sold')
  <2>1. CallOK(req[r], now, ticket, sold)
    BY DEF IInv, CallsOK
  <2> QED
    BY <1>1, <2>1, CallLater
<1>3. ASSUME NEW k \in Sweep \ {l}
      PROVE  LoopOK(sweep'[k], now', ticket', sold')
  <2>1. LoopOK(sweep[k], now, ticket, sold) /\ sweep'[k] = sweep[k]
    BY DEF IInv, LoopsOK, LoopStep
  <2> QED
    BY <1>1, <2>1, LoopLater
<1> QED
  BY <1>2, <1>3 DEF CallsOK, LoopsOK, LoopStep

(* Batches that only lose ids stay apart.                                  *)
LEMMA BatchesShrink ==
  ASSUME IInv, \A r \in Request : req'[r].batch \subseteq req[r].batch,
         \A r \in Request : \A id \in req'[r].batch : ~ Issued(id)'
  PROVE  BatchesOK'
  BY DEF IInv, BatchesOK

(* The steps of calls that write no hash                                   *)
LEMMA NoWriteStep ==
  ASSUME IInv, NEW r \in Request,
         PcAction(r) \/ AnswerAction(r) \/ ReadAction(r)
  PROVE  CallStep(r) /\ UNCHANGED <<clock, records>>
<1>1. CallStep(r)
  BY PcActionStep, AnswerActionStep, ReadActionStep
<1>2. ASSUME PcAction(r) PROVE UNCHANGED <<clock, records>>
  BY <1>2 DEF PcAction, AutoTicket, ActClock, ActSession, ActShadow, ActMac,
              ActIp, ActGrant, ActOnline
<1>3. ASSUME AnswerAction(r) PROVE UNCHANGED <<clock, records>>
  BY <1>3 DEF AnswerAction, CreateIndex, AutoUnbind, ActMeta, ActShape,
              PauseRevoke, ResumeGrant
<1>4. ASSUME ReadAction(r) PROVE UNCHANGED <<clock, records>>
  BY <1>4 DEF ReadAction, Activate, CheckAuto, AutoTime, AutoVerdict, ActTtl,
              PauseTicket, ResumeTicket, BatchMember, BatchIndex
<1> QED
  BY <1>1, <1>2, <1>3, <1>4

(* The steps of calls that write the hash of an issued ticket, or none     *)
WriteAction(r) ==
  ActStart(r) \/ ActWrite(r) \/ ActSpent(r) \/ PauseWrite(r) \/ ResumeWrite(r)

LEMMA WriteStep ==
  ASSUME IInv, NEW r \in Request, WriteAction(r)
  PROVE  SameTickets /\ CallStep(r) /\ now' = now /\ sold' = sold
<1>1. now' = now /\ sold' = sold
  BY DEF WriteAction, ActStart, ActWrite, ActSpent, PauseWrite, ResumeWrite, clock
<1> QED
  BY <1>1, ActStartStep, ActWriteStep, ActSpentStep, PauseWriteStep, ResumeWriteStep
  DEF WriteAction

LEMMA CallKinds ==
  ASSUME NEW r \in Request, CallBegins(r) \/ CallContinues(r)
  PROVE  \/ CreateTicket(r) \/ CreateTicketBatch(r) \/ BatchTicket(r)
         \/ PcAction(r) \/ AnswerAction(r) \/ ReadAction(r) \/ WriteAction(r)
  BY DEF CallBegins, CallContinues, PcAction, AnswerAction, ReadAction, WriteAction

(* Gathering the parts of the invariant after a step                       *)
LEMMA Assemble ==
  ASSUME StoreOK', now' \in Nat \ {0}, ticket' \in [Ticket -> Record],
         sold' \in [Ticket -> Nat], req' \in [Request -> Call],
         sweep' \in [Sweep -> Loop], TicketsOK(now', ticket', sold'),
         CallsOK', LoopsOK', BatchesOK'
  PROVE  IInv'
  BY DEF IInv, TypeOK, StoreOK

LEMMA CallInv ==
  ASSUME IInv, NEW r \in Request, CallBegins(r) \/ CallContinues(r)
  PROVE  IInv'
<1>1. StoreOK'
  BY QuietCallStore, CallContinuesStore
<1>2. sweep' = sweep /\ now' = now
  BY DEF CallBegins, CallContinues, CreateTicket, CreateTicketBatch, Activate,
         CheckAuto, PauseTicket, ResumeTicket, CreateIndex, BatchTicket,
         BatchMember, BatchIndex, AutoTicket, AutoUnbind, AutoTime, AutoVerdict,
         ActStart, ActClock, ActSpent, ActTtl, ActWrite, ActSession, ActShadow,
         ActMac, ActIp, ActGrant, ActOnline, ActMeta, ActShape, PauseWrite,
         PauseRevoke, ResumeWrite, ResumeGrant, clock
<1>3. /\ now \in Nat \ {0} /\ sweep \in [Sweep -> Loop] /\ BatchesOK
      /\ sold \in [Ticket -> Nat] /\ ticket \in [Ticket -> Record]
      /\ req \in [Request -> Call]
  BY DEF IInv, TypeOK
<1>4. CASE CreateTicket(r)
  <2>1. PICK id \in Ticket : Fresh(id) /\ NewlyIssued(id) /\ CallStep(r)
    BY <1>4, CreateTicketStep
  <2>2. \A q \in Request : req'[q].batch \subseteq req[q].batch
    BY <2>1 DEF CallStep, OnlyCall
  <2>3. \A q \in Request : \A o \in req'[q].batch : ~ Issued(o)'
    <3>1. \A q \in Request : \A o \in req'[q].batch :
            o \in Ticket /\ o # id /\ ~ Issued(o)
      BY <1>3, <2>1, <2>2 DEF Fresh, BatchesOK, Call
    <3>2. \A o \in Ticket : o # id => ticket'[o] = ticket[o]
      BY <1>3, <2>1 DEF NewlyIssued
    <3> QED
      BY <3>1, <3>2 DEF Issued
  <2>4. BatchesOK'
    BY <2>2, <2>3, BatchesShrink
  <2>5. CallsOK' /\ LoopsOK'
    BY <1>2, <2>1, CallFrame DEF CallStep, NewlyIssued
  <2> QED
    BY <1>1, <1>2, <1>3, <2>1, <2>4, <2>5, Assemble
    DEF CallStep, OnlyCall, NewlyIssued
<1>5. CASE BatchTicket(r)
  <2>1. PICK id \in req[r].batch :
          NewlyIssued(id) /\ CallStep(r) /\ req'[r].batch = req[r].batch \ {id}
    BY <1>5, BatchTicketStep
  <2>2. \A q \in Request : req'[q].batch \subseteq req[q].batch
    BY <2>1 DEF CallStep, OnlyCall
  <2>3. \A q \in Request : \A o \in req'[q].batch : ~ Issued(o)'
    <3>1. \A q \in Request : \A o \in req'[q].batch :
            o \in Ticket /\ o # id /\ ~ Issued(o)
      BY <1>3, <2>1, <2>2 DEF BatchesOK, CallStep, OnlyCall, Call
    <3>2. \A o \in Ticket : o # id => ticket'[o] = ticket[o]
      BY <1>3, <2>1 DEF NewlyIssued
    <3> QED
      BY <3>1, <3>2 DEF Issued
  <2>4. BatchesOK'
    BY <2>2, <2>3, BatchesShrink
  <2>5. CallsOK' /\ LoopsOK'
    BY <1>2, <2>1, CallFrame DEF CallStep, NewlyIssued
  <2> QED
    BY <1>1, <1>2, <1>3, <2>1, <2>4, <2>5, Assemble
    DEF CallStep, OnlyCall, NewlyIssued
<1>6. CASE CreateTicketBatch(r)
  <2>1. /\ Forward /\ OnlyCall(r) /\ CallOK(req'[r], now', ticket', sold')
        /\ \A id \in req'[r].batch : id \in Ticket /\ Fresh(id)
    BY <1>6, CreateTicketBatchStep
  <2>2. ticket' = ticket /\ sold' = sold
    BY <1>6 DEF CreateTicketBatch, records
  <2>3. BatchesOK'
    BY <1>3, <2>1, <2>2 DEF BatchesOK, Fresh, Issued, OnlyCall
  <2>4. CallsOK' /\ LoopsOK'
    BY <1>2, <2>1, CallFrame
  <2>5. TicketsOK(now', ticket', sold')
    BY <1>2, <2>2 DEF IInv
  <2> QED
    BY <1>1, <1>2, <1>3, <2>1, <2>2, <2>3, <2>4, <2>5, Assemble DEF OnlyCall
<1>7. CASE PcAction(r) \/ AnswerAction(r) \/ ReadAction(r)
  <2>1. CallStep(r) /\ UNCHANGED <<clock, records>>
    BY <1>7, NoWriteStep
  <2>2. ticket' = ticket /\ sold' = sold /\ Forward
    BY <2>1, StillForward DEF records
  <2>3. \A q \in Request : req'[q].batch \subseteq req[q].batch
    BY <2>1 DEF CallStep, OnlyCall
  <2>4. BatchesOK'
    BY <1>3, <2>2, <2>3, BatchesShrink DEF BatchesOK, Issued
  <2>5. CallsOK' /\ LoopsOK'
    BY <1>2, <2>1, <2>2, CallFrame DEF CallStep
  <2>6. TicketsOK(now', ticket', sold')
    BY <1>2, <2>2 DEF IInv
  <2> QED
    BY <1>1, <1>2, <1>3, <2>1, <2>2, <2>4, <2>5, <2>6, Assemble DEF CallStep, OnlyCall
<1>8. CASE WriteAction(r)
  <2>1. SameTickets /\ CallStep(r) /\ sold' = sold
    BY <1>8, WriteStep
  <2>2. \A q \in Request : req'[q].batch \subseteq req[q].batch
    BY <2>1 DEF CallStep, OnlyCall
  <2>3. \A q \in Request : \A o \in req'[q].batch : ~ Issued(o)'
    <3>1. \A q \in Request : req'[q].batch \subseteq Ticket
      BY <2>1 DEF CallStep, OnlyCall, Call
    <3> QED
      BY <1>3, <2>1, <2>2, <3>1 DEF SameTickets, BatchesOK
  <2>4. BatchesOK'
    BY <2>2, <2>3, BatchesShrink
  <2>5. CallsOK' /\ LoopsOK'
    BY <1>2, <2>1, CallFrame DEF CallStep, SameTickets
  <2> QED
    BY <1>1, <1>2, <1>3, <2>1, <2>4, <2>5, Assemble DEF CallStep, OnlyCall, SameTickets
<1> QED
  BY <1>4, <1>5, <1>6, <1>7, <1>8, CallKinds

LEMMA SweepInv ==
  ASSUME IInv, NEW l \in Sweep, SweepStart(l) \/ SweepContinues(l)
  PROVE  IInv'
<1>1. ScanAction(l) \/ SweepExpire(l)
  BY DEF SweepContinues, ScanAction
<1>2. StoreOK'
  BY <1>1, SweepStore
<1>3. req' = req /\ now' = now /\ sold' = sold
  BY <1>1 DEF ScanAction, SweepStart, SweepRead, SweepTime, SweepSpare,
              SweepRevoke, SweepUnshadow, SweepUnsession, SweepExpire, clock, records
<1>4. /\ now \in Nat \ {0} /\ req \in [Request -> Call] /\ BatchesOK
      /\ sold \in [Ticket -> Nat] /\ ticket \in [Ticket -> Record]
  BY DEF IInv, TypeOK
<1>5. LoopStep(l) /\ SameTickets
  <2>1. CASE SweepExpire(l)
    BY <2>1, SweepExpireStep
  <2>2. CASE ScanAction(l)
    <3>1. ticket' = ticket
      BY <2>2 DEF ScanAction, SweepStart, SweepRead, SweepTime, SweepSpare,
                  SweepRevoke, SweepUnshadow, SweepUnsession, records
    <3>2. Forward /\ LoopStep(l)
      BY <2>2, ScanStep
    <3> QED
      BY <1>3, <1>4, <3>1, <3>2 DEF SameTickets, IInv, Issued
  <2> QED
    BY <1>1, <2>1, <2>2
<1>6. CallsOK' /\ LoopsOK'
  BY <1>3, <1>5, LoopFrame DEF SameTickets
<1>7. BatchesOK'
  <2>1. \A r \in Request : req[r].batch \subseteq Ticket
    BY <1>4 DEF Call
  <2>2. \A r \in Request : \A id \in req'[r].batch : ~ Issued(id)'
    BY <1>3, <1>4, <1>5, <2>1 DEF BatchesOK, SameTickets
  <2>3. \A r \in Request : req'[r].batch \subseteq req[r].batch
    BY <1>3
  <2> QED
    BY <2>2, <2>3, BatchesShrink
<1> QED
  BY <1>2, <1>3, <1>4, <1>5, <1>6, <1>7, Assemble DEF LoopStep, SameTickets

(* Time goes on: what is sound stays sound.                                *)
LEMMA TickInv == ASSUME IInv, Tick PROVE IInv'
<1>1. now' = now + 1 /\ now \in Nat \ {0}
  BY DEF Tick, IInv, TypeOK
<1>2. /\ UNCHANGED <<up, crashes, index, keys, kernel>>
      /\ ticket' = ticket /\ sold' = sold /\ req' = req /\ sweep' = sweep
  BY DEF Tick, records
<1>3. StoreOK'
  BY <1>2, StoreType, StoreKept
<1>4. Later(now, ticket, sold, now', ticket', sold')
  BY <1>1, <1>2 DEF Later
<1>5. CallsOK'
  <2>1. \A r \in Request : CallOK(req[r], now, ticket, sold)
    BY DEF IInv, CallsOK
  <2>2. ASSUME NEW r \in Request PROVE CallOK(req[r], now', ticket', sold')
    BY <1>4, <2>1, CallLater
  <2> QED
    BY <1>2, <2>2 DEF CallsOK
<1>6. LoopsOK'
  <2>1. \A l \in Sweep : LoopOK(sweep[l], now, ticket, sold)
    BY DEF IInv, LoopsOK
  <2>2. ASSUME NEW l \in Sweep PROVE LoopOK(sweep[l], now', ticket', sold')
    BY <1>4, <2>1, LoopLater
  <2> QED
    BY <1>2, <2>2 DEF LoopsOK
<1>7. TicketsOK(now', ticket', sold')
  <2>1. ASSUME NEW id \in Ticket, ticket[id].status # "none"
        PROVE  SoundAt(ticket[id], now + 1, ticket[id].created, sold[id])
    <3>1. SoundAt(ticket[id], now, ticket[id].created, sold[id])
      BY <2>1 DEF IInv, TicketsOK
    <3> QED
      BY <1>1, <3>1, TicketFields DEF SoundAt
  <2> QED
    BY <1>1, <1>2, <2>1 DEF TicketsOK
<1>8. BatchesOK'
  BY <1>2 DEF IInv, BatchesOK, Issued
<1>9. now' \in Nat \ {0}
  BY <1>1
<1> QED
  BY <1>2, <1>3, <1>5, <1>6, <1>7, <1>8, <1>9, Assemble DEF IInv, TypeOK

(* Calls and sweeps that have not begun are in order.                      *)
LEMMA IdleOK ==
  ASSUME NEW n \in Nat, NEW tk, NEW sd
  PROVE  CallOK(IdleCall, n, tk, sd) /\ LoopOK(IdleLoop, n, tk, sd)
<1>1. /\ IdleCall.pc = "free" /\ IdleCall.batch = {} /\ IdleLoop.pc = "idle"
      /\ IdleLoop.at = 0
  BY DEF IdleCall, IdleLoop
<1>2. "free" \notin WithTicket \cup WithMac \cup WithIp \cup BatchStep
  BY DEF WithTicket, WithMac, WithIp, BatchStep, Answered
<1> QED
  BY <1>1, <1>2, IdleCallType, IdleLoopType DEF CallOK, LoopOK

LEMMA IdleInv ==
  ASSUME NEW n \in Nat, NEW tk, NEW sd
  PROVE  /\ \A r \in Request : CallOK([q \in Request |-> IdleCall][r], n, tk, sd)
         /\ \A l \in Sweep : LoopOK([k \in Sweep |-> IdleLoop][l], n, tk, sd)
  BY IdleOK

(* A crash, a stop, a restart or a lapse of an element                     *)
LEMMA EnvironmentInv ==
  ASSUME IInv, Crash \/ Stop \/ Restart \/ ElementTimeout
  PROVE  IInv'
<1>1. now' = now /\ ticket' = ticket /\ sold' = sold /\ now \in Nat \ {0}
  BY DEF IInv, TypeOK, Crash, Stop, Halt, Restart, ElementTimeout, clock, records
<1>2. StoreOK'
  <2>1. StoreOK
    BY StoreType
  <2>2. /\ UNCHANGED <<index, keys, openedFor, shaper>>
        /\ up' \in BOOLEAN /\ crashes' \in Nat
    <3>1. ASSUME Halt PROVE UNCHANGED <<index, keys, openedFor, shaper>> /\ up' = FALSE /\ crashes' \in Nat
      BY <2>1, <3>1 DEF Halt, StoreOK
    <3>2. ASSUME Restart PROVE UNCHANGED <<index, keys, openedFor, shaper>> /\ up' = TRUE /\ crashes' \in Nat
      BY <2>1, <3>2 DEF Restart, StoreOK
    <3>3. ASSUME ElementTimeout
          PROVE  UNCHANGED <<index, keys, openedFor, shaper>> /\ up' \in BOOLEAN /\ crashes' \in Nat
      BY <2>1, <3>3 DEF ElementTimeout, StoreOK, clock
    <3> QED
      BY <3>1, <3>2, <3>3 DEF Crash, Stop
  <2>3. activeClients' \subseteq Ip
    BY <2>1 DEF Crash, Stop, Restart, ElementTimeout, Nft, StoreOK
  <2> QED
    BY <2>1, <2>2, <2>3 DEF StoreOK, index, keys
<1>3. TicketsOK(now', ticket', sold')
  BY <1>1 DEF IInv
<1>4. CASE Crash \/ Stop
  <2>1. /\ req' = [r \in Request |-> IdleCall]
        /\ sweep' = [l \in Sweep |-> IdleLoop]
    BY <1>4 DEF Crash, Stop, Halt
  <2>2. req' \in [Request -> Call] /\ sweep' \in [Sweep -> Loop]
    BY <2>1, IdleCallType, IdleLoopType
  <2>3. CallsOK' /\ LoopsOK'
    BY <1>1, <2>1, IdleOK DEF CallsOK, LoopsOK
  <2>4. BatchesOK'
    <3>1. \A r \in Request : req'[r].batch = {}
      BY <2>1 DEF IdleCall
    <3> QED
      BY <3>1 DEF BatchesOK
  <2> QED
    BY <1>1, <1>2, <1>3, <2>2, <2>3, <2>4, Assemble DEF IInv, TypeOK
<1>5. CASE Restart \/ ElementTimeout
  <2>1. req' = req /\ sweep' = sweep
    BY <1>5 DEF Restart, ElementTimeout
  <2>2. CallsOK' /\ LoopsOK' /\ BatchesOK'
    BY <1>1, <2>1 DEF IInv, CallsOK, LoopsOK, BatchesOK, Issued
  <2> QED
    BY <1>1, <1>2, <1>3, <2>1, <2>2, Assemble DEF IInv, TypeOK
<1> QED
  BY <1>4, <1>5

LEMMA StutterInv == ASSUME IInv, UNCHANGED vars PROVE IInv'
<1>1. /\ now' = now /\ ticket' = ticket /\ sold' = sold /\ req' = req
      /\ sweep' = sweep /\ UNCHANGED <<up, crashes, index, keys, kernel>>
  BY DEF vars, clock, records
<1>2. StoreOK'
  BY <1>1, StoreType, StoreKept
<1>3. CallsOK' /\ LoopsOK' /\ BatchesOK' /\ TicketsOK(now', ticket', sold')
  BY <1>1 DEF IInv, CallsOK, LoopsOK, BatchesOK, Issued
<1> QED
  BY <1>1, <1>2, <1>3, Assemble DEF IInv, TypeOK

LEMMA InitIInv == Init => IInv
<1> SUFFICES ASSUME Init PROVE IInv
  OBVIOUS
<1>1. /\ now = 1 /\ ticket = [id \in Ticket |-> Blank]
      /\ sold = [id \in Ticket |-> 0]
      /\ req = [r \in Request |-> IdleCall] /\ sweep = [l \in Sweep |-> IdleLoop]
  BY DEF Init
<1>2. Blank.status = "none"
  BY DEF Blank
<1>3. StoreOK
  BY DEF Init, StoreOK
<1>4. TypeOK
  BY <1>1, <1>3, BlankType, IdleCallType, IdleLoopType DEF TypeOK, StoreOK
<1>5. TicketsOK(now, ticket, sold)
  BY <1>1, <1>2 DEF TicketsOK
<1>6. CallsOK /\ LoopsOK
  BY <1>1, IdleOK DEF CallsOK, LoopsOK
<1>7. BatchesOK
  <2>1. \A r \in Request : req[r].batch = {}
    BY <1>1 DEF IdleCall
  <2> QED
    BY <2>1 DEF BatchesOK
<1> QED
  BY <1>4, <1>5, <1>6, <1>7 DEF IInv

LEMMA NextIInv == IInv /\ [Next]_vars => IInv'
<1> SUFFICES ASSUME IInv, [Next]_vars PROVE IInv'
  OBVIOUS
<1>1. ASSUME NEW r \in Request, CallBegins(r) \/ CallContinues(r) PROVE IInv'
  BY <1>1, CallInv
<1>2. ASSUME NEW l \in Sweep, SweepStart(l) \/ SweepContinues(l) PROVE IInv'
  BY <1>2, SweepInv
<1>3. CASE Tick
  BY <1>3, TickInv
<1>4. CASE Crash \/ Stop \/ Restart \/ ElementTimeout
  BY <1>4, EnvironmentInv
<1>5. CASE UNCHANGED vars
  BY <1>5, StutterInv
<1> QED
  BY <1>1, <1>2, <1>3, <1>4, <1>5 DEF Next

THEOREM Invariance == Spec => []IInv
  BY InitIInv, NextIInv, PTL DEF Spec

-----------------------------------------------------------------------------
(* Safety                                                                  *)

(* Every key and every call in progress keeps its shape, for any number of *)
(* calls and sweeps interleaved at every await.                            *)
THEOREM TypeCorrect == Spec => []TypeOK
<1>1. IInv => TypeOK
  BY DEF IInv
<1> QED
  BY <1>1, Invariance, PTL

(* Whatever pauses, resumes, logins, expiries and crashes interleave, the  *)
(* expiry of an issued ticket is its creation plus the hours sold plus the *)
(* pauses credited.                                                        *)
THEOREM LedgerSafe == Spec => []LedgerBalanced
<1>1. ASSUME IInv PROVE LedgerBalanced
  BY <1>1, TicketFields DEF LedgerBalanced, Balanced, Issued, SoundAt
<1> QED
  BY <1>1, Invariance, PTL

(* However resumes overlap, no ticket is credited more pause than time has *)
(* gone by since its creation.                                             *)
THEOREM PauseCreditSafe == Spec => []PauseWithinElapsed
<1>1. ASSUME IInv PROVE PauseWithinElapsed
  BY <1>1, TicketFields DEF PauseWithinElapsed, PausesFit, Issued, SoundAt
<1> QED
  BY <1>1, Invariance, PTL

(* Every hash a handler holds over an await is a sound past state of its   *)
(* ticket.                                                                 *)
THEOREM SnapshotSafe == Spec => []SnapshotsSound
<1>1. ASSUME IInv PROVE SnapshotsSound
  <2>1. ASSUME NEW r \in Request, req[r].id # NoTicket, req[r].snap.status # "none"
        PROVE  Issued(req[r].id) /\ Sound(req[r].snap, req[r].id)
    <3>1. /\ ticket[req[r].id].status # "none"
          /\ SoundAt(req[r].snap, now, ticket[req[r].id].created, sold[req[r].id])
      BY <1>1, <2>1, CallFacts DEF CallOK
    <3> QED
      BY <3>1 DEF Issued, Sound, SoundAt, Balanced, PausesFit
  <2>2. ASSUME NEW l \in Sweep, sweep[l].snap.status # "none"
        PROVE  /\ sweep[l].id # NoTicket /\ Issued(sweep[l].id)
               /\ Sound(sweep[l].snap, sweep[l].id)
    <3>1. /\ sweep[l].id \in Ticket /\ ticket[sweep[l].id].status # "none"
          /\ SoundAt(sweep[l].snap, now, ticket[sweep[l].id].created, sold[sweep[l].id])
      BY <1>1, <2>2, LoopFacts DEF LoopOK
    <3> QED
      BY <3>1, NullAssumption DEF Issued, Sound, SoundAt, Balanced, PausesFit
  <2> QED
    BY <2>1, <2>2 DEF SnapshotsSound
<1> QED
  BY <1>1, Invariance, PTL

-----------------------------------------------------------------------------
(* Refinement of TicketLifecycle                                           *)

LEMMA LifecycleInit == Init => Lifecycle!Init
  BY DEF Init, Lifecycle!Init, Phase, Blank

(* A step that keeps the clock, the history, the origins and the phases    *)
(* stutters.                                                               *)
LEMMA PhasesKept ==
  ASSUME now' = now, sold' = sold,
         \A id \in Ticket : ticket'[id].created = ticket[id].created
                            /\ Phase(id)' = Phase(id)
  PROVE  UNCHANGED Lifecycle!vars
  BY DEF Lifecycle!vars

LEMMA TicketsKept ==
  ASSUME now' = now, UNCHANGED records
  PROVE  UNCHANGED Lifecycle!vars
<1>1. \A id \in Ticket : ticket'[id].created = ticket[id].created
                         /\ Phase(id)' = Phase(id)
  BY DEF records, Phase
<1> QED
  BY <1>1, PhasesKept DEF records

LEMMA IssueRefines ==
  ASSUME IInv, NEW id \in Ticket, NewlyIssued(id)
  PROVE  Lifecycle!Issue(id)
<1>1. /\ now' = now /\ ticket[id].status = "none"
      /\ ticket'[id].status = "active" /\ ~ ticket'[id].paused
      /\ ticket'[id].created \in 1 .. now /\ sold'[id] \in Durations
  BY DEF NewlyIssued, Issued
<1>2. \A o \in Ticket \ {id} : ticket'[o] = ticket[o] /\ sold'[o] = sold[o]
  BY DEF NewlyIssued, IInv, TypeOK
<1>3. Phase(id) = "none" /\ Phase(id)' = "running"
  BY <1>1 DEF Phase
<1>4. \A o \in Ticket \ {id} : Phase(o)' = Phase(o)
  BY <1>2 DEF Phase
<1>5. sold' = [sold EXCEPT ![id] = sold'[id]]
  BY DEF NewlyIssued
<1> DEFINE P == [o \in Ticket |-> Phase(o)]
           C == [o \in Ticket |-> ticket[o].created]
<1>6. P' = [P EXCEPT ![id] = "running"] /\ P[id] = "none"
  BY <1>3, <1>4
<1>7. C' = [C EXCEPT ![id] = ticket'[id].created]
  BY <1>2
<1> QED
  BY <1>1, <1>5, <1>6, <1>7 DEF Lifecycle!Issue

(* A write to the hash of one ticket that keeps its origin moves only that *)
(* ticket.                                                                 *)
LEMMA PhaseMoves ==
  ASSUME IInv, NEW id \in Ticket, now' = now, sold' = sold,
         \A o \in Ticket \ {id} : ticket'[o] = ticket[o],
         ticket'[id].created = ticket[id].created,
         \/ Phase(id)' = Phase(id)
         \/ Phase(id) = "running" /\ Phase(id)' = "held"
         \/ Phase(id) = "held" /\ Phase(id)' = "running"
         \/ /\ Phase(id) \in {"running", "held"} /\ Phase(id)' = "expired"
            /\ now >= ticket[id].created + sold[id]
  PROVE  [Lifecycle!Next]_(Lifecycle!vars)
<1>1. \A o \in Ticket \ {id} : Phase(o)' = Phase(o)
  BY DEF Phase
<1> DEFINE P == [o \in Ticket |-> Phase(o)]
           C == [o \in Ticket |-> ticket[o].created]
<1>2. C' = C
  OBVIOUS
<1>3. P' = [P EXCEPT ![id] = Phase(id)'] /\ P[id] = Phase(id)
  BY <1>1
<1>4. CASE Phase(id)' = Phase(id)
  BY <1>1, <1>4, PhasesKept
<1>5. CASE Phase(id) = "running" /\ Phase(id)' = "held"
  <2>1. Lifecycle!Hold(id)
    BY <1>2, <1>3, <1>5 DEF Lifecycle!Hold
  <2> QED
    BY <2>1 DEF Lifecycle!Next
<1>6. CASE Phase(id) = "held" /\ Phase(id)' = "running"
  <2>1. Lifecycle!Release(id)
    BY <1>2, <1>3, <1>6 DEF Lifecycle!Release
  <2> QED
    BY <2>1 DEF Lifecycle!Next
<1>7. CASE /\ Phase(id) \in {"running", "held"} /\ Phase(id)' = "expired"
           /\ now >= ticket[id].created + sold[id]
  <2>1. Lifecycle!Expire(id)
    BY <1>2, <1>3, <1>7 DEF Lifecycle!Expire
  <2> QED
    BY <2>1 DEF Lifecycle!Next
<1> QED
  BY <1>4, <1>5, <1>6, <1>7


LEMMA WriteRefines ==
  ASSUME IInv, NEW r \in Request, WriteAction(r)
  PROVE  [Lifecycle!Next]_(Lifecycle!vars)
<1>1. now' = now /\ sold' = sold
  BY WriteStep
<1>2. req[r].id \in Ticket
  <2>1. CallOK(req[r], now, ticket, sold)
    BY CallFacts
  <2>2. req[r].pc \in WithTicket
    BY DEF WriteAction, ActStart, ActWrite, ActSpent, PauseWrite, ResumeWrite, At,
           WithTicket, RequestStep, ActivateStep, Answered
  <2> QED
    BY <2>1, <2>2 DEF CallOK
<1> PICK id \in Ticket : id = req[r].id
  BY <1>2
<1>3. /\ ticket[id] \in Record /\ ticket \in [Ticket -> Record]
      /\ ticket[id].status \in {"none", "active", "expired"}
      /\ ticket[id].paused \in BOOLEAN
  BY DEF IInv, TypeOK, Record
<1>4. CASE ActStart(r) \/ ActWrite(r)
  <2>1. /\ \A o \in Ticket \ {id} : ticket'[o] = ticket[o]
        /\ ticket'[id].created = ticket[id].created
        /\ ticket'[id].status = ticket[id].status
        /\ ticket'[id].paused = ticket[id].paused
    BY <1>3, <1>4 DEF ActStart, ActWrite, Record
  <2>2. Phase(id)' = Phase(id)
    BY <2>1 DEF Phase
  <2> QED
    BY <1>1, <2>1, <2>2, PhaseMoves
<1>5. CASE ActSpent(r)
  <2>1. Issued(id) /\ now >= ticket[id].created + sold[id]
    BY <1>5, ActSpentStep
  <2>2. /\ \A o \in Ticket \ {id} : ticket'[o] = ticket[o]
        /\ ticket'[id].created = ticket[id].created
        /\ ticket'[id].status = "expired"
    BY <1>3, <1>5 DEF ActSpent, Record
  <2>3. Phase(id)' = "expired" /\ Phase(id) \in {"running", "held", "expired"}
    BY <1>3, <2>1, <2>2 DEF Phase, Issued
  <2> QED
    BY <1>1, <2>1, <2>2, <2>3, PhaseMoves
<1>6. CASE PauseWrite(r) \/ ResumeWrite(r)
  <2>1. /\ \A o \in Ticket \ {id} : ticket'[o] = ticket[o]
        /\ ticket'[id].created = ticket[id].created
        /\ ticket'[id].status = ticket[id].status
        /\ ticket'[id].paused \in BOOLEAN
    <3>1. CASE PauseWrite(r)
      <4>1. ticket' = [ticket EXCEPT ![id].paused = TRUE, ![id].pausedAt = now]
        BY <3>1 DEF PauseWrite
      <4> QED
        BY <1>3, <4>1 DEF Record
    <3>2. CASE ResumeWrite(r)
      <4> DEFINE t == Resumed(ticket[id], req[r].snap, now)
      <4>1. ticket' = [ticket EXCEPT ![id] = t]
        BY <3>2 DEF ResumeWrite
      <4>2. /\ t.created = ticket[id].created /\ t.status = ticket[id].status
            /\ t.paused = FALSE
        BY <1>3 DEF Resumed, Record
      <4> HIDE DEF t
      <4> QED
        BY <1>3, <4>1, <4>2
    <3> QED
      BY <1>6, <3>1, <3>2
  <2>2. \/ Phase(id)' = Phase(id)
        \/ Phase(id) = "running" /\ Phase(id)' = "held"
        \/ Phase(id) = "held" /\ Phase(id)' = "running"
    BY <1>3, <2>1 DEF Phase
  <2> QED
    BY <1>1, <2>1, <2>2, PhaseMoves
<1> QED
  BY <1>4, <1>5, <1>6 DEF WriteAction

LEMMA SweepRefines ==
  ASSUME IInv, NEW l \in Sweep, SweepStart(l) \/ SweepContinues(l)
  PROVE  [Lifecycle!Next]_(Lifecycle!vars)
<1>1. CASE SweepExpire(l)
  <2>1. PICK id \in Ticket : /\ id = sweep[l].id /\ Issued(id)
                              /\ now >= ticket[id].created + sold[id]
    BY <1>1, SweepExpireStep
  <2>2. now' = now /\ sold' = sold
    BY <1>1 DEF SweepExpire, clock
  <2>3. /\ ticket \in [Ticket -> Record] /\ ticket[id] \in Record
        /\ ticket[id].status \in {"none", "active", "expired"}
        /\ ticket[id].paused \in BOOLEAN
    BY <2>1 DEF IInv, TypeOK, Record
  <2>4. /\ \A o \in Ticket \ {id} : ticket'[o] = ticket[o]
        /\ ticket'[id].created = ticket[id].created
        /\ ticket'[id].status = "expired"
    BY <1>1, <2>1, <2>3 DEF SweepExpire, Record
  <2>5. Phase(id)' = "expired" /\ Phase(id) \in {"running", "held", "expired"}
    BY <2>1, <2>3, <2>4 DEF Phase, Issued
  <2> QED
    BY <2>1, <2>2, <2>4, <2>5, PhaseMoves
<1>2. CASE ScanAction(l)
  <2>1. now' = now /\ UNCHANGED records
    BY <1>2 DEF ScanAction, SweepStart, SweepRead, SweepTime, SweepSpare,
                SweepRevoke, SweepUnshadow, SweepUnsession, clock
  <2> QED
    BY <2>1, TicketsKept
<1> QED
  BY <1>1, <1>2 DEF SweepContinues, ScanAction

LEMMA CallRefines ==
  ASSUME IInv, NEW r \in Request, CallBegins(r) \/ CallContinues(r)
  PROVE  [Lifecycle!Next]_(Lifecycle!vars)
<1>1. CASE CreateTicket(r) \/ BatchTicket(r)
  <2>1. \E id \in Ticket : NewlyIssued(id)
    BY <1>1, CreateTicketStep, BatchTicketStep DEF NewlyIssued
  <2> QED
    BY <2>1, IssueRefines DEF Lifecycle!Next
<1>2. CASE CreateTicketBatch(r)
  BY <1>2, TicketsKept DEF CreateTicketBatch, clock
<1>3. CASE PcAction(r) \/ AnswerAction(r) \/ ReadAction(r)
  <2>1. UNCHANGED <<clock, records>>
    BY <1>3, NoWriteStep
  <2> QED
    BY <2>1, TicketsKept DEF clock
<1>4. CASE WriteAction(r)
  BY <1>4, WriteRefines
<1> QED
  BY <1>1, <1>2, <1>3, <1>4, CallKinds

LEMMA LifecycleStep == IInv /\ [Next]_vars => [Lifecycle!Next]_(Lifecycle!vars)
<1> SUFFICES ASSUME IInv, [Next]_vars
             PROVE  [Lifecycle!Next]_(Lifecycle!vars)
  OBVIOUS
<1>1. ASSUME NEW r \in Request, CallBegins(r) \/ CallContinues(r)
      PROVE  [Lifecycle!Next]_(Lifecycle!vars)
  BY <1>1, CallRefines
<1>2. ASSUME NEW l \in Sweep, SweepStart(l) \/ SweepContinues(l)
      PROVE  [Lifecycle!Next]_(Lifecycle!vars)
  BY <1>2, SweepRefines
<1>3. CASE Tick
  <2>1. now' = now + 1 /\ UNCHANGED records
    BY <1>3 DEF Tick
  <2>2. \A id \in Ticket : ticket'[id].created = ticket[id].created
                           /\ Phase(id)' = Phase(id)
    BY <2>1 DEF records, Phase
  <2>3. Lifecycle!Advance
    BY <2>1, <2>2 DEF Lifecycle!Advance, records
  <2> QED
    BY <2>3 DEF Lifecycle!Next
<1>4. CASE Crash \/ Stop \/ Restart \/ ElementTimeout
  <2>1. now' = now /\ UNCHANGED records
    BY <1>4 DEF Crash, Stop, Halt, Restart, ElementTimeout, clock
  <2> QED
    BY <2>1, TicketsKept
<1>5. CASE UNCHANGED vars
  BY <1>5, TicketsKept DEF vars, clock
<1> QED
  BY <1>1, <1>2, <1>3, <1>4, <1>5 DEF Next

(* The service implements the abstract ticket: it is issued once, expires  *)
(* at most once and for good, and never before the time it was sold for    *)
(* has gone by, whatever stale hash a login or the expiry loop decides on. *)
THEOREM Refinement == Spec => LifecycleSpec
  BY Invariance, LifecycleInit, LifecycleStep, PTL
  DEF Spec, LifecycleSpec, Lifecycle!Spec

=============================================================================
