------------------------------ MODULE TicketTime ------------------------------
(***************************************************************************)
(* The arithmetic on a ticket's timestamps that src/hotspot.ts scatters    *)
(* over activateTicket, resumeTicket, getTicketTimeUsed and                *)
(* checkExpiredTickets.  A ticket is the Redis hash ticket:{id}; all times *)
(* are instants of one clock that starts at 1, and 0 stands for a field    *)
(* the code leaves absent, '' or 'null'.                                   *)
(*                                                                         *)
(* Two different notions of "time left" live side by side in the code and  *)
(* both are kept here: Remaining, computed from the hash, decides whether  *)
(* a pausado ticket expires; the TTL of shadow:{id} (ShadowLeft) decides   *)
(* for how long a login renews that key.                                   *)
(***************************************************************************)
EXTENDS Integers

(* parseInt(expires_at) - parseInt(created_at)                             *)
Lifetime(t) == t.expires - t.created

(* getTicketTimeUsed: a paused ticket's clock stopped at paused_at         *)
(* (paused_at || now), a running one's has not.                            *)
TimeUsed(t, at) ==
  (IF t.paused /\ t.pausedAt # 0 THEN t.pausedAt ELSE at)
     - t.created - t.totalPaused

(* getTicketTimeUsed().remaining_ms = Math.max(0, assigned - used)         *)
Remaining(t, at) ==
  IF Lifetime(t) > TimeUsed(t, at) THEN Lifetime(t) - TimeUsed(t, at) ELSE 0

(* start_time || created_at: a corrido ticket nobody used yet is measured  *)
(* from its creation by the expiry loop.                                   *)
RunningSince(t) == IF t.start = 0 THEN t.created ELSE t.start

(* The verdict of checkExpiredTickets.  The corrido branch uses the        *)
(* instant the loop started (sweptAt); the pausado branch calls            *)
(* getTicketTimeUsed, which reads the clock again (at).                    *)
Exhausted(t, sweptAt, at) ==
  IF t.profile = "corrido"
  THEN sweptAt - RunningSince(t) >= Lifetime(t)
  ELSE Remaining(t, at) = 0

(* redis.ttl(shadow:{id}): what is left of a key that lapses at till       *)
ShadowLeft(till, at) == IF till > at THEN till - at ELSE 0

(* activateTicket, pausado: the live TTL, else remaining_ms, else the      *)
(* whole lifetime                                                          *)
PausadoBalance(t, till, at) ==
  IF ShadowLeft(till, at) > 0 THEN ShadowLeft(till, at)
  ELSE IF t.remaining > 0 THEN t.remaining
  ELSE Lifetime(t)

(* Faulty variant: an absent start_time parsed as 0                        *)
ElapsedFromEpoch(t, at) == at - t.start

(* activateTicket, corrido: elapsedMs, taken from the hash as read before  *)
(* start_time was written (start_time || now)                              *)
Elapsed(t, at) == IF t.start = 0 THEN 0 ELSE at - t.start

(* Faulty variant: operands swapped                                        *)
PauseLengthReversed(s, at) == s.pausedAt - at

(* pauseDuration                                                           *)
PauseLength(s, at) == at - s.pausedAt

(* Faulty variants of the write that follows: one or both fields           *)
(* incremented in place, expires_at forgotten, recomputed from             *)
(* remaining_ms, or the whole hash saved back.                             *)
ResumedHalfInPlace(t, s, at) ==
  [t EXCEPT !.paused = FALSE, !.pausedAt = 0,
            !.totalPaused = @ + PauseLength(s, at),
            !.expires     = s.expires + PauseLength(s, at)]
ResumedInPlace(t, s, at) ==
  [t EXCEPT !.paused = FALSE, !.pausedAt = 0,
            !.totalPaused = @ + PauseLength(s, at),
            !.expires     = @ + PauseLength(s, at)]
ResumedSameExpiry(t, s, at) ==
  [t EXCEPT !.paused = FALSE, !.pausedAt = 0,
            !.totalPaused = s.totalPaused + PauseLength(s, at)]
ResumedFromRemaining(t, s, at) ==
  [t EXCEPT !.paused = FALSE, !.pausedAt = 0,
            !.totalPaused = s.totalPaused + PauseLength(s, at),
            !.expires     = at + s.remaining]
ResumedWholeHash(t, s, at) ==
  [t EXCEPT !.paused = FALSE, !.pausedAt = 0, !.status = s.status,
            !.totalPaused = s.totalPaused + PauseLength(s, at),
            !.expires     = s.expires + PauseLength(s, at)]

(* What resumeTicket writes over the hash t, computed from the hash s it   *)
(* read: the pause is added to total_paused_ms and to expires_at.          *)

Resumed(t, s, at) ==
  [t EXCEPT !.paused      = FALSE,
            !.pausedAt    = 0,
            !.totalPaused = s.totalPaused + PauseLength(s, at),
            !.expires     = s.expires + PauseLength(s, at)]

=============================================================================
