------------------------------- MODULE Monitor -------------------------------
(***************************************************************************)
(* SystemMonitor (src/utils/monitor.ts): every 30 s a callback collects    *)
(* what a row of commands says of the system, stores it at the head of     *)
(* logs:system:recent, looks for failures in the log at the head, and      *)
(* scores the last ten.  The interval does not wait for the previous       *)
(* callback, so rounds overlap and read each other's logs.                 *)
(*                                                                         *)
(* A command that exits with an error leaves an entry with the field error *)
(* alone, in which no search finds a failure.  Of the seven components     *)
(* four are modelled: accel_ppp is probed as unbound is, network has an    *)
(* entry that nobody looks at and that counts for nothing, as that of      *)
(* ebpf, and redis answers whenever there is a log to store.               *)
(***************************************************************************)
EXTENDS Naturals, Sequences, FiniteSets

CONSTANTS
  Round,      \* callbacks that may be in progress at once
  Keep,       \* how many logs lTrim keeps (100)
  Window,     \* how many logs the score looks at (10)
  MaxFaults,  \* bound on failures of a component
  MaxCrash    \* bound on crashes

ASSUME SizesAssumption ==
  /\ IsFiniteSet(Round) /\ Keep \in Nat /\ Window \in 1 .. Keep
  /\ MaxFaults \in Nat /\ MaxCrash \in Nat

Component == {"ebpf", "nftables", "unbound", "tailscale"}

VARIABLES
  is,       \* is[k]: the condition of component k
  faults, crashes,
  recent,   \* the logs named in logs:system:recent, newest first
  report,   \* the failures of the newest key in failures:recent
  health,   \* the hash system:health
  round

outside == <<is, faults, crashes>>
vars == <<outside, recent, report, health, round>>

(* What a command says, for each condition of its component                *)
Says == [
  (* bpftool prints the heading "xdp:" whether a program is loaded or not. *)
  ebpf |-> [up |-> "xdp", unloaded |-> "xdp", mute |-> "error"],
  (* partial: table hotspot or pppoe is missing; none: every table is      *)
  nftables |-> [up |-> "tables", partial |-> "missing", none |-> "empty",
                mute |-> "error"],
  (* systemctl and pgrep both exit with an error when there is no daemon.  *)
  unbound |-> [up |-> "running", down |-> "error"],
  (* worded: the daemon runs, but there is a "not" or a "stopped" in its   *)
  (* status, in the name of a peer or in a warning                         *)
  tailscale |-> [up |-> "running", worded |-> "stopped", down |-> "error"]]

Condition(k) == DOMAIN Says[k]

Entry == {"xdp", "tables", "missing", "empty", "running", "stopped", "error"}
Log == [Component -> Entry]

(* The entries with a field that is false where detectFailures looks       *)
Accusing == {"missing", "empty", "stopped"}

(* The entries whose field running or active is true                       *)
Healthy == {"running", "tables", "missing"}

Collecting == [k \in Component |-> "error"]   \* nothing collected yet

Health ==
  {h \in [healthy : 0 .. Window * Cardinality(Component),
          total   : 0 .. Window * Cardinality(Component)] :
     h.healthy <= h.total}
NoScore == [healthy |-> 0, total |-> 0]

Progress ==
  [pc    : {"idle", "ebpf", "nftables", "unbound", "tailscale", "push",
            "trim", "find_ebpf", "find_nftables", "find_unbound",
            "find_tailscale", "report", "score", "health"},
   log   : Log,                      \* what has been collected
   found : SUBSET Component,         \* the failures found so far
   score : Health]                   \* what has been counted

Idle == [pc |-> "idle", log |-> Collecting, found |-> {}, score |-> NoScore]

Init ==
  /\ is = [k \in Component |-> "up"] /\ faults = 0 /\ crashes = 0
  /\ recent = <<>> /\ report = {} /\ health = NoScore
  /\ round = [i \in Round |-> Idle]

At(i, pc) == round[i].pc = pc

-----------------------------------------------------------------------------
(* The system                                                              *)

Break(k) ==
  /\ faults < MaxFaults /\ faults' = faults + 1
  /\ \E c \in Condition(k) \ {"up"} : is' = [is EXCEPT ![k] = c]
  /\ UNCHANGED <<crashes, recent, report, health, round>>

Repair(k) ==
  /\ is[k] # "up"
  /\ is' = [is EXCEPT ![k] = "up"]
  /\ UNCHANGED <<faults, crashes, recent, report, health, round>>

(* The process dies and systemd starts it again; Redis keeps the lists.    *)
Crash ==
  /\ crashes < MaxCrash /\ crashes' = crashes + 1
  /\ round' = [i \in Round |-> Idle]
  /\ UNCHANGED <<is, faults, recent, report, health>>

-----------------------------------------------------------------------------
(* collectLogs                                                             *)

Start(i) ==
  /\ At(i, "idle")
  /\ round' = [round EXCEPT ![i].pc = "ebpf"]
  /\ UNCHANGED <<outside, recent, report, health>>

Shown(k) == Says[k][is[k]]

Collect(i, k, next) ==
  /\ At(i, k)
  /\ round' = [round EXCEPT ![i].pc = next, ![i].log[k] = Shown(k)]
  /\ UNCHANGED <<outside, recent, report, health>>

CollectEbpf(i)      == Collect(i, "ebpf", "nftables")
CollectNftables(i)  == Collect(i, "nftables", "unbound")
CollectUnbound(i)   == Collect(i, "unbound", "tailscale")
CollectTailscale(i) == Collect(i, "tailscale", "push")

(* Faulty variant: the log goes to the tail of the list                    *)
PushLast(i) ==
  /\ At(i, "push")
  /\ recent' = Append(recent, round[i].log)
  /\ round' = [round EXCEPT ![i].pc = "trim", ![i].log = Collecting]
  /\ UNCHANGED <<outside, report, health>>

(* set and lPush: nobody knows the key before it is in the list.           *)
Push(i) ==
  /\ At(i, "push")
  /\ recent' = <<round[i].log>> \o recent
  /\ round' = [round EXCEPT ![i].pc = "trim", ![i].log = Collecting]
  /\ UNCHANGED <<outside, report, health>>

(* Faulty variants: the oldest logs are kept, or all                       *)
TrimNewest(i) ==
  /\ At(i, "trim")
  /\ recent' = IF Len(recent) <= Keep THEN recent
               ELSE SubSeq(recent, Len(recent) - Keep + 1, Len(recent))
  /\ round' = [round EXCEPT ![i].pc = "find_ebpf"]
  /\ UNCHANGED <<outside, report, health>>

TrimNothing(i) ==
  /\ At(i, "trim")
  /\ round' = [round EXCEPT ![i].pc = "find_ebpf"]
  /\ UNCHANGED <<outside, recent, report, health>>

Trim(i) ==
  /\ At(i, "trim")
  /\ recent' = IF Len(recent) <= Keep THEN recent ELSE SubSeq(recent, 1, Keep)
  /\ round' = [round EXCEPT ![i].pc = "find_ebpf"]
  /\ UNCHANGED <<outside, report, health>>

-----------------------------------------------------------------------------
(* detectFailures: each section reads the head of the list again.          *)

Find(i, pc, k, next) ==
  /\ At(i, pc)
  /\ round' = [round EXCEPT ![i].pc = next,
       ![i].found = IF recent # <<>> /\ Head(recent)[k] \in Accusing
                    THEN @ \cup {k} ELSE @]
  /\ UNCHANGED <<outside, recent, report, health>>

(* Faulty variant: an entry with an error counts as a failure              *)
FindTailscaleError(i) ==
  /\ At(i, "find_tailscale")
  /\ round' = [round EXCEPT ![i].pc = "report",
       ![i].found = IF /\ recent # <<>>
                       /\ Head(recent)["tailscale"] \in Accusing \cup {"error"}
                    THEN @ \cup {"tailscale"} ELSE @]
  /\ UNCHANGED <<outside, recent, report, health>>

FindEbpf(i)      == Find(i, "find_ebpf", "ebpf", "find_nftables")
FindNftables(i)  == Find(i, "find_nftables", "nftables", "find_unbound")
FindUnbound(i)   == Find(i, "find_unbound", "unbound", "find_tailscale")
FindTailscale(i) == Find(i, "find_tailscale", "tailscale", "report")

(* A report is stored only when there is something in it.                  *)
Report(i) ==
  /\ At(i, "report")
  /\ report' = IF round[i].found = {} THEN report ELSE round[i].found
  /\ round' = [round EXCEPT ![i].pc = "score", ![i].found = {}]
  /\ UNCHANGED <<outside, recent, health>>

-----------------------------------------------------------------------------
(* updateSystemHealth: the logs never change, so only the moment of lRange *)
(* matters; the hash is written some awaits later.                         *)

Score(i) ==
  /\ At(i, "score")
  /\ LET n == IF Len(recent) < Window THEN Len(recent) ELSE Window
     IN  round' = [round EXCEPT ![i].pc = "health", ![i].score =
           [healthy |-> Cardinality({e \in (1 .. n) \X Component :
                                       recent[e[1]][e[2]] \in Healthy}),
            total   |-> n * Cardinality(Component)]]
  /\ UNCHANGED <<outside, recent, report, health>>

PublishHealth(i) ==
  /\ At(i, "health")
  /\ health' = round[i].score
  /\ round' = [round EXCEPT ![i] = Idle]
  /\ UNCHANGED <<outside, recent, report>>

-----------------------------------------------------------------------------

Continues(i) ==
  \/ CollectEbpf(i) \/ CollectNftables(i)
  \/ CollectUnbound(i) \/ CollectTailscale(i)
  \/ Push(i) \/ Trim(i)
  \/ FindEbpf(i) \/ FindNftables(i) \/ FindUnbound(i) \/ FindTailscale(i)
  \/ Report(i)
  \/ Score(i) \/ PublishHealth(i)

Next ==
  \/ \E k \in Component : Break(k) \/ Repair(k)
  \/ Crash
  \/ \E i \in Round : Start(i) \/ Continues(i)

(* The interval keeps firing, and the commands return.                     *)
Fairness == \A i \in Round : WF_vars(Start(i)) /\ WF_vars(Continues(i))

Spec == Init /\ [][Next]_vars /\ Fairness

-----------------------------------------------------------------------------
(* Properties                                                              *)

(* Type correctness.  The list exceeds what lTrim keeps by the rounds that *)
(* have pushed and not trimmed, and by those a crash took at that point.   *)
TypeOK ==
  /\ DOMAIN is = Component /\ \A k \in Component : is[k] \in Condition(k)
  /\ faults \in 0 .. MaxFaults /\ crashes \in 0 .. MaxCrash
  /\ recent \in Seq(Log)
  /\ Len(recent) <= Keep + Cardinality(Round) * (1 + crashes)
  /\ report \subseteq Component
  /\ health \in Health
  /\ round \in [Round -> Progress]

(* What its command shows at fault for good is in the newest report for    *)
(* good, although a round reads the logs of others and puts its report     *)
(* together from several of them: a table that is missing while nft        *)
(* answers, and a tailscale with one of the two words in its status.  No   *)
(* other failure is ever shown: see MonitorProofs.                         *)
LastingFailureReported ==
  \A k \in {"nftables", "tailscale"} :
    <>[](Shown(k) \in Accusing) => <>[](k \in report)

(* Nothing is made up: a component that its command never shows at fault   *)
(* is in no report, although a round puts its report together from the     *)
(* logs of several, commands fail with an error, and crashes leave reports *)
(* half done.  That what is shown is so is not said: a tailscale that runs *)
(* may have the wrong word in its status.                                  *)
NoFalseAlarm ==
  \A k \in Component : [](Shown(k) \notin Accusing) => [](k \notin report)

(* The score forgets what is over: once nft lists a table and both daemons *)
(* stay up, every log the score looks at says so.  That of ebpf counts for *)
(* nothing, so three out of four is all there is.                          *)
ScoreRecovers ==
  <>[](\A k \in Component \ {"ebpf"} : Shown(k) \in Healthy)
     => <>[](health = [healthy |-> 3 * Window, total |-> 4 * Window])

=============================================================================
