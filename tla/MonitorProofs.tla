---------------------------- MODULE MonitorProofs ----------------------------
(***************************************************************************)
(* Type correctness of Monitor for any number of overlapping rounds, and   *)
(* with it the bound of logs:system:recent: a push is one log too many     *)
(* until its own lTrim, and for good when the process dies in between.     *)
(*                                                                         *)
(* And what a report can contain: nothing that no command has shown at     *)
(* fault, hence neither ebpf nor a daemon that systemctl or pgrep looks    *)
(* for.                                                                    *)
(***************************************************************************)
EXTENDS Monitor, FiniteSetTheorems, TLAPS

Untrimmed == {i \in Round : round[i].pc = "trim"}

Bounded ==
  Len(recent) <= Keep + Cardinality(Untrimmed) + Cardinality(Round) * crashes

Shapes ==
  /\ DOMAIN is = Component /\ \A k \in Component : is[k] \in Condition(k)
  /\ faults \in 0 .. MaxFaults /\ crashes \in 0 .. MaxCrash
  /\ recent \in Seq(Log)
  /\ report \subseteq Component
  /\ health \in Health
  /\ round \in [Round -> Progress]

MInv == Shapes /\ Bounded

LEMMA UntrimmedFinite ==
  /\ Cardinality(Round) \in Nat
  /\ IsFiniteSet(Untrimmed) /\ Cardinality(Untrimmed) \in 0 .. Cardinality(Round)
<1>1. Untrimmed \in SUBSET Round
  BY DEF Untrimmed
<1> QED
  BY <1>1, SizesAssumption, FS_Subset, FS_CardinalityType

LEMMA Times ==
  ASSUME NEW a \in Nat, NEW b \in Nat
  PROVE  /\ a * b \in Nat /\ a * (b + 1) = a * b + a
         /\ a * (1 + b) = a * b + a
OBVIOUS

(* A round that neither starts nor ends its wait for lTrim changes nothing *)
(* about the bound.                                                        *)
LEMMA UntrimmedKept ==
  ASSUME NEW i \in Round, NEW p, round \in [Round -> Progress],
         round' = [round EXCEPT ![i] = p],
         round[i].pc # "trim", p.pc # "trim"
  PROVE  Untrimmed' = Untrimmed
BY DEF Untrimmed

LEMMA UntrimmedMore ==
  ASSUME NEW i \in Round, NEW p, round \in [Round -> Progress],
         round' = [round EXCEPT ![i] = p],
         round[i].pc # "trim", p.pc = "trim"
  PROVE  Cardinality(Untrimmed') = Cardinality(Untrimmed) + 1
<1>1. Untrimmed' = Untrimmed \cup {i} /\ i \notin Untrimmed
  BY DEF Untrimmed
<1> QED
  BY <1>1, UntrimmedFinite, FS_AddElement

LEMMA UntrimmedLess ==
  ASSUME NEW i \in Round, NEW p, round \in [Round -> Progress],
         round' = [round EXCEPT ![i] = p],
         round[i].pc = "trim", p.pc # "trim"
  PROVE  Cardinality(Untrimmed') = Cardinality(Untrimmed) - 1
<1>1. Untrimmed' = Untrimmed \ {i} /\ i \in Untrimmed
  BY DEF Untrimmed
<1> QED
  BY <1>1, UntrimmedFinite, FS_RemoveElement

(* A step of a round that leaves the list alone                            *)
LEMMA ListKept ==
  ASSUME MInv, NEW i \in Round, NEW p \in Progress,
         round' = [round EXCEPT ![i] = p],
         round[i].pc # "trim", p.pc # "trim",
         recent' = recent, crashes' = crashes
  PROVE  /\ round' \in [Round -> Progress] /\ Bounded'
<1>1. Untrimmed' = Untrimmed
  BY UntrimmedKept DEF MInv, Shapes
<1> QED
  BY <1>1 DEF MInv, Shapes, Bounded

(* The table of what the commands say, a line at a time                    *)
LEMMA Table ==
  /\ Says["ebpf"] = [up |-> "xdp", unloaded |-> "xdp", mute |-> "error"]
  /\ Says["nftables"] = [up |-> "tables", partial |-> "missing",
                         none |-> "empty", mute |-> "error"]
  /\ Says["unbound"] = [up |-> "running", down |-> "error"]
  /\ Says["tailscale"] = [up |-> "running", worded |-> "stopped",
                          down |-> "error"]
BY DEF Says

LEMMA SaysType ==
  ASSUME NEW k \in Component
  PROVE  "up" \in Condition(k) /\ \A c \in Condition(k) : Says[k][c] \in Entry
<1>1. CASE k = "ebpf"
  BY <1>1, Table DEF Condition, Entry
<1>2. CASE k = "nftables"
  BY <1>2, Table DEF Condition, Entry
<1>3. CASE k = "unbound"
  BY <1>3, Table DEF Condition, Entry
<1>4. CASE k = "tailscale"
  BY <1>4, Table DEF Condition, Entry
<1> QED
  BY <1>1, <1>2, <1>3, <1>4 DEF Component

LEMMA ComponentFinite == IsFiniteSet(Component) /\ Cardinality(Component) = 4
<1>1. IsFiniteSet({}) /\ Cardinality({}) = 0
  BY FS_EmptySet
<1>2. IsFiniteSet({"ebpf"}) /\ Cardinality({"ebpf"}) = 1
  <2>1. {"ebpf"} = {} \cup {"ebpf"}
    OBVIOUS
  <2> QED
    BY <1>1, <2>1, FS_AddElement
<1>3. IsFiniteSet({"ebpf", "nftables"}) /\ Cardinality({"ebpf", "nftables"}) = 2
  <2>1. {"ebpf", "nftables"} = {"ebpf"} \cup {"nftables"} /\ "nftables" \notin {"ebpf"}
    OBVIOUS
  <2> QED
    BY <1>2, <2>1, FS_AddElement
<1>4. /\ IsFiniteSet({"ebpf", "nftables", "unbound"})
      /\ Cardinality({"ebpf", "nftables", "unbound"}) = 3
  <2>1. /\ {"ebpf", "nftables", "unbound"} = {"ebpf", "nftables"} \cup {"unbound"}
        /\ "unbound" \notin {"ebpf", "nftables"}
    OBVIOUS
  <2> QED
    BY <1>3, <2>1, FS_AddElement
<1>5. Component = {"ebpf", "nftables", "unbound"} \cup {"tailscale"}
      /\ "tailscale" \notin {"ebpf", "nftables", "unbound"}
  BY DEF Component
<1> QED
  BY <1>4, <1>5, FS_AddElement

LEMMA HealthType == NoScore \in Health /\ Idle \in Progress /\ Idle.pc = "idle"
<1>1. NoScore \in Health
  BY ComponentFinite, SizesAssumption DEF NoScore, Health
<1>2. Collecting \in Log
  BY DEF Collecting, Log, Entry
<1>3. Idle = [pc |-> "idle", log |-> Collecting, found |-> {}, score |-> NoScore]
  BY DEF Idle
<1> QED
  BY <1>1, <1>2, <1>3, Zenon DEF Progress

(* What the score counts never exceeds what there is to count.             *)
LEMMA ScoreType ==
  ASSUME NEW n \in 0 .. Window, NEW S \in SUBSET ((1 .. n) \X Component)
  PROVE  [healthy |-> Cardinality(S), total |-> n * Cardinality(Component)] \in Health
<1>1. IsFiniteSet(1 .. n) /\ Cardinality(1 .. n) = n
  BY FS_Interval, SizesAssumption
<1>2. /\ IsFiniteSet((1 .. n) \X Component)
      /\ Cardinality((1 .. n) \X Component) = n * 4
  BY <1>1, ComponentFinite, FS_Product
<1>3. Cardinality(S) \in Nat /\ Cardinality(S) <= n * 4
  BY <1>2, FS_Subset, FS_CardinalityType
<1>4. Cardinality(S) \in 0 .. Window * 4 /\ n * 4 \in 0 .. Window * 4
  BY <1>3, SizesAssumption
<1> QED
  BY <1>3, <1>4, ComponentFinite DEF Health

LEMMA InitMInv == Init => MInv
<1> SUFFICES ASSUME Init PROVE MInv
  OBVIOUS
<1>1. /\ DOMAIN is = Component /\ \A k \in Component : is[k] \in Condition(k)
      /\ faults \in 0 .. MaxFaults /\ crashes \in 0 .. MaxCrash
  BY SaysType, SizesAssumption DEF Init
<1>2. recent \in Seq(Log) /\ Len(recent) = 0 /\ report \subseteq Component
  BY DEF Init
<1>3. health \in Health /\ round \in [Round -> Progress]
  BY HealthType DEF Init
<1>4. Cardinality(Round) * crashes \in Nat
  BY UntrimmedFinite, Times DEF Init
<1>5. Bounded
  BY <1>2, <1>4, UntrimmedFinite, SizesAssumption DEF Bounded
<1> QED
  BY <1>1, <1>2, <1>3, <1>5 DEF MInv, Shapes

(* The steps of one round                                                  *)
LEMMA CollectStep ==
  ASSUME MInv, NEW i \in Round, NEW k \in Component,
         NEW next \in {"nftables", "unbound", "tailscale", "push"}, Collect(i, k, next)
  PROVE  MInv'
<1>0. Shapes /\ round[i] \in Progress
  BY DEF MInv, Shapes
<1>1. Shown(k) \in Entry
  BY <1>0, SaysType DEF Shown, Shapes
<1> DEFINE p == [round[i] EXCEPT !.pc = next, !.log[k] = Shown(k)]
<1>2. p \in Progress /\ p.pc # "trim"
  <2>1. round[i].log \in [Component -> Entry]
    BY <1>0 DEF Progress, Log
  <2>2. [round[i].log EXCEPT ![k] = Shown(k)] \in Log
    BY <1>1, <2>1 DEF Log
  <2>3. p = [round[i] EXCEPT !.pc = next, !.log = [round[i].log EXCEPT ![k] = Shown(k)]]
    BY <1>0 DEF Progress
  <2> QED
    BY <1>0, <2>2, <2>3 DEF Progress
<1>3. round' = [round EXCEPT ![i] = p]
  BY <1>0 DEF Collect, Shapes
<1>4. round[i].pc # "trim"
  BY DEF Collect, At, Component
<1>5. recent' = recent /\ crashes' = crashes
  BY DEF Collect, outside
<1> HIDE DEF p
<1>6. round' \in [Round -> Progress] /\ Bounded'
  BY <1>2, <1>3, <1>4, <1>5, ListKept
<1> QED
  BY <1>0, <1>6 DEF Collect, MInv, Shapes, outside

LEMMA FindStep ==
  ASSUME MInv, NEW i \in Round, NEW k \in Component, NEW pc,
         NEW next \in {"find_nftables", "find_unbound", "find_tailscale", "report"},
         pc # "trim", Find(i, pc, k, next)
  PROVE  MInv'
<1>0. Shapes /\ round[i] \in Progress
  BY DEF MInv, Shapes
<1> DEFINE p == [round[i] EXCEPT !.pc = next,
                   !.found = IF recent # <<>> /\ Head(recent)[k] \in Accusing
                             THEN round[i].found \cup {k} ELSE round[i].found]
<1>1. p \in Progress /\ p.pc # "trim"
  BY <1>0 DEF Progress
<1>2. round' = [round EXCEPT ![i] = p]
  BY <1>0 DEF Find, Shapes
<1>3. round[i].pc # "trim" /\ recent' = recent /\ crashes' = crashes
  BY DEF Find, At, outside
<1> HIDE DEF p
<1>4. round' \in [Round -> Progress] /\ Bounded'
  BY <1>1, <1>2, <1>3, ListKept
<1> QED
  BY <1>0, <1>4 DEF Find, MInv, Shapes, outside

LEMMA PushStep ==
  ASSUME MInv, NEW i \in Round, Push(i)
  PROVE  MInv'
<1>0. Shapes /\ Bounded /\ round[i] \in Progress
  BY DEF MInv, Shapes
<1> DEFINE p == [round[i] EXCEPT !.pc = "trim", !.log = Collecting]
<1>1. p \in Progress /\ p.pc = "trim"
  BY <1>0 DEF Progress, Collecting, Log, Entry
<1>2. round' = [round EXCEPT ![i] = p] /\ round[i].pc # "trim"
  BY <1>0 DEF Push, Shapes, At
<1> HIDE DEF p
<1>3. Cardinality(Untrimmed') = Cardinality(Untrimmed) + 1
  BY <1>0, <1>1, <1>2, UntrimmedMore DEF Shapes
<1>4. recent' \in Seq(Log) /\ Len(recent') = Len(recent) + 1
  <2>1. <<round[i].log>> \in Seq(Log) /\ Len(<<round[i].log>>) = 1
    BY <1>0 DEF Progress
  <2>2. recent' = <<round[i].log>> \o recent /\ recent \in Seq(Log)
    BY <1>0 DEF Push, Shapes
  <2> HIDE DEF p
  <2> QED
    BY <2>1, <2>2
<1>5. crashes' = crashes /\ Cardinality(Round) * crashes \in Nat
  BY <1>0, UntrimmedFinite, Times DEF Push, outside, Shapes
<1>6. Bounded'
  BY <1>0, <1>3, <1>4, <1>5, UntrimmedFinite, SizesAssumption DEF Bounded, Shapes
<1>7. round' \in [Round -> Progress]
  BY <1>0, <1>1, <1>2 DEF Shapes
<1> QED
  BY <1>0, <1>4, <1>6, <1>7 DEF Push, MInv, Shapes, outside

LEMMA TrimStep ==
  ASSUME MInv, NEW i \in Round, Trim(i)
  PROVE  MInv'
<1>0. Shapes /\ Bounded /\ round[i] \in Progress
  BY DEF MInv, Shapes
<1> DEFINE p == [round[i] EXCEPT !.pc = "find_ebpf"]
<1>1. p \in Progress /\ p.pc # "trim"
  BY <1>0 DEF Progress
<1>2. round' = [round EXCEPT ![i] = p] /\ round[i].pc = "trim"
  BY <1>0 DEF Trim, Shapes, At
<1> HIDE DEF p
<1>3. Cardinality(Untrimmed') = Cardinality(Untrimmed) - 1
  BY <1>0, <1>1, <1>2, UntrimmedLess DEF Shapes
<1>4. round' \in [Round -> Progress] /\ Untrimmed' \in SUBSET Round
  BY <1>0, <1>1, <1>2 DEF Shapes, Untrimmed
<1>5. recent' \in Seq(Log) /\ Len(recent') <= Keep
  BY <1>0, SizesAssumption DEF Trim, Shapes
<1>6. crashes' = crashes /\ Cardinality(Round) * crashes \in Nat
  BY <1>0, UntrimmedFinite, Times DEF Trim, outside, Shapes
<1>7. Cardinality(Untrimmed') \in Nat
  BY <1>4, SizesAssumption, FS_Subset, FS_CardinalityType
<1>8. Bounded'
  BY <1>5, <1>6, <1>7, UntrimmedFinite, SizesAssumption DEF Bounded
<1> QED
  BY <1>0, <1>4, <1>5, <1>8 DEF Trim, MInv, Shapes, outside

LEMMA ScoreStep ==
  ASSUME MInv, NEW i \in Round, Score(i)
  PROVE  MInv'
<1>0. Shapes /\ round[i] \in Progress
  BY DEF MInv, Shapes
<1> DEFINE n == IF Len(recent) < Window THEN Len(recent) ELSE Window
           S == {e \in (1 .. n) \X Component : recent[e[1]][e[2]] \in Healthy}
           s == [healthy |-> Cardinality(S),
                 total   |-> n * Cardinality(Component)]
           p == [round[i] EXCEPT !.pc = "health", !.score = s]
<1>1. n \in 0 .. Window
  BY <1>0, SizesAssumption DEF Shapes
<1>2. round' = [round EXCEPT ![i] = p] /\ round[i].pc # "trim"
  BY <1>0 DEF Score, Shapes, At
<1>3. s \in Health
  <2>1. S \in SUBSET ((1 .. n) \X Component)
    OBVIOUS
  <2> HIDE DEF n, S
  <2> QED
    BY <1>1, <2>1, ScoreType
<1> HIDE DEF s
<1>4. p \in Progress /\ p.pc # "trim"
  BY <1>0, <1>3 DEF Progress
<1>5. recent' = recent /\ crashes' = crashes
  BY DEF Score, outside
<1> HIDE DEF p
<1>6. round' \in [Round -> Progress] /\ Bounded'
  BY <1>2, <1>4, <1>5, ListKept
<1> QED
  BY <1>0, <1>6 DEF Score, MInv, Shapes, outside

LEMMA NextMInv == MInv /\ [Next]_vars => MInv'
<1> SUFFICES ASSUME MInv, [Next]_vars PROVE MInv'
  OBVIOUS
<1>0. Shapes /\ Bounded
  BY DEF MInv
<1>1. ASSUME NEW k \in Component, Break(k) \/ Repair(k) PROVE MInv'
  <2>1. /\ DOMAIN is' = Component
        /\ \A m \in Component : is'[m] \in Condition(m)
    BY <1>0, <1>1, SaysType DEF Break, Repair, Shapes
  <2>2. faults' \in 0 .. MaxFaults
    BY <1>0, <1>1, SizesAssumption DEF Break, Repair, Shapes
  <2> QED
    BY <1>0, <1>1, <2>1, <2>2
    DEF Break, Repair, MInv, Shapes, Bounded, Untrimmed, Condition
<1>2. CASE Crash
  <2>1. round' \in [Round -> Progress]
    BY <1>2, HealthType DEF Crash
  <2>2. crashes' = crashes + 1 /\ crashes \in Nat /\ crashes' \in 0 .. MaxCrash
    BY <1>0, <1>2, SizesAssumption DEF Crash, Shapes
  <2>3. Untrimmed' = {}
    BY <1>2, HealthType DEF Crash, Untrimmed
  <2>4. Cardinality(Untrimmed') = 0
    BY <2>3, FS_EmptySet
  <2>5. /\ Cardinality(Round) * crashes \in Nat
        /\ Cardinality(Round) * crashes' = Cardinality(Round) * crashes + Cardinality(Round)
    BY <2>2, UntrimmedFinite, Times
  <2>6. recent' = recent /\ Len(recent) \in Nat
    BY <1>0, <1>2 DEF Crash, Shapes
  <2>7. Bounded'
    BY <1>0, <2>4, <2>5, <2>6, UntrimmedFinite, SizesAssumption DEF Bounded
  <2> QED
    BY <1>0, <1>2, <2>1, <2>2, <2>7 DEF Crash, MInv, Shapes
<1>3. ASSUME NEW i \in Round, Start(i) PROVE MInv'
  <2> DEFINE p == [round[i] EXCEPT !.pc = "ebpf"]
  <2>1. p \in Progress /\ p.pc # "trim"
    BY <1>0 DEF Shapes, Progress
  <2>2. round' = [round EXCEPT ![i] = p] /\ round[i].pc # "trim"
    BY <1>0, <1>3 DEF Start, Shapes, At
  <2>3. recent' = recent /\ crashes' = crashes
    BY <1>3 DEF Start, outside
  <2> HIDE DEF p
  <2>4. round' \in [Round -> Progress] /\ Bounded'
    BY <2>1, <2>2, <2>3, ListKept
  <2> QED
    BY <1>0, <1>3, <2>4 DEF Start, MInv, Shapes, outside
<1>4. ASSUME NEW i \in Round, Report(i) PROVE MInv'
  <2> DEFINE p == [round[i] EXCEPT !.pc = "score", !.found = {}]
  <2>1. p \in Progress /\ p.pc # "trim" /\ report' \subseteq Component
    BY <1>0, <1>4 DEF Shapes, Progress, Report
  <2>2. round' = [round EXCEPT ![i] = p] /\ round[i].pc # "trim"
    BY <1>0, <1>4 DEF Report, Shapes, At
  <2>3. recent' = recent /\ crashes' = crashes
    BY <1>4 DEF Report, outside
  <2>4. round' \in [Round -> Progress] /\ Bounded'
    <3> HIDE DEF p
    <3> QED
      BY <2>1, <2>2, <2>3, ListKept
  <2> HIDE DEF p
  <2> QED
    BY <1>0, <1>4, <2>1, <2>4 DEF Report, MInv, Shapes, outside
<1>5. ASSUME NEW i \in Round, PublishHealth(i) PROVE MInv'
  <2>1. round' = [round EXCEPT ![i] = Idle] /\ round[i].pc # "trim"
    BY <1>5 DEF PublishHealth, At
  <2>2. recent' = recent /\ crashes' = crashes
    BY <1>5 DEF PublishHealth, outside
  <2>3. health' \in Health
    BY <1>0, <1>5 DEF PublishHealth, Shapes, Progress
  <2>4. round' \in [Round -> Progress] /\ Bounded'
    BY <2>1, <2>2, HealthType, ListKept
  <2> QED
    BY <1>0, <1>5, <2>3, <2>4 DEF PublishHealth, MInv, Shapes, outside
<1>6. ASSUME NEW i \in Round, Continues(i) PROVE MInv'
  <2>1. CASE \/ CollectEbpf(i) \/ CollectNftables(i)
             \/ CollectUnbound(i) \/ CollectTailscale(i)
    BY <2>1, CollectStep
    DEF CollectEbpf, CollectNftables, CollectUnbound, CollectTailscale, Component
  <2>2. CASE \/ FindEbpf(i) \/ FindNftables(i)
             \/ FindUnbound(i) \/ FindTailscale(i)
    BY <2>2, FindStep
    DEF FindEbpf, FindNftables, FindUnbound, FindTailscale, Component
  <2> QED
    BY <1>4, <1>5, <1>6, <2>1, <2>2, PushStep, TrimStep, ScoreStep DEF Continues
<1>7. CASE UNCHANGED vars
  BY <1>0, <1>7 DEF vars, outside, MInv, Shapes, Bounded, Untrimmed
<1> QED
  BY <1>1, <1>2, <1>3, <1>6, <1>7 DEF Next

LEMMA MInvTypes == MInv => TypeOK
<1> SUFFICES ASSUME MInv PROVE TypeOK
  OBVIOUS
<1>1. Shapes /\ Bounded /\ crashes \in Nat
  BY SizesAssumption DEF MInv, Shapes
<1>2. /\ Cardinality(Round) * crashes \in Nat
      /\ Cardinality(Round) * (1 + crashes)
           = Cardinality(Round) * crashes + Cardinality(Round)
  BY <1>1, UntrimmedFinite, Times
<1>3. Len(recent) \in Nat
  BY <1>1 DEF Shapes
<1>4. Len(recent) <= Keep + Cardinality(Round) * (1 + crashes)
  BY <1>1, <1>2, <1>3, UntrimmedFinite, SizesAssumption DEF Bounded
<1> QED
  BY <1>1, <1>4 DEF Shapes, TypeOK

(* The shapes of the monitor's state, with the bound of its list: however  *)
(* many rounds overlap, the list exceeds what lTrim keeps by no more than  *)
(* one log for each round at that point or lost there in a crash.          *)
THEOREM TypeCorrect == Spec => []TypeOK
<1>1. Spec => []MInv
  BY InitMInv, NextMInv, PTL DEF Spec
<1> QED
  BY <1>1, MInvTypes, PTL

-----------------------------------------------------------------------------
(* What is in a report                                                     *)

(* Nothing that is stored or on its way accuses k.                         *)
Unblamed(k) ==
  /\ \A n \in 1 .. Len(recent) : recent[n][k] \notin Accusing
  /\ \A i \in Round : round[i].log[k] \notin Accusing /\ k \notin round[i].found
  /\ k \notin report

(* The command of k shows no failure of it.                                *)
Inconspicuous(k) == Shown(k) \notin Accusing

(* A step of one round that leaves list and report alone                   *)
LEMMA UnblamedKept ==
  ASSUME NEW k \in Component, Unblamed(k), round \in [Round -> Progress],
         NEW i \in Round, NEW p, round' = [round EXCEPT ![i] = p],
         p.log[k] \notin Accusing, k \notin p.found,
         recent' = recent, report' = report
  PROVE  Unblamed(k)'
<1>1. \A j \in Round : round'[j].log[k] \notin Accusing /\ k \notin round'[j].found
  BY DEF Unblamed
<1> QED
  BY <1>1 DEF Unblamed

LEMMA UnblamedNext ==
  ASSUME NEW k \in Component
  PROVE  Shapes /\ Unblamed(k) /\ Inconspicuous(k) /\ [Next]_vars => Unblamed(k)'
<1> SUFFICES ASSUME Shapes, Unblamed(k), Inconspicuous(k), [Next]_vars
             PROVE  Unblamed(k)'
  OBVIOUS
<1>0. /\ round \in [Round -> Progress] /\ recent \in Seq(Log)
      /\ \A i \in Round : /\ round[i] \in Progress
                          /\ round[i].log[k] \notin Accusing /\ k \notin round[i].found
  BY DEF Shapes, Unblamed
<1>a. Collecting[k] \notin Accusing
  BY DEF Collecting, Accusing
<1>1. CASE UNCHANGED <<recent, report, round>>
  BY <1>1 DEF Unblamed
<1>2. CASE Crash
  <2>1. \A i \in Round : round'[i] = Idle
    BY <1>2 DEF Crash
  <2>2. Idle.log[k] \notin Accusing /\ k \notin Idle.found
    BY <1>a DEF Idle
  <2>3. recent' = recent /\ report' = report
    BY <1>2 DEF Crash
  <2> QED
    BY <2>1, <2>2, <2>3 DEF Unblamed
<1>3. ASSUME NEW i \in Round, Start(i) PROVE Unblamed(k)'
  <2> DEFINE p == [round[i] EXCEPT !.pc = "ebpf"]
  <2>1. p.log[k] \notin Accusing /\ k \notin p.found
    BY <1>0 DEF Progress
  <2>2. round' = [round EXCEPT ![i] = p] /\ recent' = recent /\ report' = report
    BY <1>3 DEF Start
  <2> HIDE DEF p
  <2> QED
    BY <1>0, <2>1, <2>2, UnblamedKept
<1>4. ASSUME NEW i \in Round, NEW m \in Component, NEW next, Collect(i, m, next)
      PROVE  Unblamed(k)'
  <2> DEFINE l == [round[i].log EXCEPT ![m] = Shown(m)]
             p == [round[i] EXCEPT !.pc = next, !.log = l]
  <2>1. Shown(k) \notin Accusing
    BY DEF Inconspicuous
  <2>2. round[i].log \in [Component -> Entry]
    BY <1>0 DEF Progress, Log
  <2>3. l[k] \notin Accusing
    BY <1>0, <2>1, <2>2
  <2>4. round' = [round EXCEPT ![i] = p] /\ recent' = recent /\ report' = report
    BY <1>0, <1>4 DEF Collect
  <2> HIDE DEF l
  <2>5. p.log[k] \notin Accusing /\ k \notin p.found
    BY <1>0, <2>3 DEF Progress
  <2> HIDE DEF p
  <2> QED
    BY <1>0, <2>4, <2>5, UnblamedKept
<1>5. ASSUME NEW i \in Round, Push(i) PROVE Unblamed(k)'
  <2>1. round[i].log \in Log /\ round[i].log[k] \notin Accusing
    BY <1>0 DEF Progress
  <2>2. recent' = <<round[i].log>> \o recent
    BY <1>5 DEF Push
  <2>3. \A n \in 1 .. Len(recent') :
          recent'[n] = IF n = 1 THEN round[i].log ELSE recent[n - 1]
    <3> DEFINE e == round[i].log
    <3>1. e \in Log /\ recent \in Seq(Log) /\ recent' = <<e>> \o recent
      BY <1>0, <2>1, <2>2
    <3> HIDE DEF e
    <3>2. \A n \in 1 .. Len(recent') :
            recent'[n] = IF n = 1 THEN e ELSE recent[n - 1]
      BY <3>1
    <3> QED
      BY <3>2 DEF e
  <2>4. Len(recent') = Len(recent) + 1 /\ Len(recent) \in Nat
    BY <1>0, <2>1, <2>2
  <2>5. \A n \in 1 .. Len(recent') : recent'[n][k] \notin Accusing
    <3> TAKE n \in 1 .. Len(recent')
    <3>1. CASE n = 1
      BY <2>1, <2>3, <3>1
    <3>2. CASE n # 1
      <4>1. n - 1 \in 1 .. Len(recent)
        BY <2>4, <3>2
      <4> QED
        BY <2>3, <3>2, <4>1 DEF Unblamed
    <3> QED
      BY <3>1, <3>2
  <2>6. round' = [round EXCEPT ![i].pc = "trim", ![i].log = Collecting]
        /\ report' = report
    BY <1>5 DEF Push
  <2>7. \A j \in Round : round'[j].log[k] \notin Accusing /\ k \notin round'[j].found
    BY <1>0, <1>a, <2>6 DEF Progress
  <2> QED
    BY <2>5, <2>6, <2>7 DEF Unblamed
<1>6. ASSUME NEW i \in Round, Trim(i) PROVE Unblamed(k)'
  <2>1. \A n \in 1 .. Len(recent') :
          n \in 1 .. Len(recent) /\ recent'[n] = recent[n]
    BY <1>0, <1>6, SizesAssumption DEF Trim
  <2>2. round' = [round EXCEPT ![i].pc = "find_ebpf"] /\ report' = report
    BY <1>6 DEF Trim
  <2>3. \A j \in Round : round'[j].log[k] \notin Accusing /\ k \notin round'[j].found
    BY <1>0, <2>2 DEF Progress
  <2> QED
    BY <2>1, <2>2, <2>3 DEF Unblamed
<1>7. ASSUME NEW i \in Round, NEW pc, NEW m \in Component, NEW next,
             Find(i, pc, m, next)
      PROVE  Unblamed(k)'
  <2> DEFINE f == IF recent # <<>> /\ Head(recent)[m] \in Accusing
                  THEN round[i].found \cup {m} ELSE round[i].found
             p == [round[i] EXCEPT !.pc = next, !.found = f]
  <2>1. recent # <<>> => Head(recent)[k] \notin Accusing
    <3>1. recent # <<>> => 1 \in 1 .. Len(recent) /\ Head(recent) = recent[1]
      BY <1>0
    <3> QED
      BY <3>1 DEF Unblamed
  <2>2. k \notin f
    BY <1>0, <2>1
  <2>3. round' = [round EXCEPT ![i] = p] /\ recent' = recent /\ report' = report
    BY <1>0, <1>7 DEF Find
  <2> HIDE DEF f
  <2>4. p.log[k] \notin Accusing /\ k \notin p.found
    BY <1>0, <2>2 DEF Progress
  <2> HIDE DEF p
  <2> QED
    BY <1>0, <2>3, <2>4, UnblamedKept
<1>8. ASSUME NEW i \in Round, Report(i) PROVE Unblamed(k)'
  <2>1. k \notin report' /\ recent' = recent
    BY <1>0, <1>8 DEF Report, Unblamed
  <2>2. round' = [round EXCEPT ![i].pc = "score", ![i].found = {}]
    BY <1>8 DEF Report
  <2>3. \A j \in Round : round'[j].log[k] \notin Accusing /\ k \notin round'[j].found
    BY <1>0, <2>2 DEF Progress
  <2> QED
    BY <2>1, <2>3 DEF Unblamed
<1>9. ASSUME NEW i \in Round, Score(i) PROVE Unblamed(k)'
  <2>1. PICK s : round' = [round EXCEPT ![i].pc = "health", ![i].score = s]
    BY <1>9 DEF Score
  <2>2. \A j \in Round : round'[j].log[k] \notin Accusing /\ k \notin round'[j].found
    BY <1>0, <2>1 DEF Progress
  <2>3. recent' = recent /\ report' = report
    BY <1>9 DEF Score
  <2> QED
    BY <2>2, <2>3 DEF Unblamed
<1>10. ASSUME NEW i \in Round, PublishHealth(i) PROVE Unblamed(k)'
  <2>1. Idle.log[k] \notin Accusing /\ k \notin Idle.found
    BY <1>a DEF Idle
  <2>2. round' = [round EXCEPT ![i] = Idle] /\ recent' = recent /\ report' = report
    BY <1>10 DEF PublishHealth
  <2> QED
    BY <1>0, <2>1, <2>2, UnblamedKept
<1>11. ASSUME NEW i \in Round, Continues(i) PROVE Unblamed(k)'
  BY <1>4, <1>5, <1>6, <1>7, <1>8, <1>9, <1>10, <1>11
  DEF Continues, CollectEbpf, CollectNftables, CollectUnbound,
      CollectTailscale, FindEbpf, FindNftables, FindUnbound, FindTailscale,
      Component
<1> QED
  BY <1>1, <1>2, <1>3, <1>11 DEF Next, Break, Repair, vars

LEMMA InitUnblamed == \A k \in Component : Init => Unblamed(k)
BY DEF Init, Unblamed, Idle, Collecting, Accusing

LEMMA SpecShapes == Spec => []Shapes
<1>1. Spec => []MInv
  BY InitMInv, NextMInv, PTL DEF Spec
<1> QED
  BY <1>1, PTL DEF MInv

(* What no command ever shows at fault is never reported, for any number   *)
(* of rounds.                                                              *)
THEOREM NothingInvented == Spec => NoFalseAlarm
<1> SUFFICES ASSUME NEW k \in Component
             PROVE  Spec => ([](Shown(k) \notin Accusing) => [](k \notin report))
  BY DEF NoFalseAlarm
<1> DEFINE Out == Inconspicuous(k)
<1>1. Init => Unblamed(k)
  BY InitUnblamed
<1>2. Shapes /\ Unblamed(k) /\ Out /\ [Next]_vars => Unblamed(k)'
  BY UnblamedNext
<1>3. Unblamed(k) => k \notin report
  BY DEF Unblamed
<1>4. Shown(k) \notin Accusing => Out
  BY DEF Inconspicuous
<1> HIDE DEF Out
<1> QED
  BY <1>1, <1>2, <1>3, <1>4, SpecShapes, PTL DEF Spec

(* No report names ebpf or unbound, whatever becomes of them: bpftool      *)
(* prints "xdp:" though no program is loaded, and a command that finds no  *)
(* daemon exits with an error, which leaves an entry without the field     *)
(* that the search for failures looks at.  That goes for accel_ppp too.    *)
THEOREM FailuresUnseen == Spec => [](report \subseteq {"nftables", "tailscale"})
<1> DEFINE U == Unblamed("ebpf") /\ Unblamed("unbound")
           Seen == report \subseteq {"nftables", "tailscale"}
<1>1. Init => U
  BY InitUnblamed DEF Component
<1>2. Shapes /\ U /\ [Next]_vars => U'
  <2>1. ASSUME NEW k \in {"ebpf", "unbound"}, Shapes PROVE Inconspicuous(k)
    <3>1. k \in Component /\ is[k] \in DOMAIN Says[k]
      BY <2>1 DEF Component, Shapes, Condition
    <3>2. CASE k = "ebpf"
      BY <3>1, <3>2, Table DEF Inconspicuous, Shown, Accusing
    <3>3. CASE k = "unbound"
      BY <3>1, <3>3, Table DEF Inconspicuous, Shown, Accusing
    <3> QED
      BY <3>2, <3>3
  <2>2. "ebpf" \in Component /\ "unbound" \in Component
    BY DEF Component
  <2> QED
    BY <2>1, <2>2, UnblamedNext
<1>3. Shapes /\ U => Seen
  BY DEF Shapes, Unblamed, Component
<1> HIDE DEF U, Seen
<1>4. Spec => []Seen
  BY <1>1, <1>2, <1>3, SpecShapes, PTL DEF Spec
<1> QED
  BY <1>4 DEF Seen

=============================================================================
