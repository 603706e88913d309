------------------------------ MODULE XdpProofs -------------------------------
(***************************************************************************)
(* What the XDP program computes, for every frame and both byte orders,    *)
(* and what any number of CPUs that run it leave in its maps.              *)
(*                                                                         *)
(* EveryFrameCounted is inductive with the types: a run is pending from    *)
(* the step that counts its frame as seen to the one that adds 1.  For     *)
(* OnlyOwnLinkMoves one has to know what a recorded decision was made      *)
(* from: PicksCurrent says that it is the one the source's own link, as it *)
(* is now, calls for, and RunsAtHome that a run still asks about the link  *)
(* its source hashes to.                                                   *)
(*                                                                         *)
(* Balancer is implemented with the read of the link's state as the moment *)
(* a frame is balanced: the run then leaves Choosing for Counting, and the *)
(* addition moves it from there to the counter without changing the sum.   *)
(***************************************************************************)
EXTENDS Xdp, FiniteSetTheorems, TLAPS

-----------------------------------------------------------------------------
(* The pure part                                                           *)

(* The test of h_proto against bpf_htons(0x0800) accepts the bytes 08 00   *)
(* on the wire and no others, whichever byte order the program is built    *)
(* for.                                                                    *)
THEOREM EtherTypeTest ==
  ASSUME NEW b \in Octet \X Octet
  PROVE  Load16(b) = BpfHtons(EthPIp) <=> b = <<8, 0>>
<1> USE CompileAssumption
<1> DEFINE x == b[1]
           y == b[2]
<1>1. x \in 0..255 /\ y \in 0..255 /\ b = <<x, y>>
  BY DEF Octet
<1>2. Swab16(2048) = 8
  BY DEF Swab16
<1> HIDE DEF x, y
<1>a. b = <<8, 0>> <=> x = 8 /\ y = 0
  BY <1>1
<1>3. CASE LittleEndian
  <2>1. Load16(b) = x + 256 * y /\ BpfHtons(EthPIp) = 8
    BY <1>1, <1>2, <1>3 DEF Load16, BpfHtons, EthPIp
  <2>2. x + 256 * y = 8 <=> x = 8 /\ y = 0
    BY <1>1
  <2> QED
    BY <1>a, <2>1, <2>2
<1>4. CASE ~ LittleEndian
  <2>1. Load16(b) = 256 * x + y /\ BpfHtons(EthPIp) = 2048
    BY <1>1, <1>4 DEF Load16, BpfHtons, EthPIp
  <2>2. 256 * x + y = 2048 <=> x = 8 /\ y = 0
    BY <1>1
  <2> QED
    BY <1>a, <2>1, <2>2
<1> QED
  BY <1>3, <1>4

LEMMA HalfType ==
  ASSUME NEW s \in [1..4 -> Octet]
  PROVE  LowHalf(s) \in Nat /\ HighHalf(s) \in Nat
<1>1. /\ s[1] \in Nat /\ s[2] \in Nat /\ s[3] \in Nat /\ s[4] \in Nat
  BY DEF Octet
<1> QED
  BY <1>1 DEF LowHalf, HighHalf, Load16

LEMMA WanIdxType == \A s \in Source : WanIdx(s) \in Wan
<1> TAKE s \in Source
<1>1. LowHalf(s) \in Nat /\ HighHalf(s) \in Nat
  BY HalfType, SourceAssumption
<1>2. \A n \in Nat : n % 2 \in {0, 1}
  OBVIOUS
<1> QED
  BY <1>1, <1>2 DEF WanIdx, Wan

(* On a little-endian machine the hash is the parity of the first and the  *)
(* third octet of the source address, ...                                  *)
THEOREM HashIsParity ==
  ASSUME LittleEndian, NEW s \in [1..4 -> Octet]
  PROVE  WanIdx(s) = (s[1] + s[3]) % 2
<1>1. /\ s[1] \in Nat /\ s[2] \in Nat /\ s[3] \in Nat /\ s[4] \in Nat
  BY DEF Octet
<1>2. LowHalf(s) = s[1] + 256 * s[2] /\ HighHalf(s) = s[3] + 256 * s[4]
  BY DEF LowHalf, HighHalf, Load16
<1>3. \A a, b, c, d \in Nat :
        ((a + 256 * b) + (c + 256 * d)) % 2 = (a + c) % 2
  OBVIOUS
<1> QED
  BY <1>1, <1>2, <1>3 DEF WanIdx

(* ... so that all the hosts of a /24, such as the clients of the hotspot, *)
(* have the same link, and nothing is balanced among them.                 *)
THEOREM SubnetSharesWan ==
  ASSUME LittleEndian, NEW s \in [1..4 -> Octet], NEW t \in [1..4 -> Octet],
         s[1] = t[1], s[2] = t[2], s[3] = t[3]
  PROVE  WanIdx(s) = WanIdx(t)
BY HashIsParity

LEMMA OtherType == \A w \in Wan : Other(w) \in Wan /\ Other(w) # w
BY DEF Wan, Other

-----------------------------------------------------------------------------
(* The program in the kernel                                               *)

Route(g, s) ==
  IF wanStatus[g][WanIdx(s)] = 0 THEN Other(WanIdx(s)) ELSE WanIdx(s)

RunsAtHome ==
  \A c \in Cpu : run[c].pc = "lookup" => run[c].wan = WanIdx(run[c].src)

PicksCurrent ==
  \A g \in Copy, s \in Source : pick[g][s] # NoWan => pick[g][s] = Route(g, s)

IInv == XdpTypeOK /\ RunsAtHome /\ PicksCurrent

LEMMA InitIInv == XdpInit => IInv /\ EveryFrameCounted
<1> SUFFICES ASSUME XdpInit PROVE IInv /\ EveryFrameCounted
  OBVIOUS
<1>1. \A c \in Cpu : run[c] = NoRun
  BY DEF XdpInit
<1>2. XdpTypeOK
  BY XdpBounds DEF XdpInit, XdpTypeOK, Run, NoRun, Wan, Copy, NoCopy
<1>3. RunsAtHome
  BY <1>1 DEF RunsAtHome, NoRun
<1>4. PicksCurrent
  BY DEF XdpInit, PicksCurrent
<1>5. \A g \in Copy : Pending(g) = {}
  BY <1>1 DEF Pending, NoRun
<1>6. \A g \in Copy : wanStats[g][0] = 0 /\ wanStats[g][1] = 0 /\ seen[g] = 0
  BY DEF XdpInit, Wan
<1> QED
  BY <1>2, <1>3, <1>4, <1>5, <1>6, FS_EmptySet DEF IInv, EveryFrameCounted

(* The copy a step is about exists, so its maps do.                        *)
LEMMA CopyLoaded ==
  ASSUME XdpTypeOK
  PROVE  /\ 1..loads \subseteq Copy
         /\ \A i \in Iface : program[i] # NoCopy => program[i] \in 1..loads
BY XdpBounds DEF XdpTypeOK, Copy, NoCopy

(* What a step does to the runs in progress on one copy                    *)
LEMMA PendingFinite == \A g \in Copy : IsFiniteSet(Pending(g))
BY CpuAssumption, FS_Subset DEF Pending

LEMMA TypeNext == XdpTypeOK /\ RunsAtHome /\ [XdpNext]_xdpVars => XdpTypeOK'
<1> SUFFICES ASSUME XdpTypeOK, RunsAtHome, [XdpNext]_xdpVars PROVE XdpTypeOK'
  OBVIOUS
<1> USE XdpBounds, CopyLoaded, WanIdxType, OtherType
<1>1. ASSUME NEW i \in Iface, Load(i) PROVE XdpTypeOK'
  <2>1. loads' = loads + 1 /\ loads' \in 0..MaxLoads /\ loads' \in Copy
    BY <1>1 DEF Load, XdpTypeOK, Copy
  <2>2. program' \in [Iface -> 0..loads']
    BY <1>1, <2>1 DEF Load, XdpTypeOK
  <2>3. \A c \in Cpu : run[c].pc # "idle" => run[c].copy \in 1..loads'
    BY <2>1 DEF XdpTypeOK
  <2> QED
    BY <1>1, <2>1, <2>2, <2>3 DEF Load, XdpTypeOK
<1>2. ASSUME NEW i \in Iface, Unload(i) PROVE XdpTypeOK'
  BY <1>2 DEF Unload, XdpTypeOK, NoCopy
<1>3. ASSUME NEW g \in Copy, NEW w \in Wan, NEW online \in {0, 1},
             SetStatus(g, w, online)
      PROVE  XdpTypeOK'
  BY <1>3 DEF SetStatus, XdpTypeOK, NoWan
<1>4. ASSUME NEW c \in Cpu, NEW i \in Iface, Receive(c, i) PROVE XdpTypeOK'
  <2>1. program[i] \in 1..loads /\ program[i] \in Copy
    BY <1>4 DEF Receive
  <2>2. PICK f \in Frame : run' = [run EXCEPT ![c] =
             [pc |-> "lookup", copy |-> program[i], src |-> f.src,
              wan |-> WanIdx(f.src)]]
    BY <1>4 DEF Receive
  <2>3. f.src \in Source /\ WanIdx(f.src) \in Wan
    BY DEF Frame
  <2> DEFINE r == [pc |-> "lookup", copy |-> program[i], src |-> f.src,
                   wan |-> WanIdx(f.src)]
  <2>4. r \in Run /\ r.copy \in 1..loads /\ r.src \in Source
    BY <2>1, <2>3 DEF Run
  <2> HIDE DEF r
  <2>5. run' = [run EXCEPT ![c] = r]
    BY <2>2 DEF r
  <2>6. run' \in [Cpu -> Run]
    BY <2>4, <2>5 DEF XdpTypeOK
  <2>7. \A d \in Cpu : run'[d].pc # "idle" =>
          run'[d].copy \in 1..loads /\ run'[d].src \in Source
    BY <2>4, <2>5 DEF XdpTypeOK
  <2>8. seen' \in [Copy -> Nat]
    BY <1>4, <2>1 DEF Receive, XdpTypeOK
  <2> QED
    BY <1>4, <2>6, <2>7, <2>8 DEF Receive, XdpTypeOK
<1>5. ASSUME NEW c \in Cpu, Lookup(c) PROVE XdpTypeOK'
  <2> DEFINE wan == IF wanStatus[run[c].copy][run[c].wan] = 0
                    THEN Other(run[c].wan) ELSE run[c].wan
  <2>1. run[c] \in Run /\ run[c].copy \in 1..loads /\ run[c].src \in Source
        /\ run[c].copy \in Copy
    BY <1>5 DEF Lookup, XdpTypeOK
  <2>2. wan \in Wan
    BY <2>1 DEF Run
  <2>3. /\ run' = [run EXCEPT ![c].pc = "count", ![c].wan = wan]
        /\ pick' = [pick EXCEPT ![run[c].copy][run[c].src] = wan]
        /\ UNCHANGED <<program, loads, wanStatus, wanStats, seen>>
    BY <1>5 DEF Lookup
  <2> HIDE DEF wan
  <2>4. run' \in [Cpu -> Run]
    BY <2>1, <2>2, <2>3 DEF XdpTypeOK, Run
  <2>5. \A d \in Cpu : run'[d].pc # "idle" =>
          run'[d].copy \in 1..loads /\ run'[d].src \in Source
    BY <2>1, <2>3 DEF XdpTypeOK, Run
  <2>6. pick' \in [Copy -> [Source -> Wan \cup {NoWan}]]
    BY <2>1, <2>2, <2>3 DEF XdpTypeOK
  <2> QED
    BY <2>3, <2>4, <2>5, <2>6 DEF XdpTypeOK
<1>6. ASSUME NEW c \in Cpu, Count(c) PROVE XdpTypeOK'
  <2>1. run[c] \in Run /\ run[c].copy \in Copy /\ run[c].wan \in Wan
    BY <1>6 DEF Count, XdpTypeOK, Run
  <2>2. wanStats' \in [Copy -> [Wan -> Nat]]
    BY <1>6, <2>1 DEF Count, XdpTypeOK
  <2>3. run' \in [Cpu -> Run] /\ \A d \in Cpu : run'[d].pc # "idle" =>
          run'[d].copy \in 1..loads /\ run'[d].src \in Source
    BY <1>6 DEF Count, XdpTypeOK, Run, NoRun, Wan
  <2> QED
    BY <1>6, <2>2, <2>3 DEF Count, XdpTypeOK
<1>7. CASE UNCHANGED xdpVars
  BY <1>7 DEF xdpVars, XdpTypeOK
<1> QED
  BY <1>1, <1>2, <1>3, <1>4, <1>5, <1>6, <1>7 DEF XdpNext

LEMMA HomeNext ==
  XdpTypeOK /\ RunsAtHome /\ [XdpNext]_xdpVars => RunsAtHome'
<1> SUFFICES ASSUME XdpTypeOK, RunsAtHome, [XdpNext]_xdpVars,
                    NEW d \in Cpu, run'[d].pc = "lookup"
             PROVE  run'[d].wan = WanIdx(run'[d].src)
  BY DEF RunsAtHome
<1>1. CASE run' = run
  BY <1>1 DEF RunsAtHome
<1>2. ASSUME NEW c \in Cpu, NEW i \in Iface, Receive(c, i)
      PROVE  run'[d].wan = WanIdx(run'[d].src)
  BY <1>2 DEF Receive, RunsAtHome, XdpTypeOK
<1>3. ASSUME NEW c \in Cpu, Lookup(c) \/ Count(c)
      PROVE  run'[d].wan = WanIdx(run'[d].src)
  <2>1. run'[c].pc # "lookup"
    <3>1. CASE Lookup(c)
      BY <3>1 DEF Lookup, XdpTypeOK, Run
    <3>2. CASE Count(c)
      BY <3>2 DEF Count, NoRun, XdpTypeOK
    <3> QED
      BY <1>3, <3>1, <3>2
  <2>2. d # c => run'[d] = run[d]
    BY <1>3 DEF Lookup, Count, XdpTypeOK
  <2> QED
    BY <2>1, <2>2 DEF RunsAtHome
<1> QED
  BY <1>1, <1>2, <1>3 DEF XdpNext, Load, Unload, SetStatus, xdpVars

(* The decision a lookup records is the one for the link as it is.         *)
LEMMA LookupRoutes ==
  ASSUME XdpTypeOK, RunsAtHome, NEW c \in Cpu, Lookup(c)
  PROVE  /\ run[c].copy \in Copy /\ run[c].src \in Source
         /\ run'[c].wan = Route(run[c].copy, run[c].src)
         /\ pick' = [pick EXCEPT ![run[c].copy][run[c].src] =
                       Route(run[c].copy, run[c].src)]
         /\ UNCHANGED wanStatus
<1>1. run[c].copy \in Copy /\ run[c].src \in Source
  BY CopyLoaded DEF Lookup, XdpTypeOK
<1>2. run[c].wan = WanIdx(run[c].src)
  BY DEF Lookup, RunsAtHome
<1> QED
  BY <1>1, <1>2 DEF Lookup, Route, XdpTypeOK

LEMMA PicksNext ==
  IInv /\ [XdpNext]_xdpVars
    => /\ PicksCurrent'
       /\ \A g \in Copy, s \in Source :
            pick[g][s] # NoWan /\ pick'[g][s] # NoWan => pick'[g][s] = pick[g][s]
<1> SUFFICES ASSUME IInv, [XdpNext]_xdpVars, NEW g \in Copy, NEW s \in Source,
                    pick'[g][s] # NoWan
             PROVE  /\ pick'[g][s] = Route(g, s)'
                    /\ pick[g][s] # NoWan => pick'[g][s] = pick[g][s]
  BY DEF PicksCurrent
<1>1. XdpTypeOK /\ RunsAtHome
  BY DEF IInv
<1>2. pick[g][s] # NoWan => pick[g][s] = Route(g, s)
  BY DEF IInv, PicksCurrent
<1>3. CASE pick' = pick /\ wanStatus' = wanStatus
  BY <1>2, <1>3 DEF Route
<1>4. ASSUME NEW h \in Copy, NEW w \in Wan, NEW online \in {0, 1},
             SetStatus(h, w, online)
      PROVE  /\ pick'[g][s] = Route(g, s)'
             /\ pick[g][s] # NoWan => pick'[g][s] = pick[g][s]
  <2>1. CASE h = g
    <3>1. WanIdx(s) # w /\ pick'[g][s] = pick[g][s]
      BY <1>1, <1>4, <2>1 DEF SetStatus, XdpTypeOK
    <3>2. wanStatus'[g][WanIdx(s)] = wanStatus[g][WanIdx(s)]
      BY <1>1, <1>4, <2>1, <3>1 DEF SetStatus, XdpTypeOK
    <3> QED
      BY <1>2, <3>1, <3>2 DEF Route
  <2>2. CASE h # g
    <3>1. pick'[g] = pick[g] /\ wanStatus'[g] = wanStatus[g]
      BY <1>1, <1>4, <2>2 DEF SetStatus, XdpTypeOK
    <3> QED
      BY <1>2, <3>1 DEF Route
  <2> QED
    BY <2>1, <2>2
<1>5. ASSUME NEW c \in Cpu, Lookup(c)
      PROVE  /\ pick'[g][s] = Route(g, s)'
             /\ pick[g][s] # NoWan => pick'[g][s] = pick[g][s]
  <2>1. Route(g, s)' = Route(g, s)
    BY <1>1, <1>5, LookupRoutes DEF Route
  <2>2. pick'[g][s] = pick[g][s] \/ pick'[g][s] = Route(g, s)
    <3> DEFINE h == run[c].copy
               t == run[c].src
               v == Route(h, t)
    <3>1. h \in Copy /\ t \in Source /\ pick' = [pick EXCEPT ![h][t] = v]
      BY <1>1, <1>5, LookupRoutes
    <3>2. pick \in [Copy -> [Source -> Wan \cup {NoWan}]]
      BY <1>1 DEF XdpTypeOK
    <3>3. h = g /\ t = s => v = Route(g, s)
      OBVIOUS
    <3> HIDE DEF h, t, v
    <3>4. CASE h = g /\ t = s
      BY <3>1, <3>2, <3>3, <3>4
    <3>5. CASE ~ (h = g /\ t = s)
      BY <3>1, <3>2, <3>5
    <3> QED
      BY <3>4, <3>5
  <2> QED
    BY <1>2, <2>1, <2>2
<1> QED
  BY <1>3, <1>4, <1>5
  DEF XdpNext, Load, Unload, Receive, Count, xdpVars

LEMMA NextIInv == IInv /\ [XdpNext]_xdpVars => IInv'
BY TypeNext, HomeNext, PicksNext DEF IInv

LEMMA SpecIInv == XdpSpec => []IInv
BY InitIInv, NextIInv, PTL DEF XdpSpec

(* Type correctness, for any CPUs, sources and number of loads             *)
THEOREM TypeCorrect == XdpSpec => []XdpTypeOK
<1>1. IInv => XdpTypeOK
  BY DEF IInv
<1> QED
  BY <1>1, SpecIInv, PTL

(* A source leaves its link only when its own link changes.                *)
THEOREM Sticky == XdpSpec => OnlyOwnLinkMoves
<1>1. IInv /\ [XdpNext]_xdpVars =>
        [\A g \in Copy, s \in Source :
           pick[g][s] # NoWan /\ pick'[g][s] # NoWan
             => pick'[g][s] = pick[g][s]]_xdpVars
  BY PicksNext
<1> QED
  BY <1>1, SpecIInv, PTL DEF XdpSpec, OnlyOwnLinkMoves

(* A frame goes to a dead link only when there is no other.                *)
THEOREM DeadLinkAvoided == XdpSpec => AvoidsDeadLink
<1>1. ASSUME IInv, XdpNext, NEW c \in Cpu,
             run[c].pc = "lookup", run'[c].pc = "count"
      PROVE  LET status == wanStatus[run[c].copy]
             IN  status[run'[c].wan] # 0 \/ \A w \in Wan : status[w] = 0
  <2>1. XdpTypeOK /\ RunsAtHome
    BY <1>1 DEF IInv
  <2>2. Lookup(c)
    BY <1>1, <2>1 DEF XdpNext, Load, Unload, SetStatus, Receive, Lookup, Count,
                      NoRun, XdpTypeOK
  <2>3. run'[c].wan = Route(run[c].copy, run[c].src) /\ run[c].src \in Source
    BY <2>1, <2>2, LookupRoutes
  <2> QED
    BY <2>3, WanIdxType DEF Route, Other, Wan
<1>2. IInv /\ [XdpNext]_xdpVars =>
        [\A c \in Cpu :
           run[c].pc = "lookup" /\ run'[c].pc = "count"
             => LET status == wanStatus[run[c].copy]
                IN  status[run'[c].wan] # 0 \/ \A w \in Wan : status[w] = 0]_xdpVars
  BY <1>1
<1> QED
  BY <1>2, SpecIInv, PTL DEF XdpSpec, AvoidsDeadLink

-----------------------------------------------------------------------------
(* What the counters hold                                                  *)

(* A step of one CPU changes at most its own place in the pending runs.    *)
LEMMA CountedNext == XdpTypeOK /\ EveryFrameCounted /\ [XdpNext]_xdpVars
                       => EveryFrameCounted'
<1> SUFFICES ASSUME XdpTypeOK, EveryFrameCounted, [XdpNext]_xdpVars, NEW g \in Copy
             PROVE  wanStats'[g][0] + wanStats'[g][1] + Cardinality(Pending(g)')
                      = seen'[g]
  BY DEF EveryFrameCounted
<1> DEFINE n == Cardinality(Pending(g))
           Counted == wanStats'[g][0] + wanStats'[g][1] + Cardinality(Pending(g)')
                        = seen'[g]
<1>1. /\ wanStats[g][0] + wanStats[g][1] + n = seen[g]
      /\ wanStats[g][0] \in Nat /\ wanStats[g][1] \in Nat /\ seen[g] \in Nat
  BY DEF EveryFrameCounted, XdpTypeOK, Wan
<1>2. IsFiniteSet(Pending(g)) /\ n \in Nat
  BY PendingFinite, FS_CardinalityType
<1>3. CASE UNCHANGED <<run, wanStats, seen>>
  BY <1>1, <1>3 DEF Pending
<1>4. ASSUME NEW c \in Cpu, NEW i \in Iface, Receive(c, i) PROVE Counted
  <2>1. /\ run[c].pc = "idle" /\ wanStats' = wanStats
        /\ seen' = [seen EXCEPT ![program[i]] = @ + 1]
        /\ \A d \in Cpu \ {c} : run'[d] = run[d]
        /\ run'[c].pc = "lookup" /\ run'[c].copy = program[i]
    BY <1>4 DEF Receive, XdpTypeOK
  <2>2. CASE program[i] = g
    <3>1. Pending(g)' = Pending(g) \cup {c} /\ c \notin Pending(g)
      BY <2>1, <2>2 DEF Pending
    <3>2. Cardinality(Pending(g)') = n + 1
      BY <1>2, <3>1, FS_AddElement
    <3>3. seen'[g] = seen[g] + 1
      BY <2>1, <2>2 DEF XdpTypeOK
    <3> QED
      BY <1>1, <1>2, <2>1, <3>2, <3>3
  <2>3. CASE program[i] # g
    <3>1. Pending(g)' = Pending(g)
      BY <2>1, <2>3 DEF Pending
    <3>2. seen'[g] = seen[g]
      BY <2>1, <2>3 DEF XdpTypeOK
    <3> QED
      BY <1>1, <2>1, <3>1, <3>2
  <2> QED
    BY <2>2, <2>3
<1>5. ASSUME NEW c \in Cpu, Lookup(c) PROVE Counted
  <2>1. /\ run[c].pc = "lookup" /\ UNCHANGED <<wanStats, seen>>
        /\ \A d \in Cpu \ {c} : run'[d] = run[d]
        /\ run'[c].pc = "count" /\ run'[c].copy = run[c].copy
    BY <1>5 DEF Lookup, XdpTypeOK, Run
  <2>2. Pending(g)' = Pending(g)
    BY <2>1 DEF Pending
  <2> QED
    BY <1>1, <2>1, <2>2
<1>6. ASSUME NEW c \in Cpu, Count(c) PROVE Counted
  <2> DEFINE h == run[c].copy
             w == run[c].wan
  <2>1. /\ run[c].pc = "count" /\ seen' = seen /\ h \in Copy /\ w \in Wan
        /\ wanStats' = [wanStats EXCEPT ![h][w] = @ + 1]
        /\ \A d \in Cpu \ {c} : run'[d] = run[d]
        /\ run'[c].pc = "idle"
    BY <1>6, CopyLoaded DEF Count, XdpTypeOK, Run, NoRun
  <2>2. CASE h = g
    <3>1. Pending(g)' = Pending(g) \ {c} /\ c \in Pending(g)
      BY <2>1, <2>2 DEF Pending
    <3>2. Cardinality(Pending(g)') = n - 1
      BY <1>2, <3>1, FS_RemoveElement
    <3>3. wanStats'[g][0] + wanStats'[g][1] = wanStats[g][0] + wanStats[g][1] + 1
      <4> HIDE DEF h, w
      <4>1. CASE w = 0
        BY <1>1, <2>1, <2>2, <4>1 DEF XdpTypeOK, Wan
      <4>2. CASE w = 1
        BY <1>1, <2>1, <2>2, <4>2 DEF XdpTypeOK, Wan
      <4> QED
        BY <2>1, <4>1, <4>2 DEF Wan
    <3>4. wanStats'[g][0] \in Int /\ wanStats'[g][1] \in Int
      <4> HIDE DEF h, w
      <4> QED
        BY <2>1, <2>2 DEF XdpTypeOK, Wan
    <3> QED
      BY <1>1, <1>2, <2>1, <3>2, <3>3, <3>4
  <2>3. CASE h # g
    <3>1. Pending(g)' = Pending(g)
      BY <2>1, <2>3 DEF Pending
    <3>2. wanStats'[g] = wanStats[g]
      BY <2>1, <2>3 DEF XdpTypeOK
    <3> QED
      BY <1>1, <2>1, <3>1, <3>2
  <2> QED
    BY <2>2, <2>3
<1> QED
  BY <1>3, <1>4, <1>5, <1>6 DEF XdpNext, Load, Unload, SetStatus, xdpVars

(* However many CPUs run the program, every frame is counted once.         *)
THEOREM FramesCounted == XdpSpec => []EveryFrameCounted
<1>1. IInv => XdpTypeOK
  BY DEF IInv
<1>2. IInv /\ EveryFrameCounted /\ [XdpNext]_xdpVars => EveryFrameCounted'
  BY <1>1, CountedNext
<1> QED
  BY <1>2, InitIInv, SpecIInv, PTL DEF XdpSpec

-----------------------------------------------------------------------------
(* What the program promises                                               *)

LEMMA CpuSets ==
  ASSUME NEW A \in SUBSET Cpu, NEW c \in Cpu
  PROVE  /\ Cardinality(A) \in Nat
         /\ c \notin A => Cardinality(A \cup {c}) = Cardinality(A) + 1
         /\ c \in A => Cardinality(A \ {c}) = Cardinality(A) - 1
<1>1. IsFiniteSet(A)
  BY CpuAssumption, FS_Subset
<1> QED
  BY <1>1, FS_CardinalityType, FS_AddElement, FS_RemoveElement

(* Two tables that agree but in one place                                  *)
LEMMA OnePlace ==
  ASSUME NEW A, NEW B, NEW F \in [A -> [B -> Int]], NEW G \in [A -> [B -> Int]],
         NEW a \in A, NEW b \in B,
         \A h \in A, t \in B : h # a \/ t # b => G[h][t] = F[h][t]
  PROVE  G = [F EXCEPT ![a][b] = G[a][b]]
<1>1. ASSUME NEW h \in A, h # a PROVE G[h] = F[h]
  <2>1. G[h] \in [B -> Int] /\ F[h] \in [B -> Int]
    OBVIOUS
  <2>2. \A t \in B : G[h][t] = F[h][t]
    BY <1>1
  <2> QED
    BY <2>1, <2>2
<1>2. G[a] = [F[a] EXCEPT ![b] = G[a][b]]
  <2>1. G[a] \in [B -> Int] /\ F[a] \in [B -> Int]
    OBVIOUS
  <2> QED
    BY <2>1
<1> QED
  BY <1>1, <1>2

TablesOK ==
  Waiting \in [Copy -> [Source -> Int]] /\ Sent \in [Copy -> [Wan -> Int]]

LEMMA TablesType == XdpTypeOK => TablesOK
<1>1. \A g \in Copy, s \in Source : Cardinality(Choosing(g, s)) \in Nat
  BY CpuAssumption, FS_Subset, FS_CardinalityType DEF Choosing
<1>2. \A g \in Copy, w \in Wan : Cardinality(Counting(g, w)) \in Nat
  BY CpuAssumption, FS_Subset, FS_CardinalityType DEF Counting
<1> QED
  BY <1>1, <1>2 DEF TablesOK, Waiting, Sent, XdpTypeOK

LEMMA TablesNext == XdpTypeOK /\ RunsAtHome /\ [XdpNext]_xdpVars => TablesOK'
BY TablesType, TypeNext, PTL

(* A run that begins is one more frame without a link, ...                 *)
LEMMA ReceiveArrives ==
  ASSUME XdpTypeOK, RunsAtHome, NEW c \in Cpu, NEW i \in Iface, Receive(c, i)
  PROVE  \E g \in Copy, s \in Source : Balanced!Arrive(g, s)
<1>1. PICK f \in Frame : run' = [run EXCEPT ![c] =
           [pc |-> "lookup", copy |-> program[i], src |-> f.src,
            wan |-> WanIdx(f.src)]]
  BY DEF Receive
<1>2. PICK g \in Copy, s \in Source : g = program[i] /\ s = f.src
  BY CopyLoaded DEF Receive, Frame
<1>3. /\ run[c].pc = "idle" /\ UNCHANGED <<wanStatus, wanStats>>
      /\ \A d \in Cpu \ {c} : run'[d] = run[d]
      /\ run'[c].pc = "lookup" /\ run'[c].copy = g /\ run'[c].src = s
  BY <1>1, <1>2 DEF Receive, XdpTypeOK
<1>4. /\ Choosing(g, s)' = Choosing(g, s) \cup {c} /\ c \notin Choosing(g, s)
      /\ \A h \in Copy, t \in Source :
           h # g \/ t # s => Choosing(h, t)' = Choosing(h, t)
      /\ \A h \in Copy, w \in Wan : Counting(h, w)' = Counting(h, w)
  BY <1>3 DEF Choosing, Counting
<1>5. Cardinality(Choosing(g, s)') = Cardinality(Choosing(g, s)) + 1
  BY <1>4, CpuSets DEF Choosing
<1>6. Waiting' = [Waiting EXCEPT ![g][s] = @ + 1]
  <2>1. /\ Waiting \in [Copy -> [Source -> Int]]
        /\ Waiting' \in [Copy -> [Source -> Int]]
    BY TablesType, TablesNext DEF XdpNext, TablesOK
  <2>2. Waiting'[g][s] = Waiting[g][s] + 1
    BY <1>5 DEF Waiting
  <2>3. \A h \in Copy, t \in Source :
          h # g \/ t # s => Waiting'[h][t] = Waiting[h][t]
    BY <1>4 DEF Waiting
  <2> QED
    BY <2>1, <2>2, <2>3, OnePlace
<1>7. Sent' = Sent
  BY <1>3, <1>4 DEF Sent
<1>8. Balanced!Arrive(g, s)
  BY <1>3, <1>6, <1>7 DEF Balanced!Arrive
<1> QED
  BY <1>2, <1>8

(* ... which the read of the link's state gives to a link, ...             *)
LEMMA LookupBalances ==
  ASSUME XdpTypeOK, RunsAtHome, NEW c \in Cpu, Lookup(c)
  PROVE  \E g \in Copy, s \in Source : Balanced!Balance(g, s)
<1>1. PICK g \in Copy, s \in Source, w \in Wan :
        /\ run[c].copy = g /\ run[c].src = s /\ w = Route(g, s)
        /\ run'[c].wan = w /\ UNCHANGED wanStatus
  BY LookupRoutes, WanIdxType, OtherType DEF Route
<1>2. /\ run[c].pc = "lookup" /\ UNCHANGED wanStats
      /\ \A d \in Cpu \ {c} : run'[d] = run[d]
      /\ run'[c].pc = "count" /\ run'[c].copy = g
  BY <1>1 DEF Lookup, XdpTypeOK, Run
<1>3. w = IF wanStatus[g][WanIdx(s)] = 1 THEN WanIdx(s) ELSE 1 - WanIdx(s)
  BY <1>1, WanIdxType DEF Route, Other, XdpTypeOK, Wan
<1>4. /\ Choosing(g, s)' = Choosing(g, s) \ {c} /\ c \in Choosing(g, s)
      /\ \A h \in Copy, t \in Source :
           h # g \/ t # s => Choosing(h, t)' = Choosing(h, t)
  BY <1>1, <1>2 DEF Choosing
<1>5. /\ Counting(g, w)' = Counting(g, w) \cup {c} /\ c \notin Counting(g, w)
      /\ \A h \in Copy, v \in Wan :
           h # g \/ v # w => Counting(h, v)' = Counting(h, v)
  BY <1>1, <1>2 DEF Counting
<1>6. /\ Cardinality(Choosing(g, s)') = Cardinality(Choosing(g, s)) - 1
      /\ Cardinality(Choosing(g, s)) \in Nat
      /\ Cardinality(Choosing(g, s)') \in Nat
  BY <1>4, CpuSets DEF Choosing
<1>7. /\ Cardinality(Counting(g, w)') = Cardinality(Counting(g, w)) + 1
      /\ Cardinality(Counting(g, w)) \in Nat
  BY <1>5, CpuSets DEF Counting
<1>a. /\ Waiting \in [Copy -> [Source -> Int]]
      /\ Waiting' \in [Copy -> [Source -> Int]]
      /\ Sent \in [Copy -> [Wan -> Int]]
      /\ Sent' \in [Copy -> [Wan -> Int]]
  BY TablesType, TablesNext DEF XdpNext, TablesOK
<1>8. Waiting[g][s] > 0 /\ Waiting' = [Waiting EXCEPT ![g][s] = @ - 1]
  <2>1. Waiting'[g][s] = Waiting[g][s] - 1 /\ Waiting[g][s] > 0
    BY <1>6 DEF Waiting
  <2>2. \A h \in Copy, t \in Source :
          h # g \/ t # s => Waiting'[h][t] = Waiting[h][t]
    BY <1>4 DEF Waiting
  <2> QED
    BY <1>a, <2>1, <2>2, OnePlace
<1>9. Sent' = [Sent EXCEPT ![g][w] = @ + 1]
  <2>1. wanStats[g][w] \in Nat
    BY DEF XdpTypeOK
  <2>2. wanStats'[g][w] + Cardinality(Counting(g, w)')
          = (wanStats[g][w] + Cardinality(Counting(g, w))) + 1
    BY <1>2, <1>7, <2>1
  <2>3. Sent'[g][w] = Sent[g][w] + 1
    BY <2>2 DEF Sent
  <2>4. \A h \in Copy, v \in Wan :
          h # g \/ v # w => Sent'[h][v] = Sent[h][v]
    BY <1>2, <1>5 DEF Sent
  <2> QED
    BY <1>a, <2>3, <2>4, OnePlace
<1>10. Balanced!Balance(g, s)
  BY <1>1, <1>3, <1>8, <1>9 DEF Balanced!Balance
<1> QED
  BY <1>10

(* ... and the addition moves it from the runs to the counter of that link.*)
LEMMA CountStutters ==
  ASSUME XdpTypeOK, NEW c \in Cpu, Count(c)
  PROVE  UNCHANGED <<wanStatus, Waiting, Sent>>
<1>a. PICK g \in Copy, w \in Wan : run[c].copy = g /\ run[c].wan = w
  BY CopyLoaded DEF Count, XdpTypeOK, Run
<1>1. /\ run[c].pc = "count" /\ run[c].copy = g /\ run[c].wan = w
      /\ UNCHANGED wanStatus
      /\ wanStats' = [wanStats EXCEPT ![g][w] = @ + 1]
      /\ \A d \in Cpu \ {c} : run'[d] = run[d]
      /\ run'[c].pc = "idle"
  BY <1>a DEF Count, XdpTypeOK, NoRun
<1>2. \A h \in Copy, s \in Source : Choosing(h, s)' = Choosing(h, s)
  BY <1>1 DEF Choosing
<1>3. /\ Counting(g, w)' = Counting(g, w) \ {c} /\ c \in Counting(g, w)
      /\ \A h \in Copy, v \in Wan :
           h # g \/ v # w => Counting(h, v)' = Counting(h, v)
  BY <1>1 DEF Counting
<1>4. /\ Cardinality(Counting(g, w)') = Cardinality(Counting(g, w)) - 1
      /\ Cardinality(Counting(g, w)) \in Nat
  BY <1>3, CpuSets DEF Counting
<1>5. wanStats'[g][w] = wanStats[g][w] + 1 /\ wanStats[g][w] \in Nat
  BY <1>1 DEF XdpTypeOK
<1>6. \A h \in Copy, v \in Wan :
        h # g \/ v # w => wanStats'[h][v] = wanStats[h][v]
  BY <1>1 DEF XdpTypeOK
<1>7. ASSUME NEW h \in Copy, NEW v \in Wan
      PROVE  wanStats'[h][v] + Cardinality(Counting(h, v)')
               = wanStats[h][v] + Cardinality(Counting(h, v))
  <2>1. CASE h = g /\ v = w
    <3> DEFINE n == Cardinality(Counting(g, w))
               m == Cardinality(Counting(g, w)')
    <3>1. n \in Nat /\ m = n - 1
      BY <1>4
    <3> HIDE DEF n, m
    <3>2. wanStats'[g][w] + m = wanStats[g][w] + n
      BY <1>5, <3>1
    <3> QED
      BY <2>1, <3>2 DEF n, m
  <2>2. CASE h # g \/ v # w
    BY <1>3, <1>6, <2>2
  <2> QED
    BY <2>1, <2>2
<1> QED
  BY <1>1, <1>2, <1>7 DEF Waiting, Sent

LEMMA RefineInit == XdpInit => Balanced!Init
<1> SUFFICES ASSUME XdpInit PROVE Balanced!Init
  OBVIOUS
<1>1. \A c \in Cpu : run[c].pc = "idle"
  BY DEF XdpInit, NoRun
<1>2. /\ \A g \in Copy, s \in Source : Cardinality(Choosing(g, s)) = 0
      /\ \A g \in Copy, w \in Wan : Cardinality(Counting(g, w)) = 0
  BY <1>1, FS_EmptySet DEF Choosing, Counting
<1>3. \A g \in Copy, w \in Wan : wanStats[g][w] + Cardinality(Counting(g, w)) = 0
  BY <1>2 DEF XdpInit
<1> QED
  BY <1>2, <1>3 DEF XdpInit, Balanced!Init, Waiting, Sent, Wan

LEMMA RefineNext ==
  IInv /\ [XdpNext]_xdpVars => [Balanced!Next]_<<wanStatus, Waiting, Sent>>
<1> SUFFICES ASSUME IInv, [XdpNext]_xdpVars
             PROVE  Balanced!Next \/ UNCHANGED <<wanStatus, Waiting, Sent>>
  OBVIOUS
<1>1. XdpTypeOK /\ RunsAtHome
  BY DEF IInv
<1>2. CASE UNCHANGED <<run, wanStats>>
  <2>1. UNCHANGED <<Waiting, Sent>>
    BY <1>2 DEF Waiting, Sent, Choosing, Counting
  <2>2. ASSUME NEW g \in Copy, NEW w \in Wan, NEW online \in {0, 1},
               SetStatus(g, w, online)
        PROVE  Balanced!Turn(g, w)
    <3>1. wanStatus[g][w] \in {0, 1} /\ wanStatus[g][w] # online
          /\ wanStatus' = [wanStatus EXCEPT ![g][w] = online]
      BY <1>1, <2>2 DEF SetStatus, XdpTypeOK
    <3>2. online = 1 - wanStatus[g][w]
      BY <3>1
    <3> QED
      BY <1>1, <2>1, <3>1, <3>2 DEF Balanced!Turn, XdpTypeOK
  <2>3. wanStatus' = wanStatus \/ Balanced!Next
    BY <1>1, <1>2, <2>2
    DEF XdpNext, Load, Unload, Receive, Lookup, Count, xdpVars, Balanced!Next, Wan
  <2> QED
    BY <2>1, <2>3
<1>3. ASSUME NEW c \in Cpu, NEW i \in Iface, Receive(c, i) PROVE Balanced!Next
  BY <1>1, <1>3, ReceiveArrives DEF Balanced!Next
<1>4. ASSUME NEW c \in Cpu, Lookup(c) PROVE Balanced!Next
  BY <1>1, <1>4, LookupBalances DEF Balanced!Next
<1>5. ASSUME NEW c \in Cpu, Count(c) PROVE UNCHANGED <<wanStatus, Waiting, Sent>>
  BY <1>1, <1>5, CountStutters
<1> QED
  BY <1>2, <1>3, <1>4, <1>5 DEF XdpNext, Load, Unload, SetStatus, xdpVars

(* Overlapping runs come to the same counters as frames balanced one at a  *)
(* time, for any number of CPUs, sources and copies.                       *)
THEOREM Refinement == XdpSpec => BalancerSpec
<1>1. IInv /\ [XdpNext]_xdpVars => [Balanced!Next]_Balanced!balancerVars
  BY RefineNext DEF Balanced!balancerVars
<1> QED
  BY <1>1, RefineInit, SpecIInv, PTL DEF XdpSpec, BalancerSpec, Balanced!Spec

=============================================================================
