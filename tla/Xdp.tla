--------------------------------- MODULE Xdp ---------------------------------
(***************************************************************************)
(* The XDP program xdp_wan_balance_prog (src/kernel/router_kern.c) and the *)
(* two maps of every loaded copy of it: wan_status, which userspace may    *)
(* write, and wan_stats, which the program counts frames in.               *)
(*                                                                         *)
(* Several CPUs run the program at once.  A run touches shared memory      *)
(* twice, in the read of *status and in the atomic addition; everything    *)
(* before the read is a function of the frame and belongs to the step that *)
(* begins the run, and the return of XDP_PASS to the step that ends it.  A *)
(* frame that is too short or not IPv4 is passed without a map being       *)
(* touched: it leaves no trace here.                                       *)
(*                                                                         *)
(* Both maps are arrays of two elements and the key is 0 or 1, so a lookup *)
(* never returns NULL.  wan_stats is 64 bits wide and does not wrap within *)
(* the life of a router.                                                   *)
(***************************************************************************)
EXTENDS Integers, FiniteSets

CONSTANTS
  Cpu,
  Iface,         \* interfaces the program may be attached to
  Source,        \* IPv4 source addresses, as four octets
  Length,        \* lengths of frames
  EtherType,     \* the two bytes of h_proto, as they are on the wire
  LittleEndian,  \* byte order the program is compiled for
  MaxLoads,      \* bound on the times the program is loaded
  MaxFrames      \* bound on the frames one copy of it sees

Octet == 0..255

ASSUME CpuAssumption == IsFiniteSet(Cpu)
ASSUME SourceAssumption == Source \subseteq [1..4 -> Octet]
ASSUME FrameAssumption ==
  Length \subseteq Nat /\ EtherType \subseteq Octet \X Octet
ASSUME CompileAssumption == LittleEndian \in BOOLEAN
ASSUME XdpBounds == MaxLoads \in Nat /\ MaxFrames \in Nat

-----------------------------------------------------------------------------
(* What the program computes from a frame                                  *)

Wan == {0, 1}
Copy == 1..MaxLoads   \* copies of the program, each with maps of its own
NoCopy == 0

(* struct ethhdr and struct iphdr, in bytes                                *)
EthLen == 14
IpLen  == 20

(* The 16-bit number a CPU reads from two bytes                            *)
Load16(b) ==
  IF LittleEndian THEN b[1] + 256 * b[2] ELSE 256 * b[1] + b[2]

Swab16(x) == (x % 256) * 256 + x \div 256

BpfHtons(x) == IF LittleEndian THEN Swab16(x) ELSE x

EthPIp == 2048   \* 0x0800

Frame == [len : Length, proto : EtherType, src : Source]

(* The two bounds checks and the test of h_proto between them              *)
IsIPv4(f) ==
  /\ f.len >= EthLen
  /\ Load16(f.proto) = BpfHtons(EthPIp)
  /\ f.len >= EthLen + IpLen

(* ip->saddr as the CPU reads it, in halves: src_ip >> 16, and the rest    *)
HighHalf(s) ==
  IF LittleEndian THEN Load16(<<s[3], s[4]>>) ELSE Load16(<<s[1], s[2]>>)
LowHalf(s) ==
  IF LittleEndian THEN Load16(<<s[1], s[2]>>) ELSE Load16(<<s[3], s[4]>>)

(* (src_ip ^ (src_ip >> 16)) % 2: bit 0 of the exclusive or of the halves  *)
WanIdx(s) == (LowHalf(s) + HighHalf(s)) % 2

(* Faulty variant: not reduced                                             *)
OtherUnreduced(w) == w + 1

Other(w) == (w + 1) % 2

-----------------------------------------------------------------------------
VARIABLES
  program,    \* the copy attached to each interface, NoCopy if none
  loads,      \* copies loaded so far
  wanStatus,  \* wan_status of each copy
  wanStats,   \* wan_stats of each copy
  run,        \* the run of the program on each CPU
  seen,       \* history: the IPv4 frames each copy has begun to process
  pick        \* history: where each copy last sent a source, since the state
              \* of the source's own link was last written

xdpVars == <<program, loads, wanStatus, wanStats, run, seen, pick>>

NoWan == 2   \* no decision recorded

Run == [pc : {"idle", "lookup", "count"}, copy : Copy \cup {NoCopy},
        src : Source \cup {<<>>}, wan : Wan]
NoRun == [pc |-> "idle", copy |-> NoCopy, src |-> <<>>, wan |-> 0]

XdpInit ==
  /\ program = [i \in Iface |-> NoCopy] /\ loads = 0
  /\ wanStatus = [g \in Copy |-> [w \in Wan |-> 0]]
  /\ wanStats = [g \in Copy |-> [w \in Wan |-> 0]]
  /\ run = [c \in Cpu |-> NoRun]
  /\ seen = [g \in Copy |-> 0]
  /\ pick = [g \in Copy |-> [s \in Source |-> NoWan]]

Attached(g) == \E i \in Iface : program[i] = g

(* ip link set dev i xdp obj ...: the kernel creates the maps, zeroed, for *)
(* this copy alone.  Without -force it fails where a program is attached.  *)
Load(i) ==
  /\ program[i] = NoCopy /\ loads < MaxLoads
  /\ loads' = loads + 1
  /\ program' = [program EXCEPT ![i] = loads']
  /\ UNCHANGED <<wanStatus, wanStats, run, seen, pick>>

(* ip link set dev i xdp off; runs that have begun come to their end.  (The *)
(* last copy stays, so that the bound on loads does not end everything.)   *)
Unload(i) ==
  /\ program[i] # NoCopy /\ loads < MaxLoads
  /\ program' = [program EXCEPT ![i] = NoCopy]
  /\ UNCHANGED <<loads, wanStatus, wanStats, run, seen, pick>>

(* Userspace writes the state of a link: 1 = online, 0 = offline.          *)
SetStatus(g, w, online) ==
  /\ Attached(g) /\ wanStatus[g][w] # online
  /\ wanStatus' = [wanStatus EXCEPT ![g][w] = online]
  /\ pick' = [pick EXCEPT ![g] = [s \in Source |->
                IF WanIdx(s) = w THEN NoWan ELSE pick[g][s]]]
  /\ UNCHANGED <<program, loads, wanStats, run, seen>>

(* An IPv4 frame arrives on interface i and the program begins on CPU c.   *)
Receive(c, i) ==
  /\ run[c].pc = "idle" /\ program[i] # NoCopy
  /\ seen[program[i]] < MaxFrames
  /\ \E f \in Frame :
        /\ IsIPv4(f)
        /\ run' = [run EXCEPT ![c] =
             [pc |-> "lookup", copy |-> program[i], src |-> f.src,
              wan |-> WanIdx(f.src)]]
  /\ seen' = [seen EXCEPT ![program[i]] = @ + 1]
  /\ UNCHANGED <<program, loads, wanStatus, wanStats, pick>>

(* Faulty variants: no fallback; a fallback that wants the other link up   *)
LookupNoFallback(c) ==
  /\ run[c].pc = "lookup"
  /\ run' = [run EXCEPT ![c].pc = "count"]
  /\ pick' = [pick EXCEPT ![run[c].copy][run[c].src] = run[c].wan]
  /\ UNCHANGED <<program, loads, wanStatus, wanStats, seen>>
LookupWantsOther(c) ==
  LET r    == run[c]
      down(w) == wanStatus[r.copy][w] = 0
      wan  == IF down(r.wan) /\ ~ down(Other(r.wan)) THEN Other(r.wan) ELSE r.wan
  IN  /\ r.pc = "lookup"
      /\ run' = [run EXCEPT ![c].pc = "count", ![c].wan = wan]
      /\ pick' = [pick EXCEPT ![r.copy][r.src] = wan]
      /\ UNCHANGED <<program, loads, wanStatus, wanStats, seen>>

(* The state of the link is read; when it is 0 the other link is taken,    *)
(* whatever its own state.                                                 *)
Lookup(c) ==
  LET r   == run[c]
      wan == IF wanStatus[r.copy][r.wan] = 0 THEN Other(r.wan) ELSE r.wan
  IN  /\ r.pc = "lookup"
      /\ run' = [run EXCEPT ![c].pc = "count", ![c].wan = wan]
      /\ pick' = [pick EXCEPT ![r.copy][r.src] = wan]
      /\ UNCHANGED <<program, loads, wanStatus, wanStats, seen>>

(* Faulty variant: the counter is read and written back, so that CPUs that *)
(* count in the same place at the same time count one frame between them   *)
CountNotAtomic(c) ==
  LET r == run[c]
  IN  /\ r.pc = "count"
      /\ \E also \in SUBSET {d \in Cpu : run[d].pc = "count" /\ run[d].copy = r.copy
                                          /\ run[d].wan = r.wan} :
            run' = [d \in Cpu |-> IF d \in also \cup {c} THEN NoRun ELSE run[d]]
      /\ wanStats' = [wanStats EXCEPT ![r.copy][r.wan] = @ + 1]
      /\ UNCHANGED <<program, loads, wanStatus, seen, pick>>

(* Faulty variant: the frame is counted for the link of its source, also   *)
(* when the fallback has sent it to the other                              *)
CountHome(c) ==
  LET r == run[c]
  IN  /\ r.pc = "count"
      /\ wanStats' = [wanStats EXCEPT ![r.copy][WanIdx(r.src)] = @ + 1]
      /\ run' = [run EXCEPT ![c] = NoRun]
      /\ UNCHANGED <<program, loads, wanStatus, seen, pick>>

(* __sync_fetch_and_add(counter, 1), and the frame is passed on.           *)
Count(c) ==
  LET r == run[c]
  IN  /\ r.pc = "count"
      /\ wanStats' = [wanStats EXCEPT ![r.copy][r.wan] = @ + 1]
      /\ run' = [run EXCEPT ![c] = NoRun]
      /\ UNCHANGED <<program, loads, wanStatus, seen, pick>>

XdpNext ==
  \/ \E i \in Iface : Load(i) \/ Unload(i)
  \/ \E g \in Copy, w \in Wan, online \in {0, 1} : SetStatus(g, w, online)
  \/ \E c \in Cpu : Lookup(c) \/ Count(c) \/ \E i \in Iface : Receive(c, i)

XdpSpec == XdpInit /\ [][XdpNext]_xdpVars

-----------------------------------------------------------------------------

(* Type correctness: in particular every key handed to a map lookup is one *)
(* the map has, and a run has a copy and a source.                         *)
XdpTypeOK ==
  /\ loads \in 0..MaxLoads /\ program \in [Iface -> 0..loads]
  /\ wanStatus \in [Copy -> [Wan -> {0, 1}]]
  /\ wanStats \in [Copy -> [Wan -> Nat]]
  /\ run \in [Cpu -> Run]
  /\ \A c \in Cpu : run[c].pc # "idle" =>
       run[c].copy \in 1..loads /\ run[c].src \in Source
  /\ seen \in [Copy -> Nat]
  /\ pick \in [Copy -> [Source -> Wan \cup {NoWan}]]

(* Every IPv4 frame is counted once, in one of the two counters of the     *)
(* copy that saw it, whatever CPUs overlap and although the program is     *)
(* detached or loaded again meanwhile.                                     *)
Pending(g) == {c \in Cpu : run[c].pc # "idle" /\ run[c].copy = g}

EveryFrameCounted ==
  \A g \in Copy :
    wanStats[g][0] + wanStats[g][1] + Cardinality(Pending(g)) = seen[g]

(* A source stays with its link ("sticky routing", router_kern.c:53): what *)
(* happens to the other link never moves it, only a change of its own.     *)
OnlyOwnLinkMoves ==
  [][\A g \in Copy, s \in Source :
       pick[g][s] # NoWan /\ pick'[g][s] # NoWan => pick'[g][s] = pick[g][s]]_xdpVars

(* A frame is given to a link that is down only when both are.             *)
AvoidsDeadLink ==
  [][\A c \in Cpu :
       run[c].pc = "lookup" /\ run'[c].pc = "count"
         => LET status == wanStatus[run[c].copy]
            IN  status[run'[c].wan] # 0 \/ \A w \in Wan : status[w] = 0]_xdpVars

-----------------------------------------------------------------------------
(* What the program promises                                               *)

(* Frames without a link: the runs that still have to choose one           *)
Choosing(g, s) ==
  {c \in Cpu : run[c].pc = "lookup" /\ run[c].copy = g /\ run[c].src = s}
Waiting == [g \in Copy |-> [s \in Source |-> Cardinality(Choosing(g, s))]]

(* Frames given to a link: those counted there, and the runs about to      *)
Counting(g, w) ==
  {c \in Cpu : run[c].pc = "count" /\ run[c].copy = g /\ run[c].wan = w}
Sent == [g \in Copy |-> [w \in Wan |->
           wanStats[g][w] + Cardinality(Counting(g, w))]]

Balanced == INSTANCE Balancer WITH
  Home <- [s \in Source |-> WanIdx(s)],
  online <- wanStatus, waiting <- Waiting, sent <- Sent

(* The steps of runs that overlap add up to frames balanced one at a time: *)
(* the counter that ends up larger is that of the link which was right for *)
(* the source at one instant of the run.                                   *)
BalancerSpec == Balanced!Spec

=============================================================================
