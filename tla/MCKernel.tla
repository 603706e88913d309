------------------------------- MODULE MCKernel -------------------------------
(***************************************************************************)
(* One bench for the three modules about objects of the kernel that        *)
(* several actors change: the qdiscs of tc (Shaper), the maps of the XDP   *)
(* program (Xdp), and the links, tables and programs that the process sets *)
(* up (Router).  They share no variable, so interleaving them would add    *)
(* nothing: in each behaviour one of them moves.                           *)
(***************************************************************************)
EXTENDS Shaper, Xdp, Router, Bitwise

VARIABLE part    \* which of them

bench == <<part, vars, xdpVars, routerVars>>

KernelInit ==
  /\ part \in {"tc", "xdp", "router"}
  /\ Init /\ XdpInit /\ RouterInit
  /\ part # "router" => files = {}

KernelNext ==
  \/ part = "tc" /\ Next /\ UNCHANGED <<part, xdpVars, routerVars>>
  \/ part = "xdp" /\ XdpNext /\ UNCHANGED <<part, vars, routerVars>>
  \/ part = "router" /\ RouterNext /\ UNCHANGED <<part, vars, xdpVars>>

(* RouterFairness, in the behaviours in which the router moves             *)
RouterMoves(A) == part = "router" /\ A /\ UNCHANGED <<part, vars, xdpVars>>
KernelFairness ==
  /\ WF_bench(RouterMoves(Start))
  /\ WF_bench(RouterMoves(BootContinues))
  /\ WF_bench(RouterMoves(StopContinues))

KernelSpec == KernelInit /\ [][KernelNext]_bench /\ KernelFairness

(* The router becomes operative again in the behaviours that are about it. *)
RouterComesBack == part = "router" => ComesBack

(* A host for each value of the hash                                       *)
Hosts == {<<192, 168, 10, 50>>, <<192, 168, 11, 50>>}

(* IPv4, a VLAN tag, IPv6, and IPv4 with its bytes swapped                 *)
EtherTypes == {<<8, 0>>, <<129, 0>>, <<134, 221>>, <<0, 8>>}

(* The parity that Xdp takes for the hash is that of the exclusive or.     *)
ASSUME HashIsExclusiveOr ==
  \A a, b, c, d \in {0, 1, 2, 127, 168, 192, 255} :
    LET s == <<a, b, c, d>>
    IN  WanIdx(s) = (LowHalf(s) ^^ HighHalf(s)) % 2

(* The macro for a 16-bit swap does what its shifts and or say.            *)
ASSUME SwapIsShifts ==
  \A x \in {0, 1, 127, 128, 255, 256, 257, 2048, 32768, 33024, 65535} :
    Swab16(x) = (((x * 256) % 65536) | shiftR(x, 8))

=============================================================================
