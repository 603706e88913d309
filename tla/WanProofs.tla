------------------------------ MODULE WanProofs ------------------------------
(***************************************************************************)
(* Type correctness of Wan for any number of overlapping checks: in        *)
(* particular every status that is recorded or published is one that a     *)
(* ping or a hash can yield, and a check that goes on to record has        *)
(* something to record (Measures), which the types alone do not say.       *)
(*                                                                         *)
(* And how far from a failover the code is: NoFailover says that nothing   *)
(* but a slow answer on eth1 which can be read makes it touch the route.   *)
(***************************************************************************)
EXTENDS Wan, TLAPS

Measures ==
  \A c \in Check : check[c].pc = "record" => check[c].seen \in {"lost", "fast", "slow"}

TInv == TypeOK /\ Measures

(* The steps of a check change its own record only.                        *)
LEMMA ChecksKept ==
  ASSUME TInv, NEW c \in Check, NEW p \in Progress,
         p.pc = "record" => p.seen \in {"lost", "fast", "slow"},
         check' = [check EXCEPT ![c] = p]
  PROVE  check' \in [Check -> Progress] /\ Measures'
BY DEF TInv, TypeOK, Measures

LEMMA IdleType == Idle \in Progress /\ Idle.pc = "idle"
BY DEF Idle, Progress, NoStatus, Link, Status

LEMMA FollowingType ==
  ASSUME TInv, NEW c \in Check
  PROVE  Following(c) \in Progress /\ Following(c).pc # "record"
<1>1. check[c] \in Progress
  BY DEF TInv, TypeOK
<1>2. CASE check[c].wan = "eth1"
  BY <1>1, <1>2 DEF Following, Progress, Link
<1>3. CASE check[c].wan # "eth1"
  BY <1>3, IdleType DEF Following, Progress, Idle
<1> QED
  BY <1>2, <1>3

LEMMA InitTInv == Init => TInv
<1> SUFFICES ASSUME Init PROVE TInv
  OBVIOUS
<1>1. check \in [Check -> Progress] /\ Measures
  BY IdleType DEF Init, Measures
<1>2. link \in [Link -> Quality] /\ route \in Link \cup {NoRoute}
  BY DEF Init, Quality, Link
<1>3. wan \in [Link -> Status] /\ metrics \in [Link -> Status]
  BY DEF Init, Status, NoStatus
<1> QED
  BY <1>1, <1>2, <1>3, BoundsAssumption DEF Init, TInv, TypeOK

LEMMA NextTInv == TInv /\ [Next]_vars => TInv'
<1> SUFFICES ASSUME TInv, [Next]_vars PROVE TInv'
  OBVIOUS
<1>0. TypeOK /\ Measures
  BY DEF TInv
<1>1. ASSUME NEW w \in Link, LinkChange(w) PROVE TInv'
  <2>1. PICK q \in Quality : link' = [link EXCEPT ![w] = q]
    BY <1>1 DEF LinkChange
  <2>2. link' \in [Link -> Quality]
    BY <1>0, <2>1 DEF TypeOK
  <2>3. changes' \in 0 .. MaxChanges /\ route' \in Link \cup {NoRoute}
    BY <1>0, <1>1, BoundsAssumption DEF LinkChange, TypeOK
  <2> QED
    BY <1>0, <1>1, <2>2, <2>3 DEF LinkChange, TInv, TypeOK, Measures
<1>2. ASSUME NEW w \in Link, RouteSet(w) PROVE TInv'
  <2>1. changes' \in 0 .. MaxChanges
    BY <1>0, <1>2, BoundsAssumption DEF RouteSet, TypeOK
  <2> QED
    BY <1>0, <1>2, <2>1 DEF RouteSet, TInv, TypeOK, Measures
<1>3. ASSUME NEW c \in Check, CheckStart(c) PROVE TInv'
  <2>1. [check[c] EXCEPT !.pc = "probe"] \in Progress
    BY <1>0 DEF TypeOK, Progress
  <2>2. check' = [check EXCEPT ![c] = [check[c] EXCEPT !.pc = "probe"]]
    BY <1>3 DEF CheckStart
  <2>3. [check[c] EXCEPT !.pc = "probe"].pc # "record"
    BY <1>0 DEF TypeOK, Progress
  <2>4. check' \in [Check -> Progress] /\ Measures'
    BY <2>1, <2>2, <2>3, ChecksKept
  <2> QED
    BY <1>0, <1>3, <2>4 DEF CheckStart, TInv, TypeOK, outside
<1>4. ASSUME NEW c \in Check, Probe(c) PROVE TInv'
  <2> DEFINE m == Measured(link[check[c].wan])
             p == IF m = "" THEN Following(c)
                  ELSE [check[c] EXCEPT !.pc = "record", !.seen = m]
  <2>1. check[c] \in Progress /\ check[c].wan \in Link
    BY <1>0 DEF TypeOK, Progress
  <2>2. m \in {"", "lost", "fast", "slow"}
    <3>1. link[check[c].wan] \in Quality
      BY <1>0, <2>1 DEF TypeOK
    <3> QED
      BY <3>1 DEF Measured, Quality
  <2>3. check' = [check EXCEPT ![c] = p]
    BY <1>4 DEF Probe
  <2> HIDE DEF m
  <2>4. p \in Progress /\ (p.pc = "record" => p.seen \in {"lost", "fast", "slow"})
    <3>1. CASE m = ""
      BY <3>1, FollowingType
    <3>2. CASE m # ""
      BY <2>1, <2>2, <3>2 DEF Progress
    <3> QED
      BY <3>1, <3>2
  <2> HIDE DEF p
  <2>5. check' \in [Check -> Progress] /\ Measures'
    BY <2>3, <2>4, ChecksKept
  <2> QED
    BY <1>0, <1>4, <2>5 DEF Probe, TInv, TypeOK, outside
<1>5. ASSUME NEW c \in Check, Record(c) PROVE TInv'
  <2> DEFINE s == check[c].seen
             w == check[c].wan
             h == IF s = "lost" THEN [wan[w] EXCEPT !.status = "offline"]
                  ELSE [status |-> "online", latency |-> s]
             p == IF s = "slow" /\ w = "eth1"
                  THEN [check[c] EXCEPT !.pc = "gateway"] ELSE Following(c)
  <2>1. check[c] \in Progress /\ w \in Link /\ s \in {"lost", "fast", "slow"}
    BY <1>0, <1>5 DEF TypeOK, Progress, Record, At, Measures
  <2>2. wan[w] \in Status
    BY <1>0, <2>1 DEF TypeOK
  <2>3. h \in Status
    BY <2>1, <2>2 DEF Status
  <2>4. wan' = [wan EXCEPT ![w] = h] /\ check' = [check EXCEPT ![c] = p]
    BY <1>5 DEF Record
  <2>5. p \in Progress /\ p.pc # "record"
    <3>1. [check[c] EXCEPT !.pc = "gateway"] \in Progress
          /\ [check[c] EXCEPT !.pc = "gateway"].pc # "record"
      BY <2>1 DEF Progress
    <3> QED
      BY <3>1, FollowingType
  <2> HIDE DEF s, w, h, p
  <2>6. wan' \in [Link -> Status]
    BY <1>0, <2>1, <2>3, <2>4 DEF TypeOK
  <2>7. check' \in [Check -> Progress] /\ Measures'
    BY <2>4, <2>5, ChecksKept
  <2> QED
    BY <1>0, <1>5, <2>6, <2>7 DEF Record, TInv, TypeOK, outside
<1>6. ASSUME NEW c \in Check, FindGateway(c) PROVE TInv'
  <2> DEFINE via == IF listed \/ route = "eth2" THEN gateway ELSE "fixed"
             q == [check[c] EXCEPT !.pc = "route", !.via = via]
             p == IF link["eth2"] = "absent" THEN Following(c) ELSE q
  <2>1. check[c] \in Progress /\ via \in Gateway
    BY <1>0 DEF TypeOK, Gateway
  <2>2. check' = [check EXCEPT ![c] = p]
    BY <1>6 DEF FindGateway
  <2>3. q \in Progress /\ q.pc # "record"
    <3> HIDE DEF via
    <3> QED
      BY <2>1 DEF Progress
  <2>4. p \in Progress /\ p.pc # "record"
    BY <2>3, FollowingType
  <2> HIDE DEF p
  <2>5. check' \in [Check -> Progress] /\ Measures'
    BY <2>2, <2>4, ChecksKept
  <2> QED
    BY <1>0, <1>6, <2>5 DEF FindGateway, TInv, TypeOK, outside
<1>7. ASSUME NEW c \in Check, ReplaceRoute(c) PROVE TInv'
  <2>1. check' = [check EXCEPT ![c] = Following(c)]
    BY <1>7 DEF ReplaceRoute
  <2>2. check' \in [Check -> Progress] /\ Measures'
    BY <2>1, FollowingType, ChecksKept
  <2>3. route' \in Link \cup {NoRoute}
    BY <1>0, <1>7 DEF ReplaceRoute, TypeOK, Link
  <2> QED
    BY <1>0, <1>7, <2>2, <2>3 DEF ReplaceRoute, TInv, TypeOK, outside
<1>8. ASSUME NEW c \in Check, NEW pc, NEW w \in Link,
             NEW next \in {"read2", "publish"}, ReadStatus(c, pc, w, next)
      PROVE  TInv'
  <2> DEFINE s == Reported(wan[w])
             p == [check[c] EXCEPT !.pc = next, !.read[w] = s]
  <2>1. check[c] \in Progress /\ wan[w] \in Status
    BY <1>0 DEF TypeOK
  <2>2. s \in Status
    BY <2>1 DEF Reported, Status
  <2>3. check' = [check EXCEPT ![c] = p]
    BY <1>8 DEF ReadStatus
  <2> HIDE DEF s
  <2>4. p \in Progress /\ p.pc # "record"
    <3>1. [check[c].read EXCEPT ![w] = s] \in [Link -> Status]
      BY <2>1, <2>2 DEF Progress
    <3>2. p.pc = next /\ p.wan = check[c].wan /\ p.seen = check[c].seen
          /\ p.via = check[c].via /\ p.read = [check[c].read EXCEPT ![w] = s]
      BY <2>1 DEF Progress
    <3> QED
      BY <2>1, <3>1, <3>2 DEF Progress
  <2> HIDE DEF p
  <2>5. check' \in [Check -> Progress] /\ Measures'
    BY <2>3, <2>4, ChecksKept
  <2> QED
    BY <1>0, <1>8, <2>5 DEF ReadStatus, TInv, TypeOK, outside
<1>9. ASSUME NEW c \in Check, Publish(c) PROVE TInv'
  <2>1. metrics' \in [Link -> Status]
    BY <1>0, <1>9 DEF Publish, TypeOK, Progress
  <2>2. check' = [check EXCEPT ![c] = Idle]
    BY <1>9 DEF Publish
  <2>3. check' \in [Check -> Progress] /\ Measures'
    BY <2>2, IdleType, ChecksKept
  <2> QED
    BY <1>0, <1>9, <2>1, <2>3 DEF Publish, TInv, TypeOK, outside
<1>10. CASE UNCHANGED vars
  BY <1>0, <1>10 DEF vars, outside, TInv, TypeOK, Measures
<1> QED
  BY <1>1, <1>2, <1>3, <1>4, <1>5, <1>6, <1>7, <1>8, <1>9, <1>10
  DEF Next, CheckContinues, ReadFirst, ReadSecond, Link

(* Type correctness, for any number of overlapping checks                  *)
THEOREM TypeCorrect == Spec => []TypeOK
<1>1. TInv => TypeOK
  BY DEF TInv
<1> QED
  BY <1>1, InitTInv, NextTInv, PTL DEF Spec

-----------------------------------------------------------------------------
(* When there is no failover                                               *)

(* The one thing that makes the code switch: eth1 answers a ping late, and *)
(* ping prints the time in a form the pattern can read.                    *)
SlowHeard == decimals /\ link["eth1"] = "slow"

(* No check is on its way to switchWAN.                                    *)
NoSwitch ==
  \A c \in Check :
    /\ check[c].pc \notin {"gateway", "route"}
    /\ check[c].pc = "record" /\ check[c].wan = "eth1" => check[c].seen # "slow"

(* Only the kernel, DHCP and administrators change the default route.      *)
RouteLeftAlone ==
  [][route' # route => \E w \in Link : LinkChange(w) \/ RouteSet(w)]_vars

LEMMA FollowingOn ==
  ASSUME TypeOK, NEW c \in Check
  PROVE  Following(c).pc \in {"probe", "read1"}
BY DEF Following, Idle, TypeOK, Progress

LEMMA NoSwitchNext ==
  TypeOK /\ NoSwitch /\ ~ SlowHeard /\ [Next]_vars => NoSwitch'
<1> SUFFICES ASSUME TypeOK, NoSwitch, ~ SlowHeard, [Next]_vars, NEW d \in Check
             PROVE  /\ check'[d].pc \notin {"gateway", "route"}
                    /\ check'[d].pc = "record" /\ check'[d].wan = "eth1"
                         => check'[d].seen # "slow"
  BY DEF NoSwitch
<1> DEFINE Quiet == /\ check'[d].pc \notin {"gateway", "route"}
                    /\ check'[d].pc = "record" /\ check'[d].wan = "eth1"
                         => check'[d].seen # "slow"
<1>1. CASE check'[d] = check[d]
  BY <1>1 DEF NoSwitch
<1>2. ASSUME check'[d].pc \in {"idle", "probe", "read1", "read2", "publish"}
      PROVE  Quiet
  BY <1>2
<1>3. CASE CheckStart(d)
  BY <1>2, <1>3 DEF CheckStart, TypeOK, Progress
<1>4. CASE Probe(d)
  <2> DEFINE m == Measured(link[check[d].wan])
  <2>1. check[d].wan = "eth1" => m # "slow"
    <3>1. link["eth1"] \in Quality
      BY DEF TypeOK, Link
    <3> QED
      BY <3>1 DEF SlowHeard, Measured, Quality
  <2>2. check'[d] = IF m = "" THEN Following(d)
                    ELSE [check[d] EXCEPT !.pc = "record", !.seen = m]
    BY <1>4 DEF Probe, TypeOK
  <2> HIDE DEF m
  <2>3. CASE m = ""
    BY <1>2, <2>2, <2>3, FollowingOn
  <2>4. CASE m # ""
    <3>1. /\ check'[d].pc = "record" /\ check'[d].seen = m
          /\ check'[d].wan = check[d].wan
      BY <2>2, <2>4 DEF TypeOK, Progress
    <3> QED
      BY <2>1, <3>1
  <2> QED
    BY <2>3, <2>4
<1>5. CASE Record(d)
  <2>1. ~ (check[d].seen = "slow" /\ check[d].wan = "eth1")
    BY <1>5 DEF Record, At, NoSwitch
  <2>2. check'[d] = Following(d)
    BY <1>5, <2>1 DEF Record, TypeOK
  <2> QED
    BY <1>2, <2>2, FollowingOn
<1>6. ~ FindGateway(d) /\ ~ ReplaceRoute(d)
  BY DEF FindGateway, ReplaceRoute, At, NoSwitch
<1>7. ASSUME NEW pc, NEW w \in Link, NEW next \in {"read2", "publish"},
             ReadStatus(d, pc, w, next)
      PROVE  Quiet
  <2> DEFINE s == Reported(wan[w])
  <2>1. check' = [check EXCEPT ![d] = [@ EXCEPT !.pc = next, !.read[w] = s]]
    BY <1>7 DEF ReadStatus
  <2> HIDE DEF s
  <2>2. check'[d].pc = next
    BY <2>1 DEF TypeOK, Progress
  <2> QED
    BY <1>2, <2>2
<1>8. CASE Publish(d)
  <2>1. check'[d].pc = "idle"
    BY <1>8 DEF Publish, Idle, TypeOK
  <2> QED
    BY <1>2, <2>1
<1>9. ASSUME NEW c \in Check, c # d, CheckStart(c) \/ CheckContinues(c)
      PROVE  check'[d] = check[d]
  BY <1>9 DEF CheckStart, CheckContinues, Probe, Record, FindGateway,
     ReplaceRoute, ReadFirst, ReadSecond, ReadStatus, Publish, TypeOK
<1>10. CASE check' = check
  BY <1>1, <1>10
<1> QED
  BY <1>1, <1>3, <1>4, <1>5, <1>6, <1>7, <1>8, <1>9, <1>10
  DEF Next, CheckContinues, ReadFirst, ReadSecond, Link, LinkChange, RouteSet, vars

(* Without a slow answer on eth1 in a form the pattern reads, the code     *)
(* never touches the default route, for any number of checks and whatever  *)
(* becomes of both links: a primary link that is unplugged or goes mute    *)
(* stays, and with iputils, which prints no decimals from 100 ms on,       *)
(* nothing is ever switched.                                               *)
THEOREM NoFailover == Spec /\ [](~ SlowHeard) => RouteLeftAlone
<1>1. Init => NoSwitch
  BY IdleType DEF Init, NoSwitch
<1>2. TypeOK /\ NoSwitch /\ [Next]_vars
        => [route' # route => \E w \in Link : LinkChange(w) \/ RouteSet(w)]_vars
  BY DEF Next, NoSwitch, CheckStart, CheckContinues, Probe, Record, FindGateway,
     ReplaceRoute, ReadFirst, ReadSecond, ReadStatus, Publish, At
<1> QED
  BY <1>1, <1>2, NoSwitchNext, TypeCorrect, PTL DEF Spec, RouteLeftAlone

=============================================================================
