---------------------------- MODULE ShaperProofs -----------------------------
(***************************************************************************)
(* LimitSurvivesOverlap for any number of overlapping calls and any rates. *)
(*                                                                         *)
(* It is not inductive: that nobody is in the middle says nothing about    *)
(* how the qdisc got to where it is.  What every step preserves is that as *)
(* long as the limit is missing somebody is about to put it back: the last *)
(* deletion is followed by an add that succeeds, by the first caller to    *)
(* get there, and the class under it is added by that caller unless        *)
(* another one is quicker.                                                 *)
(***************************************************************************)
EXTENDS Shaper, TLAPS

SomebodyCompletes ==
  asked /\ ~ broken /\ class = NoRate =>
    \E c \in Login : login[c].pc = (IF root THEN "class" ELSE "add")

IInv == TypeOK /\ SomebodyCompletes

LEMMA InitIInv == Init => IInv
<1> SUFFICES ASSUME Init PROVE IInv
  OBVIOUS
<1>1. login \in [Login -> Call] /\ \A c \in Login : login[c].pc = "idle"
  BY DEF Init, Call, Idle
<1>2. /\ root \in BOOLEAN /\ class = NoRate
      /\ asked \in BOOLEAN /\ ~ asked /\ broken \in BOOLEAN
  BY DEF Init
<1>3. TypeOK
  BY <1>1, <1>2 DEF TypeOK
<1> QED
  BY <1>2, <1>3 DEF IInv, SomebodyCompletes

(* A call that moves on keeps login a function to calls.                   *)
LEMMA Moves ==
  ASSUME TypeOK, NEW c \in Login, NEW v \in Call,
         v.pc # "idle" => v.rate \in Rate,
         login' = [login EXCEPT ![c] = v]
  PROVE  /\ login' \in [Login -> Call]
         /\ \A d \in Login : login'[d].pc # "idle" => login'[d].rate \in Rate
         /\ login'[c] = v
         /\ \A d \in Login \ {c} : login'[d] = login[d]
  BY DEF TypeOK

LEMMA MovesTo ==
  ASSUME TypeOK, NEW c \in Login, NEW pc \in {"add", "class"},
         login[c].pc # "idle", Goto(c, pc)
  PROVE  /\ login' \in [Login -> Call]
         /\ \A d \in Login : login'[d].pc # "idle" => login'[d].rate \in Rate
         /\ login'[c].pc = pc
         /\ \A d \in Login \ {c} : login'[d] = login[d]
<1> DEFINE v == [login[c] EXCEPT !.pc = pc]
<1>1. v \in Call /\ v.rate \in Rate /\ v.pc = pc
  BY DEF TypeOK, Call
<1>2. login' = [login EXCEPT ![c] = v]
  BY DEF Goto
<1> HIDE DEF v
<1> QED
  BY <1>1, <1>2, Moves

LEMMA Leaves ==
  ASSUME TypeOK, NEW c \in Login, Leave(c)
  PROVE  /\ login' \in [Login -> Call]
         /\ \A d \in Login : login'[d].pc # "idle" => login'[d].rate \in Rate
         /\ \A d \in Login \ {c} : login'[d] = login[d]
  BY Moves DEF Leave, Idle, Call

LEMMA NextIInv == IInv /\ [Next]_vars => IInv'
<1> SUFFICES ASSUME IInv, [Next]_vars
             PROVE  IInv'
  OBVIOUS
<1> USE RateAssumption
<1>1. TypeOK /\ SomebodyCompletes
  BY DEF IInv
<1>2. CASE Crash
  <2>1. TypeOK'
    BY <1>1, <1>2 DEF Crash, TypeOK, Call, Idle
  <2>2. SomebodyCompletes'
    BY <1>1, <1>2 DEF Crash, SomebodyCompletes
  <2> QED
    BY <2>1, <2>2 DEF IInv
<1>3. ASSUME NEW c \in Login, Begin(c) PROVE IInv'
  <2>1. PICK r \in Rate : login' = [login EXCEPT ![c] = [pc |-> "del", rate |-> r]]
    BY <1>3 DEF Begin
  <2>2. [pc |-> "del", rate |-> r] \in Call
    BY DEF Call
  <2>3. /\ login' \in [Login -> Call]
        /\ \A d \in Login : login'[d].pc # "idle" => login'[d].rate \in Rate
        /\ \A d \in Login \ {c} : login'[d] = login[d]
    BY <1>1, <2>1, <2>2, Moves
  <2>4. TypeOK'
    BY <1>1, <1>3, <2>3 DEF Begin, TypeOK
  <2>5. SomebodyCompletes'
    BY <1>1, <1>3, <2>3 DEF Begin, At, SomebodyCompletes
  <2> QED
    BY <2>4, <2>5 DEF IInv
<1>4. ASSUME NEW c \in Login, Del(c) PROVE IInv'
  <2>1. /\ login' \in [Login -> Call]
        /\ \A d \in Login : login'[d].pc # "idle" => login'[d].rate \in Rate
        /\ login'[c].pc = "add"
    BY <1>1, <1>4, MovesTo DEF Del, At
  <2>2. TypeOK'
    <3>1. /\ root' \in BOOLEAN /\ class' \in Rate \cup {NoRate}
          /\ class' # NoRate => root'
      <4>1. CASE root' = FALSE /\ class' = NoRate
        BY <4>1
      <4>2. CASE UNCHANGED <<root, class>>
        BY <1>1, <4>2 DEF TypeOK
      <4> QED
        BY <1>4, <4>1, <4>2 DEF Del, Fault
    <3>2. asked' \in BOOLEAN /\ broken' \in BOOLEAN
      BY <1>1, <1>4 DEF Del, Fault, TypeOK
    <3> QED
      BY <2>1, <3>1, <3>2 DEF TypeOK
  <2>3. SomebodyCompletes'
    BY <1>4, <2>1 DEF Del, Fault, SomebodyCompletes
  <2> QED
    BY <2>2, <2>3 DEF IInv
<1>5. ASSUME NEW c \in Login, Add(c) PROVE IInv'
  <2>1. CASE ~ root /\ root' = TRUE /\ Goto(c, "class") /\ UNCHANGED <<class, broken>>
    <3>1. /\ login' \in [Login -> Call]
          /\ \A d \in Login : login'[d].pc # "idle" => login'[d].rate \in Rate
          /\ login'[c].pc = "class"
      BY <1>1, <1>5, <2>1, MovesTo DEF Add, At
    <3>2. TypeOK'
      BY <1>1, <1>5, <2>1, <3>1 DEF Add, TypeOK
    <3>3. SomebodyCompletes'
      BY <2>1, <3>1 DEF SomebodyCompletes
    <3> QED
      BY <3>2, <3>3 DEF IInv
  <2>2. CASE root /\ Leave(c) /\ UNCHANGED <<root, class, broken>>
    <3>1. /\ login' \in [Login -> Call]
          /\ \A d \in Login : login'[d].pc # "idle" => login'[d].rate \in Rate
          /\ \A d \in Login \ {c} : login'[d] = login[d]
      BY <1>1, <2>2, Leaves
    <3>2. TypeOK'
      BY <1>1, <1>5, <2>2, <3>1 DEF Add, TypeOK
    <3>3. SomebodyCompletes'
      BY <1>1, <1>5, <2>2, <3>1 DEF Add, At, SomebodyCompletes
    <3> QED
      BY <3>2, <3>3 DEF IInv
  <2>3. CASE Fault /\ Leave(c)
    <3>1. /\ login' \in [Login -> Call]
          /\ \A d \in Login : login'[d].pc # "idle" => login'[d].rate \in Rate
      BY <1>1, <2>3, Leaves
    <3>2. TypeOK'
      BY <1>1, <1>5, <2>3, <3>1 DEF Add, Fault, TypeOK
    <3> QED
      BY <2>3, <3>2 DEF IInv, Fault, SomebodyCompletes
  <2> QED
    BY <1>5, <2>1, <2>2, <2>3 DEF Add
<1>6. ASSUME NEW c \in Login, AddClass(c) PROVE IInv'
  <2>1. /\ login' \in [Login -> Call]
        /\ \A d \in Login : login'[d].pc # "idle" => login'[d].rate \in Rate
        /\ \A d \in Login \ {c} : login'[d] = login[d]
    BY <1>1, <1>6, Leaves DEF AddClass
  <2>2. login[c].pc = "class" /\ login[c].rate \in Rate
    BY <1>1, <1>6 DEF AddClass, At, TypeOK
  <2>3. TypeOK'
    <3>1. /\ root' \in BOOLEAN /\ class' \in Rate \cup {NoRate}
          /\ class' # NoRate => root'
      BY <1>1, <1>6, <2>2 DEF AddClass, Fault, TypeOK
    <3>2. asked' \in BOOLEAN /\ broken' \in BOOLEAN
      BY <1>1, <1>6 DEF AddClass, Fault, TypeOK
    <3> QED
      BY <2>1, <3>1, <3>2 DEF TypeOK
  <2>4. SomebodyCompletes'
    BY <1>1, <1>6, <2>1, <2>2 DEF AddClass, Fault, SomebodyCompletes
  <2> QED
    BY <2>3, <2>4 DEF IInv
<1>7. CASE UNCHANGED vars
  BY <1>1, <1>7 DEF vars, IInv, TypeOK, SomebodyCompletes
<1> QED
  BY <1>2, <1>3, <1>4, <1>5, <1>6, <1>7 DEF Next

THEOREM Invariance == Spec => []IInv
  BY InitIInv, NextIInv, PTL DEF Spec

(* In every reachable state a class hangs under a root and every call in   *)
(* progress has a rate, for any number of logins and any plans.            *)
THEOREM TypeCorrect == Spec => []TypeOK
<1>1. IInv => TypeOK
  BY DEF IInv
<1> QED
  BY <1>1, Invariance, PTL

(* However many calls of applyShaper overlap, delete each other's qdisc    *)
(* and give up, the interface is limited once they have returned.          *)
THEOREM LimitSafe == Spec => []LimitSurvivesOverlap
<1>1. IInv => LimitSurvivesOverlap
  BY DEF IInv, SomebodyCompletes, LimitSurvivesOverlap
<1> QED
  BY <1>1, Invariance, PTL

=============================================================================
