---------------------------- MODULE WrapperProofs ----------------------------
(***************************************************************************)
(* Proofs about Wrapper for every logger that implements one of the four  *)
(* logging interfaces: no Wrapper method asserts an interface the logger  *)
(* lacks or calls a method it does not have, and every method logs at    *)
(* its own level.  The first comes down to two facts about the switch of *)
(* each Wrapper method: newLoggerWrapper's number names an interface the  *)
(* logger implements (KindIface), and the method each case calls belongs *)
(* to that interface (CalledIface).  The second is a fact about each case *)
(* of the switch and each method (LevelKept).                             *)
(***************************************************************************)
EXTENDS Wrapper, TLAPS

WInv ==
    /\ current \in 1 .. 4
    /\ Iface[current] \subseteq logger
    /\ last = NoCall \/ (last.asserted = current /\ last.method \in Iface[current])

\* The number newLoggerWrapper gives a logger names an interface it has.
LEMMA KindIface ==
    ASSUME NEW l, Kind(l) # 0
    PROVE  Kind(l) \in 1 .. 4 /\ Iface[Kind(l)] \subseteq l
BY DEF Kind, Iface

\* A Wrapper method's case k calls a method of interface k.
LEMMA CalledIface ==
    ASSUME NEW k \in 1 .. 4, NEW m \in Methods
    PROVE  Called(m, k) \in Iface[k]
<1> DEFINE b == m[1]
           v == m[2]
<1>0. m = <<b, v>> /\ b \in {"Print"} \cup Leveled6 /\ v \in Variants
  BY DEF Methods
<1>1. CASE k = 1
  <2>1. Called(m, k) = IF b \in {"Print", "Fatal", "Panic"} THEN m
                       ELSE <<"Print", v>>
    BY <1>0, <1>1 DEF Called
  <2>2. QED
    BY <1>0, <1>1, <2>1 DEF Iface, StdLogger
<1>2. CASE k = 2
  BY <1>0, <1>2 DEF Called, Iface, LeveledLogger, Variants, Leveled6
<1>3. CASE k = 3
  BY <1>0, <1>3 DEF Called, Iface, ShortLeveledLogger, Variants, Leveled6
<1>4. CASE k = 4
  BY <1>0, <1>4 DEF Called, Iface, ExtendedLeveledLogger, LeveledLogger, StdLogger,
              Variants, Leveled6
<1>5. QED
  BY <1>1, <1>2, <1>3, <1>4

LEMMA InitWInv == Init => WInv
BY KindIface DEF Init, WInv

LEMMA NextWInv == WInv /\ [Next]_vars => WInv'
<1> SUFFICES ASSUME WInv, [Next]_vars PROVE WInv'
  OBVIOUS
<1>1. CASE Next
  <2>1. PICK m \in Methods : Call(m)
    BY <1>1 DEF Next
  <2>2. Called(m, current) \in Iface[current]
    BY CalledIface DEF WInv
  <2>3. QED
    BY <2>1, <2>2 DEF Call, WInv
<1>2. CASE UNCHANGED vars
  BY <1>2 DEF vars, WInv
<1>3. QED
  BY <1>1, <1>2

THEOREM WrapperInvariant == Spec => []WInv
BY InitWInv, NextWInv, PTL DEF Spec

(***************************************************************************)
(* No Wrapper method panics on its type assertion or calls a method the   *)
(* wrapped logger lacks, for every logger newLoggerWrapper accepts.       *)
(***************************************************************************)
THEOREM CallsExistHolds == Spec => []CallsExist
<1>1. WInv => CallsExist
  BY DEF WInv, CallsExist
<1>2. QED
  BY <1>1, WrapperInvariant, PTL


\* In case k of its switch, Wrapper method m logs at the level it names.
LEMMA LevelKept ==
    ASSUME NEW k \in 1 .. 4, NEW m \in Methods
    PROVE  LET lvl == IF Prefix(m, k) # "NONE" THEN Prefix(m, k)
                      ELSE LevelOf(Called(m, k)[1])
           IN  IF m[1] = "Print" THEN lvl \in {"NONE", "INFO"}
               ELSE lvl = LevelOf(m[1])
<1> DEFINE b == m[1]
           v == m[2]
<1>0. m = <<b, v>> /\ b \in {"Print"} \cup Leveled6 /\ v \in Variants
  BY DEF Methods
<1>1. CASE k = 1
  BY <1>0, <1>1 DEF Prefix, Called, LevelOf, Leveled6
<1>2. CASE k \in {2, 3}
  BY <1>0, <1>2 DEF Prefix, Called, LevelOf, Leveled6
<1>3. CASE k = 4
  BY <1>0, <1>3 DEF Prefix, Called, LevelOf, Leveled6
<1>4. QED
  BY <1>1, <1>2, <1>3

(***************************************************************************)
(* Every Wrapper method logs at its own level, whichever interface the    *)
(* logger was wrapped as: a StdLogger gets the level as a prefix, the     *)
(* others the method of that level, and Print logs at Info or no level.   *)
(***************************************************************************)
THEOREM KeepsLevelHolds == Spec => []KeepsLevel
<1>1. WInv => KeepsLevel
  BY LevelKept DEF WInv, KeepsLevel
<1>2. QED
  BY <1>1, WrapperInvariant, PTL

=============================================================================
