--------------------------- MODULE ControllerProofs ---------------------------
(***************************************************************************)
(* Proofs about Controller for every set of goroutines and models: the    *)
(* type invariant, MappedAfterRegister, and ConfiguredFromDefault.         *)
(*                                                                         *)
(* ConfiguredFromDefault is not inductive: it speaks of created           *)
(* controllers only, and a goroutine inside setConfig has not created its *)
(* controller yet.  CInv records, for each goroutine, what setConfig has  *)
(* established once the goroutine has passed each of its steps: the       *)
(* shared config's field has its default, and the controller's namer or   *)
(* tag agrees with it.  These facts are stable because every write to    *)
(* DefaultConfig only replaces an unset field.  It adds that a created    *)
(* controller's goroutine has left setConfig, and that a goroutine done   *)
(* with Default() or NewDefault() holds a controller.                     *)
(***************************************************************************)
EXTENDS Controller, TLAPS

USE ControllerAssumption DEF Controllers, Steps, Unset, ctrlVars, regVars

\* Goroutine g has created its controller or is at one of the steps S of
\* newController, all of which come after a given step of setConfig.
Passed(g, S) == g \in created \/ pc[g] \in S

CInv ==
    /\ TypeOK
    /\ \A g \in created : pc[g] \in {"assign", "return", "done"}
    /\ \A g \in Goroutines :
         /\ pc[g] = "return" => defaultCtrl \in Controllers
         /\ pc[g] = "done" => got[g] \in Controllers
    /\ \A g \in Goroutines :
         /\ Passed(g, {"validate", "schema", "createDefault", "createTag",
                       "patchDefault", "patchTag"}) => dcfg.naming = "snake"
         /\ Passed(g, {"schema", "createDefault", "createTag",
                       "patchDefault", "patchTag"}) => namer[g] = "snake"
         /\ Passed(g, {"createDefault", "createTag", "patchDefault",
                       "patchTag"}) => dcfg.schema # Unset
         /\ Passed(g, {"createTag", "patchDefault", "patchTag"})
              => dcfg.create # Unset
         /\ Passed(g, {"patchDefault", "patchTag"})
              => createTag[g] = dcfg.create
         /\ Passed(g, {"patchTag"}) => dcfg.patch # Unset
         /\ g \in created => patchTag[g] = dcfg.patch
    /\ MappedAfterRegister

LEMMA InitCInv == Init => CInv
<1> SUFFICES ASSUME Init PROVE CInv
  OBVIOUS
<1>1. TypeOK
  BY DEF Init, TypeOK
<1>2. \A g \in Goroutines : ~ Passed(g, {"validate", "schema", "createDefault",
                               "createTag", "patchDefault", "patchTag"})
  BY DEF Init, Passed
<1>3. MappedAfterRegister
  BY DEF Init, MappedAfterRegister
<1>4. QED
  BY <1>1, <1>2, <1>3 DEF Init, CInv, Passed

\* The definitions a step of goroutine g is checked against.
LEMMA StepCInv ==
    ASSUME CInv, NEW g \in Goroutines,
           \/ Call(g) \/ DefaultCheck(g) \/ Lower(g) \/ Validate(g)
           \/ SchemaDefault(g) \/ CreateDefault(g) \/ CreateTag(g)
           \/ PatchDefault(g) \/ PatchTag(g) \/ DefaultAssign(g)
           \/ DefaultReturn(g)
    PROVE  CInv'
<1> USE DEF CInv, TypeOK, Passed, Goto, MappedAfterRegister, Controllers
<1>1. CASE Call(g)
  BY <1>1 DEF Call
<1>2. CASE DefaultCheck(g)
  BY <1>2 DEF DefaultCheck
<1>3. CASE Lower(g)
  BY <1>3 DEF Lower, Configs
<1>4. CASE Validate(g)
  BY <1>4 DEF Validate, NamerOf
<1>5. CASE SchemaDefault(g)
  BY <1>5 DEF SchemaDefault, Configs
<1>6. CASE CreateDefault(g)
  BY <1>6 DEF CreateDefault, Configs
<1>7. CASE CreateTag(g)
  BY <1>7 DEF CreateTag, Configs
<1>8. CASE PatchDefault(g)
  BY <1>8 DEF PatchDefault, Configs
<1>9. CASE PatchTag(g)
  BY <1>9 DEF PatchTag, Configs
<1>10. CASE DefaultAssign(g)
  BY <1>10 DEF DefaultAssign
<1>11. CASE DefaultReturn(g)
  BY <1>11 DEF DefaultReturn
<1>12. QED
  BY <1>1, <1>2, <1>3, <1>4, <1>5, <1>6, <1>7, <1>8, <1>9, <1>10, <1>11

(***************************************************************************)
(* RegisterModels on the controller a goroutine holds: a failed call      *)
(* clears lastOk, and a call that returns nil has mapped every model the   *)
(* schemas hold.                                                           *)
(***************************************************************************)
LEMMA RegisterCInv ==
    ASSUME CInv, NEW g \in Goroutines, Register(g)
    PROVE  CInv'
<1> USE DEF CInv
<1> DEFINE c == got[g]
           RegOK == /\ registered' \in [Controllers -> SUBSET Models]
                    /\ mapped' \in [Controllers -> SUBSET Models]
                    /\ lastOk' \in [Controllers -> BOOLEAN]
                    /\ MappedAfterRegister'
<1>1. c \in Controllers
  BY DEF Register
<1>2. PICK ms \in SUBSET Models : RegisterModels(c, ms)
  BY DEF Register
<1>3. ASSUME lastOk' = [lastOk EXCEPT ![c] = FALSE],
             UNCHANGED <<registered, mapped>>
      PROVE  RegOK
  BY <1>1, <1>3 DEF TypeOK, MappedAfterRegister
<1>4. ASSUME registered' = [registered EXCEPT ![c] = @ \cup ms],
             NEW ok \in SUBSET registered'[c],
             mapped' = [mapped EXCEPT ![c] = @ \cup ok],
             lastOk' = [lastOk EXCEPT ![c] = (ok = registered'[c])]
      PROVE  RegOK
  <2>1. registered'[c] = registered[c] \cup ms
    BY <1>1, <1>4 DEF TypeOK
  <2>2. QED
    BY <1>1, <1>4, <2>1 DEF TypeOK, MappedAfterRegister
<1>5. RegOK
  BY <1>2, <1>3, <1>4 DEF RegisterModels
<1>6. calls' \in 0 .. MaxRegister
  BY DEF Register, TypeOK
<1>7. QED
  BY <1>5, <1>6 DEF Register, TypeOK, Passed

LEMMA NextCInv == CInv /\ [Next]_vars => CInv'
<1> SUFFICES ASSUME CInv, [Next]_vars PROVE CInv'
  OBVIOUS
<1>1. CASE Next
  <2>1. PICK g \in Goroutines :
          \/ Call(g) \/ DefaultCheck(g) \/ Lower(g) \/ Validate(g)
          \/ SchemaDefault(g) \/ CreateDefault(g) \/ CreateTag(g)
          \/ PatchDefault(g) \/ PatchTag(g) \/ DefaultAssign(g)
          \/ DefaultReturn(g) \/ Register(g)
    BY <1>1 DEF Next
  <2>2. QED
    BY <2>1, StepCInv, RegisterCInv
<1>2. CASE UNCHANGED vars
  BY <1>2 DEF vars, ctrlVars, regVars, CInv, TypeOK, Passed,
              MappedAfterRegister
<1>3. QED
  BY <1>1, <1>2

THEOREM ControllerInvariant == Spec => []CInv
BY InitCInv, NextCInv, PTL DEF Spec

(***************************************************************************)
(* The default controller, the shared config, every goroutine's step and  *)
(* every controller's state keep their types.                              *)
(***************************************************************************)
THEOREM ControllerTypeCorrect == Spec => []TypeOK
BY ControllerInvariant, PTL DEF CInv

(***************************************************************************)
(* RegisterModels returning nil means every model in the controller's     *)
(* schemas is mapped to a repository, whatever failed calls came before.  *)
(***************************************************************************)
THEOREM MappedAfterRegisterHolds == Spec => []MappedAfterRegister
BY ControllerInvariant, PTL DEF CInv

(***************************************************************************)
(* However the setConfig calls of concurrent Default() and NewDefault()   *)
(* interleave on the shared DefaultConfig, every controller created has a *)
(* namer, validator tags equal to the config's aliases, and a config with *)
(* no default left unset.                                                  *)
(***************************************************************************)
THEOREM ConfiguredFromDefaultHolds == Spec => []ConfiguredFromDefault
<1>1. CInv => ConfiguredFromDefault
  BY DEF CInv, TypeOK, ConfiguredFromDefault, Passed
<1>2. QED
  BY <1>1, ControllerInvariant, PTL

=============================================================================
