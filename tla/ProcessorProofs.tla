--------------------------- MODULE ProcessorProofs ---------------------------
(***************************************************************************)
(* Proofs about the processor chains of Processor: the type invariant, and *)
(* that a finished chain ran all its steps and returned the last error     *)
(* (ChainContract), for every configuration and every set of scopes.       *)
(* The argument: IInv adds to them that a chain runs only on the built     *)
(* processor, whose chains are the configured ones, and that inside the   *)
(* loop steps 1 .. pc-1 have run with processError their last error.       *)
(***************************************************************************)
EXTENDS Processor, SequenceTheorems, TLAPS

USE ConfigAssumption

(***************************************************************************)
(* One more step result: it is the last failure if it is an error, and     *)
(* the last failure stays the same if it is nil.                           *)
(***************************************************************************)
LEMMA LastFailureAppend ==
    ASSUME NEW S, NEW o \in Seq(S), NEW e \in S, NEW r,
           IsLastFailure(o, r)
    PROVE  IsLastFailure(Append(o, e), IF e = NoError THEN r ELSE e)
<1> DEFINE n == Len(o)
           o2 == Append(o, e)
<1>1. /\ n \in Nat
      /\ DOMAIN o = 1 .. n
      /\ DOMAIN o2 = 1 .. n + 1
      /\ o2[n + 1] = e
      /\ \A i \in 1 .. n : o2[i] = o[i]
  BY AppendProperties, LenProperties
<1>2. CASE e # NoError
  <2>0. /\ n + 1 \in DOMAIN o2
        /\ o2[n + 1] # NoError
        /\ e = o2[n + 1]
        /\ \A j \in DOMAIN o2 : j > n + 1 => o2[j] = NoError
    BY <1>1, <1>2
  <2>1. \E i \in DOMAIN o2 : /\ o2[i] # NoError
                             /\ e = o2[i]
                             /\ \A j \in DOMAIN o2 : j > i => o2[j] = NoError
    BY <2>0, Zenon
  <2>2. ~ \A i \in DOMAIN o2 : o2[i] = NoError
    BY <2>0
  <2>3. QED
    BY <1>2, <2>1, <2>2 DEF IsLastFailure
<1>3. CASE e = NoError
  <2>1. CASE \A i \in DOMAIN o : o[i] = NoError
    BY <1>1, <1>3, <2>1 DEF IsLastFailure
  <2>2. CASE ~ \A i \in DOMAIN o : o[i] = NoError
    <3>1. PICK i \in DOMAIN o : /\ o[i] # NoError
                                /\ r = o[i]
                                /\ \A j \in DOMAIN o : j > i => o[j] = NoError
      BY <2>2 DEF IsLastFailure
    <3>2. /\ i \in DOMAIN o2
          /\ o2[i] # NoError
          /\ r = o2[i]
      BY <1>1, <3>1
    <3>4. ASSUME NEW j \in DOMAIN o2, j > i PROVE o2[j] = NoError
      <4>1. CASE j = n + 1
        BY <1>1, <1>3, <4>1
      <4>2. CASE j # n + 1
        BY <1>1, <3>1, <3>4, <4>2
      <4>3. QED
        BY <4>1, <4>2
    <3>3. QED
      BY <1>3, <3>2, <3>4 DEF IsLastFailure
  <2>3. QED
    BY <2>1, <2>2
<1>4. QED
  BY <1>2, <1>3

(***************************************************************************)
(* The empty history has no failure.                                       *)
(***************************************************************************)
LEMMA LastFailureEmpty == IsLastFailure(<<>>, NoError)
BY DEF IsLastFailure

-----------------------------------------------------------------------------

LEMMA InitIInv == Init => IInv
<1> SUFFICES ASSUME Init PROVE IInv
  OBVIOUS
<1>1. TypeOK
  BY DEF Init, TypeOK, ErrorOrNil
<1>2. ChainsResolved /\ StartedAfterBuild /\ RunningChain /\ ChainContract
      /\ StoreRecordsFailures
  BY DEF Init, ChainsResolved, StartedAfterBuild, RunningChain, ChainContract,
         StoreRecordsFailures
<1>3. QED
  BY <1>1, <1>2 DEF IInv

(***************************************************************************)
(* The steps of the registry leave every scope idle or untouched.          *)
(***************************************************************************)
LEMMA RegistryStepIInv ==
    ASSUME IInv, NEW p \in Names, RegisterProcess(p) \/ NewProcessor
    PROVE  IInv'
<1> USE DEF IInv
<1>1. \A s \in Scopes : status[s] = "idle"
  BY DEF StartedAfterBuild, RegisterProcess, NewProcessor
<1>2. CASE RegisterProcess(p)
  BY <1>1, <1>2 DEF RegisterProcess, TypeOK, ChainsResolved, StartedAfterBuild,
                    RunningChain, ChainContract, StoreRecordsFailures
<1>3. CASE NewProcessor
  BY <1>1, <1>3 DEF NewProcessor, TypeOK, ChainsResolved, StartedAfterBuild,
                    RunningChain, ChainContract, StoreRecordsFailures
<1>4. QED
  BY <1>2, <1>3

LEMMA InvokeIInv ==
    ASSUME IInv, NEW s \in Scopes, NEW v \in Verbs, Invoke(s, v)
    PROVE  IInv'
<1> USE DEF IInv
<1>1. TypeOK'
  BY DEF Invoke, TypeOK, ErrorOrNil
<1>2. ChainsResolved' /\ StartedAfterBuild'
  BY DEF Invoke, ChainsResolved, StartedAfterBuild
<1>3. RunningChain'
  <2>1. Len(chains[v]) \in Nat
    BY DEF TypeOK
  <2>2. IsLastFailure(<<>>, NoError)
    BY LastFailureEmpty
  <2>3. QED
    BY <2>1, <2>2 DEF Invoke, TypeOK, RunningChain
<1>4. ChainContract'
  BY DEF Invoke, TypeOK, ChainContract
<1>5. StoreRecordsFailures'
  BY DEF Invoke, TypeOK, StoreRecordsFailures
<1>6. QED
  BY <1>1, <1>2, <1>3, <1>4, <1>5

LEMMA StepIInv ==
    ASSUME IInv, NEW s \in Scopes, Step(s)
    PROVE  IInv'
<1> USE DEF IInv
<1> DEFINE ch == chains[verb[s]]
           f == ch[pc[s]]
<1>1. /\ phase = "built"
      /\ chains = Config
      /\ ch \in Seq(Names)
      /\ pc[s] \in 1 .. Len(ch)
      /\ f \in Names
      /\ Len(outcomes[s]) = pc[s] - 1
      /\ IsLastFailure(outcomes[s], procErr[s])
      /\ outcomes[s] \in Seq(ErrorOrNil)
  BY DEF Step, TypeOK, ChainsResolved, StartedAfterBuild, RunningChain
<1>2. pc[s] \in Errors
  BY <1>1 DEF Errors, TypeOK
<1>3. PICK err \in Outcome(s, f) :
        /\ RecordResult(s, f, err)
        /\ tx' = [tx EXCEPT ![s] = TxAfter(s, f, err)]
        /\ Advance(s, err)
        /\ outcomes' = [outcomes EXCEPT ![s] = Append(SubSeq(@, 1, pc[s] - 1), err)]
  BY DEF Step
<1>4. err \in ErrorOrNil
  BY <1>2, <1>3 DEF Outcome, ErrorOrNil
<1>5. SubSeq(outcomes[s], 1, pc[s] - 1) = outcomes[s]
  BY <1>1, SubSeqFull
<1>6. outcomes'[s] = Append(outcomes[s], err)
  BY <1>3, <1>5 DEF TypeOK
<1>7. /\ Append(outcomes[s], err) \in Seq(ErrorOrNil)
      /\ Len(Append(outcomes[s], err)) = pc[s]
  BY <1>1, <1>4, AppendProperties
<1>8. IsLastFailure(outcomes'[s], procErr'[s])
  <2>1. procErr'[s] = IF err = NoError THEN procErr[s] ELSE err
    BY <1>3 DEF RecordResult, TypeOK
  <2>2. QED
    BY <1>1, <1>4, <1>6, <2>1, LastFailureAppend
<1>9. TxAfter(s, f, err) \in {"none", "begun", "committed", "rolledback"}
  BY DEF TxAfter, TypeOK
<1>10. TypeOK'
  <2>1. /\ procErr' \in [Scopes -> ErrorOrNil]
        /\ storeErr' \in [Scopes -> ErrorOrNil]
        /\ storePrev' \in [Scopes -> Names \cup {NoProc}]
    BY <1>1, <1>3, <1>4 DEF RecordResult, TypeOK
  <2>2. /\ tx' \in [Scopes -> {"none", "begun", "committed", "rolledback"}]
        /\ pc' \in [Scopes -> Nat]
    BY <1>3, <1>9 DEF Advance, TypeOK
  <2>3. outcomes' \in [Scopes -> Seq(ErrorOrNil)]
    BY <1>3, <1>6, <1>7 DEF TypeOK
  <2>4. QED
    BY <2>1, <2>2, <2>3 DEF Step, TypeOK
<1>11. ChainsResolved' /\ StartedAfterBuild'
  BY DEF Step, ChainsResolved, StartedAfterBuild
<1>12. RunningChain'
  BY <1>1, <1>3, <1>6, <1>7, <1>8 DEF Step, Advance, RecordResult, RunningChain, TypeOK
<1>13. ChainContract'
  BY <1>3 DEF Step, RecordResult, ChainContract, TypeOK
<1>14. StoreRecordsFailures'
  <2>1. SUFFICES ASSUME storeErr'[s] = NoError
                 PROVE  \A i \in DOMAIN outcomes'[s] : outcomes'[s][i] = NoError
    BY <1>3 DEF Step, RecordResult, StoreRecordsFailures, TypeOK
  <2>2. err = NoError /\ storeErr[s] = NoError
    BY <1>3, <2>1 DEF RecordResult, TypeOK
  <2>3. \A i \in DOMAIN outcomes[s] : outcomes[s][i] = NoError
    BY <2>2 DEF StoreRecordsFailures
  <2>4. QED
    BY <1>1, <1>6, <2>2, <2>3, AppendProperties
<1>15. QED
  BY <1>10, <1>11, <1>12, <1>13, <1>14

LEMMA FinishIInv ==
    ASSUME IInv, NEW s \in Scopes, Finish(s)
    PROVE  IInv'
<1> USE DEF IInv
<1>1. /\ pc[s] = Len(chains[verb[s]]) + 1
      /\ Len(outcomes[s]) = Len(chains[verb[s]])
      /\ IsLastFailure(outcomes[s], procErr[s])
  BY DEF Finish, RunningChain, TypeOK
<1>2. TypeOK'
  BY DEF Finish, TypeOK
<1>3. ChainsResolved' /\ StartedAfterBuild' /\ RunningChain'
  BY DEF Finish, ChainsResolved, StartedAfterBuild, RunningChain
<1>4. ChainContract'
  BY <1>1 DEF Finish, ChainContract, TypeOK
<1>5. StoreRecordsFailures'
  BY DEF Finish, StoreRecordsFailures
<1>6. QED
  BY <1>2, <1>3, <1>4, <1>5

LEMMA NextIInv == IInv /\ [Next]_vars => IInv'
<1> SUFFICES ASSUME IInv, [Next]_vars PROVE IInv'
  OBVIOUS
<1>1. CASE \E p \in Names : RegisterProcess(p)
  BY <1>1, RegistryStepIInv
<1>2. CASE NewProcessor
  <2>1. PICK p \in Names : TRUE
    BY DEF ConfigAssumption
  <2>2. QED
    BY <1>2, <2>1, RegistryStepIInv
<1>3. CASE \E s \in Scopes, v \in Verbs : Invoke(s, v)
  BY <1>3, InvokeIInv
<1>4. CASE \E s \in Scopes : Step(s) \/ Finish(s)
  BY <1>4, StepIInv, FinishIInv
<1>5. CASE Halted \/ UNCHANGED vars
  BY <1>5 DEF Halted, vars, IInv, TypeOK, ChainsResolved, StartedAfterBuild,
              RunningChain, ChainContract, StoreRecordsFailures
<1>6. QED
  BY <1>1, <1>2, <1>3, <1>4, <1>5 DEF Next

(***************************************************************************)
(* IInv holds in every reachable state.                                    *)
(***************************************************************************)
THEOREM IInvariant == Spec => []IInv
BY InitIInv, NextIInv, PTL DEF Spec

(***************************************************************************)
(* Type correctness of the registry, the chains and every scope's loop     *)
(* state, store and transaction.                                           *)
(***************************************************************************)
THEOREM TypeCorrect == Spec => []TypeOK
BY IInvariant, PTL DEF IInv

(***************************************************************************)
(* Processor.Create ... Delete run every step of the chain, even after a   *)
(* failure, and return the last error: for every configuration.           *)
(***************************************************************************)
THEOREM ChainContractHolds == Spec => []ChainContract
BY IInvariant, PTL DEF IInv

(***************************************************************************)
(* No chain runs on a processor whose configuration names an unregistered *)
(* process: newProcessor fails fast.                                       *)
(***************************************************************************)
THEOREM FailFastHolds == Spec => []FailFast
<1>1. IInv => FailFast
  BY DEF IInv, FailFast, ChainsResolved, StartedAfterBuild
<1>2. QED
  BY <1>1, IInvariant, PTL

-----------------------------------------------------------------------------
(***************************************************************************)
(* Only a step of ProcessTransactionCommitOrRollback that finds no stored  *)
(* ProcessError commits; by StoreRecordsFailures, every earlier step of    *)
(* the chain returned nil.                                                 *)
(***************************************************************************)
LEMMA StepCommitClean ==
    ASSUME IInv, NEW s0 \in Scopes, Step(s0)
    PROVE  CommitClean
<1> USE DEF IInv
<1> DEFINE f == chains[verb[s0]][pc[s0]]
<1>1. PICK err \in Outcome(s0, f) :
        /\ RecordResult(s0, f, err)
        /\ tx' = [tx EXCEPT ![s0] = TxAfter(s0, f, err)]
  BY DEF Step
<1>2. SUFFICES ASSUME NEW s \in Scopes,
                      tx'[s] = "committed", tx[s] # "committed"
               PROVE  \A i \in DOMAIN outcomes[s] : outcomes[s][i] = NoError
  BY DEF CommitClean
<1>3. s = s0
  BY <1>1, <1>2 DEF TypeOK
<1>4. TxAfter(s0, f, err) = "committed"
  BY <1>1, <1>2, <1>3 DEF TypeOK
<1>5. storeErr[s0] = NoError
  BY <1>2, <1>3, <1>4 DEF TxAfter
<1>6. QED
  BY <1>3, <1>5 DEF StoreRecordsFailures

(***************************************************************************)
(* The other steps leave every transaction as it is.                       *)
(***************************************************************************)
LEMMA NextCommitClean == IInv /\ [Next]_vars => [CommitClean]_vars
<1> SUFFICES ASSUME IInv, [Next]_vars PROVE [CommitClean]_vars
  OBVIOUS
<1>1. CASE \E s \in Scopes : Step(s)
  BY <1>1, StepCommitClean
<1>2. CASE ~ \E s \in Scopes : Step(s)
  <2>1. tx' = tx
    BY <1>2 DEF Next, vars, RegisterProcess, NewProcessor, Invoke, Finish,
                Halted
  <2>2. QED
    BY <2>1 DEF CommitClean
<1>3. QED
  BY <1>1, <1>2

(***************************************************************************)
(* ProcessTransactionCommitOrRollback commits only after a chain whose     *)
(* steps so far all succeeded, for every configuration.                    *)
(***************************************************************************)
THEOREM TxCommitOnlyCleanHolds == Spec => TxCommitOnlyClean
BY IInvariant, NextCommitClean, PTL DEF TxCommitOnlyClean, Spec

-----------------------------------------------------------------------------
(* Refinement of ChainSpec under the mapping visibleHistory.               *)

LEMMA InitRefines == Init => Chain!Init
BY DEF Init, Chain!Init, visibleHistory

(***************************************************************************)
(* A scope's Finish is ChainSpec's Return, with the chain's step results   *)
(* and processError as the witnesses.                                      *)
(***************************************************************************)
LEMMA FinishRefines ==
    ASSUME IInv, NEW s \in Scopes, Finish(s)
    PROVE  Chain!Return(s)
<1> USE DEF IInv
<1>1. /\ phase = "built"
      /\ chains = Config
      /\ Len(outcomes[s]) = Len(Config[verb[s]])
      /\ outcomes[s] \in Seq(ErrorOrNil)
      /\ IsLastFailure(outcomes[s], procErr[s])
      /\ procErr[s] \in ErrorOrNil
  BY DEF Finish, TypeOK, ChainsResolved, StartedAfterBuild, RunningChain
<1>2. outcomes[s] \in Chain!Histories(verb[s])
  BY <1>1, LenProperties DEF Chain!Histories, Chain!ErrorOrNil, Chain!Errors,
                              ErrorOrNil, Errors
<1>3. Chain!LastFailureOf(outcomes[s], procErr[s])
  BY <1>1 DEF IsLastFailure, Chain!LastFailureOf
<1>4. procErr[s] \in Chain!ErrorOrNil
  BY <1>1 DEF Chain!ErrorOrNil, Chain!Errors, ErrorOrNil, Errors
<1>5. visibleHistory' = [visibleHistory EXCEPT ![s] = outcomes[s]]
  BY DEF Finish, visibleHistory, TypeOK
<1>6. QED
  BY <1>2, <1>3, <1>4, <1>5 DEF Finish, Chain!Return

(***************************************************************************)
(* Every step of the processor is a step of ChainSpec or leaves its        *)
(* variables unchanged: the registry's steps build or panic, Invoke        *)
(* starts a call, the loop's steps are hidden, and Finish returns.         *)
(***************************************************************************)
LEMMA NextRefines == IInv /\ [Next]_vars => [Chain!Next]_Chain!vars
<1> SUFFICES ASSUME IInv, [Next]_vars PROVE [Chain!Next]_Chain!vars
  OBVIOUS
<1> USE DEF IInv
<1>1. ASSUME NEW p \in Names, RegisterProcess(p)
      PROVE  [Chain!Next]_Chain!vars
  <2>1. CASE phase' = "panicked"
    BY <1>1, <2>1 DEF RegisterProcess, Chain!Next, Chain!Panic, visibleHistory
  <2>2. CASE phase' # "panicked"
    BY <1>1, <2>2 DEF RegisterProcess, Chain!vars, visibleHistory
  <2>3. QED
    BY <2>1, <2>2
<1>2. CASE NewProcessor
  <2>1. CASE phase' = "built"
    BY <1>2, <2>1 DEF NewProcessor, Chain!Next, Chain!Build, visibleHistory
  <2>2. CASE phase' = "panicked"
    BY <1>2, <2>2 DEF NewProcessor, Chain!Next, Chain!Panic, visibleHistory
  <2>3. QED
    BY <1>2, <2>1, <2>2 DEF NewProcessor
<1>3. ASSUME NEW s \in Scopes, NEW v \in Verbs, Invoke(s, v)
      PROVE  Chain!Start(s, v)
  BY <1>3 DEF Invoke, Chain!Start, visibleHistory, TypeOK
<1>4. ASSUME NEW s \in Scopes, Step(s) PROVE UNCHANGED Chain!vars
  <2>1. visibleHistory' = visibleHistory
    BY <1>4 DEF Step, visibleHistory, TypeOK
  <2>2. QED
    BY <1>4, <2>1 DEF Step, Chain!vars
<1>5. CASE Halted \/ UNCHANGED vars
  BY <1>5 DEF Halted, vars, Chain!vars, visibleHistory
<1>6. QED
  BY <1>1, <1>2, <1>3, <1>4, <1>5, FinishRefines DEF Next, Chain!Next

(***************************************************************************)
(* Processor.Create ... Delete, after the registry and newProcessor,       *)
(* implement ChainSpec: every call returns one result per configured step  *)
(* and the last failure among them, for every configuration.              *)
(***************************************************************************)
THEOREM Refinement == Spec => ImplementsChain
BY IInvariant, InitRefines, NextRefines, PTL
   DEF Spec, ImplementsChain, Chain!Spec

=============================================================================
