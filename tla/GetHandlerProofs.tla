--------------------------- MODULE GetHandlerProofs ---------------------------
(***************************************************************************)
(* Proofs about GetHandler for every processor configuration and number  *)
(* of requests: the response of HandleGet matches the build outcome and  *)
(* the get chain's result, and data is only sent after a clean chain.    *)
(*                                                                         *)
(* Every step of the handler is a step of the processor or leaves its     *)
(* variables alone, so the processor's inductive invariant IInv carries   *)
(* over.  HInv adds what the handler keeps: a request whose build failed  *)
(* never started a chain, a built request runs the get verb, and an       *)
(* answer given after s.Get() agrees with the result it read.  The chain  *)
(* cannot run again after the answer, since only HandleGet invokes it and *)
(* only once per request.  ChainContract, part of IInv, then turns a nil  *)
(* result into a chain of clean steps.                                    *)
(***************************************************************************)
EXTENDS GetHandler, ProcessorProofs

USE ConfigAssumption, GetAssumption

HInv ==
    /\ IInv
    /\ HTypeOK
    /\ \A s \in Scopes :
         /\ build[s] # "ok" => status[s] = "idle"
         /\ build[s] = "none" => resp[s] = "none"
         /\ build[s] \in {"hard", "client"}
              => resp[s] \in {"internal", "clientErrors"}
         /\ build[s] = "ok" => /\ verb[s] = GetVerb
                               /\ status[s] # "idle"
                               /\ resp[s] \in {"none", "data", "dbError"}
         /\ resp[s] \in {"data", "dbError"} =>
              /\ status[s] = "done"
              /\ (resp[s] = "data") = (result[s] = NoError)

\* A step of the handler is a step of the processor or a stutter of it.
LEMMA HNextIsNext == HNext => [Next]_vars
<1> SUFFICES ASSUME HNext PROVE [Next]_vars
  OBVIOUS
<1>1. CASE \E s \in Scopes : HandleGet(s)
  <2>1. PICK s \in Scopes : HandleGet(s)
    BY <1>1
  <2>2. PICK b \in {"hard", "client", "ok"} :
          IF b = "ok" THEN Invoke(s, GetVerb) /\ UNCHANGED resp
          ELSE UNCHANGED vars
    BY <2>1 DEF HandleGet
  <2>3. QED
    BY <2>2 DEF Next
<1>2. CASE \E s \in Scopes : Respond(s)
  BY <1>2 DEF Respond
<1>3. CASE ProcessorStep
  BY <1>3 DEF ProcessorStep, Next
<1>4. CASE Served
  BY <1>4 DEF Served, allVars
<1>5. QED
  BY <1>1, <1>2, <1>3, <1>4 DEF HNext

LEMMA HInitHInv == HInit => HInv
<1> SUFFICES ASSUME HInit PROVE HInv
  OBVIOUS
<1>1. IInv
  BY InitIInv DEF HInit
<1>2. QED
  BY <1>1 DEF HInit, Init, HInv, HTypeOK

(***************************************************************************)
(* The handler's part of HInv after a step, given IInv after it.  Step   *)
(* and Finish act on running scopes only, which are built ones; Finish   *)
(* moves one from running to done and sets its result before any answer. *)
(***************************************************************************)
LEMMA HNextHInv == HInv /\ [HNext]_allVars => HInv'
<1> SUFFICES ASSUME HInv, [HNext]_allVars PROVE HInv'
  OBVIOUS
<1> USE DEF HInv, HTypeOK, hvars
<1>1. IInv'
  BY HNextIsNext, NextIInv DEF allVars, vars
<1>2. CASE \E s \in Scopes : HandleGet(s)
  <2>1. PICK s \in Scopes : HandleGet(s)
    BY <1>2
  <2>2. PICK b \in {"hard", "client", "ok"} :
          /\ build' = [build EXCEPT ![s] = b]
          /\ IF b = "ok"
             THEN Invoke(s, GetVerb) /\ UNCHANGED resp
             ELSE /\ resp' = [resp EXCEPT ![s] =
                                IF b = "hard" THEN "internal"
                                ELSE "clientErrors"]
                  /\ UNCHANGED vars
    BY <2>1 DEF HandleGet
  <2>3. CASE b = "ok"
    BY <1>1, <2>1, <2>2, <2>3 DEF HandleGet, Invoke, IInv, TypeOK
  <2>4. CASE b # "ok"
    <3>1. /\ resp' = [resp EXCEPT ![s] = IF b = "hard" THEN "internal"
                                        ELSE "clientErrors"]
          /\ UNCHANGED vars
      BY <2>2, <2>4
    <3>2. /\ status' = status /\ verb' = verb /\ result' = result
          /\ build[s] = "none" /\ status[s] = "idle"
      BY <3>1, <2>1 DEF vars, HandleGet
    <3>3. resp'[s] \in {"internal", "clientErrors"} /\ build'[s] \in {"hard", "client"}
      BY <3>1, <2>2, <2>4
    <3>4. QED
      BY <1>1, <2>2, <3>1, <3>2, <3>3
  <2>5. QED
    BY <2>3, <2>4, <1>1
<1>3. CASE \E s \in Scopes : Respond(s)
  BY <1>1, <1>3 DEF Respond, vars
<1>4. CASE ProcessorStep
  <2>1. CASE \E p \in Names : RegisterProcess(p)
    BY <1>1, <1>4, <2>1 DEF ProcessorStep, RegisterProcess, HTypeOK
  <2>2. CASE NewProcessor
    BY <1>1, <1>4, <2>2 DEF ProcessorStep, NewProcessor, HTypeOK
  <2>3. CASE \E s \in Scopes : Step(s)
    BY <1>1, <1>4, <2>3 DEF ProcessorStep, Step, HTypeOK
  <2>4. CASE \E s \in Scopes : Finish(s)
    BY <1>1, <1>4, <2>4 DEF ProcessorStep, Finish, HTypeOK
  <2>5. CASE Halted
    BY <1>1, <1>4, <2>5 DEF ProcessorStep, Halted, vars, HTypeOK
  <2>6. QED
    BY <1>4, <2>1, <2>2, <2>3, <2>4, <2>5 DEF ProcessorStep
<1>5. CASE Served \/ UNCHANGED allVars
  BY <1>1, <1>5 DEF Served, allVars, vars, hvars, HTypeOK
<1>6. QED
  BY <1>2, <1>3, <1>4, <1>5 DEF HNext

THEOREM HandlerInvariant == HSpec => []HInv
BY HInitHInv, HNextHInv, PTL DEF HSpec

(***************************************************************************)
(* HandleGet answers with data only after a built scope's get chain ended *)
(* with no error, with a DB error only after it ended with one, and never *)
(* runs a chain for a request it answered with a client or internal      *)
(* error, for any number of requests and any get chain.                  *)
(***************************************************************************)
THEOREM ResponseMatchesOutcomeHolds == HSpec => []ResponseMatchesOutcome
<1>1. HInv => ResponseMatchesOutcome
  BY DEF HInv, HTypeOK, ResponseMatchesOutcome
<1>2. QED
  BY <1>1, HandlerInvariant, PTL

(***************************************************************************)
(* A request answered with data ran every step of the get chain, and none *)
(* of them failed: s.Get() returning nil means a clean chain, even though *)
(* the chain goes on past failing steps.                                  *)
(***************************************************************************)
THEOREM DataOnlyAfterCleanChainHolds == HSpec => []DataOnlyAfterCleanChain
<1>1. HInv => DataOnlyAfterCleanChain
  <2> SUFFICES ASSUME HInv, NEW s \in Scopes, resp[s] = "data"
               PROVE  /\ Len(outcomes[s]) = Len(chains[GetVerb])
                      /\ \A i \in DOMAIN outcomes[s] : outcomes[s][i] = NoError
    BY DEF DataOnlyAfterCleanChain
  <2>1. /\ status[s] = "done" /\ result[s] = NoError /\ verb[s] = GetVerb
    BY DEF HInv, HTypeOK
  <2>2. /\ Len(outcomes[s]) = Len(chains[verb[s]])
        /\ IsLastFailure(outcomes[s], result[s])
    BY <2>1 DEF HInv, IInv, ChainContract
  <2>4. \A i \in DOMAIN outcomes[s] : outcomes[s][i] = NoError
    BY <2>1, <2>2 DEF IsLastFailure
  <2>5. QED
    BY <2>1, <2>2, <2>4
<1>2. QED
  BY <1>1, HandlerInvariant, PTL

-----------------------------------------------------------------------------
(* Refinement of GetSpec under the mapping Ran.                            *)

LEMMA InitRefinesGet == HInit => Get!Init
BY DEF HInit, Init, Get!Init, Ran

\* The steps that change none of build, status, result and resp are
\* stutters of GetSpec.
LEMMA HiddenStep ==
    ASSUME UNCHANGED <<build, status, result, resp>>
    PROVE  UNCHANGED <<resp, Ran>>
BY DEF Ran

(***************************************************************************)
(* Finish on a request's scope is GetSpec's Run: the scope was built,     *)
(* since only HandleGet invokes a chain, and it is not answered yet,      *)
(* since an answer comes after the chain.                                 *)
(***************************************************************************)
LEMMA FinishRefinesGet ==
    ASSUME HInv, NEW s \in Scopes, Finish(s), UNCHANGED hvars
    PROVE  Get!Run(s)
<1>1. /\ build[s] = "ok" /\ resp[s] = "none" /\ status[s] = "running"
  BY DEF HInv, HTypeOK, Finish
<1>2. Ran[s] = "no"
  BY <1>1 DEF Ran
<1>3. Ran' = [Ran EXCEPT ![s] = IF result'[s] = NoError THEN "clean" ELSE "failed"]
  BY <1>1 DEF Ran, Finish, hvars, HInv, IInv, TypeOK
<1>4. QED
  BY <1>1, <1>2, <1>3 DEF Get!Run, hvars

(***************************************************************************)
(* Every step of the handler is a step of GetSpec or leaves the answers   *)
(* and Ran unchanged: HandleGet rejects a request or starts its chain     *)
(* (hidden), the processor's steps are hidden but Finish, which returns   *)
(* the chain, and Respond answers.                                         *)
(***************************************************************************)
LEMMA NextRefinesGet == HInv /\ [HNext]_allVars => [Get!Next]_Get!vars
<1> SUFFICES ASSUME HInv, [HNext]_allVars PROVE [Get!Next]_Get!vars
  OBVIOUS
<1>0. HTypeOK /\ IInv /\ TypeOK
  BY DEF HInv, IInv
<1>1. CASE \E s \in Scopes : HandleGet(s)
  <2>1. PICK s \in Scopes : HandleGet(s)
    BY <1>1
  <2>2. build[s] = "none" /\ status[s] = "idle" /\ resp[s] = "none"
    BY <2>1 DEF HandleGet, HInv
  <2>3. PICK b \in {"hard", "client", "ok"} :
          /\ build' = [build EXCEPT ![s] = b]
          /\ IF b = "ok"
             THEN Invoke(s, GetVerb) /\ UNCHANGED resp
             ELSE /\ resp' = [resp EXCEPT ![s] =
                                IF b = "hard" THEN "internal"
                                ELSE "clientErrors"]
                  /\ UNCHANGED vars
    BY <2>1 DEF HandleGet
  <2>4. CASE b = "ok"
    <3>1. UNCHANGED <<resp, Ran>>
      BY <1>0, <2>2, <2>3, <2>4 DEF Ran, Invoke, HTypeOK, TypeOK
    <3>2. QED
      BY <3>1 DEF Get!vars
  <2>5. CASE b # "ok"
    <3>1. Ran' = Ran /\ Ran[s] = "no"
      BY <1>0, <2>2, <2>3, <2>5 DEF Ran, vars, HTypeOK
    <3>2. Get!Reject(s)
      BY <2>2, <2>3, <2>5, <3>1 DEF Get!Reject
    <3>3. QED
      BY <3>2 DEF Get!Next
  <2>6. QED
    BY <2>4, <2>5
<1>2. CASE \E s \in Scopes : Respond(s)
  <2>1. PICK s \in Scopes : Respond(s)
    BY <1>2
  <2>2. /\ Ran' = Ran
        /\ Ran[s] = IF result[s] = NoError THEN "clean" ELSE "failed"
    BY <2>1 DEF Respond, Ran, vars
  <2>3. Get!Answer(s)
    BY <2>1, <2>2 DEF Respond, Get!Answer
  <2>4. QED
    BY <2>3 DEF Get!Next
<1>3. CASE ProcessorStep
  <2>1. UNCHANGED hvars
    BY <1>3 DEF ProcessorStep
  <2>2. CASE \E s \in Scopes : Finish(s)
    BY <2>1, <2>2, FinishRefinesGet DEF Get!Next
  <2>3. CASE \E s \in Scopes : Step(s)
    BY <2>1, <2>3, HiddenStep DEF Step, hvars, Get!vars
  <2>4. CASE \/ \E p \in Names : RegisterProcess(p)
             \/ NewProcessor \/ Halted
    BY <2>1, <2>4, HiddenStep DEF RegisterProcess, NewProcessor, Halted, vars,
                                  hvars, Get!vars
  <2>5. QED
    BY <1>3, <2>2, <2>3, <2>4 DEF ProcessorStep
<1>4. CASE Served \/ UNCHANGED allVars
  BY <1>4, HiddenStep DEF Served, allVars, vars, hvars, Get!vars
<1>5. QED
  BY <1>1, <1>2, <1>3, <1>4 DEF HNext

(***************************************************************************)
(* HandleGet implements GetSpec, for any number of requests and any get   *)
(* chain: every request is answered once and its answer never changes,    *)
(* its chain runs at most once and never after a rejection, and the       *)
(* answer after the chain is the data exactly when the chain returned nil. *)
(***************************************************************************)
THEOREM GetRefinement == HSpec => ImplementsGet
<1>1. HInv /\ [HNext]_allVars => [Get!Next]_Get!vars
  BY NextRefinesGet
<1>2. QED
  BY <1>1, HandlerInvariant, HInitHInv, InitRefinesGet, PTL
     DEF HSpec, ImplementsGet, Get!Spec

=============================================================================
