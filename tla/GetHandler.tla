------------------------------ MODULE GetHandler ------------------------------
(***************************************************************************)
(* HandleGet of src/gateway/handler/get.go composed with the Processor:   *)
(* each request builds its own scope (BuildScopeSingle gives a hard error, *)
(* client errors or a scope), and a scope runs the "get" chain through     *)
(* scope.Get(), whose error selects the DB error response.  A request is   *)
(* named by the scope it builds.                                           *)
(***************************************************************************)
EXTENDS Processor

VARIABLES
    build,  \* BuildScopeSingle's outcome: "none", "hard", "client", "ok"
    resp    \* the response: "none", "internal", "clientErrors", "dbError",
            \* "data"

hvars == <<build, resp>>
allVars == <<vars, hvars>>

\* The verb HandleGet runs.
GetVerb == "get"

ASSUME GetAssumption == GetVerb \in Verbs

HTypeOK ==
    /\ build \in [Scopes -> {"none", "hard", "client", "ok"}]
    /\ resp \in [Scopes -> {"none", "internal", "clientErrors", "dbError",
                            "data"}]

HInit ==
    /\ Init
    /\ build = [s \in Scopes |-> "none"]
    /\ resp = [s \in Scopes |-> "none"]

\* The handler up to s.Get(): a hard error answers with an internal error,
\* client errors are marshaled, and a scope gets the controller in its
\* context and starts the get chain.  Requests are served once the
\* processor is built.
HandleGet(s) ==
    /\ phase = "built"
    /\ build[s] = "none"
    /\ \E b \in {"hard", "client", "ok"} :
         /\ build' = [build EXCEPT ![s] = b]
         /\ IF b = "ok"
            THEN /\ Invoke(s, GetVerb)
                 /\ UNCHANGED resp
            ELSE /\ resp' = [resp EXCEPT ![s] =
                               IF b = "hard" THEN "internal"
                               ELSE "clientErrors"]
                 /\ UNCHANGED vars

\* Mutation: the error of s.Get() is not looked at.
RespondIgnoringErr(s) ==
    /\ build[s] = "ok" /\ status[s] = "done" /\ resp[s] = "none"
    /\ resp' = [resp EXCEPT ![s] = "data"]
    /\ UNCHANGED <<vars, build>>

\* s.Get() has returned: its error goes to handleDBError, otherwise the
\* scope is marshaled.
Respond(s) ==
    /\ build[s] = "ok" /\ status[s] = "done" /\ resp[s] = "none"
    /\ resp' = [resp EXCEPT ![s] =
                  IF result[s] = NoError THEN "data" ELSE "dbError"]
    /\ UNCHANGED <<vars, build>>

\* The processor runs the chain; nothing else invokes it.
ProcessorStep ==
    /\ \/ \E p \in Names : RegisterProcess(p)
       \/ NewProcessor
       \/ \E s \in Scopes : Step(s) \/ Finish(s)
       \/ Halted
    /\ UNCHANGED hvars

\* Every request has been answered.
Served ==
    /\ \A s \in Scopes : resp[s] # "none"
    /\ UNCHANGED allVars

HNext ==
    \/ \E s \in Scopes : HandleGet(s) \/ Respond(s)
    \/ ProcessorStep
    \/ Served

HSpec == HInit /\ [][HNext]_allVars

-----------------------------------------------------------------------------
(* Properties.                                                             *)

\* The response of HandleGet says what happened to the request: data only
\* when a scope was built and its get chain ended without error, a DB error
\* only when the chain's last failing step says so, and no chain ever runs
\* for a request answered with a client or internal error (spec.md 4.6.5,
\* 6: exactly one of hard error, client errors or scope).
ResponseMatchesOutcome ==
    \A s \in Scopes :
        /\ resp[s] = "data" => build[s] = "ok" /\ status[s] = "done"
                               /\ result[s] = NoError
        /\ resp[s] = "dbError" => build[s] = "ok" /\ status[s] = "done"
                                  /\ result[s] # NoError
        /\ resp[s] \in {"internal", "clientErrors"} => status[s] = "idle"

\* A request answered with data ran every step of the get chain, none of
\* which failed.
DataOnlyAfterCleanChain ==
    \A s \in Scopes :
        resp[s] = "data" =>
            /\ Len(outcomes[s]) = Len(chains[GetVerb])
            /\ \A i \in DOMAIN outcomes[s] : outcomes[s][i] = NoError

-----------------------------------------------------------------------------
(* Refinement of GetSpec: a request's chain has returned when its scope   *)
(* was built and the processor finished the get chain on it.             *)

Ran == [s \in Scopes |->
          IF build[s] = "ok" /\ status[s] = "done"
          THEN IF result[s] = NoError THEN "clean" ELSE "failed"
          ELSE "no"]

Get == INSTANCE GetSpec WITH Requests <- Scopes, answer <- resp, ran <- Ran

\* HandleGet answers every request once, with an answer that never changes
\* afterwards; it runs the get chain at most once per request and only for
\* a request it has not rejected, and answers with data only after that
\* chain returned nil (spec.md 4.6.5).
ImplementsGet == Get!Spec

=============================================================================
