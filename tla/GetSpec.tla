------------------------------- MODULE GetSpec -------------------------------
(***************************************************************************)
(* What HandleGet of src/gateway/handler/get.go promises each request,    *)
(* without the scope builder, the processor's loop or its store: a        *)
(* request is answered once and the answer never changes.  Either it is   *)
(* rejected before any chain runs (an internal error when no scope could  *)
(* be built, or the client errors), or its get chain runs once and the    *)
(* answer is the data when the chain returned nil and a DB error         *)
(* otherwise.  GetHandler refines it (GetHandler!ImplementsGet).          *)
(***************************************************************************)

CONSTANTS
    Requests    \* the requests, each with the scope it builds

VARIABLES
    answer,     \* per request: "none", "internal", "clientErrors",
                \* "dbError", "data"
    ran         \* per request: its get chain has not returned ("no"), or
                \* returned nil ("clean") or an error ("failed")

vars == <<answer, ran>>

Init ==
    /\ answer = [r \in Requests |-> "none"]
    /\ ran = [r \in Requests |-> "no"]

\* BuildScopeSingle fails: the request is answered with an internal error
\* or with the client errors, and no chain runs for it.
Reject(r) ==
    /\ answer[r] = "none"
    /\ ran[r] = "no"
    /\ \E a \in {"internal", "clientErrors"} : answer' = [answer EXCEPT ![r] = a]
    /\ UNCHANGED ran

\* s.Get() returns, once per request.
Run(r) ==
    /\ answer[r] = "none"
    /\ ran[r] = "no"
    /\ \E o \in {"clean", "failed"} : ran' = [ran EXCEPT ![r] = o]
    /\ UNCHANGED answer

\* The answer after the chain: the data, or handleDBError's.
Answer(r) ==
    /\ answer[r] = "none"
    /\ ran[r] # "no"
    /\ answer' = [answer EXCEPT ![r] = IF ran[r] = "clean" THEN "data" ELSE "dbError"]
    /\ UNCHANGED ran

Next == \E r \in Requests : Reject(r) \/ Run(r) \/ Answer(r)

Spec == Init /\ [][Next]_vars

=============================================================================
