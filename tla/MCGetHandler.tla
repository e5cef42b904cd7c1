---------------------------- MODULE MCGetHandler ----------------------------
(* HandleGet over a processor whose get chain is the default one cut to   *)
(* two guarded steps, serving two requests.                               *)
EXTENDS GetHandler

CONSTANTS pBegin, pCommit, pGet, pInclude, rA, rB

MCConfig == [v \in {"get"} |-> <<pGet, pInclude>>]

MCVerbs == {"get"}

MCScopes == {rA, rB}

=============================================================================
