---------------------------- MODULE MCProcessor ----------------------------
(* A small instance of Processor: the create chain of the default         *)
(* configuration cut to a transaction around one write, and a get chain.  *)
EXTENDS Processor

CONSTANTS pBegin, pCreate, pCommit, pGet, sA, sB

\* CreateProcesses: begin, create (guarded), commit-or-rollback;
\* GetProcesses: get (guarded).
MCConfig == [v \in {"create", "get"} |->
               IF v = "create" THEN <<pBegin, pCreate, pCommit>> ELSE <<pGet>>]

MCVerbs == {"create", "get"}

MCScopes == {sA, sB}

=============================================================================
