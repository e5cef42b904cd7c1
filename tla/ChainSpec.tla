------------------------------ MODULE ChainSpec ------------------------------
(***************************************************************************)
(* What the processor of src/query/processor.go promises a caller of      *)
(* Create, Get, List, Patch or Delete, without its registry, its loop or   *)
(* its store: once the processor is built (or construction has panicked),  *)
(* a call on a scope returns in one step, with one result per step of the  *)
(* verb's configured chain, and its error is the last of those results     *)
(* that is not nil.  Processor refines it (Processor!ImplementsChain).     *)
(***************************************************************************)
EXTENDS Naturals, Sequences

CONSTANTS
    Verbs,      \* the verbs with a chain
    Config,     \* [Verbs -> Seq(Names)]: the configured chains
    Scopes,     \* the scopes
    NoError     \* a nil error

VARIABLES
    phase,      \* "init", "built", "panicked"
    status,     \* per scope: "idle", "running", "done"
    verb,       \* per scope: the verb of its current or last call
    result,     \* per scope: what its last finished call returned
    history     \* per scope: the step results of its last finished call

vars == <<phase, status, verb, result, history>>

\* A step's error: its position in the chain.
Errors == UNION {DOMAIN Config[v] : v \in Verbs}

ErrorOrNil == Errors \cup {NoError}

\* The step results a call of verb v can produce: one per configured step.
Histories(v) == [1 .. Len(Config[v]) -> ErrorOrNil]

\* r is the last non-nil result of o, or nil when every result is nil.
LastFailureOf(o, r) ==
    IF \A i \in DOMAIN o : o[i] = NoError
    THEN r = NoError
    ELSE \E i \in DOMAIN o :
            /\ o[i] # NoError
            /\ r = o[i]
            /\ \A j \in DOMAIN o : j > i => o[j] = NoError

Init ==
    /\ phase = "init"
    /\ status = [s \in Scopes |-> "idle"]
    /\ verb = [s \in Scopes |-> CHOOSE v \in Verbs : TRUE]
    /\ result = [s \in Scopes |-> NoError]
    /\ history = [s \in Scopes |-> <<>>]

\* The processor is built from the configuration.
Build ==
    /\ phase = "init"
    /\ phase' = "built"
    /\ UNCHANGED <<status, verb, result, history>>

\* Registration or construction panics.
Panic ==
    /\ phase = "init"
    /\ phase' = "panicked"
    /\ UNCHANGED <<status, verb, result, history>>

\* A call of verb v on scope s begins.
Start(s, v) ==
    /\ phase = "built"
    /\ status[s] # "running"
    /\ status' = [status EXCEPT ![s] = "running"]
    /\ verb' = [verb EXCEPT ![s] = v]
    /\ history' = [history EXCEPT ![s] = <<>>]
    /\ UNCHANGED <<phase, result>>

\* The call returns: every step has a result, and the call's error is the
\* last failure among them.
Return(s) ==
    /\ status[s] = "running"
    /\ \E o \in Histories(verb[s]), r \in ErrorOrNil :
         /\ LastFailureOf(o, r)
         /\ history' = [history EXCEPT ![s] = o]
         /\ result' = [result EXCEPT ![s] = r]
    /\ status' = [status EXCEPT ![s] = "done"]
    /\ UNCHANGED <<phase, verb>>

Next ==
    \/ Build
    \/ Panic
    \/ \E s \in Scopes, v \in Verbs : Start(s, v)
    \/ \E s \in Scopes : Return(s)

Spec == Init /\ [][Next]_vars

=============================================================================
