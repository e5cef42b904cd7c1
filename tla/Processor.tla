------------------------------ MODULE Processor ------------------------------
(***************************************************************************)
(* The process registry and the processor of src/query/processor.go.       *)
(*                                                                         *)
(* RegisterProcess fills the process-wide map `processes` (init() of the   *)
(* package, and any package that calls it before the controller is        *)
(* built).  newProcessor resolves the configured process names of every    *)
(* verb against that map and panics on an unknown one.  Processor.Create,  *)
(* Get, List, Patch and Delete then run a verb's chain on a scope: every   *)
(* step runs, a failing step's error is stored under ProcessError in the   *)
(* scope's store, every step is stored as the previous process, and the    *)
(* last error is returned.                                                 *)
(*                                                                         *)
(* The process functions themselves are not under src/: a step may fail,  *)
(* a process of Guarded skips its work once a ProcessError is stored, and  *)
(* the two transaction processes begin and commit-or-roll-back the scope's *)
(* transaction as spec.md 4.7 describes them.  A failing step's error is   *)
(* the step's position in its chain.                                       *)
(***************************************************************************)
EXTENDS Naturals, Sequences, FiniteSets

CONSTANTS
    Names,              \* process names
    Verbs,              \* the verbs with a chain: create, get, list, patch, delete
    Config,             \* [Verbs -> Seq(Names)]: the *Processes lists of config.Processor
    TxBegin,            \* the name of ProcessTransactionBegin
    TxCommitOrRollback, \* the name of ProcessTransactionCommitOrRollback
    Guarded,            \* processes that check the stored ProcessError first
    Scopes,             \* the scopes the processor runs on
    NoError,            \* a nil error
    NoProc              \* no previous process stored yet

ASSUME ConfigAssumption ==
    /\ Verbs # {}
    /\ Config \in [Verbs -> Seq(Names)]
    /\ {TxBegin, TxCommitOrRollback} \subseteq Names
    /\ TxBegin # TxCommitOrRollback
    /\ Guarded \subseteq Names
    /\ NoError \notin Nat
    /\ NoProc \notin Names

VARIABLES
    registry,   \* DOMAIN of the map `processes`
    phase,      \* "init" before newProcessor, "built" after it, "panicked"
    chains,     \* [Verbs -> Seq(Names)]: CreateChain, GetChain, ...
    status,     \* per scope: "idle", "running" (inside a chain), "done"
    verb,       \* per scope: the verb of its current or last chain
    pc,         \* per scope: index of the next step of the chain
    procErr,    \* per scope: the local `processError` of the running method
    storeErr,   \* per scope: the store's ProcessError value
    storePrev,  \* per scope: the store's PreviousProcessStoreKey value
    tx,         \* per scope: "none", "begun", "committed", "rolledback"
    result,     \* per scope: the error the last finished chain returned
    outcomes    \* per scope, history: what each step of the current chain returned

vars == <<registry, phase, chains, status, verb, pc, procErr, storeErr,
          storePrev, tx, result, outcomes>>

\* The errors a step can return: its position in the chain.
Errors == UNION {DOMAIN Config[v] : v \in Verbs}

ErrorOrNil == Errors \cup {NoError}

NamesOf(s) == {s[i] : i \in DOMAIN s}

\* r is the last non-nil error of the sequence of step results o, or nil
\* when every step returned nil.
IsLastFailure(o, r) ==
    IF \A i \in DOMAIN o : o[i] = NoError
    THEN r = NoError
    ELSE \E i \in DOMAIN o :
            /\ o[i] # NoError
            /\ r = o[i]
            /\ \A j \in DOMAIN o : j > i => o[j] = NoError

TypeOK ==
    /\ registry \subseteq Names
    /\ phase \in {"init", "built", "panicked"}
    /\ chains \in [Verbs -> Seq(Names)]
    /\ status \in [Scopes -> {"idle", "running", "done"}]
    /\ verb \in [Scopes -> Verbs]
    /\ pc \in [Scopes -> Nat]
    /\ procErr \in [Scopes -> ErrorOrNil]
    /\ storeErr \in [Scopes -> ErrorOrNil]
    /\ storePrev \in [Scopes -> Names \cup {NoProc}]
    /\ tx \in [Scopes -> {"none", "begun", "committed", "rolledback"}]
    /\ result \in [Scopes -> ErrorOrNil]
    /\ outcomes \in [Scopes -> Seq(ErrorOrNil)]

Init ==
    /\ registry = {}
    /\ phase = "init"
    /\ chains = [v \in Verbs |-> <<>>]
    /\ status = [s \in Scopes |-> "idle"]
    /\ verb = [s \in Scopes |-> CHOOSE v \in Verbs : TRUE]
    /\ pc = [s \in Scopes |-> 0]
    /\ procErr = [s \in Scopes |-> NoError]
    /\ storeErr = [s \in Scopes |-> NoError]
    /\ storePrev = [s \in Scopes |-> NoProc]
    /\ tx = [s \in Scopes |-> "none"]
    /\ result = [s \in Scopes |-> NoError]
    /\ outcomes = [s \in Scopes |-> <<>>]

-----------------------------------------------------------------------------
(* Registry and chain assembly.                                            *)

\* RegisterProcess(p): panics when the name is already registered.
RegisterProcess(p) ==
    /\ phase = "init"
    /\ \/ /\ p \in registry
          /\ phase' = "panicked"
          /\ UNCHANGED registry
       \/ /\ p \notin registry
          /\ registry' = registry \cup {p}
          /\ UNCHANGED phase
    /\ UNCHANGED <<chains, status, verb, pc, procErr, storeErr, storePrev,
                   tx, result, outcomes>>

\* Mutation: an unknown name skipped instead of a panic.
NewProcessorSkipUnknown ==
    /\ phase = "init"
    /\ chains' = [v \in Verbs |-> SelectSeq(Config[v], LAMBDA n : n \in registry)]
    /\ phase' = "built"
    /\ UNCHANGED <<registry, status, verb, pc, procErr, storeErr, storePrev,
                   tx, result, outcomes>>

\* newProcessor(cfg): every configured name must be registered.
NewProcessor ==
    /\ phase = "init"
    /\ \/ /\ \A v \in Verbs : NamesOf(Config[v]) \subseteq registry
          /\ chains' = Config
          /\ phase' = "built"
       \/ /\ \E v \in Verbs : ~ (NamesOf(Config[v]) \subseteq registry)
          /\ phase' = "panicked"
          /\ UNCHANGED chains
    /\ UNCHANGED <<registry, status, verb, pc, procErr, storeErr, storePrev,
                   tx, result, outcomes>>

-----------------------------------------------------------------------------
(* The process functions (not under src/; spec.md 4.7).                    *)

\* A process that does nothing and returns nil in the scope's state: Begin
\* with a transaction already open, CommitOrRollback with none open, and a
\* guarded process after a stored ProcessError.
Skips(s, f) ==
    \/ f = TxBegin /\ tx[s] = "begun"
    \/ f = TxCommitOrRollback /\ tx[s] # "begun"
    \/ f \in Guarded /\ storeErr[s] # NoError

\* What process f, run as step pc[s] of scope s, may return.
Outcome(s, f) == IF Skips(s, f) THEN {NoError} ELSE {NoError, pc[s]}

\* The scope's transaction after f returned err: CommitOrRollback reads the
\* stored ProcessError to choose; a failed begin, commit or rollback leaves
\* the transaction as it was.
TxAfter(s, f, err) ==
    IF err # NoError \/ Skips(s, f) THEN tx[s]
    ELSE CASE f = TxBegin -> "begun"
           [] f = TxCommitOrRollback ->
                 IF storeErr[s] = NoError THEN "committed" ELSE "rolledback"
           [] OTHER -> tx[s]

-----------------------------------------------------------------------------
(* Processor.Create / Get / List / Patch / Delete.                         *)

\* A call of the verb's method on scope s: `var processError error`.  The
\* scope's store and transaction are those of its earlier chains.
Invoke(s, v) ==
    /\ phase = "built"
    /\ status[s] # "running"
    /\ status' = [status EXCEPT ![s] = "running"]
    /\ verb' = [verb EXCEPT ![s] = v]
    /\ pc' = [pc EXCEPT ![s] = 1]
    /\ procErr' = [procErr EXCEPT ![s] = NoError]
    /\ outcomes' = [outcomes EXCEPT ![s] = <<>>]
    /\ UNCHANGED <<registry, phase, chains, storeErr, storePrev, tx, result>>

\* Mutations of the loop, each a plausible slip in Processor.Create ... Delete.
\* The error stored under the wrong key: the process instead of its error.
RecordResultSwapped(s, f, err) ==
    /\ procErr' = [procErr EXCEPT ![s] = IF err = NoError THEN @ ELSE err]
    /\ storeErr' = [storeErr EXCEPT ![s] = IF err = NoError THEN @ ELSE f]
    /\ storePrev' = [storePrev EXCEPT ![s] = f]

\* The StoreSet of ProcessError left out.
RecordResultNoStore(s, f, err) ==
    /\ procErr' = [procErr EXCEPT ![s] = IF err = NoError THEN @ ELSE err]
    /\ storeErr' = storeErr
    /\ storePrev' = [storePrev EXCEPT ![s] = f]

\* `processError = err` without the nil check: a later success clears it.
RecordResultOverwrite(s, f, err) ==
    /\ procErr' = [procErr EXCEPT ![s] = err]
    /\ storeErr' = [storeErr EXCEPT ![s] = IF err = NoError THEN @ ELSE err]
    /\ storePrev' = [storePrev EXCEPT ![s] = f]

\* Abort on the first error: `return err` inside the loop.
AdvanceAbort(s, err) ==
    pc' = [pc EXCEPT ![s] = IF err = NoError THEN @ + 1
                            ELSE Len(chains[verb[s]]) + 1]

\* After f returned err: a non-nil err is stored as ProcessError and kept in
\* processError; f is stored as the previous process in any case.
RecordResult(s, f, err) ==
    /\ procErr' = [procErr EXCEPT ![s] = IF err = NoError THEN @ ELSE err]
    /\ storeErr' = [storeErr EXCEPT ![s] = IF err = NoError THEN @ ELSE err]
    /\ storePrev' = [storePrev EXCEPT ![s] = f]

\* `for _, f := range chain`: on to the next step whatever f returned.
Advance(s, err) == pc' = [pc EXCEPT ![s] = @ + 1]

\* One iteration of the loop over the chain.  The history records step
\* pc[s]'s result after those of the steps before it.
Step(s) ==
    /\ status[s] = "running"
    /\ pc[s] <= Len(chains[verb[s]])
    /\ LET f == chains[verb[s]][pc[s]]
       IN  \E err \in Outcome(s, f) :
             /\ RecordResult(s, f, err)
             /\ tx' = [tx EXCEPT ![s] = TxAfter(s, f, err)]
             /\ Advance(s, err)
             /\ outcomes' = [outcomes EXCEPT ![s] =
                               Append(SubSeq(@, 1, pc[s] - 1), err)]
    /\ UNCHANGED <<registry, phase, chains, status, verb, result>>

\* `return processError` once the chain is exhausted.
Finish(s) ==
    /\ status[s] = "running"
    /\ pc[s] > Len(chains[verb[s]])
    /\ status' = [status EXCEPT ![s] = "done"]
    /\ result' = [result EXCEPT ![s] = procErr[s]]
    /\ UNCHANGED <<registry, phase, chains, verb, pc, procErr, storeErr,
                   storePrev, tx, outcomes>>

\* A panic ends the program.
Halted ==
    /\ phase = "panicked"
    /\ UNCHANGED vars

Next ==
    \/ \E p \in Names : RegisterProcess(p)
    \/ NewProcessor
    \/ \E s \in Scopes, v \in Verbs : Invoke(s, v)
    \/ \E s \in Scopes : Step(s) \/ Finish(s)
    \/ Halted

Spec == Init /\ [][Next]_vars

-----------------------------------------------------------------------------
(* Properties.                                                             *)

\* spec.md 8, chain execution: when a chain returns, every one of its steps
\* ran, even after one failed, and the error returned is the last failing
\* step's, not the first's (Processor.Create ... Delete).
ChainContract ==
    \A s \in Scopes : status[s] = "done" =>
        /\ Len(outcomes[s]) = Len(chains[verb[s]])
        /\ IsLastFailure(outcomes[s], result[s])

\* A step that commits a scope's transaction follows only steps of the
\* current chain that all returned nil.
CommitClean ==
    \A s \in Scopes :
        (tx'[s] = "committed" /\ tx[s] # "committed")
            => \A i \in DOMAIN outcomes[s] : outcomes[s][i] = NoError

\* A transaction is committed only by a chain none of whose earlier steps
\* failed: the processor's store of ProcessError is what CommitOrRollback
\* reads to decide.
TxCommitOnlyClean == [][CommitClean]_vars

\* Configuration errors fail fast: no chain runs unless newProcessor
\* resolved every configured name of every verb against the registry.
FailFast ==
    \A s \in Scopes : status[s] # "idle" =>
        /\ chains = Config
        /\ \A v \in Verbs : NamesOf(chains[v]) \subseteq registry

\* spec.md 4.7: a chain that returns nil has not rolled back the
\* transaction it began; the scope's store is pipeline-local state.
CleanRunNotRolledBack ==
    \A s \in Scopes :
        (status[s] = "done" /\ result[s] = NoError /\ TxBegin \in NamesOf(chains[verb[s]]))
            => tx[s] # "rolledback"

-----------------------------------------------------------------------------
(* The inductive invariant behind ChainContract and FailFast (proved in    *)
(* ProcessorProofs).                                                       *)

\* After newProcessor the chains are the configured ones, all registered.
ChainsResolved ==
    phase = "built" =>
        /\ chains = Config
        /\ \A v \in Verbs : NamesOf(Config[v]) \subseteq registry

\* A scope runs a chain only once the processor is built.
StartedAfterBuild == \A s \in Scopes : status[s] # "idle" => phase = "built"

\* Inside the loop: steps 1 .. pc-1 have run and processError is the last
\* error among them.
RunningChain ==
    \A s \in Scopes : status[s] = "running" =>
        /\ pc[s] \in 1 .. Len(chains[verb[s]]) + 1
        /\ Len(outcomes[s]) = pc[s] - 1
        /\ IsLastFailure(outcomes[s], procErr[s])

\* The store keeps every failure: while no ProcessError is stored, every
\* step of the scope's current or last chain has returned nil.
StoreRecordsFailures ==
    \A s \in Scopes : storeErr[s] = NoError =>
        \A i \in DOMAIN outcomes[s] : outcomes[s][i] = NoError

IInv ==
    /\ TypeOK
    /\ ChainsResolved
    /\ StartedAfterBuild
    /\ RunningChain
    /\ ChainContract
    /\ StoreRecordsFailures

-----------------------------------------------------------------------------
(* Refinement: the processor implements ChainSpec.  The registry and the  *)
(* chain's loop are hidden; a scope's step results become visible when   *)
(* its call returns.                                                       *)

\* The results of a scope's last finished call, seen from outside.
visibleHistory == [s \in Scopes |-> IF status[s] = "done" THEN outcomes[s]
                                                        ELSE <<>>]

Chain == INSTANCE ChainSpec WITH history <- visibleHistory

\* Every behaviour of Processor.Create ... Delete, with the registry and
\* newProcessor before them, is one of ChainSpec: a call returns one
\* result per configured step and the last failure among them.
ImplementsChain == Chain!Spec

=============================================================================
