------------------------------ MODULE Controller ------------------------------
(***************************************************************************)
(* The default controller, its configuration and model registration of    *)
(* src/internal/controller/controller.go.                                  *)
(*                                                                         *)
(* Default() creates the package-wide defaultController on first use, with *)
(* no lock: each goroutine checks the variable, may create and assign a    *)
(* controller, and returns the variable as it then reads it.  NewDefault() *)
(* creates a controller from the same DefaultConfig and returns it.  Both  *)
(* run newController(DefaultConfig), whose setConfig writes its defaults   *)
(* into that shared config (the naming convention lower-cased, the        *)
(* schema, the two validator aliases) and reads them back, one field      *)
(* access at a time.  A controller is named by the goroutine that created *)
(* it.  RegisterModels registers models in the controller's schemas and   *)
(* then maps every model of every schema to its repository, returning at  *)
(* the first mapping that fails.                                           *)
(***************************************************************************)
EXTENDS Naturals, FiniteSets

CONSTANTS
    Goroutines,     \* the goroutines that call Default() or NewDefault()
    Models,         \* the model types a program registers
    MaxRegister,    \* bound on RegisterModels calls
    NoController    \* the nil controller

ASSUME ControllerAssumption ==
    /\ IsFiniteSet(Goroutines)
    /\ MaxRegister \in Nat
    /\ NoController \notin Goroutines

\* A controller is named by the goroutine whose newController created it.
Controllers == Goroutines

\* Go's empty string, the value of a config field nobody set.
Unset == "unset"

\* The fields of a ControllerConfig that setConfig reads and writes: the
\* naming convention as given ("Snake") or lower-cased, and the schema and
\* aliases unset, at setConfig's defaults, or set by the program.
Configs == [naming : {"Snake", "snake"}, schema : {Unset, "api", "custom"},
            create : {Unset, "create", "custom"}, patch : {Unset, "patch", "custom"}]

\* The namer setConfig's switch picks for a naming convention.
NamerOf(naming) == IF naming = "snake" THEN "snake" ELSE "none"

VARIABLES
    dcfg,           \* the shared *DefaultConfig
    defaultCtrl,    \* defaultController
    created,        \* the controllers newController has returned
    caller,         \* per goroutine: "Default" or "NewDefault"
    pc,             \* where each goroutine is
    got,            \* the controller Default() or NewDefault() returned
    namer,          \* each controller's NamerFunc
    createTag,      \* the tag name of each controller's CreateValidator
    patchTag,       \* the tag name of each controller's PatchValidator
    registered,     \* the models in each controller's schemas
    mapped,         \* the models each controller mapped to a repository
    lastOk,         \* the last RegisterModels on a controller returned nil
    calls           \* RegisterModels calls so far

ctrlVars == <<namer, createTag, patchTag>>
regVars == <<registered, mapped, lastOk, calls>>
vars == <<dcfg, defaultCtrl, created, caller, pc, got, ctrlVars, regVars>>

\* Where a goroutine is: in Default() ("check", "assign", "return"), or in
\* newController(DefaultConfig) and its setConfig.
Steps == {"start", "check", "lower", "validate", "schema", "createDefault",
          "createTag", "patchDefault", "patchTag", "assign", "return", "done"}

TypeOK ==
    /\ dcfg \in Configs
    /\ defaultCtrl \in Controllers \cup {NoController}
    /\ created \subseteq Controllers
    /\ caller \in [Goroutines -> {"Default", "NewDefault"}]
    /\ pc \in [Goroutines -> Steps]
    /\ got \in [Goroutines -> Controllers \cup {NoController}]
    /\ namer \in [Controllers -> {"none", "snake"}]
    /\ createTag \in [Controllers -> {Unset, "create", "custom"}]
    /\ patchTag \in [Controllers -> {Unset, "patch", "custom"}]
    /\ registered \in [Controllers -> SUBSET Models]
    /\ mapped \in [Controllers -> SUBSET Models]
    /\ lastOk \in [Controllers -> BOOLEAN]
    /\ calls \in 0 .. MaxRegister

Init ==
    /\ dcfg \in Configs
    /\ defaultCtrl = NoController
    /\ created = {}
    /\ caller = [g \in Goroutines |-> "Default"]
    /\ pc = [g \in Goroutines |-> "start"]
    /\ got = [g \in Goroutines |-> NoController]
    /\ namer = [c \in Controllers |-> "none"]
    /\ createTag = [c \in Controllers |-> Unset]
    /\ patchTag = [c \in Controllers |-> Unset]
    /\ registered = [c \in Controllers |-> {}]
    /\ mapped = [c \in Controllers |-> {}]
    /\ lastOk = [c \in Controllers |-> TRUE]
    /\ calls = 0

\* Goroutine g moves from step `from` to step `to`.
Goto(g, from, to) ==
    /\ pc[g] = from
    /\ pc' = [pc EXCEPT ![g] = to]

\* Default(): `if defaultController == nil`; NewDefault() goes straight to
\* newController(DefaultConfig).
Call(g) ==
    /\ \E f \in {"Default", "NewDefault"} :
         /\ caller' = [caller EXCEPT ![g] = f]
         /\ Goto(g, "start", IF f = "NewDefault" THEN "lower" ELSE "check")
    /\ UNCHANGED <<dcfg, defaultCtrl, created, got, ctrlVars, regVars>>

\* Default(): `if defaultController == nil`.
DefaultCheck(g) ==
    /\ Goto(g, "check", IF defaultCtrl = NoController THEN "lower" ELSE "return")
    /\ UNCHANGED <<dcfg, defaultCtrl, created, caller, got, ctrlVars, regVars>>

\* Mutation: the lower-cased naming convention is kept in a local and never
\* written back to cfg, so the switch reads the convention as given.
LowerLocal(g) ==
    /\ Goto(g, "lower", "validate")
    /\ UNCHANGED <<dcfg, defaultCtrl, created, caller, got, ctrlVars, regVars>>

\* newController makes the flags and the validators; setConfig writes the
\* lower-cased naming convention into the config.
Lower(g) ==
    /\ Goto(g, "lower", "validate")
    /\ dcfg' = [dcfg EXCEPT !["naming"] = "snake"]
    /\ UNCHANGED <<defaultCtrl, created, caller, got, ctrlVars, regVars>>

\* setConfig: the config validates, c.Config = cfg, and the switch on the
\* naming convention, read again, picks the namer.
Validate(g) ==
    /\ Goto(g, "validate", "schema")
    /\ namer' = [namer EXCEPT ![g] = NamerOf(dcfg.naming)]
    /\ UNCHANGED <<dcfg, defaultCtrl, created, caller, got, createTag,
                   patchTag, regVars>>

\* setConfig: `if cfg.DefaultSchema == "" { cfg.DefaultSchema = "api" }`.
SchemaDefault(g) ==
    /\ Goto(g, "schema", "createDefault")
    /\ dcfg' = IF dcfg.schema = Unset THEN [dcfg EXCEPT !["schema"] = "api"] ELSE dcfg
    /\ UNCHANGED <<defaultCtrl, created, caller, got, ctrlVars, regVars>>

\* setConfig: the create alias defaults to "create".
CreateDefault(g) ==
    /\ Goto(g, "createDefault", "createTag")
    /\ dcfg' = IF dcfg.create = Unset THEN [dcfg EXCEPT !["create"] = "create"]
               ELSE dcfg
    /\ UNCHANGED <<defaultCtrl, created, caller, got, ctrlVars, regVars>>

\* setConfig: `c.CreateValidator.SetTagName(cfg.CreateValidatorAlias)`.
CreateTag(g) ==
    /\ Goto(g, "createTag", "patchDefault")
    /\ createTag' = [createTag EXCEPT ![g] = dcfg.create]
    /\ UNCHANGED <<dcfg, defaultCtrl, created, caller, got, namer, patchTag,
                   regVars>>

\* setConfig: the patch alias defaults to "patch".
PatchDefault(g) ==
    /\ Goto(g, "patchDefault", "patchTag")
    /\ dcfg' = IF dcfg.patch = Unset THEN [dcfg EXCEPT !["patch"] = "patch"]
               ELSE dcfg
    /\ UNCHANGED <<defaultCtrl, created, caller, got, ctrlVars, regVars>>

\* setConfig's last call; the rest of newController (schemas, repositories,
\* query builder, error mapper) does not fail on the default configuration,
\* and newController returns c.  Default() goes on to assign it;
\* NewDefault() returns it.
PatchTag(g) ==
    /\ Goto(g, "patchTag", IF caller[g] = "Default" THEN "assign" ELSE "done")
    /\ patchTag' = [patchTag EXCEPT ![g] = dcfg.patch]
    /\ created' = created \cup {g}
    /\ got' = IF caller[g] = "NewDefault" THEN [got EXCEPT ![g] = g] ELSE got
    /\ UNCHANGED <<dcfg, defaultCtrl, caller, namer, createTag, regVars>>

\* Default(): `defaultController = c`.
DefaultAssign(g) ==
    /\ Goto(g, "assign", "return")
    /\ defaultCtrl' = g
    /\ UNCHANGED <<dcfg, created, caller, got, ctrlVars, regVars>>

\* Default(): `return defaultController`, read again.
DefaultReturn(g) ==
    /\ Goto(g, "return", "done")
    /\ got' = [got EXCEPT ![g] = defaultCtrl]
    /\ UNCHANGED <<dcfg, defaultCtrl, created, caller, ctrlVars, regVars>>

\* Mutation: only the models of this call are mapped.
RegisterModelsOnlyNew(c, ms) ==
    \/ /\ lastOk' = [lastOk EXCEPT ![c] = FALSE]
       /\ UNCHANGED <<registered, mapped>>
    \/ /\ registered' = [registered EXCEPT ![c] = @ \cup ms]
       /\ \E ok \in SUBSET ms :
            /\ mapped' = [mapped EXCEPT ![c] = @ \cup ok]
            /\ lastOk' = [lastOk EXCEPT ![c] = (ok = ms)]

\* RegisterModels(models...): the schemas register the models or fail with
\* nothing registered; then every model of every schema is mapped in turn,
\* and the first MapModel that fails is returned.  The mapping order is the
\* schemas' order, so the models mapped before a failure are any subset.
RegisterModels(c, ms) ==
    \/ /\ lastOk' = [lastOk EXCEPT ![c] = FALSE]
       /\ UNCHANGED <<registered, mapped>>
    \/ /\ registered' = [registered EXCEPT ![c] = @ \cup ms]
       /\ \E ok \in SUBSET registered'[c] :
            /\ mapped' = [mapped EXCEPT ![c] = @ \cup ok]
            /\ lastOk' = [lastOk EXCEPT ![c] = (ok = registered'[c])]

\* A goroutine registers models on the controller it was given.
Register(g) ==
    /\ pc[g] = "done"
    /\ calls < MaxRegister
    /\ calls' = calls + 1
    /\ \E ms \in SUBSET Models : RegisterModels(got[g], ms)
    /\ UNCHANGED <<dcfg, defaultCtrl, created, caller, pc, got, ctrlVars>>

Next ==
    \E g \in Goroutines :
        \/ Call(g) \/ DefaultCheck(g) \/ Lower(g) \/ Validate(g)
        \/ SchemaDefault(g) \/ CreateDefault(g) \/ CreateTag(g)
        \/ PatchDefault(g) \/ PatchTag(g) \/ DefaultAssign(g)
        \/ DefaultReturn(g) \/ Register(g)

Spec == Init /\ [][Next]_vars

-----------------------------------------------------------------------------
(* Properties.                                                             *)

\* When RegisterModels last returned nil on a controller, every model in its
\* schemas has a repository, even the models an earlier failed call left
\* registered but unmapped.
MappedAfterRegister ==
    \A c \in Controllers : lastOk[c] => registered[c] \subseteq mapped[c]

\* Every controller newController returned is configured from the shared
\* DefaultConfig as it now stands, however the setConfig calls of other
\* goroutines interleaved with its own: it has a namer, its validators use
\* the config's aliases, and none of the defaults is left unset.
ConfiguredFromDefault ==
    \A c \in created :
        /\ namer[c] # "none"
        /\ createTag[c] = dcfg.create /\ patchTag[c] = dcfg.patch
        /\ Unset \notin {dcfg.schema, dcfg.create, dcfg.patch}

\* Default() is one controller for the whole process: every goroutine that
\* got a controller from it got the same one.
DefaultIsShared ==
    \A g1, g2 \in Goroutines :
        (pc[g1] = "done" /\ pc[g2] = "done"
         /\ caller[g1] = "Default" /\ caller[g2] = "Default")
            => got[g1] = got[g2]

=============================================================================
