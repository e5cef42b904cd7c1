------------------------------- MODULE Logger --------------------------------
(***************************************************************************)
(* The package logger of src/log/logger.go: the global logger, the level  *)
(* currentLevel that Level() reports, and the module loggers that follow  *)
(* it, and the logging functions that forward to the logger.  A logger is *)
(* abstracted to what the code asks of it: whether it is a LevelSetter, a *)
(* SubLogger and a DebugLeveledLogger, and the level it logs at.          *)
(***************************************************************************)
EXTENDS Naturals

CONSTANTS
    Levels,     \* the unilogger levels
    LINFO,      \* the initial currentLevel
    Modules,    \* the registered module loggers
    NoLogger    \* the nil logger

ASSUME LoggerAssumption ==
    /\ LINFO \in Levels
    /\ NoLogger \notin [setter : BOOLEAN, sub : BOOLEAN, debug : BOOLEAN,
                         level : Levels]

\* The loggers a program can pass to SetLogger.
Loggers == [setter : BOOLEAN, sub : BOOLEAN, debug : BOOLEAN, level : Levels]

\* What a logger is, apart from the level it is at.
Kind(l) == [setter |-> l.setter, sub |-> l.sub, debug |-> l.debug]

\* The package logging functions, and those that use the DebugLeveledLogger.
Fns == {"Debug3f", "Debug2f", "Debugf", "Infof", "Warningf", "Errorf",
        "Fatalf", "Panicf", "Debug3", "Debug2", "Debug", "Info", "Warning",
        "Error", "Fatal", "Panic"}
DebugFns == {"Debug3f", "Debug2f", "Debug3", "Debug2"}

\* The LeveledLogger method a function calls: DebugFns fall back to Debugf
\* and Debug, the others call their namesake.
Forward(f) ==
    IF f \in {"Debug3f", "Debug2f"} THEN "Debugf"
    ELSE IF f \in {"Debug3", "Debug2"} THEN "Debug" ELSE f

VARIABLES
    logger,         \* the package logger, or NoLogger
    currentLevel,   \* the package level
    modLogger,      \* whether a module has its own (sub)logger
    modLevel,       \* the level of each module
    setLevelErr,    \* whether the last SetLevel returned an error
    debugLeveled,   \* the package debugLeveled, or NoLogger
    isDebugLeveled, \* the package isDebugLeveled
    lastCall        \* the last logging call: function, what it did, and the
                    \* package logger at the time

vars == <<logger, currentLevel, modLogger, modLevel, setLevelErr,
          debugLeveled, isDebugLeveled, lastCall>>

\* What a logging call does: call a method of a logger, do nothing, or,
\* with no logger, print and exit or panic.
Calls == [fn : Fns, out : {"none", "dropped", "exit", "panic"}]
         \cup [fn : Fns, out : {"called"}, to : Loggers, method : Fns,
                current : Loggers]

TypeOK ==
    /\ logger \in Loggers \cup {NoLogger}
    /\ currentLevel \in Levels
    /\ modLogger \in [Modules -> BOOLEAN]
    /\ modLevel \in [Modules -> Levels]
    /\ setLevelErr \in BOOLEAN
    /\ debugLeveled \in Loggers \cup {NoLogger}
    /\ isDebugLeveled \in BOOLEAN
    /\ lastCall \in Calls

Init ==
    /\ logger = NoLogger
    /\ currentLevel = LINFO
    /\ modLogger = [m \in Modules |-> FALSE]
    /\ modLevel = [m \in Modules |-> LINFO]
    /\ setLevelErr = FALSE
    /\ debugLeveled = NoLogger
    /\ isDebugLeveled = FALSE
    /\ lastCall = [fn |-> "Debugf", out |-> "none"]

\* Mutation: SetLevel returns before the modules once the logger is set.
SetLevelNoModules(level) ==
    /\ currentLevel' = level
    /\ setLevelErr' = (logger # NoLogger /\ ~ logger.setter)
    /\ logger' = IF logger # NoLogger /\ logger.setter
                 THEN [logger EXCEPT !["level"] = level] ELSE logger
    /\ UNCHANGED <<modLogger, modLevel, debugLeveled, isDebugLeveled, lastCall>>

\* SetLevel(level): the package level is set first; a nil logger returns
\* nil and a logger that is no LevelSetter returns an error, both before the
\* modules; otherwise the logger and every module take the level.
SetLevel(level) ==
    /\ currentLevel' = level
    /\ UNCHANGED <<debugLeveled, isDebugLeveled, lastCall>>
    /\ IF logger = NoLogger
       THEN /\ setLevelErr' = FALSE
            /\ UNCHANGED <<logger, modLogger, modLevel>>
       ELSE IF ~ logger.setter
       THEN /\ setLevelErr' = TRUE
            /\ UNCHANGED <<logger, modLogger, modLevel>>
       ELSE /\ setLevelErr' = FALSE
            /\ logger' = [logger EXCEPT !["level"] = level]
            /\ modLevel' = [m \in Modules |-> level]
            /\ UNCHANGED modLogger

\* Mutation: debugLeveled is only assigned when the cast succeeds, so a
\* logger that is no DebugLeveledLogger leaves the previous one in place.
SetLoggerKeepDebug(l) ==
    /\ logger' = IF l.setter THEN [l EXCEPT !["level"] = currentLevel] ELSE l
    /\ modLogger' = [m \in Modules |-> modLogger[m] \/ l.sub]
    /\ modLevel' = [m \in Modules |-> currentLevel]
    /\ IF l.debug THEN /\ debugLeveled' = logger'
                       /\ isDebugLeveled' = TRUE
                  ELSE UNCHANGED <<debugLeveled, isDebugLeveled>>
    /\ UNCHANGED <<currentLevel, setLevelErr, lastCall>>

\* SetLogger(log): the logger is stored; a LevelSetter takes currentLevel;
\* `debugLeveled, isDebugLeveled = log.(DebugLeveledLogger)` keeps the
\* logger, or nil and false; every module without a logger gets a
\* SubLogger() of a SubLogger, and every module takes currentLevel.  (The
\* output depth changes nothing the model tells apart.)
SetLogger(l) ==
    /\ logger' = IF l.setter THEN [l EXCEPT !["level"] = currentLevel] ELSE l
    /\ debugLeveled' = IF l.debug THEN logger' ELSE NoLogger
    /\ isDebugLeveled' = l.debug
    /\ modLogger' = [m \in Modules |-> modLogger[m] \/ l.sub]
    /\ modLevel' = [m \in Modules |-> currentLevel]
    /\ UNCHANGED <<currentLevel, setLevelErr, lastCall>>

\* New / Default: a BasicLogger, a LevelSetter and a SubLogger at INFO,
\* whose debug-level methods belong to uni-logger (not under src).
Default ==
    \E debug \in BOOLEAN :
        SetLogger([setter |-> TRUE, sub |-> TRUE, debug |-> debug,
                   level |-> LINFO])

\* With no logger, Fatalf prints and exits and Panicf and Panic panic; the
\* other functions, Fatal among them, return doing nothing.
NilOutcome(f) ==
    IF f = "Fatalf" THEN "exit"
    ELSE IF f \in {"Panicf", "Panic"} THEN "panic" ELSE "dropped"

\* Debug3f ... Panic: the debug-level functions call the DebugLeveledLogger
\* when isDebugLeveled (and nothing when it is nil); otherwise every
\* function calls the logger's method if a logger is set.
Log(f) ==
    /\ lastCall' =
         IF f \in DebugFns /\ isDebugLeveled
         THEN IF debugLeveled # NoLogger
              THEN [fn |-> f, out |-> "called", to |-> debugLeveled,
                    method |-> f, current |-> logger]
              ELSE [fn |-> f, out |-> "dropped"]
         ELSE IF logger # NoLogger
              THEN [fn |-> f, out |-> "called", to |-> logger,
                    method |-> Forward(f), current |-> logger]
              ELSE [fn |-> f, out |-> NilOutcome(f)]
    /\ UNCHANGED <<logger, currentLevel, modLogger, modLevel, setLevelErr,
                   debugLeveled, isDebugLeveled>>

\* os.Exit ends the program.
Exited ==
    /\ lastCall.out = "exit"
    /\ UNCHANGED vars

Next ==
    \/ /\ lastCall.out # "exit"
       /\ \/ \E level \in Levels : SetLevel(level)
          \/ \E l \in Loggers : SetLogger(l)
          \/ Default
          \/ \E f \in Fns : Log(f)
    \/ Exited

Spec == Init /\ [][Next]_vars

-----------------------------------------------------------------------------
(* Properties.                                                             *)

\* Once the package logger can take levels, every module logs at the level
\* Level() reports, whatever SetLevel and SetLogger calls came before (a
\* SetLevel while no logger was set leaves the modules behind until the
\* next SetLogger catches them up).
ModulesFollowLevel ==
    (logger # NoLogger /\ logger.setter) =>
        \A m \in Modules : modLevel[m] = currentLevel

\* A logging call that reaches a logger reaches the package logger of the
\* time, and a debug-level method is only called on a DebugLeveledLogger,
\* whatever loggers were set before: debugLeveled never outlives the
\* logger it was cast from.
CallsReachLogger ==
    lastCall.out = "called" =>
        /\ Kind(lastCall.to) = Kind(lastCall.current)
        /\ lastCall.method \in DebugFns => lastCall.to.debug

\* SetLevel "sets the level if possible": a call that returns the error
\* "logger doesn't implement LevelSetter interface" has not set it, so
\* Level() reports what it reported before the call.  (setLevelErr' holds
\* after a failed SetLevel, or after a step that keeps an earlier error and
\* leaves the level alone.)
SetLevelFailsCleanly ==
    [][setLevelErr' => currentLevel' = currentLevel]_vars

=============================================================================
