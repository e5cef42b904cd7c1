---------------------------- MODULE LoggerProofs ----------------------------
(***************************************************************************)
(* Proofs about the package logger of Logger: the type invariant, and that *)
(* the module loggers follow the package logger over any sequence of       *)
(* SetLevel, SetLogger, New and Default calls, for every set of levels and *)
(* modules.  ModulesFollowLevel is inductive together with TypeOK: the     *)
(* only steps that make the package logger a LevelSetter are SetLogger's,  *)
(* which update every module in the same step.  For the logging calls,     *)
(* DebugConsistent adds that debugLeveled and isDebugLeveled always        *)
(* describe the package logger: SetLogger assigns all three in one call,   *)
(* and SetLevel changes only the level.                                    *)
(***************************************************************************)
EXTENDS Logger, TLAPS

USE LoggerAssumption

DebugConsistent ==
    /\ isDebugLeveled = (logger # NoLogger /\ logger.debug)
    /\ debugLeveled = NoLogger \/ Kind(debugLeveled) = Kind(logger)
    /\ isDebugLeveled = (debugLeveled # NoLogger)

LInv ==
    /\ TypeOK
    /\ ModulesFollowLevel
    /\ DebugConsistent
    /\ CallsReachLogger

LEMMA InitLInv == Init => LInv
<1> SUFFICES ASSUME Init PROVE LInv
  OBVIOUS
<1>1. TypeOK
  BY DEF Init, TypeOK, Calls, Fns
<1>2. QED
  BY <1>1 DEF Init, LInv, ModulesFollowLevel,
              DebugConsistent, CallsReachLogger

\* Two loggers differing at most in their level are of the same kind.
LEMMA SameKind ==
    ASSUME NEW a \in Loggers, NEW b \in Loggers,
           a.setter = b.setter, a.sub = b.sub, a.debug = b.debug
    PROVE  Kind(a) = Kind(b)
BY DEF Kind

(***************************************************************************)
(* SetLevel either returns before touching the modules, with a logger that *)
(* is nil or no LevelSetter, or sets the level of the logger and of every  *)
(* module.  It leaves debugLeveled and the last call alone.               *)
(***************************************************************************)
LEMMA SetLevelLInv ==
    ASSUME LInv, NEW level \in Levels, SetLevel(level)
    PROVE  LInv'
<1> USE DEF LInv
<1>0. UNCHANGED <<debugLeveled, isDebugLeveled, lastCall>>
  BY DEF SetLevel
<1>1. CASE logger = NoLogger
  BY <1>0, <1>1 DEF SetLevel, TypeOK, ModulesFollowLevel,
                    DebugConsistent, CallsReachLogger
<1>2. CASE logger # NoLogger /\ ~ logger.setter
  BY <1>0, <1>2 DEF SetLevel, TypeOK, ModulesFollowLevel,
                    DebugConsistent, CallsReachLogger
<1>3. CASE logger # NoLogger /\ logger.setter
  <2>1. logger \in Loggers
    BY <1>3 DEF TypeOK
  <2>2. logger' = [logger EXCEPT !["level"] = level]
    BY <1>3 DEF SetLevel
  <2>3. /\ logger' \in Loggers
        /\ logger'.setter = logger.setter
        /\ logger'.sub = logger.sub
        /\ logger'.debug = logger.debug
        /\ logger' # NoLogger
    BY <2>1, <2>2 DEF Loggers
  <2>4. Kind(logger') = Kind(logger)
    BY <2>1, <2>3, SameKind
  <2>5. TypeOK'
    BY <1>0, <1>3, <2>3 DEF SetLevel, TypeOK
  <2>6. ModulesFollowLevel'
    BY <1>3 DEF SetLevel, ModulesFollowLevel
  <2>8. DebugConsistent'
    BY <1>0, <1>3, <2>3, <2>4 DEF DebugConsistent
  <2>9. CallsReachLogger'
    BY <1>0 DEF CallsReachLogger
  <2>10. QED
    BY <2>5, <2>6, <2>8, <2>9
<1>4. QED
  BY <1>1, <1>2, <1>3

(***************************************************************************)
(* SetLogger gives every module currentLevel, and a logger to every module *)
(* without one when the new logger is a SubLogger; debugLeveled becomes   *)
(* the new logger or nil with it.                                         *)
(***************************************************************************)
LEMMA SetLoggerLInv ==
    ASSUME LInv, NEW l \in Loggers, SetLogger(l)
    PROVE  LInv'
<1> USE DEF LInv
<1>1. /\ logger' \in Loggers
      /\ logger'.setter = l.setter
      /\ logger'.sub = l.sub
      /\ logger'.debug = l.debug
      /\ logger' # NoLogger
  BY DEF SetLogger, Loggers, TypeOK
<1>2. /\ debugLeveled' = IF l.debug THEN logger' ELSE NoLogger
      /\ isDebugLeveled' = l.debug
      /\ UNCHANGED lastCall
  BY DEF SetLogger
<1>0. l.debug \in BOOLEAN /\ l.sub \in BOOLEAN
  BY DEF Loggers
<1>3. TypeOK'
  <2>1. debugLeveled' \in Loggers \cup {NoLogger}
    BY <1>0, <1>1, <1>2
  <2>2. QED
    BY <1>0, <1>1, <1>2, <2>1 DEF SetLogger, TypeOK
<1>4. ModulesFollowLevel'
  BY DEF SetLogger, ModulesFollowLevel
<1>6. DebugConsistent'
  <2>1. CASE l.debug
    BY <1>1, <1>2, <2>1 DEF DebugConsistent
  <2>2. CASE ~ l.debug
    BY <1>0, <1>1, <1>2, <2>2 DEF DebugConsistent
  <2>3. QED
    BY <2>1, <2>2
<1>7. CallsReachLogger'
  BY <1>2 DEF CallsReachLogger
<1>8. QED
  BY <1>3, <1>4, <1>6, <1>7

(***************************************************************************)
(* A logging call reads the package variables and changes nothing but the *)
(* record of the call.  On the debug path, DebugConsistent says that       *)
(* debugLeveled is set and is of the logger's kind, a DebugLeveledLogger;  *)
(* on the other path the method called is no debug-level one.             *)
(***************************************************************************)
LEMMA LogLInv ==
    ASSUME LInv, NEW f \in Fns, Log(f)
    PROVE  LInv'
<1> USE DEF LInv
<1>1. UNCHANGED <<logger, currentLevel, modLogger, modLevel, setLevelErr,
                  debugLeveled, isDebugLeveled>>
  BY DEF Log
<1>2. /\ TypeOK' /\ ModulesFollowLevel'
      /\ DebugConsistent'
  <2>1. lastCall' \in Calls
    BY DEF Log, Calls, Fns, Forward, NilOutcome, TypeOK, DebugConsistent
  <2>2. QED
    BY <1>1, <2>1 DEF TypeOK, ModulesFollowLevel,
                      DebugConsistent
<1>3. CASE f \in DebugFns /\ isDebugLeveled
  <2>1. debugLeveled # NoLogger /\ logger # NoLogger /\ logger.debug
    BY <1>3 DEF DebugConsistent
  <2>2. lastCall' = [fn |-> f, out |-> "called", to |-> debugLeveled,
                     method |-> f, current |-> logger]
    BY <1>3, <2>1 DEF Log
  <2>3. Kind(debugLeveled) = Kind(logger)
    BY <2>1 DEF DebugConsistent
  <2>4. debugLeveled.debug
    BY <2>1, <2>3 DEF Kind
  <2>5. QED
    BY <1>2, <2>2, <2>3, <2>4 DEF CallsReachLogger
<1>4. CASE ~ (f \in DebugFns /\ isDebugLeveled)
  <2>1. Forward(f) \notin DebugFns
    BY DEF Forward, DebugFns
  <2>2. CASE logger # NoLogger
    <3>1. lastCall' = [fn |-> f, out |-> "called", to |-> logger,
                       method |-> Forward(f), current |-> logger]
      BY <1>4, <2>2 DEF Log
    <3>2. QED
      BY <1>2, <2>1, <3>1 DEF CallsReachLogger
  <2>3. CASE logger = NoLogger
    <3>1. lastCall' = [fn |-> f, out |-> NilOutcome(f)]
      BY <1>4, <2>3 DEF Log
    <3>2. lastCall'.out # "called"
      BY <3>1 DEF NilOutcome
    <3>3. QED
      BY <1>2, <3>2 DEF CallsReachLogger
  <2>4. QED
    BY <2>2, <2>3
<1>5. QED
  BY <1>3, <1>4

LEMMA NextLInv == LInv /\ [Next]_vars => LInv'
<1> SUFFICES ASSUME LInv, [Next]_vars PROVE LInv'
  OBVIOUS
<1>1. CASE \E level \in Levels : SetLevel(level)
  BY <1>1, SetLevelLInv
<1>2. CASE \E l \in Loggers : SetLogger(l)
  BY <1>2, SetLoggerLInv
<1>3. CASE Default
  <2>1. PICK debug \in BOOLEAN :
          SetLogger([setter |-> TRUE, sub |-> TRUE, debug |-> debug,
                     level |-> LINFO])
    BY <1>3 DEF Default
  <2>2. [setter |-> TRUE, sub |-> TRUE, debug |-> debug, level |-> LINFO]
          \in Loggers
    BY DEF Loggers
  <2>3. QED
    BY <2>1, <2>2, SetLoggerLInv
<1>4. CASE \E f \in Fns : Log(f)
  BY <1>4, LogLInv
<1>5. CASE Exited \/ UNCHANGED vars
  BY <1>5 DEF Exited, vars, LInv, TypeOK, ModulesFollowLevel,
               DebugConsistent, CallsReachLogger
<1>6. QED
  BY <1>1, <1>2, <1>3, <1>4, <1>5 DEF Next

THEOREM LoggerInvariant == Spec => []LInv
BY InitLInv, NextLInv, PTL DEF Spec

(***************************************************************************)
(* The package logger, the level and the modules keep their types.        *)
(***************************************************************************)
THEOREM LoggerTypeCorrect == Spec => []TypeOK
BY LoggerInvariant, PTL DEF LInv

(***************************************************************************)
(* SetLevel and SetLogger keep every module at the level Level() reports   *)
(* whenever the package logger takes levels, in any call order.           *)
(***************************************************************************)
THEOREM ModulesFollowLevelHolds == Spec => []ModulesFollowLevel
BY LoggerInvariant, PTL DEF LInv

(***************************************************************************)
(* Debug3f ... Panic deliver to the package logger of the time, and call a *)
(* debug-level method only on a DebugLeveledLogger, after any sequence of  *)
(* SetLogger, SetLevel and Default calls.                                  *)
(***************************************************************************)
THEOREM CallsReachLoggerHolds == Spec => []CallsReachLogger
BY LoggerInvariant, PTL DEF LInv

=============================================================================
