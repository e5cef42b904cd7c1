------------------------------- MODULE Wrapper -------------------------------
(***************************************************************************)
(* The logger Wrapper of src/log/wrapper.go.  newLoggerWrapper picks the  *)
(* first of ExtendedLeveledLogger (4), ShortLeveledLogger (3),             *)
(* LeveledLogger (2) and StdLogger (1) that the logger implements; every   *)
(* Wrapper method switches on that number, asserts the interface and calls *)
(* one of its methods, prefixing the level for a StdLogger (buildLeveled). *)
(* A method is a pair <<base, variant>>: Info and "f" is Infof.  A logger *)
(* is the set of methods it has.                                           *)
(***************************************************************************)
EXTENDS Naturals

\* A method's name suffix: none (Info), "f" (Infof) or "ln" (Infoln).
Plain == "plain"
Variants == {Plain, "f", "ln"}
Leveled6 == {"Debug", "Info", "Warning", "Error", "Fatal", "Panic"}

\* The Wrapper's own methods: Print, Printf, Println and the leveled ones.
Methods == ({"Print"} \cup Leveled6) \X Variants

\* The logging interfaces, by the methods they require.
StdLogger == {"Print", "Fatal", "Panic"} \X Variants
LeveledLogger == Leveled6 \X {Plain, "f"}
ShortLeveledLogger ==
    ((Leveled6 \ {"Warning"}) \cup {"Warn"}) \X {Plain, "f"}
ExtendedLeveledLogger == LeveledLogger \cup StdLogger \cup (Leveled6 \X {"ln"})

Iface == <<StdLogger, LeveledLogger, ShortLeveledLogger, ExtendedLeveledLogger>>

\* The loggers: any combination of the interfaces.
Loggers == {UNION {Iface[k] : k \in K} : K \in SUBSET (1 .. 4)}

\* Mutation: a LeveledLogger is numbered as a ShortLeveledLogger.
KindSwapped(l) ==
    IF ExtendedLeveledLogger \subseteq l THEN 4
    ELSE IF ShortLeveledLogger \subseteq l THEN 3
    ELSE IF LeveledLogger \subseteq l THEN 3
    ELSE IF StdLogger \subseteq l THEN 1
    ELSE 0

\* newLoggerWrapper: currentLogger, 0 being the error.
Kind(l) ==
    IF ExtendedLeveledLogger \subseteq l THEN 4
    ELSE IF ShortLeveledLogger \subseteq l THEN 3
    ELSE IF LeveledLogger \subseteq l THEN 2
    ELSE IF StdLogger \subseteq l THEN 1
    ELSE 0

\* The Level a leveled method logs at; the Print family has none.
LevelOf(base) ==
    CASE base = "Debug"               -> "DEBUG"
      [] base = "Info"                -> "INFO"
      [] base \in {"Warning", "Warn"} -> "WARNING"
      [] base = "Error"               -> "ERROR"
      [] base \in {"Fatal", "Panic"}  -> "CRITICAL"
      [] OTHER                        -> "NONE"

\* Mutation: Errorln on an ExtendedLeveledLogger calls Debugln, as its doc
\* comment says.
CalledErrorlnAsDoc(m, k) ==
    CASE k = 4 -> IF m = <<"Error", "ln">> THEN <<"Debug", "ln">> ELSE m
      [] k = 1 -> IF m[1] \in {"Print", "Fatal", "Panic"} THEN m
                  ELSE <<"Print", m[2]>>
      [] OTHER ->
           <<CASE m[1] = "Print" -> "Info"
               [] m[1] = "Warning" /\ k = 3 -> "Warn"
               [] OTHER -> m[1],
             IF m[2] = "ln" THEN Plain ELSE m[2]>>

\* The method of the wrapped logger that Wrapper method m calls in case k:
\* the same method on an ExtendedLeveledLogger; Print, Fatal or Panic of the
\* same variant on a StdLogger; on the other two, Print becomes Info, Warning
\* becomes Warn for a ShortLeveledLogger, and "ln" falls back to the plain
\* method.
Called(m, k) ==
    CASE k = 4 -> m
      [] k = 1 -> IF m[1] \in {"Print", "Fatal", "Panic"} THEN m
                  ELSE <<"Print", m[2]>>
      [] OTHER ->
           <<CASE m[1] = "Print" -> "Info"
               [] m[1] = "Warning" /\ k = 3 -> "Warn"
               [] OTHER -> m[1],
             IF m[2] = "ln" THEN Plain ELSE m[2]>>

\* buildLeveled: in case 1, every method but the Print family puts its level
\* before the message.
Prefix(m, k) == IF k = 1 /\ m[1] # "Print" THEN LevelOf(m[1]) ELSE "NONE"

VARIABLES
    logger,     \* the wrapped logger
    current,    \* currentLogger
    last        \* the last call: the method called and the level prefixed

vars == <<logger, current, last>>

NoCall == [method |-> <<"none", "none">>, asserted |-> 0, prefix |-> "NONE"]

\* NewLoggerWrapper(logger): a logger that implements none of the
\* interfaces is refused.
Init ==
    /\ logger \in Loggers
    /\ current = Kind(logger)
    /\ current # 0
    /\ last = NoCall

\* A Wrapper method: switch on currentLogger, assert, call.
Call(m) ==
    /\ last' = [method |-> Called(m, current), asserted |-> current,
                prefix |-> Prefix(m, current)]
    /\ UNCHANGED <<logger, current>>

Next == \E m \in Methods : Call(m)

Spec == Init /\ [][Next]_vars

-----------------------------------------------------------------------------
(* Properties.                                                             *)

\* No Wrapper method panics: the interface its case asserts is one the
\* wrapped logger implements, and the method it calls is the logger's.
CallsExist ==
    last # NoCall =>
        /\ Iface[last.asserted] \subseteq logger
        /\ last.method \in logger

\* Every Wrapper method logs at its own level: the level of the method
\* called, or the prefix buildLeveled adds for a StdLogger, is the level the
\* Wrapper method names; the Print family logs at Info or with no level.
KeepsLevel ==
    \A m \in Methods :
        LET lvl == IF Prefix(m, current) # "NONE" THEN Prefix(m, current)
                   ELSE LevelOf(Called(m, current)[1])
        IN  IF m[1] = "Print" THEN lvl \in {"NONE", "INFO"}
            ELSE lvl = LevelOf(m[1])

=============================================================================
