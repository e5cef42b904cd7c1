------------------------------- MODULE Service -------------------------------
(***************************************************************************)
(* The service lifecycle of src/core/service.go: New, Initialize, Run and  *)
(* CloseAll.                                                               *)
(*                                                                         *)
(* New applies the options to svc.Options and panics on an invalid         *)
(* configuration or service.  Initialize runs its setup steps in order and *)
(* returns the first error.  Run either calls Server.Serve directly or,    *)
(* with Options.HandleSignals, serves on a goroutine that reports a failure on a   *)
(* channel of capacity ErrorChanCap, and waits in a select for the         *)
(* context, a signal or that failure; after the context or a signal it    *)
(* shuts the server down.  The server, the repositories, the context and   *)
(* the signals are the environment: they act at any time.                  *)
(***************************************************************************)
EXTENDS Naturals, Sequences

\* The setup steps of Initialize, in code order.
InitSteps == <<"codecs", "dial", "register", "map", "migrate",
                     "collections", "server">>

VARIABLES
    svc,        \* "none", "panicked", "created", "initialized", "initFailed"
    svcServer,  \* whether the field svc.Server is set
    opts,       \* the options New was given (or the struct literal's)
    cfgOk,      \* New: Options.config() and controller.New succeeded
    done,       \* the Initialize steps that ran and succeeded
    dialed,     \* repository connections are open
    run,        \* Run: "idle", "direct", "select", "shutdown", "done"
    runResult,  \* what Run returned: "none", "nil", "serveErr", "shutdownErr"
    serve,      \* serving goroutine: "idle", "serving", "send", "exit"
    serveErr,   \* what Serve returned: "none", "nil", "closed", "failure"
    errorChan,  \* the buffered errorChan
    shutdown,   \* Server.Shutdown was called
    ctxDone,    \* s.Context is done
    signaled    \* a signal waits in `quit`

vars == <<svc, svcServer, opts, cfgOk, done, dialed, run, runResult, serve, serveErr,
          errorChan, shutdown, ctxDone, signaled>>

\* The options: a server, models, repositories, models to migrate, and
\* whether every model is a non-repository one (nothing to map), collections
\* to initialize, and HandleSignals.
Options == [server : BOOLEAN, models : BOOLEAN, repos : BOOLEAN,
            migrate : BOOLEAN, allNonRepo : BOOLEAN, collections : BOOLEAN,
            handleSignals : BOOLEAN]

Steps == {InitSteps[i] : i \in DOMAIN InitSteps}

TypeOK ==
    /\ svc \in {"none", "panicked", "created", "initialized", "initFailed"}
    /\ svcServer \in BOOLEAN
    /\ opts \in Options
    /\ cfgOk \in BOOLEAN
    /\ done \subseteq Steps
    /\ dialed \in BOOLEAN
    /\ run \in {"idle", "direct", "select", "shutdown", "done"}
    /\ runResult \in {"none", "nil", "serveErr", "shutdownErr"}
    /\ serve \in {"idle", "serving", "send", "exit"}
    /\ serveErr \in {"none", "nil", "closed", "failure"}
    /\ errorChan \in Seq({"failure"})
    /\ shutdown \in BOOLEAN
    /\ ctxDone \in BOOLEAN
    /\ signaled \in BOOLEAN

Init ==
    /\ svc = "none"
    /\ svcServer = FALSE
    /\ opts \in Options
    /\ cfgOk = FALSE
    /\ done = {}
    /\ dialed = FALSE
    /\ run = "idle"
    /\ runResult = "none"
    /\ serve = "idle"
    /\ serveErr = "none"
    /\ errorChan = <<>>
    /\ shutdown = FALSE
    /\ ctxDone = FALSE
    /\ signaled = FALSE

-----------------------------------------------------------------------------
(* Construction.                                                           *)

\* New(options...): the options go to svc.Options; the config and the
\* controller may fail; then svc.Server, models and repositories are checked.
\* Nothing assigns svc.Server.
New ==
    /\ svc = "none"
    /\ cfgOk' \in BOOLEAN
    /\ svc' = IF cfgOk' /\ svcServer /\ opts.models /\ opts.repos
              THEN "created" ELSE "panicked"
    /\ UNCHANGED <<svcServer, opts, done, dialed, run, runResult, serve,
                   serveErr, errorChan, shutdown, ctxDone, signaled>>

\* A Service built as a struct literal with its Server field set.
Literal ==
    /\ svc = "none"
    /\ opts.server
    /\ svc' = "created"
    /\ svcServer' = TRUE
    /\ UNCHANGED <<opts, cfgOk, done, dialed, run, runResult, serve, serveErr,
                   errorChan, shutdown, ctxDone, signaled>>

-----------------------------------------------------------------------------
(* Initialize.                                                             *)

\* The steps Initialize takes with these options: mapping only when some
\* model is left to map, migrating only when models are listed to migrate,
\* the server only when one is set.
Applicable ==
    {st \in Steps :
        /\ st = "map" => ~ opts.allNonRepo
        /\ st = "migrate" => opts.migrate
        /\ st = "collections" => opts.collections
        /\ st = "server" => svcServer}

\* The applicable steps before step i.
Before(i) == {InitSteps[j] : j \in 1 .. i - 1} \cap Applicable

\* Initialize(ctx): each step in turn; the first error is returned at once.
\* DialAll may open some connections before it fails.
Initialize ==
    /\ svc = "created"
    /\ \/ /\ done' = Applicable
          /\ svc' = "initialized"
          /\ dialed' = TRUE
       \/ \E i \in DOMAIN InitSteps :
            /\ InitSteps[i] \in Applicable
            /\ done' = Before(i)
            /\ svc' = "initFailed"
            /\ dialed' \in IF i = 2 THEN BOOLEAN ELSE {i > 2}
    /\ UNCHANGED <<svcServer, opts, cfgOk, run, runResult, serve, serveErr,
                   errorChan, shutdown, ctxDone, signaled>>

\* CloseAll(ctx): closes every repository connection.
CloseAll ==
    /\ svc \in {"initialized", "initFailed"}
    /\ dialed
    /\ dialed' = FALSE
    /\ UNCHANGED <<svc, svcServer, opts, cfgOk, done, run, runResult, serve, serveErr,
                   errorChan, shutdown, ctxDone, signaled>>

-----------------------------------------------------------------------------
(* Run.                                                                    *)

\* Mutation: an unbuffered errorChan, make(chan error).
ErrorChanCapUnbuffered == 0

\* The capacity of errorChan: make(chan error, 1).
ErrorChanCap == 1

\* Without HandleSignals Run is Server.Serve itself.
RunDirect ==
    /\ svc = "initialized"
    /\ run = "idle"
    /\ ~ opts.handleSignals
    /\ run' = "direct"
    /\ UNCHANGED <<svc, svcServer, opts, cfgOk, done, dialed, runResult, serve,
                   serveErr, errorChan, shutdown, ctxDone, signaled>>

\* Serve returns to the direct caller: Run returns its error.
DirectReturn ==
    /\ run = "direct"
    /\ \E e \in {"nil", "failure"} :
         /\ serveErr' = e
         /\ runResult' = IF e = "nil" THEN "nil" ELSE "serveErr"
    /\ run' = "done"
    /\ UNCHANGED <<svc, svcServer, opts, cfgOk, done, dialed, serve, errorChan,
                   shutdown, ctxDone, signaled>>

\* signal.Notify on `quit`, make errorChan, start the serving goroutine.
RunStart ==
    /\ svc = "initialized"
    /\ run = "idle"
    /\ opts.handleSignals
    /\ run' = "select"
    /\ serve' = "serving"
    /\ UNCHANGED <<svc, svcServer, opts, cfgOk, done, dialed, runResult, serveErr,
                   errorChan, shutdown, ctxDone, signaled>>

\* Serve returns on its own: a failure is to be sent to errorChan, and nil
\* (or ErrServerClosed) ends the goroutine silently.
ServeReturns ==
    /\ serve = "serving"
    /\ ~ shutdown
    /\ \E e \in {"nil", "failure"} :
         /\ serveErr' = e
         /\ serve' = IF e = "failure" THEN "send" ELSE "exit"
    /\ UNCHANGED <<svc, svcServer, opts, cfgOk, done, dialed, run, runResult,
                   errorChan, shutdown, ctxDone, signaled>>

\* After Shutdown, Serve returns ErrServerClosed, which is not sent.
ServeClosed ==
    /\ serve = "serving"
    /\ shutdown
    /\ serveErr' = "closed"
    /\ serve' = "exit"
    /\ UNCHANGED <<svc, svcServer, opts, cfgOk, done, dialed, run, runResult,
                   errorChan, shutdown, ctxDone, signaled>>

\* Mutation: the goroutine logs the failure and never sends it.
SendErrDropped ==
    /\ serve = "send"
    /\ serve' = "exit"
    /\ UNCHANGED <<svc, svcServer, opts, cfgOk, done, dialed, run, runResult,
                   serveErr, errorChan, shutdown, ctxDone, signaled>>

\* `errorChan <- err` into the buffer.
SendErr ==
    /\ serve = "send"
    /\ Len(errorChan) < ErrorChanCap
    /\ errorChan' = Append(errorChan, "failure")
    /\ serve' = "exit"
    /\ UNCHANGED <<svc, svcServer, opts, cfgOk, done, dialed, run, runResult,
                   serveErr, shutdown, ctxDone, signaled>>

\* The select: the context, a signal, or the serve error, whichever is
\* ready; an error waiting in the buffer or handed over by a blocked sender
\* is returned at once.
Select ==
    /\ run = "select"
    /\ \/ /\ ctxDone
          /\ run' = "shutdown"
          /\ UNCHANGED <<runResult, serve, errorChan, signaled>>
       \/ /\ signaled
          /\ run' = "shutdown"
          /\ signaled' = FALSE
          /\ UNCHANGED <<runResult, serve, errorChan>>
       \/ /\ errorChan # <<>>
          /\ errorChan' = Tail(errorChan)
          /\ run' = "done"
          /\ runResult' = "serveErr"
          /\ UNCHANGED <<serve, signaled>>
       \/ /\ errorChan = <<>>
          /\ serve = "send"
          /\ serve' = "exit"
          /\ run' = "done"
          /\ runResult' = "serveErr"
          /\ UNCHANGED <<errorChan, signaled>>
    /\ UNCHANGED <<svc, svcServer, opts, cfgOk, done, dialed, serveErr, shutdown,
                   ctxDone>>

\* Server.Shutdown with a 20 second timeout; Run returns its error.
Shutdown ==
    /\ run = "shutdown"
    /\ shutdown' = TRUE
    /\ run' = "done"
    /\ runResult' \in {"nil", "shutdownErr"}
    /\ UNCHANGED <<svc, svcServer, opts, cfgOk, done, dialed, serve, serveErr,
                   errorChan, ctxDone, signaled>>

\* The environment: the context is cancelled; a signal arrives on `quit`
\* (registered from RunStart on, never stopped, buffered 1).
CancelContext ==
    /\ ~ ctxDone
    /\ ctxDone' = TRUE
    /\ UNCHANGED <<svc, svcServer, opts, cfgOk, done, dialed, run, runResult, serve,
                   serveErr, errorChan, shutdown, signaled>>

Signal ==
    /\ run # "idle" /\ run # "direct"
    /\ ~ signaled
    /\ signaled' = TRUE
    /\ UNCHANGED <<svc, svcServer, opts, cfgOk, done, dialed, run, runResult, serve,
                   serveErr, errorChan, shutdown, ctxDone>>

\* The program has stopped: a panic, or Run returned and the connections
\* are closed or were never opened (a goroutine left behind does not keep
\* the program alive).
Stopped ==
    /\ \/ svc = "panicked"
       \/ run = "done" /\ ~ dialed
       \/ svc = "initFailed" /\ ~ dialed
    /\ UNCHANGED vars

Next ==
    \/ New \/ Literal \/ Initialize \/ CloseAll
    \/ RunDirect \/ DirectReturn
    \/ RunStart \/ ServeReturns \/ ServeClosed \/ SendErr \/ Select \/ Shutdown
    \/ CancelContext \/ Signal
    \/ Stopped

\* The goroutines of Run and of Serve run whenever they can; the server
\* returns from Serve once shut down.  The context and signals are not
\* fair: they may never come.
Fairness ==
    /\ WF_vars(Select) /\ WF_vars(Shutdown)
    /\ WF_vars(SendErr) /\ WF_vars(ServeClosed)

Spec == Init /\ [][Next]_vars /\ Fairness

-----------------------------------------------------------------------------
(* Properties.                                                             *)

\* The serving goroutine of Run never leaks: once Run has returned, the
\* goroutine ends, even when Serve failed while Run was leaving the select
\* for the context or a signal (the buffer of errorChan takes the error).
ServeGoroutineEnds ==
    (run = "done" /\ serve \in {"serving", "send"}) ~> (serve = "exit")

\* A failure of Serve is not lost: Run returns, whether it was waiting in
\* the select or already shutting down.
ServeFailureReturns ==
    (serveErr = "failure") ~> (run = "done")

\* New panics only on invalid options, as its messages say: no server, no
\* models, no repositories, or a bad configuration.  Given a server, models,
\* repositories and a valid configuration it returns the service.
NewAcceptsValidOptions ==
    svc = "panicked" => ~ (cfgOk /\ opts.server /\ opts.models /\ opts.repos)

=============================================================================
