-------------------------- MODULE ServiceLifecycle --------------------------
(***************************************************************************)
(* The life of the service process: main's run, Server.Run with its        *)
(* readiness probe, the goroutines started by onReady (the registrar and   *)
(* the status monitor), the requests in flight, and the way out through    *)
(* the deferred calls.  main waits for the HTTP server only.               *)
(*                                                                         *)
(* The registrar is the module Registrar; of the monitor only its start    *)
(* and its end are of interest here, and that it publishes in between.     *)
(***************************************************************************)
EXTENDS Naturals

CONSTANTS
    Client,             \* HTTP clients, one request each
    InitialBackoff,     \* those of the registrar
    MaxBackoff

ASSUME BackoffAssumption ==
    /\ InitialBackoff \in Nat \ {0}
    /\ MaxBackoff \in Nat
    /\ InitialBackoff <= MaxBackoff

VARIABLES
    main,       \* where main's goroutine is
    status,     \* the exit status it is going to leave
    serve,      \* the listener: off, accepting, failed or closed
    url,        \* the listener's address makes a URL for the probe
    deadline,   \* the readiness probe's deadline has passed
    healthy,    \* the health endpoint answers within the probe's timeout
    probed,     \* history: the health endpoint has answered 200
    req,        \* req[c]: the request of client c
    publisher,  \* the NATS connection
    monitor,    \* the goroutine of monitor.Start
    missed      \* history: a publish met a closed connection

VARIABLES loop, backoff, elapsed, verdict, refused, entry, ctxDone

Reg == INSTANCE Registrar

regVars == <<loop, backoff, elapsed, verdict, refused, entry>>
srvVars == <<serve, url, deadline, healthy, probed, req>>
monVars == <<publisher, monitor, missed>>
vars == <<main, status, srvVars, monVars, regVars, ctxDone>>

Setup == {"load", "listen", "newRegistrar", "connect", "newClient"}
Running == {"probe", "probeWait", "onReady", "serving", "shutdown"}
Unwinding == {"closePublisher", "stopSignals"}

TypeOK ==
    /\ main \in Setup \cup Running \cup Unwinding \cup {"exited"}
    /\ status \in 0..1
    /\ serve \in {"off", "accepting", "failed", "closed"}
    /\ url \in BOOLEAN
    /\ deadline \in BOOLEAN
    /\ healthy \in BOOLEAN
    /\ probed \in BOOLEAN
    /\ req \in [Client -> {"none", "active", "answered", "cut"}]
    /\ publisher \in {"none", "open", "closed"}
    /\ monitor \in {"off", "running", "returned"}
    /\ missed \in BOOLEAN
    /\ Reg!TypeOK

Init ==
    /\ main = "load"
    /\ status = 0
    /\ serve = "off"
    /\ url \in BOOLEAN
    /\ deadline = FALSE
    /\ healthy \in BOOLEAN
    /\ probed = FALSE
    /\ req = [c \in Client |-> "none"]
    /\ publisher = "none"
    /\ monitor = "off"
    /\ missed = FALSE
    /\ Reg!Init

Alive == main # "exited"
InFlight == {c \in Client : req[c] = "active"}

-----------------------------------------------------------------------------
(* Start-up: each step may fail, which ends the process.                   *)

NextStage(s) ==
    CASE s = "load" -> "listen"
      [] s = "listen" -> "newRegistrar"
      [] s = "newRegistrar" -> "connect"
      [] s = "connect" -> "newClient"
      [] s = "newClient" -> "probe"

SetUp ==
    /\ main \in Setup
    /\ \/ /\ main' = NextStage(main)
          /\ publisher' = IF main = "connect" THEN "open" ELSE publisher
          /\ serve' = IF main = "newClient" THEN "accepting" ELSE serve
          /\ UNCHANGED status
       \/ /\ main' = IF main = "load" THEN "exited" ELSE "closePublisher"
          /\ status' = 1
          /\ UNCHANGED <<publisher, serve>>
    /\ UNCHANGED <<url, deadline, healthy, probed, req, monitor, missed, regVars, ctxDone>>

-----------------------------------------------------------------------------
(* The readiness probe.                                                    *)

\* An address that makes no URL (an IPv6 zone does not) ends the probe at once.
Probe ==
    /\ main = "probe"
    /\ \/ /\ ~url
          /\ main' = "serving"
          /\ UNCHANGED probed
       \/ /\ url /\ serve = "accepting" /\ healthy /\ ~ctxDone
          /\ main' = "onReady"
          /\ probed' = TRUE
       \/ /\ url /\ (serve # "accepting" \/ ~healthy \/ ctxDone)
          /\ main' = "probeWait"
          /\ UNCHANGED probed
    /\ UNCHANGED <<status, serve, url, deadline, healthy, req, monVars, regVars, ctxDone>>

ProbeDeadline ==
    /\ main \in {"probe", "probeWait"}
    /\ ~deadline
    /\ deadline' = TRUE
    /\ UNCHANGED <<main, status, serve, url, healthy, probed, req, monVars, regVars, ctxDone>>

\* The ticker is taken, also when the deadline or the context are due as well.
ProbeAgain ==
    /\ main = "probeWait"
    /\ main' = "probe"
    /\ UNCHANGED <<status, srvVars, monVars, regVars, ctxDone>>

\* Mutant of ProbeSkip: the probe is not repeated.
ProbeSkipEarly ==
    /\ main = "probeWait"
    /\ main' = "serving"
    /\ UNCHANGED <<status, srvVars, monVars, regVars, ctxDone>>

\* The probe gives up: Run goes on without calling onReady, now or later.
ProbeSkip ==
    /\ main = "probeWait"
    /\ deadline \/ ctxDone
    /\ main' = "serving"
    /\ UNCHANGED <<status, srvVars, monVars, regVars, ctxDone>>

\* onReady starts the registrar and the monitor, each on its own goroutine.
OnReady ==
    /\ main = "onReady"
    /\ main' = "serving"
    /\ Reg!Start
    /\ monitor' = "running"
    /\ UNCHANGED <<status, srvVars, publisher, missed>>

-----------------------------------------------------------------------------
(* Requests, and the end of the server.                                    *)

Request(c) ==
    /\ Alive /\ serve = "accepting" /\ req[c] = "none"
    /\ req' = [req EXCEPT ![c] = "active"]
    /\ UNCHANGED <<main, status, serve, url, deadline, healthy, probed, monVars, regVars, ctxDone>>

Respond(c) ==
    /\ Alive /\ req[c] = "active"
    /\ req' = [req EXCEPT ![c] = "answered"]
    /\ UNCHANGED <<main, status, serve, url, deadline, healthy, probed, monVars, regVars, ctxDone>>

\* Serve returns an error that is not ErrServerClosed.
ServeFails ==
    /\ Alive /\ serve = "accepting"
    /\ serve' = "failed"
    /\ UNCHANGED <<main, status, url, deadline, healthy, probed, req, monVars, regVars, ctxDone>>

\* Mutant of StopServing: the connection is closed as soon as the context is
\* cancelled.
StopServingCloses ==
    /\ main = "serving"
    /\ ctxDone
    /\ main' = "shutdown"
    /\ publisher' = "closed"
    /\ UNCHANGED <<status, srvVars, monitor, missed, regVars, ctxDone>>

\* Run's select: the context (Shutdown closes the listener), or serveCh.
StopServing ==
    /\ main = "serving"
    /\ \/ /\ ctxDone
          /\ main' = "shutdown"
          /\ serve' = IF serve = "accepting" THEN "closed" ELSE serve
          /\ UNCHANGED status
       \/ /\ serve = "failed"
          /\ main' = "closePublisher"
          /\ status' = 1
          /\ UNCHANGED serve
    /\ UNCHANGED <<url, deadline, healthy, probed, req, monVars, regVars, ctxDone>>

\* Mutants of Drained and ShutdownTimeout: Shutdown does not wait for the
\* requests in flight; it waits for them without a limit.
DrainedAtOnce ==
    /\ main = "shutdown"
    /\ main' = "closePublisher"
    /\ UNCHANGED <<status, srvVars, monVars, regVars, ctxDone>>

Drained ==
    /\ main = "shutdown"
    /\ InFlight = {}
    /\ main' = "closePublisher"
    /\ UNCHANGED <<status, srvVars, monVars, regVars, ctxDone>>

NoShutdownTimeout == FALSE /\ UNCHANGED vars

ShutdownTimeout ==
    /\ main = "shutdown"
    /\ InFlight # {}
    /\ main' = "closePublisher"
    /\ status' = 1
    /\ UNCHANGED <<srvVars, monVars, regVars, ctxDone>>

-----------------------------------------------------------------------------
(* The deferred calls, last one first, and the exit.                       *)

ClosePublisher ==
    /\ main = "closePublisher"
    /\ main' = "stopSignals"
    /\ publisher' = IF publisher = "open" THEN "closed" ELSE publisher
    /\ UNCHANGED <<status, srvVars, monitor, missed, regVars, ctxDone>>

\* stop() cancels the context; ln.Close; the process ends and cuts what runs.
Exit ==
    /\ main = "stopSignals"
    /\ main' = "exited"
    /\ ctxDone' = TRUE
    /\ serve' = IF serve = "accepting" THEN "closed" ELSE serve
    /\ req' = [c \in Client |-> IF req[c] = "active" THEN "cut" ELSE req[c]]
    /\ UNCHANGED <<status, url, deadline, healthy, probed, monVars, regVars>>

\* SIGTERM or SIGINT: before NotifyContext it kills the process.
Signal ==
    /\ Alive /\ ~ctxDone
    /\ IF main \in {"load", "listen"}
       THEN main' = "exited" /\ status' = 1 /\ UNCHANGED ctxDone
       ELSE ctxDone' = TRUE /\ UNCHANGED <<main, status>>
    /\ UNCHANGED <<srvVars, monVars, regVars>>

-----------------------------------------------------------------------------
(* The goroutines of onReady, and what is outside.                         *)

Registration ==
    /\ Alive
    /\ Reg!Run
    /\ UNCHANGED <<main, status, srvVars, monVars>>

Publish ==
    /\ Alive /\ monitor = "running"
    /\ missed' = (missed \/ publisher = "closed")
    /\ UNCHANGED <<main, status, srvVars, publisher, monitor, regVars, ctxDone>>

\* monitor.Start returns: its context is cancelled, or its caches failed.
MonitorReturns ==
    /\ Alive /\ monitor = "running"
    /\ monitor' = "returned"
    /\ UNCHANGED <<main, status, srvVars, publisher, missed, regVars, ctxDone>>

\* The health endpoint asks the Kubernetes API server, which may be slow.
Health ==
    /\ Alive
    /\ healthy' = ~healthy
    /\ UNCHANGED <<main, status, serve, url, deadline, probed, req, monVars, regVars, ctxDone>>

Exited == ~Alive /\ UNCHANGED vars

Main ==
    \/ SetUp \/ Probe \/ ProbeAgain \/ ProbeSkip \/ OnReady
    \/ StopServing \/ Drained \/ ShutdownTimeout \/ ClosePublisher \/ Exit

Next ==
    \/ Main \/ ProbeDeadline
    \/ \E c \in Client : Request(c) \/ Respond(c)
    \/ ServeFails \/ Signal
    \/ Registration \/ Publish \/ MonitorReturns
    \/ Health \/ Exited

Spec == Init /\ [][Next]_vars

\* main's goroutine and the probe's timer run, and so do the timeouts that main
\* waits for; a select with several cases due takes each of them at some time.
\* No handler has to answer, no probe has to succeed, nobody sends a signal.
FairSpec == Spec /\ WF_vars(Main) /\ WF_vars(ProbeDeadline) /\ SF_vars(ProbeSkip)

-----------------------------------------------------------------------------
\* Registration and monitoring begin only after the server has answered its own
\* health endpoint (server.go:78-81), whatever cut the probe short; and a server
\* that serves without them has given its probe up, because the deadline has
\* passed, the process is on its way out or there was nothing to probe.
StartedWhenReady ==
    /\ loop # "off" \/ monitor # "off" => probed
    /\ main = "serving" /\ loop = "off" => (deadline \/ ctxDone \/ ~url) /\ monitor = "off"

\* An exit with status 0 follows a shutdown that left no request without its
\* answer (AC-HTTP-030), and leaves no listener behind.
CleanExit ==
    main = "exited" /\ status = 0 =>
        /\ \A c \in Client : req[c] \in {"none", "answered"}
        /\ serve \in {"closed", "failed"}
        /\ publisher = "closed"

\* main does not wait for the monitor, so a publish may meet a closed
\* connection, but not before the HTTP server is done: as long as requests are
\* served or drained, status events have somewhere to go.
MissedOnlyOnExit == missed => main \in {"stopSignals", "exited"}

\* Whatever the probe, the handlers and the goroutines of onReady are doing, a
\* signal ends the process.
ShutdownEnds == ctxDone ~> main = "exited"
=============================================================================
