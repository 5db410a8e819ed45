----------------------- MODULE ServiceLifecycleProofs -----------------------
(***************************************************************************)
(* Theorems about ServiceLifecycle, for any clients and backoffs.          *)
(***************************************************************************)
EXTENDS ServiceLifecycle, TLAPS

\* Where main is says which of its resources it has: nothing serves or runs
\* before the probe, the connection to NATS is open from its start-up step to the
\* deferred Close.
Acquired ==
    /\ main \in Setup => serve = "off" /\ loop = "off"
    /\ main \in Setup => publisher = IF main = "newClient" THEN "open" ELSE "none"
    /\ main \in Running => publisher = "open" /\ serve # "off"
    /\ publisher = "closed" => main \in {"stopSignals", "exited"}

\* onReady is called after an answer to the probe, and starts both goroutines in
\* one step of main.
Begun ==
    /\ main \in {"probe", "probeWait", "onReady"} => loop = "off"
    /\ main = "onReady" => probed
    /\ loop = "off" <=> monitor = "off"

\* A way out with status 0 is the one through Shutdown, and has nobody left to
\* answer: the listener is closed, or Serve has failed.
CleanWay ==
    /\ main \in Setup \cup Running => status = 0
    /\ main = "shutdown" => serve \in {"closed", "failed"}
    /\ main \in Unwinding \cup {"exited"} /\ status = 0 =>
         /\ serve \in {"closed", "failed"}
         /\ \A c \in Client : req[c] # "active"
         /\ main # "closePublisher" => publisher = "closed"
         /\ main = "closePublisher" => publisher = "open"
    /\ Alive => \A c \in Client : req[c] # "cut"

IInv ==
    /\ TypeOK
    /\ Acquired /\ Begun /\ CleanWay
    /\ StartedWhenReady /\ CleanExit /\ MissedOnlyOnExit

LEMMA InitIInv == Init => IInv
  <1>. SUFFICES ASSUME Init PROVE IInv
    OBVIOUS
  <1>. USE DEF Init, Reg!Init
  <1>1. TypeOK
    <2>1. backoff \in InitialBackoff..MaxBackoff
      BY BackoffAssumption
    <2>2. url \in BOOLEAN /\ healthy \in BOOLEAN /\ entry \in BOOLEAN
      OBVIOUS
    <2>3. status \in 0..1 /\ main \in Setup
      BY DEF Setup
    <2>. QED  BY <2>1, <2>2, <2>3, Zenon DEF TypeOK, Reg!TypeOK
  <1>2. Acquired /\ Begun
    BY DEF Acquired, Begun, Setup, Running
  <1>3. CleanWay
    BY DEF CleanWay, Setup, Running, Unwinding, Alive
  <1>4. StartedWhenReady /\ CleanExit /\ MissedOnlyOnExit
    BY DEF StartedWhenReady, CleanExit, MissedOnlyOnExit
  <1>. QED  BY <1>1, <1>2, <1>3, <1>4 DEF IInv

-----------------------------------------------------------------------------
(* One lemma per group of actions.                                         *)

LEMMA SetUpIInv == IInv /\ SetUp => IInv'
  <1>. SUFFICES ASSUME IInv, SetUp PROVE IInv'
    OBVIOUS
  <1>. USE DEF IInv, SetUp, NextStage, Setup, Running, Unwinding
  <1>1. TypeOK'
    BY DEF TypeOK, Reg!TypeOK, regVars
  <1>2. Acquired'
    BY DEF TypeOK, Acquired, MissedOnlyOnExit, regVars
  <1>3. Begun'
    BY DEF TypeOK, Acquired, Begun, regVars
  <1>4. CleanWay'
    BY DEF TypeOK, Acquired, CleanWay, Alive
  <1>5. StartedWhenReady' /\ CleanExit' /\ MissedOnlyOnExit'
    BY DEF TypeOK, Acquired, CleanWay, StartedWhenReady, CleanExit,
      MissedOnlyOnExit, regVars
  <1>. QED  BY <1>1, <1>2, <1>3, <1>4, <1>5

\* The probe, onReady and the goroutines of onReady leave the way out alone.
LEMMA ProbeIInv ==
    IInv /\ (Probe \/ ProbeAgain \/ ProbeSkip \/ ProbeDeadline) => IInv'
  <1>. SUFFICES ASSUME IInv, Probe \/ ProbeAgain \/ ProbeSkip \/ ProbeDeadline
                PROVE  IInv'
    OBVIOUS
  <1>. USE DEF IInv, Probe, ProbeAgain, ProbeSkip, ProbeDeadline, Setup, Running,
         Unwinding, srvVars, monVars, regVars
  <1>1. TypeOK'
    <2>1. main' \in Running /\ url' \in BOOLEAN /\ probed' \in BOOLEAN /\ deadline' \in BOOLEAN
      BY Zenon DEF TypeOK
    <2>. QED  BY <2>1 DEF TypeOK, Reg!TypeOK
  <1>2. Acquired'
    BY DEF TypeOK, Acquired
  <1>3. Begun'
    BY DEF TypeOK, Begun
  <1>4. CleanWay'
    BY DEF TypeOK, CleanWay, Alive
  <1>5. StartedWhenReady' /\ CleanExit' /\ MissedOnlyOnExit'
    BY DEF TypeOK, Acquired, Begun, StartedWhenReady, CleanExit, MissedOnlyOnExit
  <1>. QED  BY <1>1, <1>2, <1>3, <1>4, <1>5

LEMMA OnReadyIInv == IInv /\ OnReady => IInv'
  <1>. SUFFICES ASSUME IInv, OnReady PROVE IInv'
    OBVIOUS
  <1>. USE DEF IInv, OnReady, Reg!Start, Setup, Running, Unwinding, srvVars
  <1>1. TypeOK'
    BY DEF TypeOK, Reg!TypeOK
  <1>2. Acquired' /\ Begun'
    BY DEF TypeOK, Acquired, Begun
  <1>3. CleanWay'
    BY DEF TypeOK, CleanWay, Alive
  <1>4. StartedWhenReady' /\ CleanExit' /\ MissedOnlyOnExit'
    BY DEF TypeOK, Acquired, Begun, StartedWhenReady, CleanExit, MissedOnlyOnExit
  <1>. QED  BY <1>1, <1>2, <1>3, <1>4

LEMMA RegistrationIInv == IInv /\ Registration => IInv'
  <1>. SUFFICES ASSUME IInv, Registration PROVE IInv'
    OBVIOUS
  <1>. USE DEF IInv, Registration, srvVars, monVars
  <1>1. Reg!TypeOK' /\ loop # "off" /\ loop' # "off"
    <2>. USE DEF TypeOK, Reg!TypeOK
    <2>1. CASE Reg!Send
      BY <2>1 DEF Reg!Send, Reg!Sleep
    <2>2. CASE Reg!Reply
      <3>1. refused' \in BOOLEAN
        BY <2>2, Zenon DEF Reg!Reply
      <3>. QED  BY <2>2, <3>1 DEF Reg!Reply, Reg!Sleep, Reg!Finish
    <2>3. CASE Reg!Elapse
      BY <2>3 DEF Reg!Elapse
    <2>4. CASE Reg!Resume
      BY <2>4, BackoffAssumption DEF Reg!Resume
    <2>5. CASE Reg!GiveUp
      BY <2>5 DEF Reg!GiveUp, Reg!Finish
    <2>. QED  BY <2>1, <2>2, <2>3, <2>4, <2>5 DEF Reg!Run
  <1>2. ctxDone' = ctxDone
    BY DEF Reg!Run, Reg!Send, Reg!Reply, Reg!Elapse, Reg!Resume, Reg!GiveUp
  <1>3. TypeOK'
    BY <1>1 DEF TypeOK
  <1>4. Acquired' /\ Begun' /\ CleanWay'
    BY <1>1 DEF Acquired, Begun, CleanWay, Alive
  <1>5. StartedWhenReady' /\ CleanExit' /\ MissedOnlyOnExit'
    BY <1>1, <1>2 DEF StartedWhenReady, CleanExit, MissedOnlyOnExit
  <1>. QED  BY <1>3, <1>4, <1>5

LEMMA RequestsIInv ==
    ASSUME IInv, NEW c \in Client, Request(c) \/ Respond(c)
    PROVE  IInv'
  <1>. USE DEF IInv, Request, Respond, monVars, regVars
  <1>1. TypeOK'
    BY DEF TypeOK, Reg!TypeOK
  <1>2. Acquired' /\ Begun'
    BY DEF Acquired, Begun
  <1>3. CleanWay'
    BY DEF TypeOK, CleanWay, Alive
  <1>4. StartedWhenReady' /\ CleanExit' /\ MissedOnlyOnExit'
    BY DEF Alive, StartedWhenReady, CleanExit, MissedOnlyOnExit
  <1>. QED  BY <1>1, <1>2, <1>3, <1>4

LEMMA ServingIInv == IInv /\ (ServeFails \/ StopServing) => IInv'
  <1>. SUFFICES ASSUME IInv, ServeFails \/ StopServing PROVE IInv'
    OBVIOUS
  <1>. USE DEF IInv, ServeFails, StopServing, Setup, Running, Unwinding, monVars, regVars
  <1>1. TypeOK'
    BY DEF TypeOK, Reg!TypeOK
  <1>2. Acquired' /\ Begun'
    BY DEF TypeOK, Acquired, Begun, Alive
  <1>3. CleanWay'
    BY DEF TypeOK, Acquired, CleanWay, Alive
  <1>4. StartedWhenReady' /\ CleanExit' /\ MissedOnlyOnExit'
    BY DEF TypeOK, Acquired, Alive, StartedWhenReady, CleanExit, MissedOnlyOnExit
  <1>. QED  BY <1>1, <1>2, <1>3, <1>4

\* Shutdown drains the requests, or gives up on them with an error.
LEMMA ShutdownIInv == IInv /\ (Drained \/ ShutdownTimeout) => IInv'
  <1>. SUFFICES ASSUME IInv, Drained \/ ShutdownTimeout PROVE IInv'
    OBVIOUS
  <1>. USE DEF IInv, Drained, ShutdownTimeout, InFlight, Setup, Running, Unwinding,
         srvVars, monVars, regVars
  <1>1. TypeOK'
    BY DEF TypeOK, Reg!TypeOK
  <1>2. Acquired' /\ Begun'
    BY DEF TypeOK, Acquired, Begun
  <1>3. CleanWay'
    BY DEF TypeOK, Acquired, CleanWay, Alive
  <1>4. StartedWhenReady' /\ CleanExit' /\ MissedOnlyOnExit'
    BY DEF TypeOK, Acquired, StartedWhenReady, CleanExit, MissedOnlyOnExit
  <1>. QED  BY <1>1, <1>2, <1>3, <1>4

LEMMA LeavingIInv == IInv /\ (ClosePublisher \/ Exit) => IInv'
  <1>. SUFFICES ASSUME IInv, ClosePublisher \/ Exit PROVE IInv'
    OBVIOUS
  <1>. USE DEF IInv, ClosePublisher, Exit, Setup, Running, Unwinding, srvVars,
         monVars, regVars
  <1>1. TypeOK'
    <2>1. CASE ClosePublisher
      BY <2>1 DEF TypeOK, Reg!TypeOK
    <2>2. CASE Exit
      <3>1. ctxDone' \in BOOLEAN
        BY <2>2, Zenon
      <3>. QED  BY <2>2, <3>1 DEF TypeOK, Reg!TypeOK
    <2>. QED  BY <2>1, <2>2
  <1>2. Acquired' /\ Begun'
    BY DEF TypeOK, Acquired, Begun
  <1>3. CleanWay'
    BY DEF TypeOK, Acquired, CleanWay, Alive
  <1>4. StartedWhenReady' /\ MissedOnlyOnExit'
    BY DEF TypeOK, Acquired, StartedWhenReady, MissedOnlyOnExit
  <1>5. CleanExit'
    BY DEF TypeOK, CleanWay, CleanExit, Alive
  <1>. QED  BY <1>1, <1>2, <1>3, <1>4, <1>5

\* A signal before NotifyContext kills the process, one after it only cancels the
\* context; a publish after the connection is closed is on the way out.
LEMMA OutsideIInv ==
    IInv /\ (Signal \/ Publish \/ MonitorReturns \/ Health) => IInv'
  <1>. SUFFICES ASSUME IInv, Signal \/ Publish \/ MonitorReturns \/ Health
                PROVE  IInv'
    OBVIOUS
  <1>. USE DEF IInv, Signal, Publish, MonitorReturns, Health, Setup, Running,
         Unwinding, Alive, srvVars, monVars, regVars
  <1>1. TypeOK'
    <2>1. ctxDone' \in BOOLEAN /\ healthy' \in BOOLEAN /\ missed' \in BOOLEAN
      BY Zenon DEF TypeOK, Reg!TypeOK
    <2>. QED  BY <2>1 DEF TypeOK, Reg!TypeOK
  <1>2. Acquired' /\ Begun'
    BY DEF TypeOK, Acquired, Begun
  <1>3. CleanWay'
    BY DEF TypeOK, CleanWay
  <1>4. StartedWhenReady' /\ CleanExit' /\ MissedOnlyOnExit'
    BY DEF TypeOK, Acquired, Begun, StartedWhenReady, CleanExit, MissedOnlyOnExit
  <1>. QED  BY <1>1, <1>2, <1>3, <1>4

LEMMA NextIInv == IInv /\ [Next]_vars => IInv'
  <1>. SUFFICES ASSUME IInv, [Next]_vars PROVE IInv'
    OBVIOUS
  <1>1. CASE Main
    BY <1>1, SetUpIInv, ProbeIInv, OnReadyIInv, ServingIInv, ShutdownIInv,
      LeavingIInv DEF Main
  <1>2. CASE ProbeDeadline
    BY <1>2, ProbeIInv
  <1>3. CASE \E c \in Client : Request(c) \/ Respond(c)
    BY <1>3, RequestsIInv
  <1>4. CASE ServeFails
    BY <1>4, ServingIInv
  <1>5. CASE Registration
    BY <1>5, RegistrationIInv
  <1>6. CASE Signal \/ Publish \/ MonitorReturns \/ Health
    BY <1>6, OutsideIInv
  <1>7. CASE UNCHANGED vars
    BY <1>7 DEF vars, srvVars, monVars, regVars, IInv, TypeOK, Reg!TypeOK, Acquired,
      Begun, CleanWay, Alive, StartedWhenReady, CleanExit, MissedOnlyOnExit
  <1>. QED
    BY <1>1, <1>2, <1>3, <1>4, <1>5, <1>6, <1>7 DEF Next, Exited

THEOREM Invariance == Spec => []IInv
  BY InitIInv, NextIInv, PTL DEF Spec

\* The variables keep their types, the registrar's among them.
THEOREM TypeCorrect == Spec => []TypeOK
  BY Invariance, PTL DEF IInv

\* Nothing is registered or monitored before the health endpoint has answered, and
\* a server without both has given its probe up (server.go:393-415).
THEOREM ReadyFirst == Spec => []StartedWhenReady
  BY Invariance, PTL DEF IInv

\* Status 0 is the exit of a server that has drained its requests, closed its
\* listener and its connection to NATS (server.go:416-431, main.go:86-100).
THEOREM ExitsCleanly == Spec => []CleanExit
  BY Invariance, PTL DEF IInv

\* As long as the server serves or drains, no publish meets a connection that main
\* has closed (main.go:58).
THEOREM MissedLate == Spec => []MissedOnlyOnExit
  BY Invariance, PTL DEF IInv
=============================================================================
