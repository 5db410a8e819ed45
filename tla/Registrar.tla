----------------------------- MODULE Registrar -----------------------------
(***************************************************************************)
(* The registrar of internal/registration: Start launches one goroutine,   *)
(* which sends the provider to the DCM registry until an answer is final   *)
(* or the context is cancelled, and sleeps between attempts, each time     *)
(* twice as long up to a limit.  Done is closed when the goroutine ends.   *)
(*                                                                         *)
(* The registry is external: it may record the provider and answer 200 or  *)
(* 201, refuse it with a 4xx, or fail to answer in any other way, possibly *)
(* after it has recorded the provider.                                     *)
(***************************************************************************)
EXTENDS Naturals

CONSTANTS
    InitialBackoff,     \* Registrar.initialBackoff
    MaxBackoff          \* Registrar.maxBackoff

\* What NewRegistrar sets; its options would allow an initial backoff above the
\* maximum, which the first sleep would not respect.
ASSUME BackoffAssumption ==
    /\ InitialBackoff \in Nat \ {0}
    /\ MaxBackoff \in Nat
    /\ InitialBackoff <= MaxBackoff

VARIABLES
    loop,       \* where the goroutine of Start is; "ended" closes Done
    backoff,    \* the local variable of run
    elapsed,    \* the timer of the current sleep has fired
    verdict,    \* how run ended
    refused,    \* history: a 4xx was received
    entry,      \* registry: the provider is recorded
    ctxDone     \* the context given to Start is cancelled

vars == <<loop, backoff, elapsed, verdict, refused, entry, ctxDone>>

TypeOK ==
    /\ loop \in {"off", "send", "reply", "sleep", "ended"}
    /\ backoff \in InitialBackoff..MaxBackoff
    /\ elapsed \in BOOLEAN
    /\ verdict \in {"none", "registered", "rejected", "cancelled"}
    /\ refused \in BOOLEAN
    /\ entry \in BOOLEAN
    /\ ctxDone \in BOOLEAN

Init ==
    /\ loop = "off"
    /\ backoff = InitialBackoff
    /\ elapsed = FALSE
    /\ verdict = "none"
    /\ refused = FALSE
    /\ entry \in BOOLEAN        \* a former run of the service may have registered
    /\ ctxDone = FALSE

-----------------------------------------------------------------------------
\* startOnce: only the first call launches the goroutine.
Start ==
    /\ loop' = IF loop = "off" THEN "send" ELSE loop
    /\ UNCHANGED <<backoff, elapsed, verdict, refused, entry, ctxDone>>

\* run goes to its select with a new timer.
Sleep ==
    /\ loop' = "sleep"
    /\ elapsed' = FALSE
    /\ UNCHANGED verdict

\* run returns, and the deferred close(r.done) with it.
Finish(v) ==
    /\ loop' = "ended"
    /\ verdict' = v
    /\ UNCHANGED elapsed

\* register sends its request, unless the context is cancelled already.
Send ==
    /\ loop = "send"
    /\ \/ ctxDone /\ Sleep /\ UNCHANGED entry
       \/ /\ ~ctxDone
          /\ loop' = "reply"
          /\ entry' \in {entry, TRUE}
          /\ UNCHANGED <<elapsed, verdict>>
    /\ UNCHANGED <<backoff, refused, ctxDone>>

\* Mutants of Reply: a 4xx is retried like any other error; any error is final.
ReplyRetriesAll ==
    /\ loop = "reply"
    /\ \/ entry /\ Finish("registered") /\ UNCHANGED refused
       \/ refused' = TRUE /\ Sleep
       \/ Sleep /\ UNCHANGED refused
    /\ UNCHANGED <<backoff, entry, ctxDone>>

ReplyRetriesNone ==
    /\ loop = "reply"
    /\ \/ entry /\ Finish("registered") /\ UNCHANGED refused
       \/ refused' = TRUE /\ Finish("rejected")
       \/ Finish("none") /\ UNCHANGED refused
    /\ UNCHANGED <<backoff, entry, ctxDone>>

\* The answer is a 200 or 201, a 4xx, or neither: another status, an error of
\* the transport, a timeout, a context cancelled in the meantime.
Reply ==
    /\ loop = "reply"
    /\ \/ entry /\ Finish("registered") /\ UNCHANGED refused
       \/ refused' = TRUE /\ Finish("rejected")
       \/ Sleep /\ UNCHANGED refused
    /\ UNCHANGED <<backoff, entry, ctxDone>>

Elapse ==
    /\ loop = "sleep" /\ ~elapsed
    /\ elapsed' = TRUE
    /\ UNCHANGED <<loop, backoff, verdict, refused, entry, ctxDone>>

\* Mutant of Resume: the limit is left out.
ResumeUncapped ==
    /\ loop = "sleep" /\ elapsed
    /\ loop' = "send"
    /\ backoff' = 2 * backoff
    /\ UNCHANGED <<elapsed, verdict, refused, entry, ctxDone>>

\* The select takes the timer: the next sleep is twice as long, up to the limit.
Resume ==
    /\ loop = "sleep" /\ elapsed
    /\ loop' = "send"
    /\ backoff' = IF 2 * backoff > MaxBackoff THEN MaxBackoff ELSE 2 * backoff
    /\ UNCHANGED <<elapsed, verdict, refused, entry, ctxDone>>

\* Mutant of GiveUp: the context is not looked at during a sleep.
NeverGiveUp == FALSE /\ UNCHANGED vars

\* The select takes the cancelled context, also when the timer has fired too:
\* timer.Stop and the drain of timer.C after it never block.
GiveUp ==
    /\ loop = "sleep" /\ ctxDone
    /\ Finish("cancelled")
    /\ UNCHANGED <<backoff, refused, entry, ctxDone>>

Run == Send \/ Reply \/ Elapse \/ Resume \/ GiveUp

Cancel ==
    /\ ~ctxDone
    /\ ctxDone' = TRUE
    /\ UNCHANGED <<loop, backoff, elapsed, verdict, refused, entry>>

Next == Start \/ Run \/ Cancel

Spec == Init /\ [][Next]_vars

\* The goroutine and its timer run.  When the timer and the context are both
\* due, select picks one at random, so that it does not miss the context for
\* ever: strong fairness.  The registry owes nothing.
FairSpec == Spec /\ WF_vars(Run) /\ SF_vars(GiveUp)

-----------------------------------------------------------------------------
\* Registration is over for good once an answer was final: a 4xx is not retried
\* (REQ-REG-040), a registrar that says so is recorded, and no later call of Start
\* begins again what has ended (registration.go:131-146).
FinalAnswer ==
    /\ refused => loop = "ended" /\ verdict = "rejected"
    /\ verdict = "registered" => entry
    /\ verdict # "none" => loop = "ended"

\* Done is closed when run has returned, and whatever calls of Start follow,
\* nothing begins again and nothing is closed twice (DoneIsForEver proves it).
DoneStays == [][loop = "ended" => UNCHANGED <<loop, backoff, verdict>>]_vars

\* The registrar does not give up by itself: it gets a final answer, or its
\* context is cancelled, or it sends requests for ever (REQ-REG-040).
RetriesUntilOver ==
    \/ loop # "off" ~> (verdict \in {"registered", "rejected"} \/ ctxDone)
    \/ []<>(loop = "reply")

\* A cancelled registrar ends, wherever the cancellation meets it.
CancelEnds == loop # "off" /\ ctxDone ~> loop = "ended"
=============================================================================
