-------------------------- MODULE RegistrarProofs --------------------------
(***************************************************************************)
(* Theorems about Registrar, for every initial and maximal backoff.        *)
(***************************************************************************)
EXTENDS Registrar, TLAPS

\* A 4xx ends the loop at once, and an ended loop has nothing left to refuse:
\* what FinalAnswer says is inductive.
IInv == TypeOK /\ FinalAnswer

LEMMA InitIInv == Init => IInv
  <1>. SUFFICES ASSUME Init PROVE IInv
    OBVIOUS
  <1>1. backoff \in InitialBackoff..MaxBackoff
    BY BackoffAssumption DEF Init
  <1>2. entry \in BOOLEAN
    BY DEF Init
  <1>3. FinalAnswer
    BY DEF Init, FinalAnswer
  <1>. QED
    BY <1>1, <1>2, <1>3, Zenon DEF Init, IInv, TypeOK

\* Doubling stays within the limit, once it has begun there.
LEMMA DoublingBounded ==
    ASSUME NEW b \in InitialBackoff..MaxBackoff
    PROVE  (IF 2 * b > MaxBackoff THEN MaxBackoff ELSE 2 * b)
               \in InitialBackoff..MaxBackoff
  BY BackoffAssumption

LEMMA NextIInv == IInv /\ [Next]_vars => IInv'
  <1>. SUFFICES ASSUME IInv, [Next]_vars PROVE IInv'
    OBVIOUS
  <1>. USE DEF IInv, TypeOK, FinalAnswer
  <1>1. CASE Start
    BY <1>1 DEF Start
  <1>2. CASE Send
    BY <1>2 DEF Send, Sleep
  <1>3. CASE Reply
    <2>. USE <1>3 DEF Reply
    <2>1. CASE entry /\ Finish("registered") /\ UNCHANGED refused
      <3>1. entry' = TRUE
        BY <2>1, Zenon
      <3>2. ~refused
        BY <2>1
      <3>. QED  BY <2>1, <3>1, <3>2 DEF Finish
    <2>2. CASE refused' = TRUE /\ Finish("rejected")
      BY <2>2 DEF Finish
    <2>3. CASE Sleep /\ UNCHANGED refused
      BY <2>3 DEF Sleep
    <2>. QED  BY <2>1, <2>2, <2>3
  <1>4. CASE Elapse
    BY <1>4 DEF Elapse
  <1>5. CASE Resume
    BY <1>5, DoublingBounded DEF Resume
  <1>6. CASE GiveUp
    BY <1>6 DEF GiveUp, Finish
  <1>7. CASE Cancel
    BY <1>7 DEF Cancel
  <1>8. CASE UNCHANGED vars
    BY <1>8 DEF vars
  <1>. QED
    BY <1>1, <1>2, <1>3, <1>4, <1>5, <1>6, <1>7, <1>8 DEF Next, Run

THEOREM Invariance == Spec => []IInv
  BY InitIInv, NextIInv, PTL DEF Spec

\* The variables keep their types; in particular every sleep lies between the
\* initial and the maximal backoff (registration.go:152-176).
THEOREM TypeCorrect == Spec => []TypeOK
  BY Invariance, PTL DEF IInv

\* A 4xx is never followed by another attempt, success is never claimed without
\* an entry in the registry, and a verdict ends the loop (registration.go:131-206).
THEOREM AnswersAreFinal == Spec => []FinalAnswer
  BY Invariance, PTL DEF IInv

\* Done is closed once and for all (registration.go:131-146).
THEOREM DoneIsForEver == Spec => DoneStays
  <1>1. IInv /\ [Next]_vars => [loop = "ended" => UNCHANGED <<loop, backoff, verdict>>]_vars
    BY DEF Next, Run, Start, Send, Reply, Elapse, Resume, GiveUp, Cancel, vars
  <1>. QED
    BY <1>1, Invariance, PTL DEF Spec, DoneStays
=============================================================================
