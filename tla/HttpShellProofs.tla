--------------------------- MODULE HttpShellProofs ---------------------------
(***************************************************************************)
(* What an HTTP client is told of an exception and what becomes of an      *)
(* event are compatible, for all payloads and texts, and for any status an *)
(* error of any class may have.                                            *)
(***************************************************************************)
EXTENDS HttpShell, TLAPS

\* An HttpException has one of the statuses 4xx and 5xx, another error any or none.
Classified(e) ==
    \/ e.class = "http" /\ e.status \in 400 .. 599
    \/ e.class = "other" /\ e.status \in Nat \cup {Word, None}

\* A handler ran on a valid payload only; what was thrown, by it or by the pipe, is
\* an HttpException or another error.
ThrownInv ==
    /\ stage = "pipe" /\ invalid = <<>> => outcome \in Outcomes
    /\ stage = "handler" => outcome \in Outcomes
    /\ exception # None => Classified(exception)

\* Nothing is thrown yet, and an outcome is given where there will be one.
LEMMA ThrownInit == Init => ThrownInv
  BY DEF Init, ThrownInv, InvalidPost, InvalidEvent, Distinct

\* A wrong payload is a 400, whatever its errors are.
LEMMA FactoryClassified == \A errors : Classified(exceptionFactory(errors))
<1> SUFFICES ASSUME NEW errors  PROVE Classified(exceptionFactory(errors))
  OBVIOUS
<1> DEFINE items == flattenValidationErrors(errors, <<>>)
<1>1. exceptionFactory(errors) = [class |-> "http", status |-> 400, errors |-> items]
  BY DEF exceptionFactory
<1> HIDE DEF items
<1> QED  BY <1>1 DEF Classified

\* So is everything a handler throws.
LEMMA OutcomeClassified ==
    ASSUME outcome \in Outcomes, "returns" \notin DOMAIN outcome
    PROVE  Classified(outcome.throws)
<1>1. outcome \in [throws : Exceptions]
  BY DEF Outcomes
<1>2. outcome.throws \in Exceptions
  BY <1>1
<1> QED  BY <1>2, ShellAssumption DEF Exceptions, Classified

\* Validation, handler, interceptor and filter keep it.
LEMMA ThrownStep == ThrownInv /\ [Next]_vars => ThrownInv'
<1> SUFFICES ASSUME ThrownInv, [Next]_vars  PROVE ThrownInv'
  OBVIOUS
<1>1. CASE Validate
  <2>1. exception' # exception => exception' = exceptionFactory(invalid)
    BY <1>1 DEF Validate
  <2> QED  BY <1>1, <2>1, FactoryClassified DEF Validate, ThrownInv
<1>2. CASE Handle
  BY <1>2, OutcomeClassified DEF Handle, ThrownInv
<1>3. CASE Intercept
  BY <1>3 DEF Intercept, ThrownInv
<1>4. CASE Filter
  BY <1>4 DEF Filter, ThrownInv
<1>5. CASE UNCHANGED vars
  BY <1>5 DEF vars, ThrownInv
<1> QED  BY <1>1, <1>2, <1>3, <1>4, <1>5 DEF Next

\* The two verdicts on one exception.  What has no status is retried; an HttpException is to
\* both what its status says.
LEMMA VerdictsMeet ==
    ASSUME NEW e, Classified(e)
    PROVE  /\ RabbitVerdict(e) = "requeue" => HttpAnswer(e).code >= 500
           /\ RabbitVerdict(e) = "park" =>
                HttpAnswer(e).code < 500 \/ (e.class = "other" /\ e.status # None)
<1>1. CASE e.class = "http" /\ e.status \in 400 .. 599
  <2>1. HttpAnswer(e).code = e.status
    BY <1>1 DEF HttpAnswer
  <2>2. e.status \notin {None, 0}
    BY <1>1, ShellAssumption
  <2>3. RabbitVerdict(e) = IF e.status >= 500 THEN "requeue" ELSE "park"
    BY <1>1, <2>2 DEF RabbitVerdict, AtLeast500
  <2>4. RabbitVerdict(e) = "requeue" => e.status >= 500
    BY <2>3
  <2>5. RabbitVerdict(e) = "park" => e.status < 500
    BY <1>1, <2>3
  <2> QED  BY <2>1, <2>4, <2>5
<1>2. CASE e.class = "other" /\ e.status \in Nat \cup {Word, None}
  <2>1. HttpAnswer(e).code = 500
    BY <1>2 DEF HttpAnswer
  <2>2. RabbitVerdict(e) = "park" => e.status # None
    BY DEF RabbitVerdict
  <2> QED  BY <1>2, <2>1, <2>2
<1> QED  BY <1>1, <1>2 DEF Classified

\* The filter, which asks for the class of an exception, and the error handler, which asks for
\* its status, never have an event retried for what an HTTP client is told to be its own fault.
\* Nor do they have one parked for a failure of the service, unless that is an error of another
\* class than HttpException with a status of its own, whatever the pipe or a handler throws.
THEOREM VerdictsAlwaysCompatible == Spec => []VerdictsCompatible
<1>1. ThrownInv => VerdictsCompatible
  BY VerdictsMeet DEF ThrownInv, VerdictsCompatible
<1> QED  BY <1>1, ThrownInit, ThrownStep, PTL DEF Spec
=============================================================================
