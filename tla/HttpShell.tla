----------------------------- MODULE HttpShell -----------------------------
(***************************************************************************)
(* What Nest wraps around every handler, HTTP or RabbitMQ: ValidationPipe  *)
(* with exceptionFactory, StandardInterceptor, HttpExceptionFilter and,    *)
(* for events, createRabbitErrorHandler.  A call goes through them and     *)
(* ends in an answer, or in what becomes of the event.                     *)
(*                                                                         *)
(* A dotted path is the sequence of its names; texts are one value each.   *)
(***************************************************************************)
EXTENDS Naturals, Sequences, FiniteSets, Functions

CONSTANTS
    Names,      \* properties of the payloads
    Texts,      \* messages of violated constraints
    Statuses,   \* HTTP statuses of the HttpExceptions thrown
    OtherStatuses,  \* what other errors have as status: a number, Word or None
    Word,       \* a status that is a text, not a number
    None

ASSUME ShellAssumption ==
    /\ Statuses \subseteq 400 .. 599
    /\ OtherStatuses \subseteq Nat \cup {Word, None}
    /\ Word \notin Nat /\ None \notin Nat /\ Word # None

VARIABLES
    host,       \* the kind of call: "http" or "rmq"
    invalid,    \* class-validator's ValidationErrors for its payload
    outcome,    \* what the handler does: its data or its exception
    stage,      \* where the call is
    exception,
    answer

vars == <<host, invalid, outcome, stage, exception, answer>>

-----------------------------------------------------------------------------
(***************************************************************************)
(* The conversions                                                         *)
(***************************************************************************)

\* An event's DTO nests three levels deep: the event, its data, the chat or message.
MaxDepth == 3

\* ValidationErrors of at most d levels, in lists of any length.
ErrorsOf[d \in 0 .. MaxDepth] ==
    IF d = 0 THEN {}
    ELSE [property : Names, constraints : Seq(Texts), children : Seq(ErrorsOf[d - 1])]

\* What the recursion is called with: errors, and the path that leads to them.
Calls == Seq(ErrorsOf[MaxDepth]) \X Seq(Names)

\* Mutant of flattenValidationErrors: the recursion passes its own prefix on.
flattenFlat[call \in Calls] ==
    LET errors == call[1]
        path == call[2]
        e == Head(errors)
        here == Append(path, e.property)
    IN IF errors = <<>> THEN <<>>
       ELSE [i \in DOMAIN e.constraints |-> [message |-> e.constraints[i], path |-> here]]
            \o flattenFlat[<<e.children, path>>] \o flattenFlat[<<Tail(errors), path>>]

flattenValidationErrorsFlat(errors, path) == flattenFlat[<<errors, path>>]

\* One item for each violated constraint, a parent's before its children's.
flatten[call \in Calls] ==
    LET errors == call[1]
        path == call[2]
        e == Head(errors)
        here == Append(path, e.property)
    IN IF errors = <<>> THEN <<>>
       ELSE [i \in DOMAIN e.constraints |-> [message |-> e.constraints[i], path |-> here]]
            \o flatten[<<e.children, here>>] \o flatten[<<Tail(errors), path>>]

flattenValidationErrors(errors, path) == flatten[<<errors, path>>]

\* A BadRequestException around a StandardException.
exceptionFactory(errors) ==
    [class |-> "http", status |-> 400, errors |-> flattenValidationErrors(errors, <<>>)]

\* Object.keys(data).length: an object's fields, a list's items.
Keys(data) == IF data.kind = "list" THEN data.size ELSE Cardinality(data.fields)

HasMessage(data) == data.kind = "object" /\ "message" \in data.fields

\* StandardResponse of a success: the handler's message moves out of its data,
\* and data without keys is left out.
SuccessResponse(data) ==
    LET rest == IF HasMessage(data)
                THEN [data EXCEPT !.fields = @ \ {"message"}] ELSE data
    IN [status |-> "SUCCESS", ownMessage |-> HasMessage(data),
        data |-> IF Keys(rest) > 0 THEN rest ELSE None]

ErrorResponse(errors) == [status |-> "ERROR", errors |-> errors]

\* HttpExceptionFilter.catch for HTTP asks for the class: an HttpException is answered
\* with its own status and texts, whether 4xx or 5xx; all else, also if it has a status,
\* is a 500 that tells nothing.
HttpAnswer(e) ==
    IF e.class = "http" THEN [code |-> e.status, body |-> ErrorResponse(e.errors)]
    ELSE [code |-> 500,
          body |-> ErrorResponse(<<[message |-> "Internal server error!", path |-> <<>>]>>)]

\* err.status >= 500; no text that is not a number compares.
AtLeast500(status) == status \in Nat /\ status >= 500

\* Mutant of RabbitVerdict: an error without status is taken for a handled one.
RabbitVerdictNoStatus(e) == IF AtLeast500(e.status) THEN "requeue" ELSE "park"

\* createRabbitErrorHandler: the filter returns nothing for an event, so Nest throws the
\* exception on.  Its status decides, if it has one, whatever class it is of.
RabbitVerdict(e) ==
    IF AtLeast500(e.status) \/ e.status \in {None, 0} THEN "requeue" ELSE "park"

-----------------------------------------------------------------------------
(***************************************************************************)
(* A call                                                                  *)
(***************************************************************************)
Data == [kind : {"object"}, fields : SUBSET {"number", "message"}]
            \cup [kind : {"list"}, size : 0 .. 2]

\* An HttpException, whose response (a text or an object) is its one error, or an error
\* of any other class, which may have a status, too, as those of http-errors do.
Exceptions ==
    [class : {"http"}, status : Statuses,
     errors : {<<[message |-> "thrown", path |-> <<>>]>>}]
        \cup [class : {"other"}, status : OtherStatuses]

Outcomes == [returns : Data] \cup [throws : Exceptions]

\* Errors on one payload: each property has one ValidationError, with violated
\* constraints, or children, or both.
Constraints == {<<>>} \cup {<<t>> : t \in Texts}
                \cup {p \in Texts \X Texts : p[1] # p[2]}

Distinct(S) ==
    {<<>>} \cup {<<e>> : e \in S}
        \cup {p \in S \X S : p[1].property # p[2].property}

\* The payload of a POST or PATCH is flat, that of an event nests.
Leaves == [property : Names, constraints : Constraints \ {<<>>}, children : {<<>>}]
Inner == [property : Names, constraints : Constraints, children : Distinct(Leaves) \ {<<>>}]
Nested == [property : Names, constraints : {<<>>}, children : {<<e>> : e \in Inner}]

InvalidPost == Distinct(Leaves) \ {<<>>}

InvalidEvent ==
    InvalidPost \cup {<<e>> : e \in Nested \cup Inner}
        \cup {p \in Inner \X Leaves : p[1].property # p[2].property}

Init ==
    /\ host \in {"http", "rmq"}
    /\ \/ invalid = <<>> /\ outcome \in Outcomes
       \/ /\ invalid \in IF host = "http" THEN InvalidPost ELSE InvalidEvent
          /\ outcome = None
    /\ stage = "pipe"
    /\ exception = None
    /\ answer = None

Validate ==
    /\ stage = "pipe"
    /\ IF invalid = <<>>
       THEN stage' = "handler" /\ UNCHANGED exception
       ELSE stage' = "filter" /\ exception' = exceptionFactory(invalid)
    /\ UNCHANGED <<host, invalid, outcome, answer>>

Handle ==
    /\ stage = "handler"
    /\ IF "returns" \in DOMAIN outcome
       THEN stage' = "interceptor" /\ UNCHANGED exception
       ELSE stage' = "filter" /\ exception' = outcome.throws
    /\ UNCHANGED <<host, invalid, outcome, answer>>

\* The interceptor wraps the data of an HTTP call (200 stands for its 2xx); an
\* event is acknowledged.
Intercept ==
    /\ stage = "interceptor"
    /\ stage' = "done"
    /\ answer' = IF host = "http"
                 THEN [code |-> 200, body |-> SuccessResponse(outcome.returns)]
                 ELSE [event |-> "ack"]
    /\ UNCHANGED <<host, invalid, outcome, exception>>

Filter ==
    /\ stage = "filter"
    /\ stage' = "done"
    /\ answer' = IF host = "http" THEN HttpAnswer(exception)
                 ELSE [event |-> RabbitVerdict(exception)]
    /\ UNCHANGED <<host, invalid, outcome, exception>>

Next == Validate \/ Handle \/ Intercept \/ Filter

Spec == Init /\ [][Next]_vars

-----------------------------------------------------------------------------
(***************************************************************************)
(* Properties                                                              *)
(***************************************************************************)

\* The ValidationErrors d levels deep, each with the names that lead to it.
Level[d \in 1 .. MaxDepth] ==
    IF d = 1 THEN {<<<<e.property>>, e>> : e \in Range(invalid)}
    ELSE UNION {{<<Append(n[1], c.property), c>> : c \in Range(n[2].children)} :
                    n \in Level[d - 1]}

Violations ==
    UNION {{[message |-> t, path |-> n[1]] : t \in Range(n[2].constraints)} :
                n \in UNION {Level[d] : d \in 1 .. MaxDepth}}

\* The exception for a wrong payload, which is logged when its event is parked, names
\* every violated constraint, at any depth, once and under the property it is about,
\* and nothing else; an HTTP client is told just that.
ErrorsComplete ==
    invalid # <<>> /\ exception # None =>
        /\ Range(exception.errors) = Violations
        /\ Len(exception.errors) = Cardinality(Violations)
        /\ stage = "done" /\ host = "http" => answer.body.errors = exception.errors

\* The filter classifies an exception by its class, the error handler by its status.
\* Still, no event is retried for what an HTTP client is told to be its own fault, and
\* none is parked for a failure of the service (5xx), but for an error that is no
\* HttpException and comes with a status.
VerdictsCompatible ==
    exception # None =>
        /\ RabbitVerdict(exception) = "requeue" => HttpAnswer(exception).code >= 500
        /\ RabbitVerdict(exception) = "park" =>
            \/ HttpAnswer(exception).code < 500
            \/ exception.class = "other" /\ exception.status # None
=============================================================================
