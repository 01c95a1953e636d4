-------------------------- MODULE ConsumerProcess --------------------------
(***************************************************************************)
(* One process of the service as a consumer: the handlers of both queues   *)
(* run in it at once, on one channel, and createRabbitErrorHandler gives a *)
(* failed event back two seconds later, from a timer.  When the channel is *)
(* gone by then, that nack throws where nobody catches it: the process     *)
(* dies and takes along every other handler.                               *)
(*                                                                         *)
(* What a handler does is ChatCreation's; here it only succeeds, throws,   *)
(* or rejects its event as malformed.                                      *)
(***************************************************************************)
EXTENDS Naturals, FiniteSets

CONSTANTS
    Messages,       \* the events that may be published
    Malformed,      \* those of them that ValidationPipe refuses
    Queues, QueueOf, \* the queue of each event
    Prefetch,       \* prefetchCount, for each consumer
    DeliveryLimit,
    MaxErrors,      \* errors of the handlers of one event (bound)
    MaxLosses       \* channels lost (bound)

ASSUME ProcessAssumption ==
    /\ Malformed \subseteq Messages
    /\ QueueOf \in [Messages -> Queues]
    /\ Prefetch \in Nat \ {0}
    /\ DeliveryLimit \in Nat
    /\ MaxErrors \in Nat
    /\ MaxLosses \in Nat

VARIABLES
    copy, tries,    \* the queues
    up,             \* the process runs
    channel,        \* the channel in use: so many were lost before it
    handler,        \* the handlers of this process, by event and channel
    errors,         \* errors of the event's handlers so far
    deaths          \* how often the process died

queueVars == <<copy, tries>>
vars == <<queueVars, up, channel, handler, errors, deaths>>

Queue == INSTANCE QuorumQueue

Channels == 0 .. MaxLosses

TypeOK ==
    /\ Queue!QueueTypeOK
    /\ up \in BOOLEAN
    /\ channel \in Channels
    /\ handler \in [Messages \X Channels -> {"none", "running", "timer"}]
    /\ errors \in [Messages -> 0 .. MaxErrors]
    /\ deaths \in Nat

NoHandlers == [h \in Messages \X Channels |-> "none"]

Init ==
    /\ Queue!QueueInit
    /\ up = TRUE
    /\ channel = 0
    /\ handler = NoHandlers
    /\ errors = [m \in Messages |-> 0]
    /\ deaths = 0

-----------------------------------------------------------------------------
Publish(m) ==
    /\ Queue!Publish(m)
    /\ UNCHANGED <<up, channel, handler, errors, deaths>>

Busy(q) == {m \in Messages : QueueOf[m] = q /\ handler[<<m, channel>>] # "none"}

TakeDelivery(m) ==
    /\ up
    /\ Cardinality(Busy(QueueOf[m])) < Prefetch
    /\ Queue!Deliver(m)
    /\ handler' = [handler EXCEPT ![<<m, channel>>] = "running"]
    /\ UNCHANGED <<up, channel, errors, deaths>>

\* Mutant of ReturnAll: the delivery count of settled messages goes up, too.
ReturnAllCounted ==
    /\ copy' = [m \in Messages |->
                    IF copy[m] # "unacked" THEN copy[m]
                    ELSE IF tries[m] < DeliveryLimit THEN "ready" ELSE "dead"]
    /\ tries' = [m \in Messages |-> tries[m] + 1]

\* The broker takes back all that this process held.
ReturnAll ==
    LET held == {m \in Messages : copy[m] = "unacked"} IN
    /\ copy' = [m \in Messages |->
                    IF m \notin held THEN copy[m]
                    ELSE IF tries[m] < DeliveryLimit THEN "ready" ELSE "dead"]
    /\ tries' = [m \in Messages |-> IF m \in held THEN tries[m] + 1 ELSE tries[m]]

\* Mutant of Dies: the timers outlive the process.
DiesWithTimersLeft ==
    /\ up' = FALSE
    /\ handler' = [h \in Messages \X Channels |->
                    IF handler[h] = "timer" THEN "timer" ELSE "none"]
    /\ ReturnAll
    /\ deaths' = deaths + 1
    /\ UNCHANGED <<channel, errors>>

\* An uncaught exception, or a rejected promise nobody handles.
Dies ==
    /\ up' = FALSE
    /\ handler' = NoHandlers
    /\ ReturnAll
    /\ deaths' = deaths + 1
    /\ UNCHANGED <<channel, errors>>

Waits(m, c) == handler' = [handler EXCEPT ![<<m, c>>] = "timer"]

Ends(m, c) == handler' = [handler EXCEPT ![<<m, c>>] = "none"]

\* The handler returned, and golevelup acknowledges.  An ack on a channel that
\* is closed throws, and that error, too, goes to the error handler.
HandlerReturns(m, c) ==
    /\ handler[<<m, c>>] = "running"
    /\ m \notin Malformed
    /\ \/ c = channel /\ Queue!Ack(m) /\ Ends(m, c)
       \/ c # channel /\ Waits(m, c) /\ UNCHANGED queueVars
    /\ UNCHANGED <<up, channel, errors, deaths>>

\* Mutant of HandlerThrows: any error is a handled one.
HandlerThrowsToDeadLetter(m, c) ==
    /\ handler[<<m, c>>] = "running"
    /\ m \notin Malformed
    /\ errors[m] < MaxErrors
    /\ errors' = [errors EXCEPT ![m] = @ + 1]
    /\ c = channel
    /\ copy' = [copy EXCEPT ![m] = "dead"]
    /\ Ends(m, c)
    /\ UNCHANGED <<tries, up, channel, deaths>>

\* An error without an HTTP status, or with one of 500 and more: the timer.
HandlerThrows(m, c) ==
    /\ handler[<<m, c>>] = "running"
    /\ m \notin Malformed
    /\ errors[m] < MaxErrors
    /\ errors' = [errors EXCEPT ![m] = @ + 1]
    /\ Waits(m, c)
    /\ UNCHANGED <<queueVars, up, channel, deaths>>

\* A malformed event: a BadRequestException (the filter lets it pass), and
\* nack without requeue at once; on a closed channel that rejects the
\* consumer's promise.
HandlerRejects(m, c) ==
    /\ handler[<<m, c>>] = "running"
    /\ m \in Malformed
    /\ \/ /\ c = channel
          /\ copy' = [copy EXCEPT ![m] = "dead"]
          /\ Ends(m, c)
          /\ UNCHANGED <<tries, up, channel, errors, deaths>>
       \/ c # channel /\ Dies

\* Mutant of TimerFires: the timer leaves the delivery on its channel.
TimerForgets(m, c) ==
    /\ handler[<<m, c>>] = "timer"
    /\ \/ c = channel /\ Ends(m, c) /\ UNCHANGED <<queueVars, up, channel, errors, deaths>>
       \/ c # channel /\ Dies

\* channel.nack(msg, false, true), two seconds after the error.
TimerFires(m, c) ==
    /\ handler[<<m, c>>] = "timer"
    /\ \/ /\ c = channel
          /\ Queue!Return(m)
          /\ Ends(m, c)
          /\ UNCHANGED <<up, channel, errors, deaths>>
       \/ c # channel /\ Dies

\* Connection or channel closed (RabbitMQ restarted, a network error).  The
\* handlers run on; golevelup subscribes again on a new channel.
ChannelLost ==
    /\ up /\ channel < MaxLosses
    /\ channel' = channel + 1
    /\ ReturnAll
    /\ UNCHANGED <<up, handler, errors, deaths>>

\* Whoever runs the service starts it again, or nobody does.
Restart ==
    /\ ~up
    /\ up' = TRUE
    /\ UNCHANGED <<queueVars, channel, handler, errors, deaths>>

HandlerEnds(m, c) == HandlerReturns(m, c) \/ HandlerRejects(m, c) \/ TimerFires(m, c)

Next ==
    \/ \E m \in Messages : Publish(m) \/ TakeDelivery(m)
    \/ \E m \in Messages, c \in Channels : HandlerEnds(m, c) \/ HandlerThrows(m, c)
    \/ ChannelLost
    \/ Restart

Spec == Init /\ [][Next]_vars

\* The broker delivers, handlers and timers come to their end.  Nothing is asked of
\* Restart: docker-compose.yaml has no restart policy for the service.
Fairness ==
    /\ \A m \in Messages : WF_vars(TakeDelivery(m))
    /\ \A m \in Messages, c \in Channels : WF_vars(HandlerEnds(m, c))

FairSpec == Spec /\ Fairness

-----------------------------------------------------------------------------
(***************************************************************************)
(* Properties                                                              *)
(***************************************************************************)

\* Broker and process agree on what is being handled: no delivery is left
\* unacked without a handler that will settle it, so no prefetch slot leaks,
\* and no handler on the channel in use has lost its delivery.
UnackedIsHandled ==
    \A m \in Messages :
        copy[m] = "unacked" <=> up /\ handler[<<m, channel>>] # "none"

\* The process dies at most once for each channel it loses: a death ends all
\* the stale handlers and timers that loss left behind.
DeathsBoundedByLosses == deaths <= channel

\* An event whose handlers did not fail is not parked because its neighbours'
\* did: it gets to the dead-letter queue only when its own errors and the lost
\* channels, each with the death it may lead to, exceed the delivery limit.
InnocentNotParked ==
    \A m \in Messages \ Malformed :
        copy[m] = "dead" => errors[m] + 2 * channel > DeliveryLimit

\* Unless the process stays dead, every published event is acknowledged or parked
\* in the end: no death and no lost channel leaves one behind.
EveryEventSettles ==
    []<>up => \A m \in Messages : copy[m] = "ready" ~> copy[m] \in {"acked", "dead"}
=============================================================================
