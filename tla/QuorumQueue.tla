---------------------------- MODULE QuorumQueue ----------------------------
(***************************************************************************)
(* A RabbitMQ quorum queue as the chat service uses it: every subscriber   *)
(* declares its queue with 'x-queue-type': 'quorum' and a dead-letter      *)
(* exchange, acknowledges a message when the handler returns, and gives it *)
(* back with nack(requeue) when the handler throws.  The broker is not     *)
(* part of the repository; this module is what the service relies on.      *)
(*                                                                         *)
(* The service runs up to prefetchCount = 10 handlers at once, so nothing  *)
(* depends on the order of the queue: any ready message may be delivered   *)
(* next.                                                                   *)
(***************************************************************************)
EXTENDS Naturals

CONSTANTS
    Messages,       \* every copy of a message that may ever be enqueued
    DeliveryLimit   \* redeliveries allowed (RabbitMQ 4: 20 by default)

VARIABLES
    copy,   \* where each message is
    tries   \* its x-delivery-count

queueVars == <<copy, tries>>

(***************************************************************************)
(* absent: never published; ready: in the queue; unacked: at a consumer;   *)
(* acked: removed by the consumer; dead: in q.dlx.<module>.<routing key>,  *)
(* which nothing in the service consumes.                                  *)
(***************************************************************************)
CopyState == {"absent", "ready", "unacked", "acked", "dead"}

QueueTypeOK ==
    /\ copy \in [Messages -> CopyState]
    /\ tries \in [Messages -> 0 .. DeliveryLimit + 1]

QueueInit ==
    /\ copy = [m \in Messages |-> "absent"]
    /\ tries = [m \in Messages |-> 0]

Publish(m) ==
    /\ copy[m] = "absent"
    /\ copy' = [copy EXCEPT ![m] = "ready"]
    /\ UNCHANGED tries

Deliver(m) ==
    /\ copy[m] = "ready"
    /\ copy' = [copy EXCEPT ![m] = "unacked"]
    /\ UNCHANGED tries

Ack(m) ==
    /\ copy[m] = "unacked"
    /\ copy' = [copy EXCEPT ![m] = "acked"]
    /\ UNCHANGED tries

\* Mutant of Return: a classic queue, which knows no delivery limit.
ReturnForever(m) ==
    /\ copy[m] = "unacked"
    /\ copy' = [copy EXCEPT ![m] = "ready"]
    /\ UNCHANGED tries

\* nack with requeue = true, or the consumer's channel is gone: the message
\* is redelivered until its delivery count passes the limit.
Return(m) ==
    /\ copy[m] = "unacked"
    /\ tries' = [tries EXCEPT ![m] = @ + 1]
    /\ copy' = [copy EXCEPT ![m] =
                    IF tries[m] < DeliveryLimit THEN "ready" ELSE "dead"]
=============================================================================
