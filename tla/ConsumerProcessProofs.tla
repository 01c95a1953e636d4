----------------------- MODULE ConsumerProcessProofs -----------------------
(***************************************************************************)
(* Theorems about ConsumerProcess, for every set of events and queues, and *)
(* for any prefetch, delivery limit, number of errors and of lost channels.*)
(***************************************************************************)
EXTENDS ConsumerProcess, TLAPS

\* The delivery count passes the limit only together with the dead-lettering.
CountInv == \A m \in Messages : copy[m] # "dead" => tries[m] <= DeliveryLimit

\* No handler is on a channel that is not open yet, and none outlives the process.
FreshInv ==
    \A m \in Messages, c \in Channels :
        c > channel \/ ~up => handler[<<m, c>>] = "none"

Stale == \E m \in Messages, c \in Channels : c < channel /\ handler[<<m, c>>] # "none"

\* A stale handler is what the process may die of: one more death is still due.
DeathInv == deaths <= channel /\ (Stale => deaths < channel)

\* A timer on the channel in use stands for an error that has not cost a delivery yet.
Pending(m) == IF handler[<<m, channel>>] = "timer" THEN 1 ELSE 0

\* Each delivery beyond the first has its cause: an error, a lost channel, a death.
CauseInv ==
    \A m \in Messages \ Malformed :
        /\ tries[m] + Pending(m) <= errors[m] + channel + deaths
        /\ copy[m] = "dead" => tries[m] > DeliveryLimit

IInv == TypeOK /\ CountInv /\ FreshInv /\ UnackedIsHandled /\ DeathInv /\ CauseInv

-----------------------------------------------------------------------------
\* The process starts with no handler, no delivery and no cause to account for.
LEMMA InvInit == Init => IInv
<1> SUFFICES ASSUME Init PROVE IInv
  OBVIOUS
<1> USE ProcessAssumption
<1>1. TypeOK
  BY DEF Init, TypeOK, NoHandlers, Channels, Queue!QueueInit, Queue!QueueTypeOK, Queue!CopyState
<1>2. \A m \in Messages, c \in Channels : handler[<<m, c>>] = "none"
  BY DEF Init, NoHandlers
<1>3. channel \in Channels
  BY <1>1 DEF TypeOK
<1>4. CountInv /\ FreshInv /\ UnackedIsHandled
  BY <1>2, <1>3 DEF Init, CountInv, FreshInv, UnackedIsHandled, Queue!QueueInit
<1>5. DeathInv
  <2>1. ~Stale
    BY <1>2 DEF Stale
  <2> QED  BY <2>1 DEF Init, DeathInv
<1>6. CauseInv
  BY <1>2, <1>3 DEF Init, CauseInv, Pending, Queue!QueueInit
<1> QED  BY <1>1, <1>4, <1>5, <1>6 DEF IInv

\* What ReturnAll does to one event.
LEMMA Returned ==
    ASSUME IInv, ReturnAll, NEW m \in Messages
    PROVE  /\ copy[m] # "unacked" => copy'[m] = copy[m] /\ tries'[m] = tries[m]
           /\ copy[m] = "unacked" =>
                /\ tries'[m] = tries[m] + 1
                /\ copy'[m] = IF tries[m] < DeliveryLimit THEN "ready" ELSE "dead"
           /\ copy'[m] # "unacked"
  BY ProcessAssumption DEF ReturnAll

\* What goes back to a queue keeps its type and is dead once past the limit.
LEMMA ReturnedType ==
    ASSUME IInv, ReturnAll
    PROVE  /\ copy' \in [Messages -> Queue!CopyState]
           /\ tries' \in [Messages -> 0 .. DeliveryLimit + 1]
           /\ CountInv'
<1> USE ProcessAssumption DEF IInv, TypeOK, Queue!QueueTypeOK, Queue!CopyState, CountInv
<1>1. /\ copy' = [m \in Messages |-> copy'[m]]
      /\ tries' = [m \in Messages |-> tries'[m]]
  BY DEF ReturnAll
<1>2. ASSUME NEW m \in Messages
      PROVE  /\ copy'[m] \in Queue!CopyState
             /\ tries'[m] \in 0 .. DeliveryLimit + 1
             /\ copy'[m] # "dead" => tries'[m] <= DeliveryLimit
  BY <1>2, Returned
<1> QED  BY <1>1, <1>2

-----------------------------------------------------------------------------
\* A death: every handler ends, every delivery goes back.
LEMMA StepDies ==
    ASSUME IInv, Dies, Stale
    PROVE  IInv'
<1> USE ProcessAssumption DEF IInv
<1>1. /\ up' = FALSE /\ deaths' = deaths + 1 /\ channel' = channel /\ errors' = errors
      /\ ReturnAll /\ handler' = NoHandlers
  BY DEF Dies
<1>2. \A m \in Messages, c \in Channels : handler'[<<m, c>>] = "none"
  BY <1>1 DEF NoHandlers
<1>3. TypeOK' /\ CountInv'
  <2>1. handler' \in [Messages \X Channels -> {"none", "running", "timer"}]
    BY <1>1 DEF NoHandlers
  <2>2. channel' \in Channels /\ errors' \in [Messages -> 0 .. MaxErrors] /\ deaths' \in Nat
    BY <1>1 DEF TypeOK
  <2> QED  BY <1>1, <2>1, <2>2, ReturnedType DEF TypeOK, Queue!QueueTypeOK
<1>4. FreshInv'
  BY <1>1, <1>2 DEF FreshInv
<1>5. UnackedIsHandled'
  BY <1>1, Returned DEF UnackedIsHandled
<1>6. DeathInv'
  <2>1. ~Stale'
    BY <1>2 DEF Stale
  <2>2. deaths < channel /\ deaths \in Nat /\ channel \in Nat
    BY DEF DeathInv, TypeOK, Channels
  <2> QED  BY <1>1, <2>1, <2>2 DEF DeathInv
<1>7. CauseInv'
  <2> SUFFICES ASSUME NEW m \in Messages \ Malformed
               PROVE  /\ tries'[m] + Pending(m)' <= errors'[m] + channel' + deaths'
                      /\ copy'[m] = "dead" => tries'[m] > DeliveryLimit
    BY DEF CauseInv
  <2>1. Pending(m)' = 0
    BY <1>1, <1>2 DEF Pending, TypeOK
  <2>2. Pending(m) \in {0, 1}
    BY DEF Pending
  <2>3. /\ tries[m] \in Nat /\ tries'[m] \in {tries[m], tries[m] + 1}
        /\ errors[m] \in Nat /\ channel \in Nat /\ deaths \in Nat
    BY <1>1, Returned DEF TypeOK, Queue!QueueTypeOK, Channels
  <2>4. tries[m] + Pending(m) <= errors[m] + channel + deaths
    BY DEF CauseInv
  <2>5. copy'[m] = "dead" => tries'[m] > DeliveryLimit
    BY <1>1, <2>3, Returned DEF CauseInv
  <2> QED  BY <1>1, <2>1, <2>2, <2>3, <2>4, <2>5
<1> QED  BY <1>3, <1>4, <1>5, <1>6, <1>7

\* A lost channel: its handlers become stale, its deliveries go back.
LEMMA StepChannelLost ==
    ASSUME IInv, ChannelLost
    PROVE  IInv'
<1> USE ProcessAssumption DEF IInv
<1>1. /\ up /\ channel < MaxLosses /\ channel' = channel + 1
      /\ up' = up /\ handler' = handler /\ errors' = errors /\ deaths' = deaths
      /\ ReturnAll
  BY DEF ChannelLost
<1>2. channel \in Nat /\ deaths \in Nat /\ channel' \in Channels
  BY <1>1 DEF TypeOK, Channels
<1>3. \A m \in Messages : handler[<<m, channel'>>] = "none"
  BY <1>1, <1>2 DEF FreshInv
<1>4. TypeOK' /\ CountInv'
  BY <1>1, <1>2, ReturnedType DEF TypeOK, Queue!QueueTypeOK
<1>5. FreshInv'
  BY <1>1, <1>2 DEF FreshInv, Channels
<1>6. UnackedIsHandled'
  BY <1>1, <1>3, Returned DEF UnackedIsHandled
<1>7. DeathInv'
  BY <1>1, <1>2 DEF DeathInv
<1>8. CauseInv'
  <2> SUFFICES ASSUME NEW m \in Messages \ Malformed
               PROVE  /\ tries'[m] + Pending(m)' <= errors'[m] + channel' + deaths'
                      /\ copy'[m] = "dead" => tries'[m] > DeliveryLimit
    BY DEF CauseInv
  <2>1. Pending(m)' = 0
    BY <1>1, <1>3 DEF Pending
  <2>2. Pending(m) \in {0, 1}
    BY DEF Pending
  <2>3. /\ tries[m] \in Nat /\ tries'[m] \in {tries[m], tries[m] + 1} /\ errors[m] \in Nat
    BY <1>1, Returned DEF TypeOK, Queue!QueueTypeOK
  <2>4. tries[m] + Pending(m) <= errors[m] + channel + deaths
    BY DEF CauseInv
  <2>5. copy'[m] = "dead" => tries'[m] > DeliveryLimit
    BY <1>1, <2>3, Returned DEF CauseInv
  <2> QED  BY <1>1, <1>2, <2>1, <2>2, <2>3, <2>4, <2>5
<1> QED  BY <1>4, <1>5, <1>6, <1>7, <1>8

-----------------------------------------------------------------------------
\* A step that changes one handler, m's on channel c, and no channel or process.
HandlerSet(m, c, state) ==
    /\ handler' = [handler EXCEPT ![<<m, c>>] = state]
    /\ UNCHANGED <<up, channel, deaths>>

\* Such a step keeps FreshInv and DeathInv, if it starts a handler only on the open
\* channel of a process that runs.
LEMMA StepHandlerSet ==
    ASSUME IInv, NEW m \in Messages, NEW c \in Channels,
           NEW state \in {"none", "running", "timer"},
           HandlerSet(m, c, state),
           state # "none" => handler[<<m, c>>] # "none" \/ (up /\ c = channel)
    PROVE  /\ handler' \in [Messages \X Channels -> {"none", "running", "timer"}]
           /\ handler'[<<m, c>>] = state
           /\ \A n \in Messages, d \in Channels :
                <<n, d>> # <<m, c>> => handler'[<<n, d>>] = handler[<<n, d>>]
           /\ FreshInv' /\ DeathInv'
<1> USE DEF IInv, HandlerSet
<1>1. handler \in [Messages \X Channels -> {"none", "running", "timer"}]
  BY DEF TypeOK
<1>2. /\ handler' \in [Messages \X Channels -> {"none", "running", "timer"}]
      /\ handler'[<<m, c>>] = state
      /\ \A n \in Messages, d \in Channels :
           <<n, d>> # <<m, c>> => handler'[<<n, d>>] = handler[<<n, d>>]
  BY <1>1
<1>3. channel \in Nat /\ \A d \in Channels : d \in Nat
  BY DEF TypeOK, Channels
<1>4. \A n \in Messages, d \in Channels :
        handler'[<<n, d>>] # "none" =>
            handler[<<n, d>>] # "none" \/ (up /\ d = channel)
  BY <1>2
<1>5. FreshInv'
  BY <1>3, <1>4 DEF FreshInv
<1>6. Stale' => Stale
  BY <1>3, <1>4 DEF Stale
<1> QED  BY <1>2, <1>5, <1>6 DEF DeathInv

-----------------------------------------------------------------------------
\* A published event has no handler yet and no delivery to account for.
LEMMA StepPublish ==
    ASSUME IInv, NEW m \in Messages, Publish(m)
    PROVE  IInv'
<1> USE DEF IInv, Publish, Queue!Publish
<1>1. TypeOK' /\ CountInv'
  BY DEF TypeOK, CountInv, Queue!QueueTypeOK, Queue!CopyState
<1>2. copy \in [Messages -> Queue!CopyState]
  BY DEF TypeOK, Queue!QueueTypeOK
<1>3. \A n \in Messages : /\ copy'[n] = "unacked" <=> copy[n] = "unacked"
                          /\ copy'[n] = "dead" <=> copy[n] = "dead"
  BY <1>2
<1>4. FreshInv' /\ DeathInv'
  BY DEF FreshInv, DeathInv, Stale
<1>5. UnackedIsHandled' /\ CauseInv'
  BY <1>3 DEF UnackedIsHandled, CauseInv, Pending
<1> QED  BY <1>1, <1>4, <1>5

\* A delivery gives its event one handler, on the channel in use.
LEMMA StepTakeDelivery ==
    ASSUME IInv, NEW m \in Messages, TakeDelivery(m)
    PROVE  IInv'
<1> USE DEF IInv, TakeDelivery, Queue!Deliver
<1>1. channel \in Channels /\ copy \in [Messages -> Queue!CopyState]
  BY DEF TypeOK, Queue!QueueTypeOK
<1>2. HandlerSet(m, channel, "running")
  BY DEF HandlerSet
<1>3. /\ handler' \in [Messages \X Channels -> {"none", "running", "timer"}]
      /\ handler'[<<m, channel>>] = "running"
      /\ \A n \in Messages : n # m => handler'[<<n, channel>>] = handler[<<n, channel>>]
      /\ FreshInv' /\ DeathInv'
  BY <1>1, <1>2, StepHandlerSet
<1>4. TypeOK' /\ CountInv'
  BY <1>3 DEF TypeOK, CountInv, Queue!QueueTypeOK, Queue!CopyState
<1>5. UnackedIsHandled'
  BY <1>1, <1>3 DEF UnackedIsHandled
<1>6. \A n \in Messages : Pending(n)' = Pending(n)
  BY <1>1, <1>3 DEF Pending, UnackedIsHandled
<1>7. CauseInv'
  BY <1>1, <1>6 DEF CauseInv
<1> QED  BY <1>3, <1>4, <1>5, <1>7

-----------------------------------------------------------------------------
\* A handler that settles its event on the open channel.
LEMMA StepSettles ==
    ASSUME IInv, NEW m \in Messages, NEW state \in {"acked", "dead"},
           HandlerSet(m, channel, "none"), handler[<<m, channel>>] # "none",
           copy' = [copy EXCEPT ![m] = state], UNCHANGED <<tries, errors>>,
           m \in Malformed \/ state = "acked"
    PROVE  IInv'
<1> USE DEF IInv
<1>1. /\ channel \in Channels /\ copy \in [Messages -> Queue!CopyState]
      /\ tries \in [Messages -> 0 .. DeliveryLimit + 1]
  BY DEF TypeOK, Queue!QueueTypeOK
<1>2. /\ handler' \in [Messages \X Channels -> {"none", "running", "timer"}]
      /\ handler'[<<m, channel>>] = "none"
      /\ \A n \in Messages : n # m => handler'[<<n, channel>>] = handler[<<n, channel>>]
      /\ FreshInv' /\ DeathInv'
  BY <1>1, StepHandlerSet
<1>3. /\ up' = up /\ channel' = channel /\ deaths' = deaths
      /\ errors' = errors /\ tries' = tries
  BY DEF HandlerSet
<1>4. copy[m] = "unacked" /\ copy'[m] = state /\ \A n \in Messages : n # m => copy'[n] = copy[n]
  BY <1>1 DEF UnackedIsHandled, FreshInv
<1>5. TypeOK' /\ CountInv'
  BY <1>1, <1>2, <1>3, <1>4 DEF TypeOK, CountInv, Queue!QueueTypeOK, Queue!CopyState
<1>6. UnackedIsHandled'
  BY <1>2, <1>3, <1>4 DEF UnackedIsHandled
<1>7. CauseInv'
  <2> SUFFICES ASSUME NEW n \in Messages \ Malformed
               PROVE  /\ tries'[n] + Pending(n)' <= errors'[n] + channel' + deaths'
                      /\ copy'[n] = "dead" => tries'[n] > DeliveryLimit
    BY DEF CauseInv
  <2>1. Pending(n)' = Pending(n) \/ (Pending(n)' = 0 /\ Pending(n) \in {0, 1})
    BY <1>2, <1>3 DEF Pending
  <2>2. /\ tries[n] \in Nat /\ errors[n] \in Nat /\ channel \in Nat /\ deaths \in Nat
    BY <1>1, ProcessAssumption DEF TypeOK, Channels
  <2>3. /\ tries[n] + Pending(n) <= errors[n] + channel + deaths
        /\ copy[n] = "dead" => tries[n] > DeliveryLimit
    BY DEF CauseInv
  <2>4. tries'[n] + Pending(n)' <= errors'[n] + channel' + deaths'
    BY <1>3, <2>1, <2>2, <2>3
  <2> QED  BY <1>3, <1>4, <2>3, <2>4
<1> QED  BY <1>2, <1>5, <1>6, <1>7

\* A handler that goes over to its timer, for an error or because its ack failed.
LEMMA StepWaits ==
    ASSUME IInv, NEW m \in Messages, NEW c \in Channels,
           handler[<<m, c>>] = "running", HandlerSet(m, c, "timer"),
           UNCHANGED queueVars,
           \/ c # channel /\ UNCHANGED errors
           \/ errors[m] < MaxErrors /\ errors' = [errors EXCEPT ![m] = @ + 1]
    PROVE  IInv'
<1> USE DEF IInv
<1>1. /\ handler' \in [Messages \X Channels -> {"none", "running", "timer"}]
      /\ handler'[<<m, c>>] = "timer"
      /\ \A n \in Messages, d \in Channels :
           <<n, d>> # <<m, c>> => handler'[<<n, d>>] = handler[<<n, d>>]
      /\ FreshInv' /\ DeathInv'
  BY StepHandlerSet
<1>2. /\ up' = up /\ channel' = channel /\ deaths' = deaths
      /\ copy' = copy /\ tries' = tries
  BY DEF HandlerSet, queueVars
<1>3. errors \in [Messages -> 0 .. MaxErrors] /\ channel \in Channels
  BY DEF TypeOK
<1>4. errors' \in [Messages -> 0 .. MaxErrors]
  BY <1>3, ProcessAssumption
<1>5. TypeOK' /\ CountInv'
  BY <1>1, <1>2, <1>4 DEF TypeOK, CountInv, Queue!QueueTypeOK
<1>6. UnackedIsHandled'
  BY <1>1, <1>2, <1>3 DEF UnackedIsHandled
<1>7. CauseInv'
  <2> SUFFICES ASSUME NEW n \in Messages \ Malformed
               PROVE  tries'[n] + Pending(n)' <= errors'[n] + channel' + deaths'
    BY <1>2 DEF CauseInv
  <2>1. /\ tries[n] \in Nat /\ errors[n] \in Nat /\ channel \in Nat /\ deaths \in Nat
    BY <1>3, ProcessAssumption DEF TypeOK, Queue!QueueTypeOK, Channels
  <2>2. tries[n] + Pending(n) <= errors[n] + channel + deaths
    BY DEF CauseInv
  <2>3. Pending(n) \in {0, 1} /\ Pending(n)' \in {0, 1}
    BY DEF Pending
  <2>4. CASE n = m /\ c = channel
    <3>1. Pending(n) = 0 /\ errors'[n] = errors[n] + 1
      BY <1>3, <2>4 DEF Pending
    <3> QED  BY <1>2, <2>1, <2>2, <2>3, <3>1
  <2>5. CASE ~(n = m /\ c = channel)
    <3>1. Pending(n)' = Pending(n)
      BY <1>1, <1>2, <1>3, <2>5 DEF Pending
    <3>2. errors'[n] \in {errors[n], errors[n] + 1}
      BY <1>3
    <3> QED  BY <1>2, <2>1, <2>2, <2>3, <3>1, <3>2
  <2> QED  BY <2>4, <2>5
<1> QED  BY <1>1, <1>5, <1>6, <1>7

\* The timer gives the event back on the open channel.
LEMMA StepGivesBack ==
    ASSUME IInv, NEW m \in Messages,
           handler[<<m, channel>>] = "timer", HandlerSet(m, channel, "none"),
           Queue!Return(m), UNCHANGED errors
    PROVE  IInv'
<1> USE ProcessAssumption DEF IInv, Queue!Return
<1>1. /\ channel \in Channels /\ copy \in [Messages -> Queue!CopyState]
      /\ tries \in [Messages -> 0 .. DeliveryLimit + 1]
  BY DEF TypeOK, Queue!QueueTypeOK
<1>2. /\ handler' \in [Messages \X Channels -> {"none", "running", "timer"}]
      /\ handler'[<<m, channel>>] = "none"
      /\ \A n \in Messages : n # m => handler'[<<n, channel>>] = handler[<<n, channel>>]
      /\ FreshInv' /\ DeathInv'
  BY <1>1, StepHandlerSet
<1>3. up' = up /\ channel' = channel /\ deaths' = deaths /\ errors' = errors
  BY DEF HandlerSet
<1>4. /\ tries'[m] = tries[m] + 1
      /\ copy'[m] = IF tries[m] < DeliveryLimit THEN "ready" ELSE "dead"
      /\ tries[m] <= DeliveryLimit
      /\ \A n \in Messages : n # m => copy'[n] = copy[n] /\ tries'[n] = tries[n]
  BY <1>1 DEF CountInv
<1>5. /\ copy' \in [Messages -> Queue!CopyState]
      /\ tries' \in [Messages -> 0 .. DeliveryLimit + 1]
  BY <1>1, <1>4 DEF Queue!CopyState
<1>6. TypeOK' /\ CountInv'
  BY <1>1, <1>2, <1>3, <1>4, <1>5 DEF TypeOK, CountInv, Queue!QueueTypeOK
<1>7. UnackedIsHandled'
  BY <1>2, <1>3, <1>4 DEF UnackedIsHandled
<1>8. CauseInv'
  <2> SUFFICES ASSUME NEW n \in Messages \ Malformed
               PROVE  /\ tries'[n] + Pending(n)' <= errors'[n] + channel' + deaths'
                      /\ copy'[n] = "dead" => tries'[n] > DeliveryLimit
    BY DEF CauseInv
  <2>1. /\ tries[n] \in Nat /\ errors[n] \in Nat /\ channel \in Nat /\ deaths \in Nat
    BY <1>1 DEF TypeOK, Channels
  <2>2. /\ tries[n] + Pending(n) <= errors[n] + channel + deaths
        /\ copy[n] = "dead" => tries[n] > DeliveryLimit
    BY DEF CauseInv
  <2>3. CASE n = m
    <3>1. Pending(n) = 1 /\ Pending(n)' = 0
      BY <1>2, <1>3, <2>3 DEF Pending
    <3>2. tries'[n] + Pending(n)' <= errors'[n] + channel' + deaths'
      BY <1>3, <1>4, <2>1, <2>2, <2>3, <3>1
    <3> QED  BY <1>4, <2>1, <2>3, <3>2
  <2>4. CASE n # m
    BY <1>2, <1>3, <1>4, <2>2, <2>4 DEF Pending
  <2> QED  BY <2>3, <2>4
<1> QED  BY <1>2, <1>6, <1>7, <1>8

-----------------------------------------------------------------------------
\* Every step keeps the invariant, a step of the process by the lemma on its kind.
LEMMA InvStep == IInv /\ [Next]_vars => IInv'
<1> SUFFICES ASSUME IInv, [Next]_vars PROVE IInv'
  OBVIOUS
<1>1. ASSUME NEW m \in Messages, NEW c \in Channels, handler[<<m, c>>] # "none", c # channel
      PROVE  Stale
  <2>1. c < channel
    BY <1>1 DEF IInv, FreshInv, TypeOK, Channels
  <2> QED  BY <1>1, <2>1 DEF Stale
<1>2. ASSUME NEW m \in Messages, Publish(m) \/ TakeDelivery(m)
      PROVE  IInv'
  BY <1>2, StepPublish, StepTakeDelivery
<1>3. ASSUME NEW m \in Messages, NEW c \in Channels, HandlerReturns(m, c)
      PROVE  IInv'
  <2>1. CASE c = channel /\ Queue!Ack(m) /\ Ends(m, c)
    BY <1>3, <2>1, StepSettles DEF HandlerReturns, HandlerSet, Ends, Queue!Ack
  <2>2. CASE c # channel /\ Waits(m, c) /\ UNCHANGED queueVars
    BY <1>3, <2>2, StepWaits DEF HandlerReturns, HandlerSet, Waits
  <2> QED  BY <1>3, <2>1, <2>2 DEF HandlerReturns
<1>4. ASSUME NEW m \in Messages, NEW c \in Channels, HandlerRejects(m, c)
      PROVE  IInv'
  <2>1. CASE c = channel
    BY <1>4, <2>1, StepSettles DEF HandlerRejects, HandlerSet, Ends
  <2>2. CASE c # channel
    BY <1>1, <1>4, <2>2, StepDies DEF HandlerRejects
  <2> QED  BY <2>1, <2>2
<1>5. ASSUME NEW m \in Messages, NEW c \in Channels, TimerFires(m, c)
      PROVE  IInv'
  <2>1. CASE c = channel
    BY <1>5, <2>1, StepGivesBack DEF TimerFires, HandlerSet, Ends
  <2>2. CASE c # channel
    BY <1>1, <1>5, <2>2, StepDies DEF TimerFires
  <2> QED  BY <2>1, <2>2
<1>6. ASSUME NEW m \in Messages, NEW c \in Channels, HandlerThrows(m, c)
      PROVE  IInv'
  BY <1>6, StepWaits DEF HandlerThrows, HandlerSet, Waits
<1>7. CASE ChannelLost
  BY <1>7, StepChannelLost
<1>8. CASE Restart
  <2>1. UNCHANGED <<copy, tries, channel, handler, errors, deaths>> /\ ~up /\ up' = TRUE
    BY <1>8 DEF Restart, queueVars
  <2>2. TypeOK' /\ CountInv' /\ DeathInv' /\ CauseInv'
    BY <2>1 DEF IInv, TypeOK, CountInv, DeathInv, Stale, CauseInv, Pending,
                Queue!QueueTypeOK
  <2>3. FreshInv' /\ UnackedIsHandled'
    BY <2>1 DEF IInv, FreshInv, UnackedIsHandled, TypeOK
  <2> QED  BY <2>2, <2>3 DEF IInv
<1>9. CASE UNCHANGED vars
  BY <1>9 DEF vars, queueVars, IInv, TypeOK, CountInv, FreshInv, UnackedIsHandled,
              DeathInv, Stale, CauseInv, Pending, Queue!QueueTypeOK
<1> QED
  BY <1>2, <1>3, <1>4, <1>5, <1>6, <1>7, <1>8, <1>9 DEF Next, HandlerEnds

\* The inductive invariant holds throughout.
THEOREM Inductive == Spec => []IInv
  BY InvInit, InvStep, PTL DEF Spec

-----------------------------------------------------------------------------
\* Every variable keeps its type, delivery counts included.
THEOREM TypeCorrect == Spec => []TypeOK
<1>1. IInv => TypeOK
  BY DEF IInv
<1> QED  BY <1>1, Inductive, PTL

\* The broker and the process agree on what is under way, through any errors,
\* deaths and lost channels: no prefetch slot leaks.
THEOREM NoSlotLeaks == Spec => []UnackedIsHandled
<1>1. IInv => UnackedIsHandled
  BY DEF IInv
<1> QED  BY <1>1, Inductive, PTL

\* The nack on a closed channel kills the process once for each lost channel at most.
THEOREM DeathsBounded == Spec => []DeathsBoundedByLosses
<1>1. IInv => DeathsBoundedByLosses
  BY DEF IInv, DeathInv, DeathsBoundedByLosses
<1> QED  BY <1>1, Inductive, PTL

\* Only an event's own errors and lost channels, at two deliveries each, bring it to
\* the dead-letter queue, however many other events fail in the same process.
THEOREM InnocentsKept == Spec => []InnocentNotParked
<1>1. IInv => InnocentNotParked
  <2> SUFFICES ASSUME IInv, NEW m \in Messages \ Malformed, copy[m] = "dead"
               PROVE  errors[m] + 2 * channel > DeliveryLimit
    BY DEF InnocentNotParked
  <2>1. /\ tries[m] \in Nat /\ errors[m] \in Nat /\ channel \in Nat /\ deaths \in Nat
    BY ProcessAssumption DEF IInv, TypeOK, Queue!QueueTypeOK, Channels
  <2>2. Pending(m) \in {0, 1}
    BY DEF Pending
  <2>3. /\ tries[m] + Pending(m) <= errors[m] + channel + deaths
        /\ tries[m] > DeliveryLimit /\ deaths <= channel
    BY DEF IInv, CauseInv, DeathInv
  <2> QED  BY <2>1, <2>2, <2>3, ProcessAssumption
<1> QED  BY <1>1, Inductive, PTL
=============================================================================
