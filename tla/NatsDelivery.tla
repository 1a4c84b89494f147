------------------------------ MODULE NatsDelivery ------------------------------
(***************************************************************************)
(* Events distributed through NATS JetStream: JetStreamPublisher puts the  *)
(* events that the outbox relay hands it on a stream, JetStreamConsumer    *)
(* handles each message under manual acknowledgement, negative             *)
(* acknowledgement and dead-lettering.  The server, the handler and the    *)
(* network are external: the server redelivers a message that is neither   *)
(* acknowledged nor terminated when its wait runs out, also while a slow   *)
(* handler is still busy with it; acknowledgements get lost; publishing    *)
(* fails; consumers die.                                                   *)
(*                                                                         *)
(* A message is an event, by its sequence, or a dead-letter marker.        *)
(***************************************************************************)
EXTENDS Integers, Sequences, FiniteSets

CONSTANTS
    Consumers,      \* processes bound to the durable consumer
    Events,         \* sequences of the committed events of the twin
    Broken,         \* events whose handling raises every time
    Invalid,        \* events whose handling raises PermanentConsumerError
    MaxDeliver,     \* JetStreamConsumer's max_deliver
    PlaneFilter,    \* TRUE: bind names a plane, so markers do not match the filter
    MaxFaults,      \* bound: lost acknowledgements, failed publications, crashes, timeouts,
                    \* and publications outside the server's deduplication window
    MaxMessages     \* bound: length of the stream

ASSUME NatsAssumption ==
    /\ Events \subseteq Nat \ {0}
    /\ Broken \subseteq Events /\ Invalid \subseteq Events
    /\ {MaxDeliver, MaxMessages} \subseteq Nat \ {0}
    /\ MaxFaults \in Nat
    /\ PlaneFilter \in BOOLEAN

VARIABLES
    stream,      \* the messages: records [kind, seq]
    status,      \* of each message: "ready", "pending", "settled"
    deliveries,  \* times each message was delivered
    pc, at,      \* what each consumer does, and with which message
    count,       \* num_delivered of the delivery each consumer holds
    handled,     \* history: events a handler completed
    naks,        \* history: times each message was sent back
    faults

vars == <<stream, status, deliveries, pc, at, count, handled, naks, faults>>
messageVars == <<stream, status, deliveries>>

Message == [kind : {"event", "marker"}, seq : Nat]

Init ==
    /\ stream = <<>> /\ status = <<>> /\ deliveries = <<>> /\ naks = <<>>
    /\ pc = [c \in Consumers |-> "idle"]
    /\ at = [c \in Consumers |-> 0]
    /\ count = [c \in Consumers |-> 0]
    /\ handled = {}
    /\ faults = 0

-----------------------------------------------------------------------------
(* Publishing *)

Put(message) ==
    /\ Len(stream) < MaxMessages
    /\ stream' = Append(stream, message)
    /\ status' = Append(status, "ready")
    /\ deliveries' = Append(deliveries, 0)
    /\ naks' = Append(naks, 0)

OnStream(e) == \E i \in 1..Len(stream) : stream[i] = [kind |-> "event", seq |-> e]

\* Mutation: Nats-Msg-Id names the twin and not the event, so the server takes
\* a second event for a copy of the first.
PublishByTwin(e) ==
    /\ stream = <<>>
    /\ Put([kind |-> "event", seq |-> e])
    /\ UNCHANGED <<pc, at, count, handled, faults>>

\* JetStreamPublisher.publish; Nats-Msg-Id is the event's id, so the server
\* drops an event it has seen of late.
Publish(e) ==
    /\ OnStream(e) => faults < MaxFaults
    /\ Put([kind |-> "event", seq |-> e])
    /\ faults' = IF OnStream(e) THEN faults + 1 ELSE faults
    /\ UNCHANGED <<pc, at, count, handled>>

-----------------------------------------------------------------------------
(* JetStreamConsumer.process *)

Goto(c, label) == pc' = [pc EXCEPT ![c] = label]

\* NatsSubjectTopology.consumer_filter: six tokens, as the subject of a marker
\* has; only a plane keeps the markers out.
Matches(m) == PlaneFilter => stream[m].kind = "event"

\* The server delivers a message.
Deliver(c, m) ==
    /\ pc[c] = "idle"
    /\ status[m] = "ready" /\ Matches(m)
    /\ status' = [status EXCEPT ![m] = "pending"]
    /\ deliveries' = [deliveries EXCEPT ![m] = @ + 1]
    /\ at' = [at EXCEPT ![c] = m]
    /\ count' = [count EXCEPT ![c] = deliveries[m] + 1]
    /\ Goto(c, "handle")
    /\ UNCHANGED <<stream, handled, naks, faults>>

\* _decode finds an EventEnvelope, with the subject it must have.
Decodes(c) == stream[at[c]].kind = "event"

\* The handler returns.
HandlerReturns(c) ==
    /\ pc[c] = "handle"
    /\ Decodes(c) /\ stream[at[c]].seq \notin Broken \cup Invalid
    /\ handled' = handled \cup {stream[at[c]].seq}
    /\ Goto(c, "ack")
    /\ UNCHANGED <<messageVars, at, count, naks, faults>>

\* The message cannot be decoded, or the handler refuses it for good.
Refuse(c) ==
    /\ pc[c] = "handle"
    /\ ~Decodes(c) \/ stream[at[c]].seq \in Invalid
    /\ Goto(c, "deadletter")
    /\ UNCHANGED <<messageVars, at, count, handled, naks, faults>>

Release(c) ==
    /\ at' = [at EXCEPT ![c] = 0]
    /\ count' = [count EXCEPT ![c] = 0]
    /\ Goto(c, "idle")

\* The server is told what a delivery came to; of a message that another
\* delivery settled it wants to know no more.
Leave(c, now) ==
    /\ status' = [status EXCEPT ![at[c]] = IF @ = "settled" THEN @ ELSE now]
    /\ Release(c)
    /\ UNCHANGED <<stream, deliveries>>

HandlerRaises(c) ==
    /\ pc[c] = "handle"
    /\ Decodes(c) /\ stream[at[c]].seq \notin Invalid
    /\ stream[at[c]].seq \in Broken \/ faults < MaxFaults
    /\ faults' = IF stream[at[c]].seq \in Broken THEN faults ELSE faults + 1

\* Mutation: one more delivery than configured.
ExhaustedLate(c) == count[c] > MaxDeliver

\* _delivery_count against max_deliver.
Exhausted(c) == count[c] >= MaxDeliver

\* Any other exception: send the message back, ...
Nak(c) ==
    /\ HandlerRaises(c)
    /\ ~Exhausted(c)
    /\ Leave(c, "ready")
    /\ naks' = [naks EXCEPT ![at[c]] = @ + 1]
    /\ UNCHANGED handled

\* ... or give up after max_deliver deliveries.
GiveUp(c) ==
    /\ HandlerRaises(c)
    /\ Exhausted(c)
    /\ Goto(c, "deadletter")
    /\ UNCHANGED <<messageVars, at, count, handled, naks>>

Ack(c) ==
    /\ pc[c] = "ack"
    /\ Leave(c, "settled")
    /\ UNCHANGED <<handled, naks, faults>>

\* Mutation: the message is terminated before its marker is published.
PublishMarkerLate(c) ==
    /\ pc[c] = "deadletter"
    /\ status' = [status EXCEPT ![at[c]] = "settled"]
    /\ Goto(c, "term")
    /\ UNCHANGED <<stream, deliveries, at, count, handled, naks, faults>>

\* _deadletter: publish the coordinates of the event, of an undecodable
\* message none, ...
PublishMarker(c) ==
    /\ pc[c] = "deadletter"
    /\ Put([kind |-> "marker", seq |-> IF Decodes(c) THEN stream[at[c]].seq ELSE 0])
    /\ Goto(c, "term")
    /\ UNCHANGED <<at, count, handled, faults>>

\* ... then terminate the message.
Term(c) ==
    /\ pc[c] = "term"
    /\ Leave(c, "settled")
    /\ UNCHANGED <<handled, naks, faults>>

-----------------------------------------------------------------------------
(* Faults *)

\* The call in hand fails, or the consumer dies: an exception leaves process,
\* nothing reaches the server.
Fail(c) ==
    /\ pc[c] # "idle"
    /\ faults < MaxFaults
    /\ faults' = faults + 1
    /\ Release(c)
    /\ UNCHANGED <<messageVars, handled, naks>>

Held(m) == \E c \in Consumers : at[c] = m

\* The server's wait for an acknowledgement runs out.
Redeliver(m) ==
    /\ status[m] = "pending" /\ ~Held(m)
    /\ status' = [status EXCEPT ![m] = "ready"]
    /\ UNCHANGED <<stream, deliveries, pc, at, count, handled, naks, faults>>

\* ... although a consumer is still at work on the message.
RedeliverEarly(m) ==
    /\ status[m] = "pending" /\ Held(m)
    /\ faults < MaxFaults
    /\ faults' = faults + 1
    /\ status' = [status EXCEPT ![m] = "ready"]
    /\ UNCHANGED <<stream, deliveries, pc, at, count, handled, naks>>

-----------------------------------------------------------------------------

Process(c) ==
    \/ HandlerReturns(c) \/ Refuse(c) \/ Nak(c) \/ GiveUp(c)
    \/ Ack(c) \/ PublishMarker(c) \/ Term(c)

Next ==
    \/ \E e \in Events : Publish(e)
    \/ \E c \in Consumers : Process(c) \/ Fail(c)
    \/ \E m \in 1..Len(stream) :
          \/ \E c \in Consumers : Deliver(c, m)
          \/ Redeliver(m) \/ RedeliverEarly(m)

Spec == Init /\ [][Next]_vars

\* The relay publishes every event (OutboxRelay); the server delivers, and
\* redelivers, every message that is not settled; a consumer's callback runs.
Fairness ==
    /\ \A e \in Events : WF_vars(~OnStream(e) /\ Publish(e))
    /\ \A c \in Consumers : WF_vars(Process(c))
    /\ \A m \in 1..MaxMessages :
          /\ SF_vars(m <= Len(stream) /\ \E c \in Consumers : Deliver(c, m))
          /\ WF_vars(m <= Len(stream) /\ Redeliver(m))

FairSpec == Spec /\ Fairness

-----------------------------------------------------------------------------
(* Properties. *)

Marked(e) == \E i \in 1..Len(stream) : stream[i] = [kind |-> "marker", seq |-> e]

\* Every variable has its type.
TypeOK ==
    /\ stream \in Seq(Message) /\ Len(stream) <= MaxMessages
    /\ status \in Seq({"ready", "pending", "settled"})
    /\ deliveries \in Seq(Nat) /\ naks \in Seq(Nat)
    /\ Len(status) = Len(stream) /\ Len(deliveries) = Len(stream) /\ Len(naks) = Len(stream)
    /\ pc \in [Consumers -> {"idle", "handle", "ack", "deadletter", "term"}]
    /\ at \in [Consumers -> 0..Len(stream)] /\ count \in [Consumers -> Nat]
    /\ \A c \in Consumers : IF pc[c] = "idle" THEN at[c] = 0
                           ELSE at[c] # 0 /\ count[c] \in 1..deliveries[at[c]]
    /\ handled \subseteq Events
    /\ faults \in 0..MaxFaults

\* A message leaves the server only when its event was handled or its
\* coordinates are in the dead-letter lane, from which the work can be replayed,
\* however deliveries overlap and acknowledgements get lost.
SettledHasOutcome ==
    \A m \in 1..Len(stream) :
        status[m] = "settled" /\ stream[m].kind = "event" =>
            stream[m].seq \in handled \/ Marked(stream[m].seq)

\* A message is sent back fewer than max_deliver times (DT-INV-028), also when
\* several consumers hold deliveries of it at once.
BoundedRetry == \A m \in 1..Len(stream) : naks[m] < MaxDeliver

\* Dead-letter markers carry the coordinates of committed events, from which
\* failed work is replayed.
MarkersNameEvents ==
    \A m \in 1..Len(stream) : stream[m].kind = "marker" => stream[m].seq \in Events

\* Types, bounded retry, and markers from which work can be replayed.
DeliveryInv == TypeOK /\ BoundedRetry /\ MarkersNameEvents

\* Every committed event is handled or dead-lettered in the end, and the
\* server is rid of every message of it.
EventuallySettled ==
    <>[](/\ \A e \in Events : e \in handled \/ Marked(e)
         /\ \A m \in 1..Len(stream) : Matches(m) => status[m] = "settled")

=============================================================================
